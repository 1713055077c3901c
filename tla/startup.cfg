CONSTANTS
  NTasks = 2
  NodeShift = 1
  Requests <- AllRequests
SPECIFICATION Spec
INVARIANTS TypeOK LookUpMatchesWalk ItemsIsWorkDone NumDirsIsTree RandIsPermutation LoopsCoverItems
