CONSTANTS
  NTasks = 3
  NodeShift = 1
  Scripts <- AllScripts
SPECIFICATION FairSpec
INVARIANTS TypeOK PhaseSeparation NeverAborts ReadersSeeAll StatCoversAll ForeignItems LeavesNothing
PROPERTIES StableWhileRead FileLifecycle DirLifecycle DirectoriesStay Terminates
