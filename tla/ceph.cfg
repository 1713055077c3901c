CONSTANTS
  NTasks = 3
  NodeShift = 1
  Scripts <- AllScripts
SPECIFICATION FairSpec
INVARIANTS TypeOK PhaseSeparation NeverAborts ReadersSeeAll LeavesNothing ConnectInOrder
PROPERTIES FileLifecycle Terminates
