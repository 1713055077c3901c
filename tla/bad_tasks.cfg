CONSTANTS
  NTasks = 2
  Jobs <- GrowingJobs
  Memory <- Contents
  MaxClock = 1
SPECIFICATION Spec
INVARIANT NeverAborts
CHECK_DEADLOCK FALSE
