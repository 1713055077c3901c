CONSTANTS
  NTasks = 2
  Jobs <- SoundJobs
  Memory <- Contents
  MaxClock = 2
SPECIFICATION FairSpec
INVARIANTS SpanCovered SummaryRight
PROPERTIES DurationsStand Terminates
CHECK_DEADLOCK FALSE
