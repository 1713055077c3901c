CONSTANTS
  NTasks = 3
  Jobs <- TimedJobs
SPECIFICATION FairSpec
INVARIANTS TypeOK SameWorkWhenFlat ReportedIsDone FirstIterationFindsFiles CleanedUp
PROPERTIES Terminates
