CONSTANTS
  NTasks = 2
  Jobs <- RepeatedJobs
SPECIFICATION Spec
INVARIANTS SameWork
