CONSTANTS
  NTasks = 2
  Jobs <- DirectoryJobs
SPECIFICATION Spec
INVARIANTS NeverFails
