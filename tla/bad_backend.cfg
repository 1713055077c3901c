CONSTANTS
  NTasks = 2
  Jobs <- DirectoryJobs
  MaxFaults = 1
  MaxDamage = 0
SPECIFICATION Spec
INVARIANTS DirectoriesMade
