CONSTANTS
  NTasks = 2
  Jobs <- DataJobs
  MaxFaults = 1
  MaxDamage = 2
SPECIFICATION Spec
INVARIANTS FilesComplete NoFalseAlarm DamageCounted CleanWithoutFaults
