CONSTANTS
  NTasks = 2
  Jobs <- VerifiedJobs
  MaxFaults = 0
  MaxDamage = 1
SPECIFICATION Spec
INVARIANTS DamageReported
