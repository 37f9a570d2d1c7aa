SPECIFICATION Spec
CONSTANTS
  NPROC = 3
  CPUs = {0, 1}
  MaxPid = 5
  MaxSleep = 1
  KillArgs = {2, 3}
  CanClone = TRUE
INVARIANTS
  OneCpuPerStack
  FamiliesIntact
  SleepersNotDue
  PgdirsExact
