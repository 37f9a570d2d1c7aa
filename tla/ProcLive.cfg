SPECIFICATION FairSpec
CONSTANTS
  NPROC = 3
  CPUs = {0}
  MaxPid = 4
  MaxSleep = 1
  KillArgs = {2}
  CanClone = FALSE
PROPERTIES
  ZombiesReaped
  RunnableRuns
  SleepEnds
