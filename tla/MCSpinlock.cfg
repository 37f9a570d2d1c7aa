SPECIFICATION FairSpec
CONSTANTS
  c1 = c1
  c2 = c2
  CPUs <- MCCPUs
  Locks <- MCLocks
  NoCpu = NoCpu
  NoLock = NoLock
INVARIANTS MutualExclusion HeldMeansInterruptsOff NoPanic NcliMatched
PROPERTY SpinEnds
