SPECIFICATION FairSpec
CONSTANTS
  NBUF = 2
  Procs = {p1, p2}
  Sectors = {1, 2, 3}
  Values = {0, 1}
  Nobody = Nobody
  DiskErrors = FALSE
INVARIANTS OneBufferPerSector DiskAtWork
PROPERTIES IsBlockStore RequestsFinish
