SPECIFICATION Spec
CONSTANTS
  NPROC = 3
  BIG = 2
  TicketArgs = {0, 2, 3}
  Half = 5
  MaxTime = 5
INVARIANTS
  LagBounded
PROPERTIES
  LeastTimeRuns
CHECK_DEADLOCK FALSE
