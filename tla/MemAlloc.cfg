SPECIFICATION Spec
CONSTANTS
  Region = 17
  Sizes = {1, 16, 24}
CHECK_DEADLOCK FALSE
INVARIANTS
  Partition
  NoOverlap
  Coalesced
