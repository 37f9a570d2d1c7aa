SPECIFICATION Spec
CONSTANTS
  Names = {a, b}
  Values = {v1, v2}
  NINODES = 3
  NBLOCKS = 2
  NENTRIES = 3
  MaxLog = 18
  NoFile = NoFile
  Unwritten = Unwritten
  Idle = Idle
SYMMETRY Symmetry
INVARIANTS
  CheckpointSound
  NamesExact
PROPERTY
  IsAtomicFs
\* An image that is not followed is where a behaviour ends.
CHECK_DEADLOCK FALSE
