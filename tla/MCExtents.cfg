SPECIFICATION Spec
CONSTANTS
  NDIRECT = 1
  NPAIRS = 2
  NINDIRECT = 2
  LenSize = 4
  NBlocks = 3
  MaxOffset = 3
  SeekArgs = {2}
  Files = {f1, f2}
  Types = {"T_FILE", "T_EXTENT"}
SYMMETRY FileSymmetry
INVARIANTS
  BlocksDisjoint
  NoLeak
  ReadsBack
\* A panic stops the machine.
CHECK_DEADLOCK FALSE
