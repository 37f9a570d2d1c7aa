SPECIFICATION FairSpec
CONSTANTS
  PIPESIZE = 2
  Word = 4
  Bytes = {0, 1}
  Writers = {w1, w2}
  Readers = {r1}
  Inputs <- MCInputs
  MaxRead = 2
INVARIANTS
  
  FreedAtLastClose
PROPERTIES IsFifo CallsReturn
CHECK_DEADLOCK FALSE
