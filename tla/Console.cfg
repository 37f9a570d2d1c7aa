SPECIFICATION Spec
CONSTANTS
  Readers = {p1, p2}
  INPUT_BUF = 3
  COUNT = 6
  Sizes = {2}
  Killable = {p1}
INVARIANT
  RingSound
PROPERTIES
  IsTty
  InputRead
