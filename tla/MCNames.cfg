SPECIFICATION Spec
CONSTANTS
  NINODES = 3
  NINODE = 3
  NFILE = 2
  NOFILE = 2
  Procs = {p1, p2}
  Elems = {"a", "b"}
  Requests <- MCRequests
INVARIANTS
  RefsExact
  LinksExact
  PanicsExplained
SYMMETRY ProcSymmetry
