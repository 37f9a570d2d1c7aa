SPECIFICATION Spec
CONSTANTS
  NPROC = 3
  NPAGES = 12
  NTABLES = 1
  PGSIZE = 2
  USERTOP = 6
  Images = {0}
  Deltas = {3, 4}
VIEW PageView
INVARIANTS
  PagesOwnedOnce
  NoVmPanic
  SizeIsMapped
\* The machine stops in a panic, and an abandoned address space is not followed.
CHECK_DEADLOCK FALSE
