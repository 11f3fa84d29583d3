CONSTANTS
  c1 = c1
  c2 = c2
  c3 = c3
  c4 = c4
  CPU <- MCCPU
  Half <- MCHalf
  NoOwner = NoOwner
  Mons = {TRUE, FALSE}
SPECIFICATION FairSpec
INVARIANTS
  IInv
PROPERTIES
  ImplementsMutex
  LockProgress
