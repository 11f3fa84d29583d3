CONSTANTS
  c1 = c1
  c2 = c2
  c3 = c3
  c4 = c4
  CPU <- MCCPU
  NoOwner = NoOwner
  NumCpus = 4
  MaxProc = 4
SPECIFICATION FairSpec
INVARIANTS
  IInv
PROPERTIES
  ImplementsRendezvous
  CallsReturn
