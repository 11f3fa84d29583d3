CONSTANTS
  Sizes <- CodeSizes
  Cpus <- AllCpus
  Aligns <- CodeAligns
  Walks = {"up", "down"}
  SPINSZ <- SpinWords
SPECIFICATION Spec
CHECK_DEADLOCK FALSE
INVARIANTS
  TicksAgree
  EachWordOnce
