CONSTANTS
  RunCpus = 2
  Pieces = 2
  LeadBarrier = TRUE
  Addresses = FALSE
  ErrorsAt = {}
  MaxKeys = 1
  MaxErrors = 0
SPECIFICATION Spec
CHECK_DEADLOCK FALSE
INVARIANTS
  LeaveTogether
