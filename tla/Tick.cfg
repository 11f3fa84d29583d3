CONSTANTS
  RunCpus = 3
  Pieces = 3
  LeadBarrier = TRUE
  Addresses = TRUE
  ErrorsAt = {"usb", "other"}
  MaxKeys = 2
  MaxErrors = 2
SPECIFICATION FairSpec
CHECK_DEADLOCK FALSE
INVARIANTS
  LegacyAreaSpared
  ErrorsExact
  Lockstep
PROPERTIES
  TestEnds
