CONSTANTS
  Bits = 4
  MOD_SZ = 4
  Cases <- Disagreeing
  Top = 127
  SPINSZ = 32
  ROUND = 16
  BANK = 32
  c_iter = 1
  ByteBits = 2
SPECIFICATION Spec
CHECK_DEADLOCK FALSE
INVARIANTS
  RandomFindsStuck BankLineFound FaultNamed
