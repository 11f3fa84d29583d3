CONSTANTS
  NumCpus = 3
  TestSeq <- MixedSeq
  Modes <- AllModes
  LastWin = 1
  MaxMem = 9
  FadeSteps = 2
  Machines <- TwoMachines
SPECIFICATION FairSpec
INVARIANTS
  CpusAgree
  NeverTestsItself
  Coverage
PROPERTIES
  StaleCopyUntouched
  WindowOnce
  PassCompletes
