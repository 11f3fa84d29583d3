CONSTANTS
  NumCpus = 4
  Selected <- MCSelected
  Dead = {}
  MaxMoves = 2
SPECIFICATION FairSpec
INVARIANTS
  OrdinalsKept
  NobodyLeftBehind
  BootStackAlone
PROPERTIES
  EveryoneStarts
