SPECIFICATION Spec
CONSTANTS
  Cases <- Machines
  TestSeq <- MCTestSeq
  SPACE = 1073741824
  E820MAX = 127
  MAX_CPUS = 4
  MaxMenus = 2
  ProgSize = 96
INVARIANTS
  TablesRead WindowsSound ForecastExact
