SPECIFICATION Spec
CONSTANTS
  Cases <- Disagreeing
  TestSeq <- MCTestSeq
  SPACE = 1073741824
  E820MAX = 127
  MAX_CPUS = 4
  MaxMenus = 2
  ProgSize = 96
INVARIANTS
  MapExact TestedAll SegmentsSound ForecastExact TicksAsForeseen CpusNumbered
