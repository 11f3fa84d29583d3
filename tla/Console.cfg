SPECIFICATION Spec
CONSTANTS
  Cases <- Users
  MaskBits = 6
  DigitBits = 3
  PAGE = 2
  CpuSel <- MCCpuSel
  ActCpus = 2
  Map <- MCMap
  LastWin = 1
  ListLen = 3
  MaxEntry = 3
  MaxChanges = 4
  MaxErrors = 3
  MaxDepth = 5
  MaxPass = 1
  MaxLine = 15
  LINE_SCROLL = 14
CHECK_DEADLOCK FALSE
INVARIANTS
  ScreenRestored SummaryExact
PROPERTIES
  TextTaken LimitsHold
