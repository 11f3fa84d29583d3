CONSTANTS
  Machines <- Both
  M = 64
  Size = 15
  Page = 4
  First = 12
  LL = 13
  Data = 14
  Garbage = {0, 63}
  Cpus = {m}
  SCREEN_X = 2
  SCREEN_Y = 5
  LINE_HEADER = 1
  LINE_SCROLL = 2
  POP_Y = 1
  POP_X = 0
  POP_H = 2
  POP_W = 2
  SpinY = 0
  SpinX = 1
  Glyphs = {" ", "a"}
  MaxText = 2
  Cleared = TRUE
  Values = {0, 1, 2, 3, 4, 5, 6, 7, 9, 10, 11, 15, 16, 17, 18, 19, 20, 99, 100, 101, 127, 128, 129, 130, 142, 143, 144, 255, 256, 999, 1000, 1007, 1008, 4095, 4096, 9998, 65535, 65536, 100000, 1048577, 12345678, 999999999, 1000000000}
  Unit = 8
  AddrDigits = 1
  NIB = 4
  TimeBits = 8
  Letters = {"X", "e", "o"}
  MaxString = 5
SPECIFICATION Whole
INVARIANTS
  ImageAsLinked
  TerminalFollows
  RedrawShowsAll
  NumbersShown
  TextsExact
PROPERTIES
  TestsAgain
