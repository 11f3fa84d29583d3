CONSTANTS
  Width = 8
  Span = 5
  MAXPATNS = 3
  Orders = {"any"}
SPECIFICATION FairSpec
INVARIANTS
  TableSound
PROPERTIES
  RelocationEnds
  NothingForgotten
