SPECIFICATION FairSpec
CONSTANTS
  Cap = 2
  MaxLines = 3
  MaxCasts = 3
CHECK_DEADLOCK FALSE
INVARIANTS Inv SentInOrder
PROPERTIES Drains LinesRead Leaves ExitEnds
