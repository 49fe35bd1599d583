SPECIFICATION Spec
CONSTANTS
  Conn = {c1, c2, c3}
  Text = {}
  MaxChunk = 2
  NOFILE = 7
  FirstFd = 4
  MaxSend = 2
  Leavers = {c1, c2, c3}
  Free = Free
CHECK_DEADLOCK FALSE
INVARIANTS Inv EldersHear
PROPERTY NoWrongfulEnd
SYMMETRY Symmetry
