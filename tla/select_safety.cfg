SPECIFICATION Spec
CONSTANTS
  Conn = {c1, c2, c3}
  Text = {hi}
  MaxChunk = 2
  NOFILE = 6
  FirstFd = 4
  FD_SETSIZE = 6
  MaxSend = 2
  Leavers = {c1, c2, c3}
  Free = Free
SYMMETRY Symmetry
CHECK_DEADLOCK FALSE
INVARIANTS Inv TableExact NeverBlocks AlwaysASlot
PROPERTIES NoWrongfulDrop IsChatRoom
