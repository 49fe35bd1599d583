SPECIFICATION Spec
CONSTANTS
  Conn = {c1, c2, c3}
  Text = {hi}
  MaxChunk = 2
  NOFILE = 9
  FirstFd = 7
  listenfd = 5
  pipe_fd = 3
  MaxSend = 2
  Leavers = {c1, c2, c3}
  Free = Free
SYMMETRY Symmetry
CHECK_DEADLOCK FALSE
INVARIANTS Inv ListExact EventsHold
PROPERTIES LostOnly NoWrongfulDrop IsChatRoom
