SPECIFICATION SignalSpec
CONSTANTS
  Conn = {c1, c2, c3}
  Text = {}
  MaxChunk = 1
  NOFILE = 6
  FirstFd = 4
  MaxSend = 2
  Leavers = {c1, c2, c3}
  MAX_CLIENT = 2
  Addr = {a1, a2}
  NULL = NULL
  Free = Free
SYMMETRY Symmetry
CHECK_DEADLOCK FALSE
INVARIANTS Inv ListInv OwnClient
PROPERTIES CrashCause NoWrongfulClose
