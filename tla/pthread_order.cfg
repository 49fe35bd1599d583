SPECIFICATION CalmSpec
CONSTANTS
  Conn = {c1, c2, c3}
  Text = {}
  MaxChunk = 1
  NOFILE = 7
  FirstFd = 4
  MaxSend = 2
  Leavers = {}
  MAX_CLIENT = 3
  Addr = {a1, a2, a3}
  NULL = NULL
  Free = Free
SYMMETRY Symmetry
CHECK_DEADLOCK FALSE
INVARIANTS InOrder EveryoneHears ListExact
