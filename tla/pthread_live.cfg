SPECIFICATION FairSpec
CONSTANTS
  Conn = {c1, c2}
  Text = {}
  MaxChunk = 1
  NOFILE = 6
  FirstFd = 4
  MaxSend = 1
  Leavers = {c1}
  MAX_CLIENT = 2
  Addr = {a1, a2}
  NULL = NULL
  Free = Free
CHECK_DEADLOCK FALSE
PROPERTIES ShutsDown Attended Served
