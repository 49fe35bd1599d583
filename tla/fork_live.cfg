SPECIFICATION FairSpec
CONSTANTS
  Conn = {c1, c2}
  Text = {}
  MaxChunk = 2
  NOFILE = 6
  FirstFd = 4
  MaxSend = 2
  Leavers = {c1, c2}
  Free = Free
CHECK_DEADLOCK FALSE
PROPERTIES ShutsDown Attended
