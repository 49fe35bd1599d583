SPECIFICATION FairSpec
CONSTANTS
  Conn = {c1, c2, c3}
  Text = {}
  MaxChunk = 2
  NOFILE = 6
  FirstFd = 4
  FD_SETSIZE = 6
  MaxSend = 2
  Leavers = {c1}
  Free = Free
CHECK_DEADLOCK FALSE
PROPERTIES ShutsDown ClientsAttended
