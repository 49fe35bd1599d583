SPECIFICATION FairSpec
CONSTANTS
  Conn = {c1, c2, c3}
  Text = {}
  MaxChunk = 1
  NOFILE = 9
  FirstFd = 7
  listenfd = 5
  pipe_fd = 3
  MaxSend = 2
  Leavers = {c1}
  Free = Free
CHECK_DEADLOCK FALSE
PROPERTIES MessagesRead ShutsDown
