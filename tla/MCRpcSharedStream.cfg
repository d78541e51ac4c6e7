SPECIFICATION Spec
CONSTANTS
  Threads <- MCThreads
  ProcOf <- OneProcess
  Cmds <- SocketAndName
  Ports = {}
  Sharing = TRUE
  Padded = FALSE
  Early = FALSE
  MaxSocks = 2
  MaxData = 2
  SockBuf = 16
  ReadMax = 8
  Faults = {}
  Clobber = FALSE
  None = None
  t1 = t1
  t2 = t2
INVARIANT StreamIntact
CHECK_DEADLOCK FALSE
