SPECIFICATION FairSpec
CONSTANTS
  Threads <- MCThreads
  ProcOf <- OneProcess
  Cmds <- WithReturnValue
  Ports = {80}
  Sharing = FALSE
  Padded = FALSE
  Early = FALSE
  MaxSocks = 3
  MaxData = 3
  SockBuf = 3
  ReadMax = 2
  Faults = {}
  Clobber = FALSE
  None = None
  t1 = t1
  t2 = t2
INVARIANT StreamIntact
PROPERTY CallReturns
PROPERTY SocketReclaimed
CHECK_DEADLOCK FALSE
