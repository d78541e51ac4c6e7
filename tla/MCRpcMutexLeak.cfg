SPECIFICATION FairSpec
CONSTANTS
  Threads <- OneThread
  ProcOf <- OneProcess
  Cmds <- OnlySocket
  Ports = {80}
  Sharing = TRUE
  Padded = FALSE
  Early = FALSE
  MaxSocks = 4
  MaxData = 0
  SockBuf = 16
  ReadMax = 8
  Faults = {"urandom"}
  Clobber = FALSE
  None = None
  t1 = t1
  t2 = t2
PROPERTY CallReturns
CHECK_DEADLOCK FALSE
