SPECIFICATION Spec
CONSTANTS
  Threads <- MCThreads
  ProcOf <- OneProcess
  Cmds <- SocketAndName
  Ports = {80}
  Sharing = TRUE
  Padded = TRUE
  Early = TRUE
  MaxSocks = 4
  MaxData = 1
  SockBuf = 2
  ReadMax = 1
  Faults = {}
  Clobber = FALSE
  None = None
  t1 = t1
  t2 = t2
SYMMETRY Symmetry
INVARIANT TypeOK
INVARIANT OneOpenJob
INVARIANT RightCommand
CHECK_DEADLOCK FALSE
