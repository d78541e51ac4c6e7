SPECIFICATION Spec
CONSTANTS
  Threads <- MCThreads
  ProcOf <- TwoProcesses
  Cmds <- Everything
  Ports = {80}
  Sharing = FALSE
  Padded = FALSE
  Early = FALSE
  MaxSocks = 4
  MaxData = 0
  SockBuf = 16
  ReadMax = 8
  Faults = {}
  Clobber = FALSE
  None = None
  t1 = t1
  t2 = t2
INVARIANT RightCommand
CHECK_DEADLOCK FALSE
