SPECIFICATION Spec
CONSTANTS
  Threads <- MCThreads
  ProcOf <- TwoProcesses
  Cmds <- Everything
  Ports = {80}
  Sharing = FALSE
  Padded = FALSE
  Early = TRUE
  MaxSocks = 4
  MaxData = 0
  SockBuf = 16
  ReadMax = 8
  Faults = {"urandom", "pico_socket_open"}
  Clobber = TRUE
  None = None
  t1 = t1
  t2 = t2
INVARIANT JobFound
INVARIANT NoReplyInStream
CHECK_DEADLOCK FALSE
