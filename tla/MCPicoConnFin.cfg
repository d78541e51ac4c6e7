SPECIFICATION Spec
CONSTANTS
  MTU = 2
  RxCap = 5
  TxCap = 2
  SockCap = 2
  OutCap = 2
  Memcpy <- BothWays
  MaxSeg = 3
  MaxRx = 5
  MaxTx = 5
INVARIANT HandleReadEmpties
CHECK_DEADLOCK FALSE
