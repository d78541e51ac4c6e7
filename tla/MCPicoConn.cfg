SPECIFICATION FairSpec
CONSTANTS
  MTU = 2
  RxCap = 5
  TxCap = 3
  SockCap = 2
  OutCap = 2
  Memcpy <- BothWays
  MaxSeg = 3
  MaxRx = 5
  MaxTx = 5
INVARIANTS TypeOK RxIntact RxNotified StopsExplained
PROPERTIES TxIsPipe RxArrives TxArrives
CHECK_DEADLOCK FALSE
