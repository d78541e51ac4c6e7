SPECIFICATION FairSpec
CONSTANTS
  SndCap = 2
  TxCap = 4
  SockCap = 3
  CheckMax = 1
  MaxTx = 8
INVARIANTS TypeOK UnreadHasCause
PROPERTIES TxIsPipe TxArrives
CHECK_DEADLOCK FALSE
