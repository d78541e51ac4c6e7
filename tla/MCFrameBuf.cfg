CHECK_DEADLOCK FALSE
SPECIFICATION FairSpec
CONSTANTS
  Capacity = 8
  Meta = 2
  Payloads = {0, 1, 3, 5}
  EtherTypes <- OnlyIPv6
  FrameMax = 4
  Garbage = 7
  LoopScore = 2
  MaxFrames = 5
INVARIANT TypeOK
INVARIANT Layout
INVARIANT InBounds
PROPERTY IsQueue
PROPERTY FrameLeaves
