SPECIFICATION Spec
CONSTANTS
  Capacity = 8
  Meta = 2
  Payloads = {0, 1, 3, 5}
  EtherTypes <- OnlyIPv4
  FrameMax = 4
  Garbage = 7
  LoopScore = 2
  MaxFrames = 5
INVARIANT InBounds
