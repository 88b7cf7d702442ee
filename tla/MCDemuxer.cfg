SPECIFICATION FairSpec
CONSTANTS
  PktCap = 1
  FrameCap = 2
  MaxSplit = 2
  MaxPackets = 4
INVARIANTS FramesInOrder SleepsOnEmptyPipe
PROPERTIES CloseReturns ConsumerEnds
CHECK_DEADLOCK FALSE
