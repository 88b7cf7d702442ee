SPECIFICATION FairSpec
CONSTANTS
  Readers = {r1}
  Cap = 3
  EgressChCap = 1
  LiveChCap = 2
  MaxFrames = 5
INVARIANTS InOrder NoSilentLoss NoUseAfterClose
PROPERTIES FeedSpec CloseReturns FramesMove
CHECK_DEADLOCK FALSE
