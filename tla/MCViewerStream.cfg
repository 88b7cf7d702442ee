SPECIFICATION FairSpec
CONSTANTS
  Step <- StepTimes
  Cap = 5
  EgressChCap = 2
  LiveChCap = 1
  OutChCap = 2
  MinKeyFrames = 1
  ReadyAfter = 10
  Offset = 1
  Gop = 2
  Skew = 0
  Delay = 1
  MaxAge = 3
  MaxTime = 18
INVARIANTS StartsTogether HistoryWhole
PROPERTIES FeedSpec CloseReturns PlayerStarts
CHECK_DEADLOCK FALSE
