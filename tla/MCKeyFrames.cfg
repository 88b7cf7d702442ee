SPECIFICATION Spec
CONSTANTS
  Subscribers = {s1}
  Cap = 6
  MinKeyFrames = 2
  ReadyAfter = 2
  Offset = 1
  Durations = {1, 2}
  Gop = 2
  Delay = 1
  MaxFrames = 9
INVARIANTS IndexSound ClosestFound ServedAsFound
CHECK_DEADLOCK FALSE
