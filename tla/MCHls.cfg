SPECIFICATION ConnFairSpec
CONSTANTS
  ChCap = 1
  MaxFrames = 3
INVARIANTS NothingSkipped
PROPERTIES WriteEnds CloseEnds
CHECK_DEADLOCK FALSE
