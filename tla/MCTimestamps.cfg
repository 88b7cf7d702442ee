SPECIFICATION Spec
CONSTANTS
  Clock = 14
  DriftLimit = 2
  Duration = 2
  Starts <- StartTimes
  Steps <- StepTimes
  Reorder <- ReorderTimes
  Jitter <- JitterTimes
  Counts = {0, 1, 2}
  Skew = 2
  MaxTime = 29
INVARIANTS PicturesOnTime AudioInStep
PROPERTIES AudioIncreases
CHECK_DEADLOCK FALSE
