SPECIFICATION FairSpec
CONSTANTS
  None = None
  Links = {l1, l2}
  AcceptCap = 1
  MaxFails = 1
INVARIANTS OneSeeker
PROPERTIES FindsFlagshipAgain ServerCloses
CHECK_DEADLOCK FALSE
