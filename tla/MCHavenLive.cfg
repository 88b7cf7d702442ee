SPECIFICATION FairSpec
CONSTANTS
  None = None
  Pubs = {p1}
  Escorts = {}
  Viewers = {v1}
  EgressCap = 1
INVARIANTS ServedIsListed
PROPERTIES SessionCleared CloseReturns ViewerRemoved
CHECK_DEADLOCK FALSE
