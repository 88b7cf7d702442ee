SPECIFICATION FairSpec
CONSTANTS
  None = None
  Pubs = {p1}
  Escorts = {}
  Viewers = {}
  EgressCap = 1
PROPERTIES PublisherRemoved
CHECK_DEADLOCK FALSE
