SPECIFICATION FairSpec
CONSTANTS
  None = None
  Requests = {r1, r2}
  MaxSessions = 2
INVARIANTS OneConnection FedOrDone
PROPERTIES Answered CloseReturns
CHECK_DEADLOCK FALSE
