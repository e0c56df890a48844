CONSTANTS
  n1 = n1
  n2 = n2
  k1 = k1
  k2 = k2
  None = None
CHECK_DEADLOCK FALSE
CONSTANTS
  Nodes = {n1, n2}
  Calls = {k1}
  CallFrom <- OneCallFrom
  CallTo <- OneCallTo
  MaxHeartbeats = 0
  CloseDiscards = FALSE
SPECIFICATION FairSpec
INVARIANTS AlignedStop 
PROPERTIES CallReturns StopCompletes
