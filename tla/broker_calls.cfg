CONSTANTS
  n1 = n1
  n2 = n2
  k1 = k1
  k2 = k2
  None = None
CHECK_DEADLOCK FALSE
CONSTANTS
  Nodes = {n1, n2}
  Calls = {k1, k2}
  CallFrom <- TwoNodeFrom
  CallTo <- TwoNodeTo
  MaxHeartbeats = 1
  CloseDiscards = TRUE
SPECIFICATION Spec
INVARIANTS TypeOK ResponseFindsOperation OwnReply
