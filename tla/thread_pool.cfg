CONSTANTS
  a = a
  b = b
  c = c
  Pools <- MCPools
  Workers <- MCWorkers
  PoolOf <- MCPoolOf
  Ops <- MCOps
  Index <- MCIndex
  Priority <- MCPriority
SPECIFICATION FairSpec
CHECK_DEADLOCK FALSE
INVARIANTS SignalsMatchElements
PROPERTIES StartedIsExecuted DestructorReturns
