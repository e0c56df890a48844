CONSTANTS
  Callers = {c1, c2}
  Waiters = {o1, o2}
  Amounts = {1, 2}
  InitialCount = 2
  MaxDebt = 2
  MaxCount = 3
SPECIFICATION FairSpec
CHECK_DEADLOCK FALSE
INVARIANTS NoLostWaiter CompletedOnce
PROPERTIES DrainedWaiterCompletes
