CONSTANTS
  Threads = {t1, t2}
  Queues = {q1}
  NoQueue = NoQueue
  Capacities = {1, 2}
  MaxNodes = 4
  MaxValues = 3
SPECIFICATION Spec
CHECK_DEADLOCK FALSE
INVARIANTS OneOwner
PROPERTIES RefinesFifoQueue
