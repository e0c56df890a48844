CONSTANTS
  t1 = t1
  t2 = t2
  t3 = t3
  Threads <- MCThreads
  MaxBlocks = 3
  BLOCK_SIZE = 2
  IMPLICIT_INITIAL_INDEX_SIZE = 2
  MaxProducers = 3
  Workloads <- ColdWorkloads
  HASH_SIZE = 2
  Hash <- MCHash
  NoThread = NoThread
  Reusable = Reusable
SPECIFICATION MCSpec
CHECK_DEADLOCK FALSE
INVARIANTS DequeuesItsElement OneProducerPerThread BlocksAccounted
PROPERTIES DequeueCompletes
