-------------------------- MODULE MCConcurrentQueue --------------------------
(* Instances of ConcurrentQueue for TLC.                                    *)
EXTENDS ConcurrentQueue

CONSTANTS t1, t2, t3

MCThreads == {t1, t2, t3}

\* All threads hash to the same slot.
MCHash == [t \in MCThreads |-> 0]

Work(pool, hashes, a, b, c) ==
  [pool |-> pool, hashes |-> hashes,
   calls |-> [t \in MCThreads |-> CASE t = t1 -> a [] t = t2 -> b [] t = t3 -> c]]
Enq(n) == [i \in 1 .. n |-> "enqueue"]
Deq(n) == [i \in 1 .. n |-> "dequeue"]

ColdWorkloads == {
  \* a producer whose block index grows until the memory is exhausted
  Work(0, 3, Enq(7), Deq(2), <<>>),
  \* a thread that exits, its producer and its slot taken over by another
  Work(0, 3, <<"enqueue", "exit", "enqueue">>, <<"enqueue", "dequeue">>, <<>>),
  \* no memory for the second hash table
  Work(0, 2, Enq(1), Enq(2), Deq(1)) }

\* t1 and t2 have each enqueued a block of elements, one after the other, t3 has
\* dequeued them, and both blocks are on the free list.
Warm ==
  /\ poolIndex = 2
  /\ heap = [b \in Blocks |-> 0]
  /\ freeListHead = 2
  /\ freeListRefs = [b \in Blocks |-> IF b <= 2 THEN 1 ELSE 0]
  /\ freeListNext = [b \in Blocks |-> IF b = 2 THEN 1 ELSE 0]
  /\ fl = [t \in Threads |-> NoBlock]
  /\ elements = [b \in {0} \cup Blocks |-> [k \in 0 .. BLOCK_SIZE - 1 |-> <<>>]]
  /\ dequeuedIn = [b \in {0} \cup Blocks |-> IF b \in {1, 2} THEN BLOCK_SIZE ELSE 0]
  /\ tailIndex = [p \in Producers |-> IF p <= 2 THEN BLOCK_SIZE ELSE 0]
  /\ headIndex = tailIndex
  /\ optimistic = tailIndex
  /\ overcommit = [p \in Producers |-> 0]
  /\ tailBlock = [p \in Producers |-> IF p <= 2 THEN p ELSE 0]
  /\ entries = [p \in Producers |->
       IF p <= 2 THEN [NewEntries(IMPLICIT_INITIAL_INDEX_SIZE) EXCEPT ![1].key = 0]
       ELSE NewEntries(IMPLICIT_INITIAL_INDEX_SIZE)]
  /\ blockIndex = [p \in Producers |->
       << [tail |-> IF p <= 2 THEN 0 ELSE IMPLICIT_INITIAL_INDEX_SIZE - 1,
           slots |-> [i \in 1 .. IMPLICIT_INITIAL_INDEX_SIZE |-> i]] >>]
  /\ ql = [t \in Threads |-> NoElement]
  /\ pc = [t \in Threads |-> "idle"]
  /\ permits = 0
  /\ producers = 2
  /\ inactive = {}
  /\ hash = << NewHash(2), [NewHash(4) EXCEPT !.key[0] = t1, !.value[0] = 1],
               [NewHash(8) EXCEPT !.key[0] = t2, !.value[0] = 2] >>
  /\ hashCount = 2
  /\ resizing = FALSE
  /\ listeners = [t \in Threads |-> IF t = t1 THEN {1} ELSE IF t = t2 THEN {2} ELSE {}]
  /\ exiting = {}
  /\ destroyed = FALSE
  /\ hl = [t \in Threads |-> NoTable]

WarmWorkloads == {
  \* two producers and a consumer meet in the free list
  Work(2, 3, Enq(3), Enq(1), Deq(3)),
  \* two producers race for the last block of the initial pool
  Work(3, 3, Enq(1), Enq(1), <<>>),
  \* consumers race for one element
  Work(2, 3, <<"enqueue", "dequeue">>, <<"enqueue", "dequeue", "enqueue", "dequeue">>, <<>>),
  Work(2, 3, <<"enqueue", "dequeue">>, <<"enqueue", "dequeue", "enqueue">>, Deq(1)) }

MCInit ==
  \/ Init
  \/ Warm /\ \E w \in WarmWorkloads :
       poolSize = w.pool /\ maxHashes = w.hashes /\ todo = w.calls

MCSpec == MCInit /\ [][Next]_vars /\ \A t \in Threads : WF_vars(Step(t))
=============================================================================
