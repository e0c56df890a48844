--------------------------- MODULE ConcurrentQueue ---------------------------
(***************************************************************************)
(* moodycamel::ConcurrentQueue as UnboundedBlockingQueue uses it: enqueue   *)
(* by any thread, each of which owns an implicit producer found in a chain  *)
(* of hash tables, and wait_dequeue by any thread, which spins on           *)
(* try_dequeue for the element its permit stands for.  Threads come and go: *)
(* one that exits leaves its producer to the next.  Producer p is the p-th  *)
(* created; the list of producers runs from the newest to 1.  The n-th hash *)
(* table's prev is the one before it.                                       *)
(***************************************************************************)
EXTENDS ImplicitProducer

CONSTANTS
  Workloads,  \* instances: the memory and the calls each thread makes
  HASH_SIZE,  \* INITIAL_IMPLICIT_PRODUCER_HASH_SIZE, a power of two
  Hash,       \* hash_thread_id
  NoThread,   \* invalid_thread_id, the key of an empty slot
  Reusable    \* invalid_thread_id2, the key of a slot a thread has left

ASSUME HashAssumption ==
  /\ HASH_SIZE \in Nat \ {0}
  /\ Hash \in [Threads -> Nat]
  /\ NoThread # Reusable /\ {NoThread, Reusable} \cap Threads = {}

\* The initial pool fits into memory.
ASSUME WorkloadAssumption == \A w \in Workloads : w.pool \in 0 .. MaxBlocks

\* main, count, probe, p: mainHash, newCount, index and producer of
\* get_or_add_implicit_producer; ptr, best, size (bestSize), seen
\* (nonEmptyCount), pass (over the list): of try_dequeue.
NoTable == [main |-> 0, count |-> 0, probe |-> 0, p |-> 0, ptr |-> 0, best |-> 0,
            size |-> 0, seen |-> 0, pass |-> 1]

NewHash(n) == [key |-> [i \in 0 .. n - 1 |-> NoThread], value |-> [i \in 0 .. n - 1 |-> 0],
               capacity |-> n]

\* populate_initial_block_list: no memory for the array leaves an empty pool.
InitialPool(w) == poolSize = w.pool
\* populate_initial_implicit_producer_hash
InitialHash == hash = <<NewHash(HASH_SIZE)>> /\ hashCount = 0

Init ==
  /\ PoolInit
  /\ ProducerInit
  /\ \E w \in Workloads :
       InitialPool(w) /\ maxHashes = w.hashes /\ todo = w.calls
  /\ pc = [t \in Threads |-> "idle"]
  /\ permits = 0
  /\ producers = 0
  /\ inactive = {}
  /\ InitialHash
  /\ resizing = FALSE
  /\ listeners = [t \in Threads |-> {}]
  /\ exiting = {}
  /\ destroyed = FALSE
  /\ hl = [t \in Threads |-> NoTable]

Store(t, l) == hl' = [hl EXCEPT ![t] = l]
Frame == UNCHANGED <<poolVars, fl, producerVars, fixed, destroyed>>

\* The next call of a thread, and its end.
Calls(t, call) ==
  /\ ~ destroyed
  /\ pc[t] = "idle"
  /\ todo[t] # <<>>
  /\ Head(todo[t]) = call
Returns(t) ==
  /\ Go(t, "idle")
  /\ todo' = [todo EXCEPT ![t] = Tail(@)]
  /\ Store(t, NoTable)
  /\ Remember(t, NoElement)

-----------------------------------------------------------------------------
(* get_or_add_implicit_producer                                             *)

\* The slot of t in table h that a search from its hashed position reaches
\* before an empty slot.  Only t writes its own key, and no slot becomes empty
\* again, so a whole search is one step.
Position(h, t, k) == (Hash[t] + k) % hash[h].capacity
Found(h, t) ==
  {k \in 0 .. hash[h].capacity - 1 :
     /\ hash[h].key[Position(h, t, k)] = t
     /\ \A j \in 0 .. k - 1 : hash[h].key[Position(h, t, j)] # NoThread}

\* Only the main table is searched.
Find_MainOnly(t) ==
  LET main == Len(hash) IN
  /\ Calls(t, "enqueue")
  /\ \/ \E k \in Found(main, t) :
          /\ Go(t, "enqueue")
          /\ Remember(t, [NoElement EXCEPT !.p = hash[main].value[Position(main, t, k)]])
          /\ UNCHANGED hl
     \/ /\ Found(main, t) = {}
        /\ Go(t, "newcount") /\ Store(t, [NoTable EXCEPT !.main = main]) /\ UNCHANGED ql
  /\ UNCHANGED <<todo, permits, tableVars>> /\ Frame

\* Search the main table and then the earlier ones.
Find(t) ==
  LET main == Len(hash)
      in == {h \in 1 .. main : Found(h, t) # {}}
  IN
  /\ Calls(t, "enqueue")
  /\ \/ \E h \in in, k \in 0 .. hash[main].capacity :
          /\ \A g \in in : g <= h
          /\ k \in Found(h, t)
          /\ LET p == hash[h].value[Position(h, t, k)] IN
             IF h = main
             THEN Go(t, "enqueue") /\ Remember(t, [NoElement EXCEPT !.p = p]) /\ UNCHANGED hl
             ELSE Go(t, "relink") /\ Store(t, [NoTable EXCEPT !.main = main, !.p = p])
                  /\ UNCHANGED ql
     \/ in = {} /\ Go(t, "newcount") /\ Store(t, [NoTable EXCEPT !.main = main]) /\ UNCHANGED ql
  /\ UNCHANGED <<todo, permits, tableVars>> /\ Frame

\* Put the key and the producer of t into the slot it probes.
Occupy(t) ==
  LET h == hl[t].main
      i == Position(h, t, hl[t].probe)
  IN  /\ hash' = [hash EXCEPT ![h].key[i] = t, ![h].value[i] = hl[t].p]
      /\ Remember(t, [NoElement EXCEPT !.p = hl[t].p])
      /\ Store(t, NoTable)
      /\ Go(t, "enqueue")
Probed(t) == hash[hl[t].main].key[Position(hl[t].main, t, hl[t].probe)]
\* The next slot, and after the last one the first again.
ProbeNext(t) ==
  /\ Store(t, [hl[t] EXCEPT !.probe = IF @ + 1 = hash[hl[t].main].capacity THEN 0 ELSE @ + 1])
  /\ UNCHANGED <<hash, ql, pc>>

\* Found in an earlier table: add it to the main one.
Relink(t) ==
  /\ pc[t] = "relink"
  /\ \/ Probed(t) \in {NoThread, Reusable} /\ Occupy(t)
     \/ Probed(t) \notin {NoThread, Reusable} /\ ProbeNext(t)
  /\ UNCHANGED <<todo, permits, producers, inactive, hashCount, resizing, listeners, exiting>>
  /\ Frame

NewCount(t) ==
  /\ pc[t] = "newcount"
  /\ hashCount' = hashCount + 1
  /\ Store(t, [hl[t] EXCEPT !.count = hashCount + 1])
  /\ Go(t, "resize")
  /\ UNCHANGED <<todo, permits, producers, inactive, hash, resizing, listeners, exiting, ql>>
  /\ Frame

\* Half full: whoever sets the flag makes the next table.
Resize(t) ==
  LET full == hl[t].count >= hash[hl[t].main].capacity \div 2 IN
  /\ pc[t] = "resize"
  /\ \/ full /\ ~ resizing /\ resizing' = TRUE /\ Go(t, "grow")
     \/ ~ (full /\ ~ resizing) /\ Go(t, "room") /\ UNCHANGED resizing
  /\ UNCHANGED <<todo, permits, producers, inactive, hash, hashCount, listeners, exiting,
                 ql, hl>>
  /\ Frame

\* The capacity is doubled until newCount is less than half of it.
NewCapacity(c, n) ==
  {d \in 1 .. c * 2^(n + 1) :
     /\ \E k \in 1 .. n + 1 : d = c * 2^k
     /\ n < d \div 2
     /\ d = 2 * c \/ n >= d \div 4}

\* Publish the new table and clear the flag; without memory the call fails.
Grow(t) ==
  LET main == Len(hash)
      full == hl[t].count >= hash[main].capacity \div 2
  IN
  /\ pc[t] = "grow"
  /\ resizing' = FALSE
  /\ \/ /\ full /\ main < maxHashes
        /\ \E n \in NewCapacity(hash[main].capacity, hl[t].count) : hash' = Append(hash, NewHash(n))
        /\ Store(t, [hl[t] EXCEPT !.main = main + 1])
        /\ Go(t, "room")
        /\ UNCHANGED <<hashCount, todo, ql>>
     \/ /\ ~ full
        /\ Store(t, [hl[t] EXCEPT !.main = main])
        /\ Go(t, "room")
        /\ UNCHANGED <<hash, hashCount, todo, ql>>
     \/ /\ full /\ main = maxHashes
        /\ hashCount' = hashCount - 1
        /\ Returns(t)
        /\ UNCHANGED hash
  /\ UNCHANGED <<permits, producers, inactive, listeners, exiting>>
  /\ Frame

\* Somebody else is making a larger table: look whether it is there.
AwaitTable(t) ==
  Store(t, [hl[t] EXCEPT !.main = Len(hash)]) /\ Go(t, "resize")

\* A table less than three quarters full will do; else wait for the next one.
Room(t) ==
  LET c == hash[hl[t].main].capacity IN
  /\ pc[t] = "room"
  /\ \/ /\ hl[t].count < c \div 2 + c \div 4
        /\ Store(t, [hl[t] EXCEPT !.ptr = producers])
        /\ Go(t, "recycle")
     \/ hl[t].count >= c \div 2 + c \div 4 /\ AwaitTable(t)
  /\ UNCHANGED <<todo, permits, tableVars, ql>> /\ Frame

\* recycle_or_create_producer: take the first inactive producer of the list.
Recycle(t) ==
  LET p == hl[t].ptr IN
  /\ pc[t] = "recycle"
  /\ p # 0
  /\ \/ /\ p \in inactive
        /\ inactive' = inactive \ {p}
        /\ Store(t, [hl[t] EXCEPT !.p = p, !.ptr = 0])
        /\ Go(t, "subscribe")
     \/ /\ p \notin inactive
        /\ Store(t, [hl[t] EXCEPT !.ptr = p - 1])
        /\ UNCHANGED <<inactive, pc>>
  /\ UNCHANGED <<todo, permits, producers, hash, hashCount, resizing, listeners, exiting, ql>>
  /\ Frame

\* add_producer: nothing ever leaves the list, so the exchange loop is one step.
AddProducer(t) ==
  /\ pc[t] = "recycle"
  /\ hl[t].ptr = 0
  /\ producers < MaxProducers
  /\ producers' = producers + 1
  /\ Store(t, [hl[t] EXCEPT !.p = producers + 1])
  /\ Go(t, "subscribe")
  /\ UNCHANGED <<todo, permits, inactive, hash, hashCount, resizing, listeners, exiting, ql>>
  /\ Frame

\* ThreadExitNotifier::subscribe takes the mutex that an exiting thread holds.
NotifierSubscribe(t, p) ==
  exiting = {} /\ listeners' = [listeners EXCEPT ![t] = @ \cup {p}]

Subscribe(t) ==
  /\ pc[t] = "subscribe"
  /\ NotifierSubscribe(t, hl[t].p)
  /\ Go(t, "place")
  /\ UNCHANGED <<todo, permits, producers, inactive, hash, hashCount, resizing, exiting,
                 ql, hl>>
  /\ Frame

\* A slot that was left is counted already.
Place(t) ==
  /\ pc[t] = "place"
  /\ \/ Probed(t) = Reusable /\ hashCount' = hashCount - 1 /\ Occupy(t)
     \/ Probed(t) = NoThread /\ UNCHANGED hashCount /\ Occupy(t)
     \/ Probed(t) \in Threads /\ UNCHANGED hashCount /\ ProbeNext(t)
  /\ UNCHANGED <<todo, permits, producers, inactive, resizing, listeners, exiting>>
  /\ Frame

-----------------------------------------------------------------------------
(* BlockingConcurrentQueue::enqueue, wait_dequeue, and try_dequeue          *)

\* The signal follows the enqueue; an enqueue that fails drops its element.
EnqueueReturns(t) ==
  /\ pc[t] \in {"enqueued", "failed"}
  /\ permits' = IF pc[t] = "enqueued" THEN permits + 1 ELSE permits
  /\ Returns(t)
  /\ UNCHANGED tableVars /\ Frame

\* try_dequeue from its start.
ScanFrom(t) ==
  /\ Store(t, [NoTable EXCEPT !.ptr = producers])
  /\ Go(t, "scan")
  /\ Remember(t, NoElement)

WaitDequeue(t) ==
  /\ Calls(t, "dequeue")
  /\ permits > 0
  /\ permits' = permits - 1
  /\ ScanFrom(t)
  /\ UNCHANGED <<todo, tableVars>> /\ Frame

SizeApprox(p) == IF headIndex[p] < tailIndex[p] THEN tailIndex[p] - headIndex[p] ELSE 0

\* size_approx of the next producer: the longest of the first three that are
\* not empty is the best.
Scan(t) ==
  LET p == hl[t].ptr
      size == SizeApprox(p)
  IN
  /\ pc[t] = "scan"
  /\ p # 0 /\ hl[t].seen < 3
  /\ Store(t, [hl[t] EXCEPT
       !.ptr = p - 1,
       !.seen = IF size > 0 THEN @ + 1 ELSE @,
       !.best = IF size > hl[t].size THEN p ELSE @,
       !.size = IF size > @ THEN size ELSE @])
  /\ UNCHANGED <<pc, ql, todo, permits, tableVars>> /\ Frame

\* Nothing found is false, and wait_dequeue calls again.
Scanned(t) ==
  /\ pc[t] = "scan"
  /\ hl[t].ptr = 0 \/ hl[t].seen = 3
  /\ \/ hl[t].seen = 0 /\ ScanFrom(t)
     \/ /\ hl[t].seen > 0
        /\ Store(t, [NoTable EXCEPT !.best = hl[t].best])
        /\ Remember(t, [NoElement EXCEPT !.p = hl[t].best])
        /\ Go(t, "dequeue")
  /\ UNCHANGED <<todo, permits, tableVars>> /\ Frame

\* The best producer failed us: try all the others, then give up and call again.
Missed(t) ==
  LET from == IF hl[t].pass = 1 THEN producers ELSE hl[t].ptr - 1
      others == {q \in 1 .. from : q # hl[t].best}
  IN
  /\ pc[t] = "missed"
  /\ \/ others = {} /\ ScanFrom(t)
     \/ \E q \in others :
          /\ \A r \in others : r <= q
          /\ Store(t, [hl[t] EXCEPT !.ptr = q, !.pass = 2])
          /\ Remember(t, [NoElement EXCEPT !.p = q])
          /\ Go(t, "dequeue")
  /\ UNCHANGED <<todo, permits, tableVars>> /\ Frame

DequeueReturns(t) ==
  /\ pc[t] = "dequeued"
  /\ Returns(t)
  /\ UNCHANGED <<permits, tableVars>> /\ Frame

-----------------------------------------------------------------------------
(* ThreadExitNotifier, implicit_producer_thread_exited and the destructor   *)

Exit(t) ==
  /\ Calls(t, "exit")
  /\ exiting = {}
  /\ exiting' = {t}
  /\ Store(t, [NoTable EXCEPT !.main = Len(hash)])
  /\ Go(t, "leave")
  /\ UNCHANGED <<todo, permits, producers, inactive, hash, hashCount, resizing, listeners, ql>>
  /\ Frame

\* Leave every table, the newest first.
Leave(t) ==
  LET h == hl[t].main IN
  /\ pc[t] = "leave"
  /\ h # 0
  /\ hash' = [hash EXCEPT ![h].key =
       [i \in DOMAIN @ |-> IF \E k \in Found(h, t) : i = Position(h, t, k)
                           THEN Reusable ELSE @[i]]]
  /\ Store(t, [hl[t] EXCEPT !.main = h - 1])
  /\ UNCHANGED <<pc, ql, todo, permits, producers, inactive, hashCount, resizing,
                 listeners, exiting>>
  /\ Frame

\* The producer may now be recycled.
ExitReturns(t) ==
  /\ pc[t] = "leave"
  /\ hl[t].main = 0
  /\ inactive' = inactive \cup listeners[t]
  /\ listeners' = [listeners EXCEPT ![t] = {}]
  /\ exiting' = {}
  /\ Returns(t)
  /\ UNCHANGED <<permits, producers, hash, hashCount, resizing>>
  /\ Frame

Quiet == \A t \in Threads : pc[t] = "idle"
\* ThreadExitNotifier::unsubscribe, by every producer of the queue.
Unsubscribe == listeners' = [t \in Threads |-> {}]

\* ~ConcurrentQueue, when nobody uses the queue: each producer gives back its
\* blocks and unsubscribes; the blocks of the initial pool go with the array.
Destroy ==
  /\ Quiet
  /\ ~ destroyed
  /\ destroyed' = TRUE
  /\ heap' = [b \in Blocks |-> IF b <= poolSize THEN heap[b]
       ELSE heap[b] - Cardinality({p \in 1 .. producers : b \in GivenBack(p)})]
  /\ Unsubscribe
  /\ UNCHANGED <<poolIndex, freeListHead, freeListRefs, freeListNext, pc, fl, producerVars,
                 ql, todo, permits, producers, inactive, hash, hashCount, resizing, exiting,
                 hl, fixed>>

-----------------------------------------------------------------------------
Pool(t) ==
  \/ PoolTest(t) \/ PoolIncrement(t) \/ GetLoad(t) \/ GetRefs(t) \/ GetIncrement(t)
  \/ GetNext(t) \/ GetCas(t) \/ GetDone(t) \/ GetDecrement(t) \/ Create(t)
  \/ AddBlock(t) \/ AddHead(t) \/ AddNext(t) \/ AddRefs(t) \/ AddCas(t) \/ AddRetry(t)

Producer(t) ==
  \/ Enqueue(t) \/ Insert(t) \/ InsertTail(t) \/ GotNoBlock(t) \/ GotBlock(t)
  \/ Construct(t) \/ Publish(t)
  \/ Dequeue(t) \/ CountIn(t) \/ Recheck(t) \/ OverCommit(t) \/ Claim(t)
  \/ Lookup(t) \/ Entry(t) \/ Take(t) \/ SetEmpty(t) \/ Release(t)

Table(t) ==
  \/ Find(t) \/ Relink(t) \/ NewCount(t) \/ Resize(t) \/ Grow(t) \/ Room(t)
  \/ Recycle(t) \/ AddProducer(t) \/ Subscribe(t) \/ Place(t)
  \/ EnqueueReturns(t) \/ WaitDequeue(t) \/ Scan(t) \/ Scanned(t) \/ Missed(t)
  \/ DequeueReturns(t) \/ Exit(t) \/ Leave(t) \/ ExitReturns(t)

Step(t) == Pool(t) \/ Producer(t) \/ Table(t)

Next == Destroy \/ \E t \in Threads : Step(t)

Spec == Init /\ [][Next]_vars

\* A thread inside a call is scheduled again and again.
FairSpec == Spec /\ \A t \in Threads : WF_vars(Step(t))

-----------------------------------------------------------------------------
\* A dequeue gets the element of the index it has claimed: its block has not
\* been given back or reused while an element of it was still wanted, whatever
\* happened to the index and the free list meanwhile (dequeue, set_empty,
\* get_block_index_index_for_index, try_get).
DequeuesItsElement ==
  \A t \in Threads : pc[t] = "setempty" => ql[t].element = <<ql[t].p, ql[t].index>>

\* A thread has one producer as long as it lives, also across tables, and shares
\* it with nobody: the order of its elements depends on it
\* (get_or_add_implicit_producer, implicit_producer_thread_exited).
OneProducerPerThread ==
  \A t \in Threads :
    /\ Cardinality(listeners[t]) <= 1
    /\ \A u \in Threads \ {t} : listeners[t] \cap listeners[u] = {}

OnList == LET walk[n \in 0 .. MaxBlocks] ==
                IF n = 0 THEN freeListHead
                ELSE IF walk[n - 1] = 0 THEN 0 ELSE freeListNext[walk[n - 1]]
          IN  {walk[n] : n \in 0 .. MaxBlocks}
Holders(b) == UNION {{p} \X {e \in DOMAIN entries[p] : entries[p][e].value = b} :
                       p \in Producers}

\* Between calls no block is lost or has two places: it is on the free list or
\* in one entry of one producer, and the destructor gives every block from the
\* heap back once (FreeList, requisition_block, ~ImplicitProducer).
BlocksAccounted ==
  /\ Quiet /\ ~ destroyed =>
       \A b \in Blocks :
         Cardinality(Holders(b)) =
           IF b <= poolSize
           THEN IF b <= poolIndex /\ b \notin OnList THEN 1 ELSE 0
           ELSE heap[b]
  /\ destroyed => \A b \in Blocks : heap[b] = 0

\* A thread that holds a permit gets its element: the elements counted by the
\* semaphore can be dequeued, however the optimistic counts raced
\* (wait_dequeue, try_dequeue, dequeueOvercommit).
DequeueCompletes ==
  \A t \in Threads : pc[t] = "scan" ~> pc[t] = "idle"
=============================================================================
