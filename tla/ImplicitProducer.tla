--------------------------- MODULE ImplicitProducer ---------------------------
(***************************************************************************)
(* ConcurrentQueue::ImplicitProducer: the queue of the elements of one      *)
(* thread, in blocks found through an index that grows.  One thread         *)
(* enqueues, any thread dequeues.  The element at index i of producer p is  *)
(* modelled by <<p, i>>, so that a dequeue that reads a block that has been *)
(* reused shows.  The steps on blocks are BlockPool's.  A caller enters at  *)
(* "enqueue" or "dequeue"; an enqueue ends at "enqueued" or "failed", a     *)
(* dequeue at "dequeued" or "missed".                                       *)
(***************************************************************************)
EXTENDS BlockPool

CONSTANTS
  BLOCK_SIZE,                  \* elements of a block
  IMPLICIT_INITIAL_INDEX_SIZE, \* entries of the first block index
  MaxProducers                 \* bound on the producers created

ASSUME ProducerAssumption ==
  /\ BLOCK_SIZE \in Nat \ {0, 1}
  /\ IMPLICIT_INITIAL_INDEX_SIZE \in Nat \ {0, 1}
  /\ MaxProducers \in Nat

Producers == 1 .. MaxProducers
INVALID_BLOCK_BASE == 1

\* p: the producer; over, mine, index: of dequeue; header, tail: the position in
\* the block index; entry: idxEntry or the entry of index; block; element.
NoElement == [p |-> 0, over |-> 0, mine |-> 0, index |-> 0, header |-> 0, tail |-> 0,
              entry |-> 0, block |-> 0, element |-> <<>>]

NewEntries(n) == [i \in 1 .. n |-> [key |-> INVALID_BLOCK_BASE, value |-> 0]]

\* tail and the subscripts of slots count from 0 in the code; Slot(h, i) is index[i].
Capacity(h) == Len(h.slots)
Slot(h, i) == h.slots[(i % Capacity(h)) + 1]

ProducerInit ==
  /\ elements = [b \in {0} \cup Blocks |-> [k \in 0 .. BLOCK_SIZE - 1 |-> <<>>]]
  /\ dequeuedIn = [b \in {0} \cup Blocks |-> 0]
  /\ tailIndex = [p \in Producers |-> 0]
  /\ headIndex = [p \in Producers |-> 0]
  /\ optimistic = [p \in Producers |-> 0]
  /\ overcommit = [p \in Producers |-> 0]
  /\ tailBlock = [p \in Producers |-> 0]
  /\ entries = [p \in Producers |-> NewEntries(IMPLICIT_INITIAL_INDEX_SIZE)]
  /\ blockIndex = [p \in Producers |->
       << [tail |-> IMPLICIT_INITIAL_INDEX_SIZE - 1,
           slots |-> [i \in 1 .. IMPLICIT_INITIAL_INDEX_SIZE |-> i]] >>]
  /\ ql = [t \in Threads |-> NoElement]

Current(p) == blockIndex[p][Len(blockIndex[p])]
Remember(t, l) == ql' = [ql EXCEPT ![t] = l]

-----------------------------------------------------------------------------
(* enqueue                                                                  *)

\* Inside a block the element goes to tailBlock, at a boundary a block is needed.
Enqueue(t) ==
  LET tail == tailIndex[ql[t].p] IN
  /\ pc[t] = "enqueue"
  /\ Remember(t, [ql[t] EXCEPT !.index = tail])
  /\ Go(t, IF tail % BLOCK_SIZE = 0 THEN "insert" ELSE "construct")
  /\ UNCHANGED <<outsideProducer, poolVars, fl, producerVars>>

\* new_block_index: twice as many slots, the old entries in order and new ones.
NewBlockIndex(p) ==
  LET h == Current(p)
      n == Capacity(h)
  IN  /\ entries' = [entries EXCEPT ![p] = @ \o NewEntries(n)]
      /\ blockIndex' = [blockIndex EXCEPT ![p] = Append(@,
           [tail |-> n - 1,
            slots |-> [i \in 1 .. 2 * n |->
              IF i <= n THEN Slot(h, h.tail + i) ELSE Len(entries[p]) + i - n]])]

\* insert_block_index_entry: the next entry must be unused, else the index grows.
Insert(t) ==
  LET p == ql[t].p
      e == Slot(Current(p), Current(p).tail + 1)
      unused == entries[p][e].key = INVALID_BLOCK_BASE \/ entries[p][e].value = 0
  IN
  /\ pc[t] = "insert"
  /\ \/ /\ unused
        /\ entries' = [entries EXCEPT ![p][e].key = ql[t].index]
        /\ Remember(t, [ql[t] EXCEPT !.entry = e])
        /\ Go(t, "settail")
        /\ UNCHANGED blockIndex
     \/ ~ unused /\ NewBlockIndex(p) /\ UNCHANGED <<pc, ql>>
  /\ UNCHANGED <<outsideProducer, poolVars, fl, elements, dequeuedIn, counters>>

MoveTail(p, n) ==
  blockIndex' = [blockIndex EXCEPT ![p][Len(blockIndex[p])].tail = (@ + n) % Capacity(Current(p))]

InsertTail(t) ==
  /\ pc[t] = "settail"
  /\ MoveTail(ql[t].p, 1)
  /\ Go(t, "requisition")
  /\ UNCHANGED <<outsideProducer, poolVars, fl, elements, dequeuedIn, counters,
                 entries, ql>>

\* No memory: rewind_block_index_tail, and the enqueue fails.
GotNoBlock(t) ==
  /\ pc[t] = "gotblock"
  /\ fl[t].block = 0
  /\ MoveTail(ql[t].p, -1)
  /\ entries' = [entries EXCEPT ![ql[t].p][ql[t].entry].value = 0]
  /\ Go(t, "failed")
  /\ UNCHANGED <<outsideProducer, poolVars, fl, elements, dequeuedIn, counters, ql>>

ResetEmpty(b) == dequeuedIn' = [dequeuedIn EXCEPT ![b] = 0]

\* reset_empty, then the block is put into the index.
GotBlock(t) ==
  LET b == fl[t].block IN
  /\ pc[t] = "gotblock"
  /\ b # 0
  /\ ResetEmpty(b)
  /\ entries' = [entries EXCEPT ![ql[t].p][ql[t].entry].value = b]
  /\ tailBlock' = [tailBlock EXCEPT ![ql[t].p] = b]
  /\ Locals(t, NoBlock)
  /\ Go(t, "construct")
  /\ UNCHANGED <<outsideProducer, poolVars, elements, tailIndex, headIndex,
                 optimistic, overcommit, blockIndex, ql>>

\* Block::operator[]: the place in its block of the element with index i.
PlaceOf(i) == i % BLOCK_SIZE

Construct(t) ==
  LET p == ql[t].p IN
  /\ pc[t] = "construct"
  /\ elements' = [elements EXCEPT ![tailBlock[p]][PlaceOf(ql[t].index)] =
                    <<p, ql[t].index>>]
  /\ Go(t, "publish")
  /\ UNCHANGED <<outsideProducer, poolVars, fl, dequeuedIn, counters, entries,
                 blockIndex, ql>>

Publish(t) ==
  /\ pc[t] = "publish"
  /\ tailIndex' = [tailIndex EXCEPT ![ql[t].p] = ql[t].index + 1]
  /\ Go(t, "enqueued")
  /\ UNCHANGED <<outsideProducer, poolVars, fl, elements, dequeuedIn, headIndex,
                 optimistic, overcommit, tailBlock, entries, blockIndex, ql>>

-----------------------------------------------------------------------------
(* dequeue                                                                  *)

\* The three loads of the first test are one step: it is only a shortcut for
\* the second test, which is made again after the count is incremented.
Dequeue(t) ==
  LET p == ql[t].p IN
  /\ pc[t] = "dequeue"
  /\ Remember(t, [ql[t] EXCEPT !.over = overcommit[p]])
  /\ Go(t, IF optimistic[p] - overcommit[p] < tailIndex[p] THEN "count" ELSE "missed")
  /\ UNCHANGED <<outsideProducer, poolVars, fl, producerVars>>

CountIn(t) ==
  LET p == ql[t].p IN
  /\ pc[t] = "count"
  /\ optimistic' = [optimistic EXCEPT ![p] = @ + 1]
  /\ Remember(t, [ql[t] EXCEPT !.mine = optimistic[p]])
  /\ Go(t, "recheck")
  /\ UNCHANGED <<outsideProducer, poolVars, fl, elements, dequeuedIn, tailIndex,
                 headIndex, overcommit, tailBlock, entries, blockIndex>>

\* The first test is believed.
Recheck_Dropped(t) ==
  /\ pc[t] = "recheck"
  /\ Go(t, "claim")
  /\ UNCHANGED <<outsideProducer, poolVars, fl, producerVars, ql>>

Recheck(t) ==
  /\ pc[t] = "recheck"
  /\ Go(t, IF ql[t].mine - ql[t].over < tailIndex[ql[t].p] THEN "claim" ELSE "overcommit")
  /\ UNCHANGED <<outsideProducer, poolVars, fl, producerVars, ql>>

\* The failed attempt is not taken back.
OverCommit_Missing(t) ==
  /\ pc[t] = "overcommit"
  /\ Go(t, "missed")
  /\ UNCHANGED <<outsideProducer, poolVars, fl, producerVars, ql>>

OverCommit(t) ==
  /\ pc[t] = "overcommit"
  /\ overcommit' = [overcommit EXCEPT ![ql[t].p] = @ + 1]
  /\ Go(t, "missed")
  /\ UNCHANGED <<outsideProducer, poolVars, fl, elements, dequeuedIn, tailIndex,
                 headIndex, optimistic, tailBlock, entries, blockIndex, ql>>

Claim(t) ==
  LET p == ql[t].p IN
  /\ pc[t] = "claim"
  /\ headIndex' = [headIndex EXCEPT ![p] = @ + 1]
  /\ Remember(t, [NoElement EXCEPT !.p = p, !.index = headIndex[p]])
  /\ Go(t, "lookup")
  /\ UNCHANGED <<outsideProducer, poolVars, fl, elements, dequeuedIn, tailIndex,
                 optimistic, overcommit, tailBlock, entries, blockIndex>>

\* get_block_index_entry_for_index: the tail of a header that has been replaced
\* does not move, so both loads are one step.
Lookup(t) ==
  LET p == ql[t].p IN
  /\ pc[t] = "lookup"
  /\ Remember(t, [ql[t] EXCEPT !.header = Len(blockIndex[p]), !.tail = Current(p).tail])
  /\ Go(t, "entry")
  /\ UNCHANGED <<outsideProducer, poolVars, fl, producerVars>>

\* The distance from the key of the tail's entry gives the entry of index i.
EntryOf(p, h, tail, i) ==
  LET base == i - (i % BLOCK_SIZE)
      tailBase == entries[p][Slot(h, tail)].key
  IN  Slot(h, tail + ((base - tailBase) \div BLOCK_SIZE))

Entry(t) ==
  LET p == ql[t].p IN
  /\ pc[t] = "entry"
  /\ Remember(t, [ql[t] EXCEPT !.header = 0, !.tail = 0,
       !.entry = EntryOf(p, blockIndex[p][ql[t].header], ql[t].tail, ql[t].index)])
  /\ Go(t, "take")
  /\ UNCHANGED <<outsideProducer, poolVars, fl, producerVars>>

\* Move the element out and destroy it; in a null block there is none.
Take(t) ==
  LET p == ql[t].p
      b == entries[p][ql[t].entry].value
      k == PlaceOf(ql[t].index)
  IN
  /\ pc[t] = "take"
  /\ Remember(t, [ql[t] EXCEPT !.block = b, !.element = elements[b][k]])
  /\ elements' = [elements EXCEPT ![b][k] = <<>>]
  /\ Go(t, "setempty")
  /\ UNCHANGED <<outsideProducer, poolVars, fl, dequeuedIn, counters, entries,
                 blockIndex>>

\* The one that empties the block gives it back.
SetEmpty(t) ==
  LET b == ql[t].block IN
  /\ pc[t] = "setempty"
  /\ dequeuedIn' = [dequeuedIn EXCEPT ![b] = @ + 1]
  /\ Go(t, IF dequeuedIn[b] = BLOCK_SIZE - 1 THEN "release" ELSE "dequeued")
  /\ UNCHANGED <<outsideProducer, poolVars, fl, elements, counters, entries,
                 blockIndex, ql>>

Release(t) ==
  /\ pc[t] = "release"
  /\ entries' = [entries EXCEPT ![ql[t].p][ql[t].entry].value = 0]
  /\ Locals(t, [NoBlock EXCEPT !.block = ql[t].block])
  /\ Go(t, "addblock")
  /\ UNCHANGED <<outsideProducer, poolVars, elements, dequeuedIn, counters,
                 blockIndex, ql>>

-----------------------------------------------------------------------------
(* ~ImplicitProducer                                                        *)

\* The blocks that the destructor gives back: those of the elements left, the
\* last one through tailBlock, which is given back also when it is partly used.
BlockOf(p, i) == entries[p][EntryOf(p, Current(p), Current(p).tail, i)].value

GivenBack(p) ==
  LET left == headIndex[p] .. tailIndex[p] - 1
      crossed == {BlockOf(p, i - 1) : i \in {j \in left : j # headIndex[p]
                                                           /\ j % BLOCK_SIZE = 0}}
      last == tailBlock[p] # 0 /\ (left # {} \/ tailIndex[p] % BLOCK_SIZE # 0)
  IN  crossed \cup (IF last THEN {tailBlock[p]} ELSE {})

=============================================================================
