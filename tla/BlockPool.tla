------------------------------ MODULE BlockPool ------------------------------
(***************************************************************************)
(* The blocks of a moodycamel::ConcurrentQueue and where they come from:    *)
(* the initial pool, the lock-free FreeList and the heap.  One action per   *)
(* access to shared memory, sequentially consistent.  Blocks are addresses  *)
(* 1..MaxBlocks, 0 is nullptr; the first poolSize of them are the initial   *)
(* pool, the others come from the heap, which is exhausted when all are in  *)
(* use.  A caller enters at "requisition" and goes on at "gotblock", or     *)
(* enters at "addblock" and goes on at "dequeued".                          *)
(***************************************************************************)
EXTENDS QueueState

CONSTANTS
  Threads,   \* the threads that use the queue
  MaxBlocks  \* bound on the blocks in memory at a time

ASSUME BlocksAssumption == MaxBlocks \in Nat

Blocks == 1 .. MaxBlocks

\* The bit above the reference count: 2^31 in the code; TLC's integers end there,
\* and no count comes near either.
SHOULD_BE_ON_FREELIST == 2^16
REFS_MASK == SHOULD_BE_ON_FREELIST - 1

\* block: the block got or being added; head, prev, next, refs: of try_get;
\* to: head in add_knowing_refcount_is_zero; getting: try_get called it.
NoBlock == [block |-> 0, head |-> 0, prev |-> 0, next |-> 0, refs |-> 0, to |-> 0,
            getting |-> FALSE]

PoolInit ==
  /\ poolIndex = 0
  /\ heap = [b \in Blocks |-> 0]
  /\ freeListHead = 0
  /\ freeListRefs = [b \in Blocks |-> 0]
  /\ freeListNext = [b \in Blocks |-> 0]
  /\ fl = [t \in Threads |-> NoBlock]

Go(t, step) == pc' = [pc EXCEPT ![t] = step]
Locals(t, l) == fl' = [fl EXCEPT ![t] = l]
AddToRefs(b, n) == freeListRefs' = [freeListRefs EXCEPT ![b] = @ + n]

-----------------------------------------------------------------------------
(* requisition_block                                                        *)

PoolTest(t) ==
  /\ pc[t] = "requisition"
  /\ Go(t, IF poolIndex >= poolSize THEN "getload" ELSE "poolinc")
  /\ UNCHANGED <<outsidePool, poolVars, fl>>

PoolIncrement(t) ==
  /\ pc[t] = "poolinc"
  /\ poolIndex' = poolIndex + 1
  /\ \/ poolIndex < poolSize /\ Go(t, "gotblock")
        /\ Locals(t, [NoBlock EXCEPT !.block = poolIndex + 1])
     \/ poolIndex >= poolSize /\ Go(t, "getload") /\ UNCHANGED fl
  /\ UNCHANGED <<outsidePool, heap, freeListHead, freeListRefs, freeListNext>>

\* try_get with its variable head set to h.
TryHead(t, h) ==
  /\ Go(t, IF h = 0 THEN "create" ELSE "getrefs")
  /\ Locals(t, [NoBlock EXCEPT !.head = h])

GetLoad(t) == pc[t] = "getload" /\ TryHead(t, freeListHead) /\ UNCHANGED <<outsidePool, poolVars>>

GetRefs(t) ==
  LET refs == freeListRefs[fl[t].head] IN
  /\ pc[t] = "getrefs"
  /\ \/ refs % (REFS_MASK + 1) = 0 /\ Go(t, "getload") /\ UNCHANGED fl
     \/ /\ refs % (REFS_MASK + 1) # 0
        /\ Go(t, "getinc")
        /\ Locals(t, [fl[t] EXCEPT !.refs = refs])
  /\ UNCHANGED <<outsidePool, poolVars>>

GetIncrement(t) ==
  /\ pc[t] = "getinc"
  /\ \/ /\ freeListRefs[fl[t].head] = fl[t].refs
        /\ AddToRefs(fl[t].head, 1)
        /\ Go(t, "getnext")
     \/ /\ freeListRefs[fl[t].head] # fl[t].refs
        /\ Go(t, "getload")
        /\ UNCHANGED freeListRefs
  /\ UNCHANGED <<outsidePool, poolIndex, heap, freeListHead, freeListNext, fl>>

GetNext(t) ==
  /\ pc[t] = "getnext"
  /\ Locals(t, [fl[t] EXCEPT !.next = freeListNext[fl[t].head], !.refs = 0])
  /\ Go(t, "getcas")
  /\ UNCHANGED <<outsidePool, poolVars>>

\* A failed exchange leaves the current head in head.
GetCas(t) ==
  /\ pc[t] = "getcas"
  /\ \/ /\ freeListHead = fl[t].head
        /\ freeListHead' = fl[t].next
        /\ Go(t, "getsub")
        /\ UNCHANGED fl
     \/ /\ freeListHead # fl[t].head
        /\ Locals(t, [NoBlock EXCEPT !.head = freeListHead, !.prev = fl[t].head])
        /\ Go(t, "getdec")
        /\ UNCHANGED freeListHead
  /\ UNCHANGED <<outsidePool, poolIndex, heap, freeListRefs, freeListNext>>

GetDone(t) ==
  /\ pc[t] = "getsub"
  /\ AddToRefs(fl[t].head, -2)
  /\ Locals(t, [NoBlock EXCEPT !.block = fl[t].head])
  /\ Go(t, "gotblock")
  /\ UNCHANGED <<outsidePool, poolIndex, heap, freeListHead, freeListNext>>

\* The block that should be on the list is forgotten.
GetDecrement_NoAdd(t) ==
  /\ pc[t] = "getdec"
  /\ AddToRefs(fl[t].prev, -1)
  /\ TryHead(t, fl[t].head)
  /\ UNCHANGED <<outsidePool, poolIndex, heap, freeListHead, freeListNext>>

\* The head changed: drop the reference; the last one to do so adds the block
\* that should be on the list.
GetDecrement(t) ==
  LET b == fl[t].prev IN
  /\ pc[t] = "getdec"
  /\ AddToRefs(b, -1)
  /\ \/ /\ freeListRefs[b] = SHOULD_BE_ON_FREELIST + 1
        /\ Go(t, "addhead")
        /\ Locals(t, [fl[t] EXCEPT !.block = b, !.getting = TRUE])
     \/ freeListRefs[b] # SHOULD_BE_ON_FREELIST + 1 /\ TryHead(t, fl[t].head)
  /\ UNCHANGED <<outsidePool, poolIndex, heap, freeListHead, freeListNext>>

\* What malloc can return, and the constructor of Block.
Unallocated == {b \in Blocks : b > poolSize /\ heap[b] = 0}
NewBlock(b) ==
  /\ heap' = [heap EXCEPT ![b] = 1]
  /\ freeListRefs' = [freeListRefs EXCEPT ![b] = 0]
  /\ freeListNext' = [freeListNext EXCEPT ![b] = 0]

\* create<Block>(), or nullptr when memory is exhausted.
Create(t) ==
  /\ pc[t] = "create"
  /\ \/ /\ Unallocated = {} /\ Locals(t, NoBlock)
        /\ UNCHANGED <<heap, freeListRefs, freeListNext>>
     \/ \E b \in Unallocated :
          /\ \A c \in Unallocated : b <= c
          /\ NewBlock(b)
          /\ Locals(t, [NoBlock EXCEPT !.block = b])
  /\ Go(t, "gotblock")
  /\ UNCHANGED <<outsidePool, poolIndex, freeListHead>>

-----------------------------------------------------------------------------
(* add_block_to_free_list and FreeList::add                                 *)

\* The end of an addition: try_get goes on with its head, a dequeue is over.
Added(t) ==
  \/ fl[t].getting /\ TryHead(t, fl[t].head)
  \/ ~ fl[t].getting /\ Go(t, "dequeued") /\ Locals(t, NoBlock)

\* FreeList::add: only a block that nobody refers to is put on the list now.
Add(t, b) ==
  /\ AddToRefs(b, SHOULD_BE_ON_FREELIST)
  /\ \/ freeListRefs[b] = 0 /\ Go(t, "addhead") /\ UNCHANGED fl
     \/ freeListRefs[b] # 0 /\ Added(t)

\* A block from the heap is destroyed: blocks are not recycled by default.
AddBlock(t) ==
  LET b == fl[t].block IN
  /\ pc[t] = "addblock"
  /\ \/ /\ b > poolSize
        /\ heap' = [heap EXCEPT ![b] = @ - 1]
        /\ Added(t)
        /\ UNCHANGED freeListRefs
     \/ b <= poolSize /\ Add(t, b) /\ UNCHANGED heap
  /\ UNCHANGED <<outsidePool, poolIndex, freeListHead, freeListNext>>

AddHead(t) ==
  /\ pc[t] = "addhead"
  /\ Locals(t, [fl[t] EXCEPT !.to = freeListHead])
  /\ Go(t, "addnext")
  /\ UNCHANGED <<outsidePool, poolVars>>

AddNext(t) ==
  /\ pc[t] = "addnext"
  /\ freeListNext' = [freeListNext EXCEPT ![fl[t].block] = fl[t].to]
  /\ Go(t, "addrefs")
  /\ UNCHANGED <<outsidePool, poolIndex, heap, freeListHead, freeListRefs, fl>>

AddRefs(t) ==
  /\ pc[t] = "addrefs"
  /\ freeListRefs' = [freeListRefs EXCEPT ![fl[t].block] = 1]
  /\ Go(t, "addcas")
  /\ UNCHANGED <<outsidePool, poolIndex, heap, freeListHead, freeListNext, fl>>

AddCas(t) ==
  /\ pc[t] = "addcas"
  /\ \/ /\ freeListHead = fl[t].to
        /\ freeListHead' = fl[t].block
        /\ Added(t)
     \/ /\ freeListHead # fl[t].to
        /\ Locals(t, [fl[t] EXCEPT !.to = freeListHead])
        /\ Go(t, "addretry")
        /\ UNCHANGED freeListHead
  /\ UNCHANGED <<outsidePool, poolIndex, heap, freeListRefs, freeListNext>>

\* Only the one that takes the count back to zero tries again.
AddRetry(t) ==
  /\ pc[t] = "addretry"
  /\ AddToRefs(fl[t].block, SHOULD_BE_ON_FREELIST - 1)
  /\ \/ freeListRefs[fl[t].block] = 1 /\ Go(t, "addnext") /\ UNCHANGED fl
     \/ freeListRefs[fl[t].block] # 1 /\ Added(t)
  /\ UNCHANGED <<outsidePool, poolIndex, heap, freeListHead, freeListNext>>

=============================================================================
