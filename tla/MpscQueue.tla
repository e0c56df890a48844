------------------------------ MODULE MpscQueue ------------------------------
(***************************************************************************)
(* daking::MPSC_queue (3rd_lib/daking/MPSC_queue.h), the queue behind every *)
(* actor's mailbox, with its node allocator: the list of nodes of each      *)
(* thread, the lock-free stack of chunks all queues share, and the pages    *)
(* freed with the last queue.  One action per access to shared memory,      *)
(* sequentially consistent.  Nodes are addresses 1..MaxNodes, 0 is nullptr; *)
(* value_ and next_chunk_ share their storage, so that a thread may read a  *)
(* value as a pointer.                                                      *)
(***************************************************************************)
EXTENDS Integers, Sequences, FiniteSets

CONSTANTS
  Threads,     \* threads, each of which may push, pop, create and destroy
  Queues,      \* objects of the class
  NoQueue,     \* not a queue
  Capacities,  \* the template arguments considered
  MaxNodes,    \* bound on the nodes allocated at a time
  MaxValues    \* bound on the elements enqueued

ASSUME MpscAssumption ==
  /\ NoQueue \notin Queues
  /\ Capacities \subseteq Nat \ {0} /\ MaxNodes \in Nat /\ MaxValues \in Nat

Nodes == 1 .. MaxNodes
Values == (MaxNodes + 1) .. (MaxNodes + MaxValues)

VARIABLES
  capacity,  \* ThreadLocalCapacity, fixed
  next,      \* MPSC_node::next_
  slot,      \* MPSC_node's union of value_ and next_chunk_
  top,       \* global_chunk_stack_.top: a tagged pointer
  count,     \* global_node_count_: the nodes 1..count are in the pages
  list,      \* Get_thread_local_node_list() of each thread
  size,      \* Get_thread_local_node_size() of each thread
  instances, \* global_instance_count_
  mutex,     \* the threads that hold global_mutex_ (at most one)
  head, tail,\* head_ and tail_ of each queue, 0 before its constructor ends
  pc,        \* the next step of each thread
  loc,       \* the local variables of each thread
  used       \* elements enqueued so far

vars == <<capacity, next, slot, top, count, list, size, instances, mutex, head, tail, pc,
          loc, used>>
memory == <<next, slot>>
pool == <<count, list, size>>
ends == <<head, tail>>

\* q: the queue; node: the new node or the chunk to push; to: emplace's old_head;
\* old: Tagged_ptr old_top; new: new_top.node_ of Try_pop; value: the element;
\* last: the last node Reserve has yet to push, or 0; dtor: ~MPSC_queue runs.
NoLocals == [q |-> NoQueue, node |-> 0, old |-> [node |-> 0, tag |-> 0],
             new |-> 0, value |-> 0, last |-> 0, to |-> 0, dtor |-> FALSE]

Set(t, step, locals) ==
  /\ pc' = [pc EXCEPT ![t] = step]
  /\ loc' = [loc EXCEPT ![t] = locals]

Init ==
  /\ capacity \in Capacities
  /\ next = [n \in Nodes |-> 0]
  /\ slot = [n \in Nodes |-> 0]
  /\ top = [node |-> 0, tag |-> 0]
  /\ count = 0
  /\ list = [t \in Threads |-> 0]
  /\ size = [t \in Threads |-> 0]
  /\ instances = 0
  /\ mutex = {}
  /\ head = [q \in Queues |-> 0]
  /\ tail = [q \in Queues |-> 0]
  /\ pc = [t \in Threads |-> "idle"]
  /\ loc = [t \in Threads |-> NoLocals]
  /\ used = 0

\* The user's side of the contract: a queue that lives and that nobody is
\* destroying; a queue is destroyed when no operation on it is under way.
Usable(q) == tail[q] # 0 /\ \A t \in Threads : loc[t].q = q => ~ loc[t].dtor
Quiet(q) == \A t \in Threads : loc[t].q # q

-----------------------------------------------------------------------------
(* MPSC_chunk_stack and Allocate.                                           *)

\* Try_pop: load top; an empty stack sends Allocate to Reserve_global_internal.
Loaded(t) ==
  Set(t, IF top.node = 0 THEN "reserve" ELSE "popread", [loc[t] EXCEPT !.old = top])

\* Allocate: the thread's own list is empty.
PopLoad(t) ==
  /\ pc[t] = "alloc"
  /\ list[t] = 0
  /\ Loaded(t)
  /\ UNCHANGED <<memory, pool, top, instances, mutex, ends, used, capacity>>

\* new_top.node_ = old_top.node_->next_chunk_: by now the node may be in use.
PopRead(t) ==
  /\ pc[t] = "popread"
  /\ Set(t, "popcas", [loc[t] EXCEPT !.new = slot[loc[t].old.node]])
  /\ UNCHANGED <<memory, pool, top, instances, mutex, ends, used, capacity>>

\* Only the pointer is compared.
PopCas_NoTag(t) ==
  /\ pc[t] = "popcas"
  /\ \/ /\ top.node = loc[t].old.node
        /\ top' = [node |-> loc[t].new, tag |-> 0]
        /\ list' = [list EXCEPT ![t] = top.node]
        /\ Set(t, "alloc", loc[t])
     \/ /\ top.node # loc[t].old.node
        /\ Loaded(t)
        /\ UNCHANGED <<top, list>>
  /\ UNCHANGED <<memory, count, size, instances, mutex, ends, used, capacity>>

\* compare_exchange on pointer and tag; on failure old_top is the new top.
PopCas(t) ==
  /\ pc[t] = "popcas"
  /\ \/ /\ top = loc[t].old
        /\ top' = [node |-> loc[t].new, tag |-> top.tag + 1]
        /\ list' = [list EXCEPT ![t] = top.node]
        /\ Set(t, "alloc", [loc[t] EXCEPT !.old = NoLocals.old, !.new = 0])
     \/ /\ top # loc[t].old
        /\ Loaded(t)
        /\ UNCHANGED <<top, list>>
  /\ UNCHANGED <<memory, count, size, instances, mutex, ends, used, capacity>>

\* Manager::Reserve(n): new nodes, linked chunk by chunk; the chunks are pushed
\* one after the other.
Reserve(t, n) ==
  /\ count + n <= MaxNodes
  /\ count' = count + n
  /\ next' = [i \in Nodes |->
       IF i \in count + 1 .. count + n
       THEN IF (i - count) % capacity = 0 THEN 0 ELSE i + 1
       ELSE next[i]]
  /\ Set(t, "push", [loc[t] EXCEPT !.node = count + 1, !.last = count + n])

\* Reserve_global_internal takes the mutex; if somebody has filled the stack it
\* returns.  Otherwise it reserves as many nodes as there are, at least one chunk.
ReserveGlobalInternal(t) ==
  /\ pc[t] = "reserve"
  /\ mutex = {}
  /\ \/ /\ top.node # 0
        /\ Set(t, "alloc", loc[t])
        /\ UNCHANGED <<next, count, mutex>>
     \/ /\ top.node = 0
        /\ Reserve(t, IF count > capacity THEN count ELSE capacity)
        /\ mutex' = {t}
  /\ UNCHANGED <<slot, top, list, size, instances, ends, used, capacity>>

\* Push: load top.
PushLoad(t) ==
  /\ pc[t] = "push"
  /\ Set(t, "pushcas", [loc[t] EXCEPT !.old = top])
  /\ UNCHANGED <<memory, pool, top, instances, mutex, ends, used, capacity>>

\* What follows a Push: the next chunk of Reserve or its end, or the end of
\* Deallocate, whose list is the chunk that was pushed.
Pushed(t) ==
  LET l == [loc[t] EXCEPT !.old = NoLocals.old] IN
  \/ /\ l.last # 0 /\ l.node + capacity <= l.last
     /\ Set(t, "push", [l EXCEPT !.node = @ + capacity])
     /\ UNCHANGED <<list, size, mutex>>
  \/ /\ l.last # 0 /\ l.node + capacity > l.last
     /\ Set(t, "alloc", [l EXCEPT !.node = 0, !.last = 0])
     /\ mutex' = {}
     /\ UNCHANGED <<list, size>>
  \/ /\ l.last = 0
     /\ list' = [list EXCEPT ![t] = 0]
     /\ size' = [size EXCEPT ![t] = 0]
     /\ Set(t, IF l.dtor THEN "drain" ELSE "idle",
               IF l.dtor THEN [l EXCEPT !.node = 0] ELSE NoLocals)
     /\ UNCHANGED mutex

\* new_top.node_->next_chunk_ = old_top.node_, then compare_exchange; on failure
\* old_top is the new top and the loop writes next_chunk_ again.
PushCas(t) ==
  /\ pc[t] = "pushcas"
  /\ slot' = [slot EXCEPT ![loc[t].node] = loc[t].old.node]
  /\ \/ /\ top = loc[t].old
        /\ top' = [node |-> loc[t].node, tag |-> top.tag + 1]
        /\ Pushed(t)
     \/ /\ top # loc[t].old
        /\ Set(t, "pushcas", [loc[t] EXCEPT !.old = top])
        /\ UNCHANGED <<top, list, size, mutex>>
  /\ UNCHANGED <<next, count, instances, ends, used, capacity>>

\* Initial: node n is the dummy of the new queue q.
Initial(q, n) ==
  /\ head' = [head EXCEPT ![q] = n]
  /\ tail' = [tail EXCEPT ![q] = n]

\* Allocate takes the first node of the list.  emplace constructs the element
\* in it; the constructor makes it the dummy of the queue.
Take(t) ==
  LET n == list[t] IN
  LET q == loc[t].q IN
  /\ pc[t] = "alloc"
  /\ n # 0
  /\ list' = [list EXCEPT ![t] = next[n]]
  /\ next' = [next EXCEPT ![n] = 0]
  /\ \/ /\ loc[t].value # 0
        /\ slot' = [slot EXCEPT ![n] = loc[t].value]
        /\ Set(t, "exchange", [loc[t] EXCEPT !.node = n, !.value = 0])
        /\ UNCHANGED ends
     \/ /\ loc[t].value = 0
        /\ Initial(q, n)
        /\ Set(t, "idle", NoLocals)
        /\ UNCHANGED slot
  /\ UNCHANGED <<top, count, size, instances, mutex, used, capacity>>

-----------------------------------------------------------------------------
(* The queue.                                                               *)

\* MPSC_queue(): count the instance, then Initial.
Construct(t, q) ==
  /\ pc[t] = "idle"
  /\ tail[q] = 0 /\ Quiet(q)
  /\ instances' = instances + 1
  /\ Set(t, "alloc", [NoLocals EXCEPT !.q = q])
  /\ UNCHANGED <<memory, pool, top, mutex, ends, used, capacity>>

\* emplace
Emplace(t, q) ==
  /\ pc[t] = "idle"
  /\ Usable(q)
  /\ used < MaxValues
  /\ used' = used + 1
  /\ Set(t, "alloc", [NoLocals EXCEPT !.q = q, !.value = MaxNodes + used'])
  /\ UNCHANGED <<memory, pool, top, instances, mutex, ends, capacity>>

\* head_ is read and written in two steps.
Exchange_Racy(t) ==
  LET q == loc[t].q IN
  \/ /\ pc[t] = "exchange"
     /\ Set(t, "store", [loc[t] EXCEPT !.to = head[q]])
     /\ UNCHANGED <<memory, pool, top, instances, mutex, ends, used, capacity>>
  \/ /\ pc[t] = "store"
     /\ head' = [head EXCEPT ![q] = loc[t].node]
     /\ Set(t, "link", loc[t])
     /\ UNCHANGED <<memory, pool, top, instances, mutex, tail, used, capacity>>

\* old_head = head_.exchange(new_node)
Exchange(t) ==
  LET q == loc[t].q IN
  /\ pc[t] = "exchange"
  /\ head' = [head EXCEPT ![q] = loc[t].node]
  /\ Set(t, "link", [loc[t] EXCEPT !.to = head[q]])
  /\ UNCHANGED <<memory, pool, top, instances, mutex, tail, used, capacity>>

\* old_head->next_.store(new_node)
Link(t) ==
  /\ pc[t] = "link"
  /\ next' = [next EXCEPT ![loc[t].to] = loc[t].node]
  /\ Set(t, "idle", NoLocals)
  /\ UNCHANGED <<slot, pool, top, instances, mutex, ends, used, capacity>>

\* Move the tail of q on and deallocate the node it leaves: it becomes the
\* first of the thread's list, and the whole list is pushed as a chunk when
\* size, which Allocate does not decrease, reaches the capacity.
Advance(t, q, locals) ==
  LET n == tail[q] IN
  /\ tail' = [tail EXCEPT ![q] = next[n]]
  /\ next' = [next EXCEPT ![n] = list[t]]
  /\ list' = [list EXCEPT ![t] = n]
  /\ size' = [size EXCEPT ![t] = @ + 1]
  /\ Set(t, IF size[t] + 1 >= capacity THEN "push"
            ELSE IF locals.dtor THEN "drain" ELSE "idle",
            IF size[t] + 1 >= capacity THEN [locals EXCEPT !.node = n]
            ELSE IF locals.dtor THEN locals ELSE NoLocals)
  /\ UNCHANGED <<slot, top, count, instances, mutex, head, used, capacity>>

\* try_dequeue that finds an element; without one it changes nothing.
TryDequeue(t, q) ==
  /\ pc[t] = "idle"
  /\ Usable(q)
  /\ next[tail[q]] # 0
  /\ Advance(t, q, [NoLocals EXCEPT !.q = q])

\* ~MPSC_queue begins.
Destroy(t, q) ==
  /\ pc[t] = "idle"
  /\ Usable(q) /\ Quiet(q)
  /\ Set(t, "drain", [NoLocals EXCEPT !.q = q, !.dtor = TRUE])
  /\ UNCHANGED <<memory, pool, top, instances, mutex, ends, used, capacity>>

\* It destroys the elements one by one; then --global_instance_count_.  The
\* dummy stays behind in no list.
Drain(t) ==
  LET q == loc[t].q IN
  /\ pc[t] = "drain"
  /\ \/ /\ next[tail[q]] # 0
        /\ Advance(t, q, loc[t])
     \/ /\ next[tail[q]] = 0
        /\ head' = [head EXCEPT ![q] = 0]
        /\ tail' = [tail EXCEPT ![q] = 0]
        /\ instances' = instances - 1
        /\ Set(t, IF instances = 1 THEN "free" ELSE "idle", NoLocals)
        /\ UNCHANGED <<memory, pool, top, mutex, used, capacity>>

\* Free_global: MPSC_chunk_stack::Reset and Manager::Reset, which empties every
\* thread's list and frees the pages.
StackReset == top' = [node |-> 0, tag |-> 0]
ManagerReset ==
  /\ list' = [x \in Threads |-> 0]
  /\ size' = [x \in Threads |-> 0]
  /\ count' = 0
FreeGlobal == StackReset /\ ManagerReset

\* The last instance takes the mutex and, if there is none still, frees.
Free(t) ==
  /\ pc[t] = "free"
  /\ mutex = {}
  /\ \/ instances = 0 /\ FreeGlobal
     \/ instances # 0 /\ UNCHANGED <<top, pool>>
  /\ Set(t, "idle", NoLocals)
  /\ UNCHANGED <<memory, instances, mutex, ends, used, capacity>>

\* Manager::Unregister forgets the list of an ended thread, Register gives the
\* thread that takes its place an empty one.
Unregister(t) ==
  /\ list' = [list EXCEPT ![t] = 0]
  /\ size' = [size EXCEPT ![t] = 0]

\* A thread ends, and another takes its place.
ThreadExit(t) ==
  /\ pc[t] = "idle"
  /\ mutex = {}
  /\ list[t] # 0
  /\ Unregister(t)
  /\ UNCHANGED <<memory, top, count, instances, mutex, ends, pc, loc, used, capacity>>

Next ==
  \E t \in Threads :
    \/ PopLoad(t) \/ PopRead(t) \/ PopCas(t) \/ ReserveGlobalInternal(t) \/ PushLoad(t)
    \/ PushCas(t) \/ Take(t) \/ Exchange(t) \/ Link(t) \/ Drain(t) \/ Free(t)
    \/ ThreadExit(t)
    \/ \E q \in Queues :
         \/ Construct(t, q) \/ Emplace(t, q) \/ TryDequeue(t, q) \/ Destroy(t, q)

Spec == Init /\ [][Next]_vars

-----------------------------------------------------------------------------
\* The nodes met from n along f, in order, and at most MaxNodes + 1 of them.
Walk(f, n) ==
  LET w[k \in 0 .. MaxNodes] ==
        IF k = 0 THEN (IF n \in Nodes THEN <<n>> ELSE <<>>)
        ELSE IF Len(w[k - 1]) = k /\ f[w[k - 1][k]] \in Nodes
             THEN Append(w[k - 1], f[w[k - 1][k]])
             ELSE w[k - 1]
  IN  w[MaxNodes]

Met(f, n) == {Walk(f, n)[i] : i \in DOMAIN Walk(f, n)}

\* next_ as it will be when the emplaces that have exchanged head_ have linked.
Linked ==
  [n \in Nodes |->
     IF \E t \in Threads : pc[t] = "link" /\ loc[t].to = n
     THEN loc[CHOOSE t \in Threads : pc[t] = "link" /\ loc[t].to = n].node
     ELSE next[n]]

\* Where nodes are: in a queue, in a thread's list, in a chunk of the stack, in
\* the hands of emplace or of Reserve.
Hand(t) ==
  IF pc[t] = "exchange" THEN {loc[t].node}
  ELSE IF loc[t].last # 0 THEN loc[t].node .. loc[t].last ELSE {}

Chunks == Met(slot, top.node)

\* How often node n is somewhere.
Owners(n) ==
  Cardinality({q \in Queues : n \in Met(Linked, tail[q])}) +
  Cardinality({t \in Threads : n \in Met(next, list[t])}) +
  Cardinality({t \in Threads : n \in Hand(t)}) +
  Cardinality({c \in Chunks : n \in Met(next, c)})

\* A node is in one place at a time and is never one of a freed page, and the
\* stack holds pointers only: the read of next_chunk_ from a node another thread
\* has popped meanwhile (MPSC_queue.h:179) is never installed, and the pages are
\* never freed under a queue that lives (MPSC_queue.h:384).
OneOwner ==
  /\ \A n \in Nodes : Owners(n) <= (IF n <= count THEN 1 ELSE 0)
  /\ {top.node} \cup {slot[c] : c \in Chunks} \subseteq Nodes \cup {0}

\* The elements of a queue follow its dummy; an element is in the queue from
\* the exchange of head_ on, even while it is not linked yet.
Contents(q) ==
  LET w == Walk(Linked, tail[q])
  IN  [i \in 1 .. (IF w = <<>> THEN 0 ELSE Len(w) - 1) |-> slot[w[i + 1]]]

Abstract == INSTANCE FifoQueue WITH
  contents <- [q \in Queues |-> Contents(q)],
  fresh <- {v \in Values :
              \/ v > MaxNodes + used
              \/ \E t \in Threads :
                   \/ loc[t].value = v
                   \/ pc[t] = "exchange" /\ slot[loc[t].node] = v}

\* The queues are FIFO: under any interleaving of producers, the consumer,
\* constructors and destructors of queues that share the nodes, an element
\* leaves its queue once, in the order of the exchanges of head_.
RefinesFifoQueue == Abstract!Spec
=============================================================================
