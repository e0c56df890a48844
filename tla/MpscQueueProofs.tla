--------------------------- MODULE MpscQueueProofs ---------------------------
(***************************************************************************)
(* Proofs about MpscQueue: every node of the allocator is in one place at a *)
(* time, and the queues are FIFO, for any number of threads, queues, nodes  *)
(* and elements and any size of the chunks.                                 *)
(***************************************************************************)
EXTENDS MpscQueue, FiniteSetTheorems, SequenceTheorems, TLAPS

-----------------------------------------------------------------------------
(* The invariant.                                                          *)

\* The places of the nodes.
InQueue(q) == <<"queue", q>>
InList(t) == <<"list", t>>
InHand(t) == <<"hand", t>>
InChunk(c) == <<"chunk", c>>
Nowhere == <<"nowhere", 0>>

Locals ==
  [q : Queues \cup {NoQueue}, node : Nat, old : [node : Nat, tag : Nat], new : Nat,
   value : Nat, last : Nat, to : Nat, dtor : BOOLEAN]
Resting == {"idle", "free"}
Popping == {"popread", "popcas"}
Pushing == {"push", "pushcas"}
Labels == Resting \cup Popping \cup Pushing \cup {"alloc", "reserve", "exchange", "link", "drain"}

TypeInv ==
  /\ capacity \in Nat \ {0}
  /\ next \in [Nodes -> Nat]
  /\ slot \in [Nodes -> Nat]
  /\ top \in [node : Nat, tag : Nat]
  /\ count \in 0 .. MaxNodes
  /\ list \in [Threads -> Nat]
  /\ size \in [Threads -> Nat]
  /\ instances \in Int
  /\ head \in [Queues -> Nat]
  /\ tail \in [Queues -> Nat]
  /\ pc \in [Threads -> Labels]
  /\ loc \in [Threads -> Locals]
  /\ used \in Nat

\* Where a thread is: reserving nodes, giving back its list, or in Allocate.
Reserving(t) == pc[t] \in Pushing /\ loc[t].last # 0
GivingBack(t) == pc[t] \in Pushing /\ loc[t].last = 0
Allocating(t) == pc[t] \in Popping \cup {"alloc", "reserve"} \/ Reserving(t)

\* A thread inside an operation has a queue, which lives unless the thread is its
\* constructor; a constructor and a destructor are alone with it.
Control(t) ==
  /\ pc[t] \in Resting => loc[t] = NoLocals
  /\ pc[t] \notin Resting => loc[t].q \in Queues
  /\ Allocating(t) => ~ loc[t].dtor /\ (loc[t].value = 0 <=> tail[loc[t].q] = 0)
  /\ pc[t] \notin Resting /\ ~ Allocating(t) => loc[t].value = 0 /\ tail[loc[t].q] # 0
  /\ pc[t] \notin Pushing => loc[t].last = 0
  /\ loc[t].dtor => pc[t] \in Pushing \cup {"drain"}
  /\ pc[t] = "drain" => loc[t].dtor
  /\ pc[t] \notin Resting /\ (loc[t].dtor \/ tail[loc[t].q] = 0) =>
       \A u \in Threads : loc[u].q = loc[t].q => u = t

ControlInv == \A t \in Threads : Control(t)

\* global_instance_count_ is the number of queues that live or are being made.
Live == {q \in Queues : tail[q] # 0 \/ ~ Quiet(q)}
InstancesInv == IsFiniteSet(Live) /\ instances = Cardinality(Live)

\* A top of the stack that a thread has read is the present one, or an older one
\* with a smaller tag.
Popped(t) ==
  /\ pc[t] \in Popping =>
       /\ loc[t].old.node \in Nodes
       /\ loc[t].old.tag <= top.tag
       /\ loc[t].old.tag = top.tag => loc[t].old = top
  /\ pc[t] = "popcas" /\ loc[t].old = top => loc[t].new = slot[top.node]

PopInv == \A t \in Threads : Popped(t)

\* The last nodes of the chunks of a page.
Ends(i) == \E k \in Nat : i = k * capacity

-----------------------------------------------------------------------------
\* o gives each node its place; Q gives the nodes of each queue in order.

Linking(t, n) == pc[t] = "link" /\ loc[t].to = n

\* The queue q has the nodes s.
Chain(o, q, s) ==
  /\ s \in Seq(Nodes)
  /\ s = << >> <=> tail[q] = 0
  /\ \A i \in 1 .. Len(s) : o[s[i]] = InQueue(q)
  /\ \A i, j \in 1 .. Len(s) : s[i] = s[j] => i = j
  /\ s # << >> => tail[q] = s[1] /\ head[q] = s[Len(s)] /\ next[s[Len(s)]] = 0
  /\ \A i \in 1 .. Len(s) - 1 :
       next[s[i]] # s[i + 1] => \E t \in Threads : Linking(t, s[i])

\* A thread that has exchanged head_ is to link the node after the one it got.
Gap(t, Q) ==
  pc[t] = "link" =>
    /\ \E i \in 1 .. Len(Q[loc[t].q]) - 1 :
         loc[t].to = Q[loc[t].q][i] /\ loc[t].node = Q[loc[t].q][i + 1]
    /\ next[loc[t].to] = 0
    /\ \A u \in Threads : Linking(u, loc[t].to) => u = t

QueuesInv(o, Q) ==
  /\ DOMAIN Q = Queues
  /\ \A q \in Queues : Chain(o, q, Q[q])
  /\ \A t \in Threads : Gap(t, Q)

\* Lists and chunks: their nodes are linked among each other, no two to the same.
OnChain(p) == p[1] \in {"list", "chunk"}
LinksInv(o) ==
  \A n \in Nodes : OnChain(o[n]) /\ next[n] # 0 =>
    /\ next[n] \in Nodes /\ o[next[n]] = o[n]
    /\ \A m \in Nodes : o[m] = o[n] /\ next[m] = next[n] => m = n

\* Nothing is linked to the first node of a thread's list.
First(t, o) ==
  list[t] # 0 =>
    /\ list[t] \in Nodes /\ o[list[t]] = InList(t)
    /\ \A n \in Nodes : o[n] = InList(t) => next[n] # list[t]

ListsInv(o) == LinksInv(o) /\ \A t \in Threads : First(t, o)

\* The chunks on the stack.
Stacked(o, c) == c \in Nodes /\ o[c] = InChunk(c)
StackInv(o) ==
  /\ top.node # 0 => Stacked(o, top.node)
  /\ \A c \in Nodes : o[c] = InChunk(c) =>
       /\ slot[c] # 0 => Stacked(o, slot[c]) /\ slot[c] # top.node
       /\ \A d \in Nodes : o[d] = InChunk(d) /\ slot[d] = slot[c] /\ slot[c] # 0 => d = c
       /\ \A n \in Nodes : o[n] = InChunk(c) => next[n] # c

\* The nodes in the hands of a thread.
Holding(t, o) ==
  /\ pc[t] = "exchange" =>
       loc[t].node \in Nodes /\ o[loc[t].node] = InHand(t) /\ next[loc[t].node] = 0
  /\ GivingBack(t) => loc[t].node = list[t] /\ list[t] # 0
  /\ Reserving(t) =>
       /\ {loc[t].node, loc[t].last} \subseteq Nodes /\ loc[t].node <= loc[t].last
       /\ Ends(loc[t].node - 1) /\ Ends(loc[t].last)
       /\ \A i \in loc[t].node .. loc[t].last :
            /\ o[i] = InHand(t)
            /\ next[i] \in {0, i + 1}
            /\ Ends(i) => next[i] = 0

HandsInv(o) == \A t \in Threads : Holding(t, o)

PagesInv(o) ==
  /\ DOMAIN o = Nodes
  /\ Ends(count)
  /\ \A n \in Nodes : n > count => o[n] = Nowhere

Placed(o, Q) ==
  QueuesInv(o, Q) /\ ListsInv(o) /\ StackInv(o) /\ HandsInv(o) /\ PagesInv(o)

NodesInv == TypeInv /\ ControlInv /\ InstancesInv /\ PopInv /\ \E o, Q : Placed(o, Q)

-----------------------------------------------------------------------------
(* Steps.                                                                  *)

\* What a step of t does to pc and loc.
Moves(t, s, l) ==
  /\ DOMAIN pc' = Threads /\ DOMAIN loc' = Threads
  /\ pc'[t] = s /\ loc'[t] = l
  /\ \A u \in Threads : u # t => pc'[u] = pc[u] /\ loc'[u] = loc[u]

\* Set moves one thread.
LEMMA SetMoves ==
  ASSUME TypeInv, NEW t \in Threads, NEW s, NEW l, Set(t, s, l)
  PROVE  Moves(t, s, l)
BY DEF TypeInv, Set, Moves

\* The fields of the local variables.
LEMMA LocalsAre ==
  ASSUME TypeInv, NEW t \in Threads
  PROVE  /\ loc[t].q \in Queues \cup {NoQueue} /\ loc[t].node \in Nat
         /\ loc[t].old \in [node : Nat, tag : Nat] /\ loc[t].new \in Nat
         /\ loc[t].value \in Nat /\ loc[t].last \in Nat /\ loc[t].to \in Nat
         /\ loc[t].dtor \in BOOLEAN
BY DEF TypeInv, Locals

\* What is assigned to them.
LEMMA LocalsKept ==
  ASSUME NEW l \in Locals
  PROVE  /\ \A x \in [node : Nat, tag : Nat] : [l EXCEPT !.old = x] \in Locals
         /\ \A x \in Nat : [l EXCEPT !.new = x] \in Locals
         /\ \A x \in Nat : [l EXCEPT !.node = x] \in Locals
         /\ \A x \in Nat : [l EXCEPT !.to = x] \in Locals
         /\ \A x, y \in Nat : [l EXCEPT !.node = x, !.last = y] \in Locals
         /\ \A x, y \in Nat : [l EXCEPT !.node = x, !.value = y] \in Locals
         /\ \A x \in [node : Nat, tag : Nat], y \in Nat :
              [l EXCEPT !.old = x, !.new = y] \in Locals
BY DEF Locals

\* What a thread starts from.
LEMMA NoLocalsAre ==
  /\ NoLocals \in Locals
  /\ NoLocals.q = NoQueue /\ NoLocals.value = 0 /\ NoLocals.last = 0 /\ ~ NoLocals.dtor
  /\ NoLocals.old \in [node : Nat, tag : Nat]
  /\ \A q \in Queues : [NoLocals EXCEPT !.q = q] \in Locals
  /\ \A q \in Queues : \A v \in Nat : [NoLocals EXCEPT !.q = q, !.value = v] \in Locals
  /\ \A q \in Queues : [NoLocals EXCEPT !.q = q, !.dtor = TRUE] \in Locals
BY DEF NoLocals, Locals

\* A successful exchange of top forgets what the thread had read of it.
LEMMA OldForgotten ==
  ASSUME NEW l \in Locals, NEW m, m = [l EXCEPT !.old = NoLocals.old]
  PROVE  /\ m.q = l.q /\ m.node = l.node /\ m.value = l.value /\ m.last = l.last /\ m.dtor = l.dtor
         /\ m \in Locals
<1>1. NoLocals.old \in [node : Nat, tag : Nat]
  BY NoLocalsAre
<1>2. m \in Locals
  BY <1>1, LocalsKept
<1>3. m.q = l.q /\ m.node = l.node /\ m.value = l.value /\ m.last = l.last /\ m.dtor = l.dtor
  BY DEF Locals
<1> QED
  BY <1>2, <1>3

\* The links that Reserve writes.
LEMMA ReserveLinks ==
  ASSUME TypeInv, NEW t \in Threads, NEW n, Reserve(t, n)
  PROVE  next' \in [Nodes -> Nat]
<1> DEFINE Last(i) == (i - count) % capacity = 0
<1>1. next' = [i \in Nodes |-> IF i \in count + 1 .. count + n
                              THEN IF Last(i) THEN 0 ELSE i + 1
                              ELSE next[i]]
  BY DEF Reserve
<1> HIDE DEF Last
<1>2. \A i \in Nodes : next[i] \in Nat /\ i + 1 \in Nat
  BY DEF TypeInv, Nodes
<1> QED
  BY ONLY <1>1, <1>2

\* The state of the places, as far as the types of the next state depend on it.
LEMMA PlacesTyped ==
  ASSUME TypeInv, NEW o, NEW Q, Placed(o, Q)
  PROVE  /\ \A t \in Threads : list[t] # 0 => list[t] \in Nodes
         /\ \A q \in Queues : tail[q] # 0 => tail[q] \in Nodes
<1>1. ASSUME NEW q \in Queues, tail[q] # 0 PROVE tail[q] \in Nodes
  <2>1. Q[q] \in Seq(Nodes) /\ Q[q] # << >> /\ tail[q] = Q[q][1]
    BY <1>1 DEF Placed, QueuesInv, Chain
  <2> QED
    BY <2>1, EmptySeq, ElementOfSeq
<1> QED
  BY <1>1 DEF Placed, ListsInv, First

\* A step keeps the types if what it assigns to pc and loc has them.
LEMMA SetTyped ==
  ASSUME TypeInv, NEW t \in Threads, NEW s \in Labels, NEW l \in Locals, Set(t, s, l)
  PROVE  pc' \in [Threads -> Labels] /\ loc' \in [Threads -> Locals]
BY DEF TypeInv, Set

\* The types are preserved.
LEMMA TypeNext ==
  ASSUME TypeInv, PopInv, ControlInv, NEW o, NEW Q, Placed(o, Q), [Next]_vars
  PROVE  TypeInv'
<1> USE MpscAssumption
<1> DEFINE Typed == pc' \in [Threads -> Labels] /\ loc' \in [Threads -> Locals]
<1>0. /\ \A l \in {"idle", "free", "popread", "popcas", "push", "pushcas", "alloc", "reserve",
                  "exchange", "link", "drain"} : l \in Labels
      /\ NoLocals.old \in [node : Nat, tag : Nat] /\ top \in [node : Nat, tag : Nat]
  BY NoLocalsAre DEF Labels, Resting, Popping, Pushing, TypeInv
<1>1. ASSUME NEW t \in Threads, Loaded(t) PROVE Typed
  <2>1. [loc[t] EXCEPT !.old = top] \in Locals
    BY <1>0, LocalsKept DEF TypeInv
  <2> QED
    BY <1>0, <1>1, <2>1, SetTyped DEF Loaded
<1>2. ASSUME NEW t \in Threads, PopLoad(t) PROVE TypeInv'
  BY <1>1, <1>2 DEF PopLoad, TypeInv, memory, pool, ends
<1>3. ASSUME NEW t \in Threads, PopRead(t) PROVE TypeInv'
  <2>1. slot[loc[t].old.node] \in Nat
    BY <1>3 DEF PopRead, PopInv, Popped, Popping, TypeInv
  <2>2. [loc[t] EXCEPT !.new = slot[loc[t].old.node]] \in Locals
    BY <2>1, LocalsKept DEF TypeInv
  <2>3. Typed
    BY <1>0, <1>3, <2>2, SetTyped DEF PopRead
  <2> QED
    BY <1>3, <2>3 DEF PopRead, TypeInv, memory, pool, ends
<1>4. ASSUME NEW t \in Threads, PopCas(t) PROVE TypeInv'
  <2>1. CASE top # loc[t].old
    BY <1>1, <1>4, <2>1 DEF PopCas, TypeInv, memory, ends
  <2>2. CASE top = loc[t].old
    <3>1. [loc[t] EXCEPT !.old = NoLocals.old, !.new = 0] \in Locals
      BY <1>0, LocalsKept DEF TypeInv
    <3>2. Typed
      BY <1>0, <1>4, <2>2, <3>1, SetTyped DEF PopCas
    <3>3. loc[t].new \in Nat
      BY LocalsAre
    <3>4. top' = [node |-> loc[t].new, tag |-> top.tag + 1] /\ list' = [list EXCEPT ![t] = top.node]
      BY <1>4, <2>2 DEF PopCas
    <3>5. top' \in [node : Nat, tag : Nat] /\ list' \in [Threads -> Nat]
      BY <3>3, <3>4 DEF TypeInv
    <3> QED
      BY <1>4, <3>2, <3>5 DEF PopCas, TypeInv, memory, ends
  <2> QED
    BY <2>1, <2>2
<1>5. ASSUME NEW t \in Threads, ReserveGlobalInternal(t) PROVE TypeInv'
  <2>1. CASE top.node # 0
    <3>1. Typed
      BY <1>0, <1>5, <2>1, SetTyped DEF ReserveGlobalInternal, TypeInv
    <3> QED
      BY <1>5, <2>1, <3>1 DEF ReserveGlobalInternal, TypeInv, ends
  <2>2. CASE top.node = 0
    <3>1. PICK n \in Nat : Reserve(t, n)
      BY <1>5, <2>2 DEF ReserveGlobalInternal, TypeInv
    <3>0. count + 1 \in Nat /\ count + n \in Nat /\ loc[t] \in Locals
      BY DEF TypeInv
    <3>2. [loc[t] EXCEPT !.node = count + 1, !.last = count + n] \in Locals
      BY <3>0, LocalsKept
    <3>3. Typed
      BY <1>0, <3>1, <3>2, SetTyped DEF Reserve
    <3>4. next' \in [Nodes -> Nat]
      BY <3>1, ReserveLinks
    <3>5. count' \in 0 .. MaxNodes
      BY <3>1 DEF Reserve, TypeInv
    <3> QED
      BY <1>5, <3>3, <3>4, <3>5 DEF ReserveGlobalInternal, TypeInv, ends
  <2> QED
    BY <2>1, <2>2
<1>6. ASSUME NEW t \in Threads, PushLoad(t) PROVE TypeInv'
  <2>1. [loc[t] EXCEPT !.old = top] \in Locals
    BY <1>0, LocalsKept DEF TypeInv
  <2>2. Typed
    BY <1>0, <1>6, <2>1, SetTyped DEF PushLoad
  <2> QED
    BY <1>6, <2>2 DEF PushLoad, TypeInv, memory, pool, ends
<1>7. ASSUME NEW t \in Threads, PushCas(t) PROVE TypeInv'
  <2>0. slot' \in [Nodes -> Nat]
    <3>1. loc[t].old.node \in Nat
      BY LocalsAre
    <3> QED
      BY <1>7, <3>1 DEF PushCas, TypeInv
  <2>1. CASE top # loc[t].old
    <3>1. [loc[t] EXCEPT !.old = top] \in Locals
      BY <1>0, LocalsKept DEF TypeInv
    <3>2. Typed
      BY <1>0, <1>7, <2>1, <3>1, SetTyped DEF PushCas
    <3> QED
      BY <1>7, <2>0, <2>1, <3>2 DEF PushCas, TypeInv, ends
  <2>2. CASE top = loc[t].old
    <3>0. Pushed(t) /\ top' = [node |-> loc[t].node, tag |-> top.tag + 1]
      BY <1>7, <2>2 DEF PushCas
    <3>1. top' \in [node : Nat, tag : Nat]
      BY <3>0, LocalsAre DEF TypeInv
    <3>2. PICK l : l = [loc[t] EXCEPT !.old = NoLocals.old]
      OBVIOUS
    <3>a. loc[t] \in Locals
      BY DEF TypeInv
    <3>3. l \in Locals
      BY <1>0, <3>2, <3>a, LocalsKept
    <3>b. l.node \in Nat /\ l.node + capacity \in Nat
      BY <3>3 DEF Locals, TypeInv
    <3>4. /\ [l EXCEPT !.node = @ + capacity] \in Locals
          /\ [l EXCEPT !.node = 0, !.last = 0] \in Locals
          /\ [l EXCEPT !.node = 0] \in Locals
      BY <3>3, <3>b, LocalsKept
    <3>5. Typed /\ list' \in [Threads -> Nat] /\ size' \in [Threads -> Nat]
      <4>1. CASE Set(t, "push", [l EXCEPT !.node = @ + capacity]) /\ UNCHANGED <<list, size>>
        BY <1>0, <3>4, <4>1, SetTyped DEF TypeInv
      <4>2. CASE Set(t, "alloc", [l EXCEPT !.node = 0, !.last = 0]) /\ UNCHANGED <<list, size>>
        BY <1>0, <3>4, <4>2, SetTyped DEF TypeInv
      <4>3. CASE /\ Set(t, IF l.dtor THEN "drain" ELSE "idle",
                          IF l.dtor THEN [l EXCEPT !.node = 0] ELSE NoLocals)
                 /\ list' = [list EXCEPT ![t] = 0]
                 /\ size' = [size EXCEPT ![t] = 0]
        <5>1. list' \in [Threads -> Nat] /\ size' \in [Threads -> Nat]
          BY <4>3 DEF TypeInv
        <5>2. CASE l.dtor
          BY <1>0, <3>4, <4>3, <5>1, <5>2, SetTyped
        <5>3. CASE ~ l.dtor
          BY <1>0, <4>3, <5>1, <5>3, SetTyped, NoLocalsAre
        <5> QED
          BY <5>2, <5>3
      <4> QED
        BY <3>0, <3>2, <4>1, <4>2, <4>3 DEF Pushed
    <3> QED
      BY <1>7, <2>0, <3>1, <3>5 DEF PushCas, TypeInv, ends
  <2> QED
    BY <2>1, <2>2
<1>8. ASSUME NEW t \in Threads, Take(t) PROVE TypeInv'
  <2>1. list[t] \in Nodes /\ next[list[t]] \in Nat
    BY <1>8, PlacesTyped DEF Take, TypeInv
  <2>2. next' \in [Nodes -> Nat] /\ list' \in [Threads -> Nat]
    BY <1>8, <2>1 DEF Take, TypeInv
  <2>3. CASE loc[t].value # 0
    <3>1. [loc[t] EXCEPT !.node = list[t], !.value = 0] \in Locals
      BY <2>1, LocalsKept DEF TypeInv, Nodes
    <3>2. Typed
      BY <1>0, <1>8, <2>3, <3>1, SetTyped DEF Take
    <3>3. slot' \in [Nodes -> Nat]
      BY <1>8, <2>3, LocalsAre DEF Take, TypeInv
    <3> QED
      BY <1>8, <2>2, <2>3, <3>2, <3>3 DEF Take, TypeInv, ends
  <2>4. CASE loc[t].value = 0
    <3>1. Typed
      BY <1>0, <1>8, <2>4, SetTyped, NoLocalsAre DEF Take
    <3>2. list[t] \in Nat
      BY DEF TypeInv
    <3>3. Initial(loc[t].q, list[t]) /\ UNCHANGED slot
      BY <1>8, <2>4 DEF Take
    <3>4. head' \in [Queues -> Nat] /\ tail' \in [Queues -> Nat]
      BY <3>2, <3>3 DEF Initial, TypeInv
    <3> QED
      BY <1>8, <2>2, <2>4, <3>1, <3>3, <3>4 DEF Take, TypeInv
  <2> QED
    BY <2>3, <2>4
<1>9. ASSUME NEW t \in Threads, Exchange(t) PROVE TypeInv'
  <2>1. loc[t].q \in Queues /\ head[loc[t].q] \in Nat /\ loc[t].node \in Nat
    BY <1>9, LocalsAre DEF Exchange, ControlInv, Control, Resting, TypeInv
  <2>2. [loc[t] EXCEPT !.to = head[loc[t].q]] \in Locals
    BY <2>1, LocalsKept DEF TypeInv
  <2>3. Typed
    BY <1>0, <1>9, <2>2, SetTyped DEF Exchange
  <2> QED
    BY <1>9, <2>1, <2>3 DEF Exchange, TypeInv, memory, pool
<1>10. ASSUME NEW t \in Threads, Link(t) PROVE TypeInv'
  <2>1. Typed
    BY <1>0, <1>10, SetTyped, NoLocalsAre DEF Link
  <2>2. next' \in [Nodes -> Nat]
    BY <1>10, LocalsAre DEF Link, TypeInv
  <2> QED
    BY <1>10, <2>1, <2>2 DEF Link, TypeInv, pool, ends
<1>11. ASSUME NEW t \in Threads, NEW q \in Queues, NEW l \in Locals, Advance(t, q, l), tail[q] # 0
       PROVE  TypeInv'
  <2>1. tail[q] \in Nodes /\ next[tail[q]] \in Nat /\ tail[q] \in Nat
    BY <1>11, PlacesTyped DEF TypeInv
  <2>2. /\ next' \in [Nodes -> Nat] /\ list' \in [Threads -> Nat] /\ tail' \in [Queues -> Nat]
        /\ size' \in [Threads -> Nat]
    BY <1>11, <2>1 DEF Advance, TypeInv
  <2>3. [l EXCEPT !.node = tail[q]] \in Locals
    BY <2>1, LocalsKept
  <2>4. PICK s \in Labels, m \in Locals : Set(t, s, m)
    BY <1>0, <1>11, <2>3, NoLocalsAre DEF Advance
  <2>5. Typed
    BY <2>4, SetTyped
  <2> QED
    BY <1>11, <2>2, <2>5 DEF Advance, TypeInv
<1>12. ASSUME NEW t \in Threads, NEW q \in Queues, Construct(t, q) \/ Emplace(t, q) \/ Destroy(t, q)
       PROVE  TypeInv'
  <2>1. CASE Construct(t, q)
    <3>1. Typed
      BY <1>0, <2>1, SetTyped, NoLocalsAre DEF Construct
    <3> QED
      BY <2>1, <3>1 DEF Construct, TypeInv, memory, pool, ends
  <2>2. CASE Emplace(t, q)
    <3>0. used' \in Nat /\ MaxNodes + used' \in Nat
      BY <2>2 DEF Emplace, TypeInv
    <3>1. Typed
      BY <1>0, <2>2, <3>0, SetTyped, NoLocalsAre DEF Emplace
    <3> QED
      BY <2>2, <3>0, <3>1 DEF Emplace, TypeInv, memory, pool, ends
  <2>3. CASE Destroy(t, q)
    <3>1. Typed
      BY <1>0, <2>3, SetTyped, NoLocalsAre DEF Destroy
    <3> QED
      BY <2>3, <3>1 DEF Destroy, TypeInv, memory, pool, ends
  <2> QED
    BY <1>12, <2>1, <2>2, <2>3
<1>13. ASSUME NEW t \in Threads, NEW q \in Queues, TryDequeue(t, q) PROVE TypeInv'
  BY <1>11, <1>13, NoLocalsAre DEF TryDequeue, Usable
<1>14. ASSUME NEW t \in Threads, Drain(t) PROVE TypeInv'
  <2>1. loc[t].q \in Queues /\ tail[loc[t].q] # 0 /\ loc[t] \in Locals
    BY <1>14 DEF Drain, ControlInv, Control, Resting, Allocating, Reserving, Popping, Pushing,
         TypeInv
  <2>2. CASE next[tail[loc[t].q]] # 0
    BY <1>11, <1>14, <2>1, <2>2 DEF Drain
  <2>3. CASE next[tail[loc[t].q]] = 0
    <3>1. Typed
      BY <1>0, <1>14, <2>3, SetTyped, NoLocalsAre DEF Drain
    <3>2. head' \in [Queues -> Nat] /\ tail' \in [Queues -> Nat] /\ instances' \in Int
      BY <1>14, <2>3 DEF Drain, TypeInv
    <3> QED
      BY <1>14, <2>3, <3>1, <3>2 DEF Drain, TypeInv, memory, pool
  <2> QED
    BY <2>2, <2>3
<1>15. ASSUME NEW t \in Threads, Free(t) \/ ThreadExit(t) PROVE TypeInv'
  <2>1. CASE Free(t)
    <3>1. Typed
      BY <1>0, <2>1, SetTyped, NoLocalsAre DEF Free
    <3> QED
      BY <2>1, <3>1 DEF Free, FreeGlobal, StackReset, ManagerReset, TypeInv, memory, pool, ends
  <2>2. CASE ThreadExit(t)
    BY <2>2 DEF ThreadExit, Unregister, TypeInv, memory, ends
  <2> QED
    BY <1>15, <2>1, <2>2
<1>16. CASE UNCHANGED vars
  BY <1>16 DEF vars, TypeInv
<1> QED
  BY <1>2, <1>3, <1>4, <1>5, <1>6, <1>7, <1>8, <1>9, <1>10, <1>12, <1>13, <1>14, <1>15, <1>16
  DEF Next

\* A thread in an operation.
LEMMA Inside ==
  ASSUME ControlInv, NEW t \in Threads, pc[t] \notin Resting
  PROVE  loc[t].q \in Queues /\ (~ Allocating(t) => tail[loc[t].q] # 0)
BY DEF ControlInv, Control

\* A step of t keeps ControlInv if t fits, if no queue of another thread is made or
\* destroyed, and if t enters only queues that live and nobody destroys.
LEMMA ControlOthers ==
  ASSUME ControlInv, NEW t \in Threads, NEW s, NEW l, Moves(t, s, l),
         \A u \in Threads \ {t} : loc[u].q \in Queues =>
           /\ tail'[loc[u].q] = 0 <=> tail[loc[u].q] = 0
           /\ loc[u].q = l.q => loc[t].q = l.q \/ (~ loc[u].dtor /\ tail[l.q] # 0),
         Control(t)'
  PROVE  ControlInv'
<1>1. ASSUME NEW u \in Threads \ {t} PROVE Control(u)'
  <2>1. pc'[u] = pc[u] /\ loc'[u] = loc[u] /\ loc'[t] = l /\ Control(u) /\ u # t
    BY DEF Moves, ControlInv
  <2>2. \A x \in Threads : x # t => loc'[x] = loc[x]
    BY DEF Moves
  <2>3. CASE pc[u] \in Resting
    BY <2>1, <2>3 DEF Control, Resting, Allocating, Reserving, Popping, Pushing, NoLocals
  <2>4. CASE pc[u] \notin Resting
    <3>1. loc[u].q \in Queues /\ (tail'[loc[u].q] = 0 <=> tail[loc[u].q] = 0)
      BY <2>1, <2>4 DEF Control
    <3>2. (loc[u].dtor \/ tail[loc[u].q] = 0) => \A x \in Threads : loc'[x].q = loc[u].q => x = u
      <4> SUFFICES ASSUME loc[u].dtor \/ tail[loc[u].q] = 0,
                          NEW x \in Threads, loc'[x].q = loc[u].q
                   PROVE  x = u
        OBVIOUS
      <4>1. \A y \in Threads : loc[y].q = loc[u].q => y = u
        BY <2>1, <2>4 DEF Control
      <4> QED
        BY <2>1, <2>2, <3>1, <4>1
    <3> QED
      BY <2>1, <2>4, <3>1, <3>2 DEF Control, Allocating, Reserving
  <2> QED
    BY <2>3, <2>4
<1> QED
  BY <1>1 DEF ControlInv

\* A step of t within its operation.
LEMMA ControlWithin ==
  ASSUME ControlInv, NEW t \in Threads, NEW s, NEW l, Moves(t, s, l), l.q = loc[t].q,
         \A q \in Queues : tail'[q] = 0 <=> tail[q] = 0, Control(t)'
  PROVE  ControlInv'
BY ControlOthers

\* A step that ends the operation of t.
LEMMA ControlEnded ==
  ASSUME ControlInv, NEW t \in Threads, NEW s \in Resting, Moves(t, s, NoLocals),
         \A u \in Threads \ {t} : loc[u].q \in Queues =>
           (tail'[loc[u].q] = 0 <=> tail[loc[u].q] = 0)
  PROVE  ControlInv'
<1>1. Control(t)'
  BY NoLocalsAre DEF Moves, Control, Resting, Allocating, Reserving, Popping, Pushing
<1>2. NoLocals.q \notin Queues
  BY NoLocalsAre, MpscAssumption
<1> HIDE DEF Control
<1> QED
  BY <1>1, <1>2, ControlOthers

\* The control states and the owners of the queues are preserved.
LEMMA ControlNext ==
  ASSUME TypeInv, ControlInv, NEW o, NEW Q, Placed(o, Q), [Next]_vars
  PROVE  ControlInv'
<1> DEFINE Same == \A q \in Queues : tail'[q] = 0 <=> tail[q] = 0
<1>1. ASSUME NEW t \in Threads, Loaded(t), pc[t] \in {"alloc", "popcas"}, tail' = tail
      PROVE  ControlInv'
  <2>1. PICK s, l :
           /\ s = (IF top.node = 0 THEN "reserve" ELSE "popread")
           /\ l = [loc[t] EXCEPT !.old = top]
    OBVIOUS
  <2>2. Moves(t, s, l)
    BY <1>1, <2>1, SetMoves DEF Loaded
  <2>3. l.q = loc[t].q /\ l.dtor = loc[t].dtor /\ l.value = loc[t].value /\ l.last = loc[t].last
    BY <2>1 DEF TypeInv, Locals
  <2>4. /\ loc[t].q \in Queues /\ ~ loc[t].dtor /\ loc[t].last = 0
        /\ loc[t].value = 0 <=> tail[loc[t].q] = 0
        /\ tail[loc[t].q] = 0 => \A u \in Threads : loc[u].q = loc[t].q => u = t
    BY <1>1 DEF ControlInv, Control, Resting, Allocating, Reserving, Popping, Pushing
  <2>5. pc'[t] \in {"reserve", "popread"} /\ loc'[t] = l /\ \A u \in Threads : loc'[u].q = loc[u].q
    BY <2>1, <2>2, <2>3 DEF Moves
  <2>6. Control(t)'
    BY <1>1, <2>3, <2>4, <2>5 DEF Control, Resting, Allocating, Reserving, Popping, Pushing
  <2> QED
    BY <1>1, <2>2, <2>3, <2>6, ControlWithin
<1>2. ASSUME NEW t \in Threads, PopLoad(t) PROVE ControlInv'
  BY <1>1, <1>2 DEF PopLoad, ends
<1>3. ASSUME NEW t \in Threads, PopRead(t) PROVE ControlInv'
  <2>1. PICK l : l = [loc[t] EXCEPT !.new = slot[loc[t].old.node]]
    OBVIOUS
  <2>2. Moves(t, "popcas", l) /\ tail' = tail /\ pc[t] = "popread"
    BY <1>3, <2>1, SetMoves DEF PopRead, ends
  <2>3. l.q = loc[t].q /\ l.dtor = loc[t].dtor /\ l.value = loc[t].value /\ l.last = loc[t].last
    BY <2>1 DEF TypeInv, Locals
  <2>4. Control(t)'
    BY <2>2, <2>3 DEF Moves, ControlInv, Control, Resting, Allocating, Reserving, Popping, Pushing
  <2> QED
    BY <2>2, <2>3, <2>4, ControlWithin
<1>4. ASSUME NEW t \in Threads, PopCas(t) PROVE ControlInv'
  <2>1. CASE top # loc[t].old
    BY <1>1, <1>4, <2>1 DEF PopCas, ends
  <2>2. CASE top = loc[t].old
    <3>1. PICK l : l = [loc[t] EXCEPT !.old = NoLocals.old, !.new = 0]
      OBVIOUS
    <3>2. Moves(t, "alloc", l) /\ tail' = tail /\ pc[t] = "popcas"
      BY <1>4, <2>2, <3>1, SetMoves DEF PopCas, ends
    <3>3. l.q = loc[t].q /\ l.dtor = loc[t].dtor /\ l.value = loc[t].value /\ l.last = loc[t].last
      BY <3>1 DEF TypeInv, Locals
    <3>4. Control(t)'
      BY <3>2, <3>3 DEF Moves, ControlInv, Control, Resting, Allocating, Reserving, Popping, Pushing
    <3> QED
      BY <3>2, <3>3, <3>4, ControlWithin
  <2> QED
    BY <2>1, <2>2
<1>5. ASSUME NEW t \in Threads, ReserveGlobalInternal(t) PROVE ControlInv'
  <2>1. CASE top.node # 0
    <3>1. Moves(t, "alloc", loc[t]) /\ tail' = tail /\ pc[t] = "reserve"
      BY <1>5, <2>1, SetMoves DEF ReserveGlobalInternal, ends
    <3>2. Control(t)'
      BY <3>1 DEF Moves, ControlInv, Control, Resting, Allocating, Reserving, Popping, Pushing
    <3> QED
      BY <3>1, <3>2, ControlWithin
  <2>2. CASE top.node = 0
    <3>1. PICK n \in Nat : Reserve(t, n) /\ n > 0
      BY <1>5, <2>2 DEF ReserveGlobalInternal, TypeInv
    <3>2. PICK l : l = [loc[t] EXCEPT !.node = count + 1, !.last = count + n]
      OBVIOUS
    <3>3. Moves(t, "push", l) /\ tail' = tail /\ pc[t] = "reserve"
      BY <1>5, <3>1, <3>2, SetMoves DEF ReserveGlobalInternal, Reserve, ends
    <3>4. l.q = loc[t].q /\ l.dtor = loc[t].dtor /\ l.value = loc[t].value /\ l.last = count + n
      BY <3>2 DEF TypeInv, Locals
    <3>5. l.last # 0
      BY <3>1, <3>4 DEF TypeInv
    <3>6. Control(t)'
      BY <3>3, <3>4, <3>5 DEF Moves, ControlInv, Control, Resting, Allocating, Reserving, Popping,
           Pushing
    <3> QED
      BY <3>3, <3>4, <3>6, ControlWithin
  <2> QED
    BY <2>1, <2>2
<1>6. ASSUME NEW t \in Threads, Set(t, "pushcas", [loc[t] EXCEPT !.old = top]), pc[t] \in Pushing,
             tail' = tail
      PROVE  ControlInv'
  <2>1. PICK l : l = [loc[t] EXCEPT !.old = top]
    OBVIOUS
  <2>2. Moves(t, "pushcas", l)
    BY <1>6, <2>1, SetMoves
  <2>3. l.q = loc[t].q /\ l.dtor = loc[t].dtor /\ l.value = loc[t].value /\ l.last = loc[t].last
    BY <2>1 DEF TypeInv, Locals
  <2>4. Control(t)'
    BY <1>6, <2>2, <2>3 DEF Moves, ControlInv, Control, Resting, Allocating, Reserving, Popping,
         Pushing
  <2> QED
    BY <1>6, <2>2, <2>3, <2>4, ControlWithin
<1>7. ASSUME NEW t \in Threads, PushLoad(t) PROVE ControlInv'
  BY <1>6, <1>7 DEF PushLoad, ends, Pushing
<1>8. ASSUME NEW t \in Threads, PushCas(t) PROVE ControlInv'
  <2>0. tail' = tail /\ pc[t] = "pushcas"
    BY <1>8 DEF PushCas, ends
  <2>1. CASE top # loc[t].old
    BY <1>6, <1>8, <2>0, <2>1 DEF PushCas, Pushing
  <2>2. CASE top = loc[t].old
    <3>0. Pushed(t)
      BY <1>8, <2>2 DEF PushCas
    <3>1. PICK l : l = [loc[t] EXCEPT !.old = NoLocals.old]
      OBVIOUS
    <3>2. /\ l.q = loc[t].q /\ l.dtor = loc[t].dtor /\ l.value = loc[t].value
          /\ l.last = loc[t].last /\ l \in Locals
      BY <3>1, OldForgotten DEF TypeInv
    <3>3. CASE l.last # 0 /\ Set(t, "push", [l EXCEPT !.node = @ + capacity])
      <4>1. PICK m : m = [l EXCEPT !.node = @ + capacity]
        OBVIOUS
      <4>2. Moves(t, "push", m)
        BY <3>3, <4>1, SetMoves
      <4>3. m.q = l.q /\ m.dtor = l.dtor /\ m.value = l.value /\ m.last = l.last
        BY <3>2, <4>1 DEF Locals
      <4>4. Control(t)'
        BY <2>0, <3>2, <3>3, <4>2, <4>3 DEF Moves, ControlInv, Control, Resting, Allocating,
             Reserving, Popping, Pushing
      <4> QED
        BY <2>0, <3>2, <4>2, <4>3, <4>4, ControlWithin
    <3>4. CASE l.last # 0 /\ Set(t, "alloc", [l EXCEPT !.node = 0, !.last = 0])
      <4>1. PICK m : m = [l EXCEPT !.node = 0, !.last = 0]
        OBVIOUS
      <4>2. Moves(t, "alloc", m)
        BY <3>4, <4>1, SetMoves
      <4>3. m.q = l.q /\ m.dtor = l.dtor /\ m.value = l.value /\ m.last = 0
        BY <3>2, <4>1 DEF Locals
      <4>4. Control(t)'
        BY <2>0, <3>2, <3>4, <4>2, <4>3 DEF Moves, ControlInv, Control, Resting, Allocating,
             Reserving, Popping, Pushing
      <4> QED
        BY <2>0, <3>2, <4>2, <4>3, <4>4, ControlWithin
    <3>5. CASE l.last = 0 /\ l.dtor /\ Set(t, "drain", [l EXCEPT !.node = 0])
      <4>1. PICK m : m = [l EXCEPT !.node = 0]
        OBVIOUS
      <4>2. Moves(t, "drain", m)
        BY <3>5, <4>1, SetMoves
      <4>3. m.q = l.q /\ m.dtor = l.dtor /\ m.value = l.value /\ m.last = l.last
        BY <3>2, <4>1 DEF Locals
      <4>5. /\ loc[t].q \in Queues /\ loc[t].value = 0 /\ tail[loc[t].q] # 0
            /\ \A u \in Threads : loc[u].q = loc[t].q => u = t
        BY <2>0, <3>2, <3>5 DEF ControlInv, Control, Resting, Allocating, Reserving, Popping,
             Pushing
      <4>6. pc'[t] = "drain" /\ loc'[t] = m /\ \A u \in Threads : loc'[u].q = loc[u].q
        BY <3>2, <4>2, <4>3 DEF Moves
      <4>4. Control(t)'
        BY <2>0, <3>2, <3>5, <4>3, <4>5, <4>6 DEF Control, Resting, Allocating, Reserving, Popping,
             Pushing
      <4> QED
        BY <2>0, <3>2, <4>2, <4>3, <4>4, ControlWithin
    <3>6. CASE l.last = 0 /\ ~ l.dtor /\ Set(t, "idle", NoLocals)
      <4>1. Moves(t, "idle", NoLocals) /\ "idle" \in Resting
        BY <3>6, SetMoves DEF Resting
      <4> QED
        BY <2>0, <4>1, ControlEnded
    <3> QED
      BY <3>0, <3>1, <3>2, <3>3, <3>4, <3>5, <3>6 DEF Pushed
  <2> QED
    BY <2>1, <2>2
<1>9. ASSUME NEW t \in Threads, Take(t) PROVE ControlInv'
  <2>1. loc[t].q \in Queues /\ pc[t] = "alloc" /\ list[t] # 0
    BY <1>9, Inside DEF Take, Resting
  <2>2. CASE loc[t].value # 0
    <3>1. PICK l : l = [loc[t] EXCEPT !.node = list[t], !.value = 0]
      OBVIOUS
    <3>2. Moves(t, "exchange", l) /\ tail' = tail
      BY <1>9, <2>2, <3>1, SetMoves DEF Take, ends
    <3>3. l.q = loc[t].q /\ l.dtor = loc[t].dtor /\ l.value = 0 /\ l.last = loc[t].last
      BY <3>1 DEF TypeInv, Locals
    <3>4. Control(t)'
      BY <2>1, <2>2, <3>2, <3>3 DEF Moves, ControlInv, Control, Resting, Allocating, Reserving,
           Popping, Pushing
    <3> QED
      BY <3>2, <3>3, <3>4, ControlWithin
  <2>3. CASE loc[t].value = 0
    <3>1. Moves(t, "idle", NoLocals) /\ "idle" \in Resting
      BY <1>9, <2>3, SetMoves DEF Take, Resting
    <3>2. \A u \in Threads \ {t} : loc[u].q # loc[t].q
      BY <2>1, <2>3 DEF ControlInv, Control, Resting, Allocating
    <3>3. tail' = [tail EXCEPT ![loc[t].q] = list[t]]
      BY <1>9, <2>3 DEF Take, Initial
    <3>4. \A u \in Threads \ {t} : loc[u].q \in Queues => tail'[loc[u].q] = tail[loc[u].q]
      BY <2>1, <3>2, <3>3 DEF TypeInv
    <3> QED
      BY <3>1, <3>4, ControlEnded
  <2> QED
    BY <2>2, <2>3
<1>10. ASSUME NEW t \in Threads, Exchange(t) PROVE ControlInv'
  <2>1. PICK l : l = [loc[t] EXCEPT !.to = head[loc[t].q]]
    OBVIOUS
  <2>2. Moves(t, "link", l) /\ tail' = tail /\ pc[t] = "exchange"
    BY <1>10, <2>1, SetMoves DEF Exchange
  <2>3. l.q = loc[t].q /\ l.dtor = loc[t].dtor /\ l.value = loc[t].value /\ l.last = loc[t].last
    BY <2>1 DEF TypeInv, Locals
  <2>4. Control(t)'
    BY <2>2, <2>3 DEF Moves, ControlInv, Control, Resting, Allocating, Reserving, Popping, Pushing
  <2> QED
    BY <2>2, <2>3, <2>4, ControlWithin
<1>11. ASSUME NEW t \in Threads, Link(t) PROVE ControlInv'
  <2>1. Moves(t, "idle", NoLocals) /\ "idle" \in Resting /\ tail' = tail
    BY <1>11, SetMoves DEF Link, Resting, ends
  <2> QED
    BY <2>1, ControlEnded
<1>12. ASSUME NEW t \in Threads, NEW q \in Queues, NEW l \in Locals, Advance(t, q, l), tail[q] # 0,
              next[tail[q]] # 0, l.q = q, l.value = 0, l.last = 0,
              \A u \in Threads \ {t} : loc[u].q = q => ~ loc[u].dtor,
              l.dtor => \A u \in Threads \ {t} : loc[u].q # q
       PROVE  ControlInv'
  <2>1. tail' = [tail EXCEPT ![q] = next[tail[q]]]
    BY <1>12 DEF Advance
  <2>2. \A p \in Queues : tail'[p] = 0 <=> tail[p] = 0
    BY <1>12, <2>1 DEF TypeInv
  <2>3. CASE size[t] + 1 >= capacity \/ l.dtor
    <3>1. PICK s, m :
             /\ s \in {"push", "drain"} /\ Set(t, s, m) /\ m \in {l, [l EXCEPT !.node = tail[q]]}
             /\ s = "drain" => l.dtor
      BY <1>12, <2>3 DEF Advance
    <3>2. Moves(t, s, m)
      BY <3>1, SetMoves
    <3>3. m.q = q /\ m.value = 0 /\ m.last = 0 /\ m.dtor = l.dtor
      BY <1>12, <3>1 DEF Locals
    <3>4. loc'[t] = m /\ pc'[t] = s /\ tail'[q] # 0 /\ \A u \in Threads \ {t} : loc'[u] = loc[u]
      BY <1>12, <2>2, <3>2 DEF Moves
    <3>5. l.dtor => \A u \in Threads : loc'[u].q = q => u = t
      BY <1>12, <3>4
    <3>6. Control(t)'
      BY <1>12, <3>1, <3>3, <3>4, <3>5 DEF Control, Resting, Allocating, Reserving, Popping, Pushing
    <3> QED
      BY <1>12, <2>2, <3>2, <3>3, <3>6, ControlOthers
  <2>4. CASE ~ (size[t] + 1 >= capacity \/ l.dtor)
    <3>1. Moves(t, "idle", NoLocals) /\ "idle" \in Resting
      BY <1>12, <2>4, SetMoves DEF Advance, Resting
    <3> QED
      BY <2>2, <3>1, ControlEnded
  <2> QED
    BY <2>3, <2>4
<1>13. ASSUME NEW t \in Threads, NEW q \in Queues, TryDequeue(t, q) PROVE ControlInv'
  <2>1. PICK l : l = [NoLocals EXCEPT !.q = q]
    OBVIOUS
  <2>2. l \in Locals /\ l.q = q /\ l.value = 0 /\ l.last = 0 /\ ~ l.dtor
    BY <2>1, NoLocalsAre DEF NoLocals
  <2>3. Advance(t, q, l) /\ tail[q] # 0 /\ next[tail[q]] # 0
    BY <1>13, <2>1 DEF TryDequeue, Usable
  <2>4. \A u \in Threads \ {t} : loc[u].q = q => ~ loc[u].dtor
    BY <1>13 DEF TryDequeue, Usable
  <2> QED
    BY <1>12, <2>2, <2>3, <2>4
<1>14. ASSUME NEW t \in Threads, Drain(t) PROVE ControlInv'
  <2>1. pc[t] = "drain" /\ loc[t].q \in Queues /\ tail[loc[t].q] # 0 /\ loc[t] \in Locals
    BY <1>14, Inside DEF Drain, Resting, Allocating, Reserving, Popping, Pushing, TypeInv
  <2>2. /\ loc[t].dtor /\ loc[t].value = 0 /\ loc[t].last = 0
        /\ \A u \in Threads \ {t} : loc[u].q # loc[t].q
    BY <2>1 DEF ControlInv, Control, Resting, Allocating, Reserving, Popping, Pushing
  <2>3. CASE next[tail[loc[t].q]] # 0
    <3>1. Advance(t, loc[t].q, loc[t])
      BY <1>14, <2>3 DEF Drain
    <3> QED
      BY <1>12, <2>1, <2>2, <2>3, <3>1
  <2>4. CASE next[tail[loc[t].q]] = 0
    <3>1. PICK s \in Resting : Moves(t, s, NoLocals)
      BY <1>14, <2>4, SetMoves DEF Drain, Resting
    <3>2. tail' = [tail EXCEPT ![loc[t].q] = 0]
      BY <1>14, <2>4 DEF Drain
    <3>3. \A u \in Threads \ {t} : loc[u].q \in Queues => tail'[loc[u].q] = tail[loc[u].q]
      BY <2>2, <3>2 DEF TypeInv
    <3> QED
      BY <3>1, <3>3, ControlEnded
  <2> QED
    BY <2>3, <2>4
<1>15. ASSUME NEW t \in Threads, NEW q \in Queues, Construct(t, q) PROVE ControlInv'
  <2>1. PICK l : l = [NoLocals EXCEPT !.q = q]
    OBVIOUS
  <2>2. l.q = q /\ l.value = 0 /\ l.last = 0 /\ ~ l.dtor
    BY <2>1, NoLocalsAre DEF NoLocals
  <2>3. Moves(t, "alloc", l) /\ tail' = tail /\ tail[q] = 0 /\ \A u \in Threads : loc[u].q # q
    BY <1>15, <2>1, SetMoves DEF Construct, ends, Quiet
  <2>4. Control(t)'
    BY <2>2, <2>3 DEF Moves, Control, Resting, Allocating, Reserving, Popping, Pushing
  <2> QED
    BY <2>2, <2>3, <2>4, ControlOthers
<1>16. ASSUME NEW t \in Threads, NEW q \in Queues, Emplace(t, q) PROVE ControlInv'
  <2>1. PICK l : l = [NoLocals EXCEPT !.q = q, !.value = MaxNodes + used']
    OBVIOUS
  <2>2. l.q = q /\ l.value = MaxNodes + used' /\ l.last = 0 /\ ~ l.dtor
    BY <2>1, NoLocalsAre DEF NoLocals
  <2>3. Moves(t, "alloc", l) /\ tail' = tail
    BY <1>16, <2>1, SetMoves DEF Emplace, ends
  <2>4. tail[q] # 0 /\ \A u \in Threads : loc[u].q = q => ~ loc[u].dtor
    BY <1>16 DEF Emplace, Usable
  <2>5. MaxNodes + used' # 0
    BY <1>16, MpscAssumption DEF Emplace, TypeInv
  <2>6. Control(t)'
    BY <2>2, <2>3, <2>4, <2>5 DEF Moves, Control, Resting, Allocating, Reserving, Popping, Pushing
  <2> QED
    BY <2>2, <2>3, <2>4, <2>6, ControlOthers
<1>17. ASSUME NEW t \in Threads, NEW q \in Queues, Destroy(t, q) PROVE ControlInv'
  <2>1. PICK l : l = [NoLocals EXCEPT !.q = q, !.dtor = TRUE]
    OBVIOUS
  <2>2. l.q = q /\ l.value = 0 /\ l.last = 0 /\ l.dtor
    BY <2>1, NoLocalsAre DEF NoLocals
  <2>3. Moves(t, "drain", l) /\ tail' = tail
    BY <1>17, <2>1, SetMoves DEF Destroy, ends
  <2>4. tail[q] # 0 /\ \A u \in Threads : loc[u].q # q
    BY <1>17 DEF Destroy, Usable, Quiet
  <2>5. Control(t)'
    BY <2>2, <2>3, <2>4 DEF Moves, Control, Resting, Allocating, Reserving, Popping, Pushing
  <2> QED
    BY <2>2, <2>3, <2>4, <2>5, ControlOthers
<1>18. ASSUME NEW t \in Threads, Free(t) PROVE ControlInv'
  <2>1. Moves(t, "idle", NoLocals) /\ "idle" \in Resting /\ tail' = tail
    BY <1>18, SetMoves DEF Free, Resting, ends
  <2> QED
    BY <2>1, ControlEnded
<1>19. ASSUME UNCHANGED <<tail, pc, loc>> PROVE ControlInv'
  BY <1>19 DEF ControlInv, Control, Allocating, Reserving
<1>20. ASSUME NEW t \in Threads, ThreadExit(t) PROVE ControlInv'
  BY <1>19, <1>20 DEF ThreadExit, ends
<1>21. CASE UNCHANGED vars
  BY <1>19, <1>21 DEF vars
<1> QED
  BY <1>2, <1>3, <1>4, <1>5, <1>7, <1>8, <1>9, <1>10, <1>11, <1>13, <1>14, <1>15, <1>16, <1>17,
     <1>18, <1>20, <1>21 DEF Next

\* A step that neither makes nor destroys a queue keeps the number of them.
LEMMA LiveKept ==
  ASSUME TypeInv, InstancesInv, NEW t \in Threads, NEW s, NEW l, Moves(t, s, l),
         \A p \in Queues : p # loc[t].q => (tail'[p] = 0 <=> tail[p] = 0),
         loc[t].q \in Queues => tail'[loc[t].q] # 0 \/ l.q = loc[t].q,
         l.q \in Queues => l.q = loc[t].q \/ tail[l.q] # 0,
         instances' = instances
  PROVE  InstancesInv'
<1>1. ASSUME NEW p \in Queues PROVE (tail'[p] # 0 \/ ~ Quiet(p)') <=> (tail[p] # 0 \/ ~ Quiet(p))
  <2>1. \A u \in Threads : u # t => loc'[u] = loc[u]
    BY DEF Moves
  <2>2. loc'[t] = l
    BY DEF Moves
  <2>3. CASE p = loc[t].q
    BY <2>2, <2>3 DEF Quiet
  <2>4. CASE p # loc[t].q /\ l.q = p
    BY <2>4
  <2>5. CASE p # loc[t].q /\ l.q # p
    <3>1. \A u \in Threads : loc'[u].q # p <=> loc[u].q # p
      BY <2>1, <2>2, <2>5
    <3>2. tail'[p] # 0 <=> tail[p] # 0
      BY <2>5
    <3> QED
      BY <3>1, <3>2 DEF Quiet
  <2> QED
    BY <2>3, <2>4, <2>5
<1>2. Live' = Live
  BY <1>1 DEF Live
<1> QED
  BY <1>2 DEF InstancesInv

\* instances counts the queues in every reachable state.
LEMMA InstancesNext ==
  ASSUME TypeInv, ControlInv, InstancesInv, NEW o, NEW Q, Placed(o, Q), [Next]_vars
  PROVE  InstancesInv'
<1>1. ASSUME UNCHANGED <<tail, loc, instances>> PROVE InstancesInv'
  BY <1>1 DEF InstancesInv, Live, Quiet
<1>2. ASSUME NEW t \in Threads, NEW s, NEW l, Moves(t, s, l), l.q = loc[t].q, tail' = tail,
             instances' = instances
      PROVE  InstancesInv'
  BY <1>2, LiveKept
<1>3. ASSUME NEW t \in Threads, NEW s, Moves(t, s, NoLocals), instances' = instances,
             \A p \in Queues : p # loc[t].q => (tail'[p] = 0 <=> tail[p] = 0),
             loc[t].q \in Queues => tail'[loc[t].q] # 0
      PROVE  InstancesInv'
  <2>1. NoLocals.q \notin Queues
    BY NoLocalsAre, MpscAssumption
  <2> QED
    BY <1>3, <2>1, LiveKept
<1>4. ASSUME NEW t \in Threads, Loaded(t), tail' = tail, instances' = instances PROVE InstancesInv'
  <2>1. PICK l : l = [loc[t] EXCEPT !.old = top]
    OBVIOUS
  <2>2. PICK s : Moves(t, s, l)
    BY <1>4, <2>1, SetMoves DEF Loaded
  <2>3. l.q = loc[t].q
    BY <2>1 DEF TypeInv, Locals
  <2> QED
    BY <1>2, <1>4, <2>2, <2>3
<1>5. ASSUME NEW t \in Threads, PopLoad(t) PROVE InstancesInv'
  BY <1>4, <1>5 DEF PopLoad, ends
<1>6. ASSUME NEW t \in Threads, PopRead(t) PROVE InstancesInv'
  <2>1. PICK l : l = [loc[t] EXCEPT !.new = slot[loc[t].old.node]]
    OBVIOUS
  <2>2. Moves(t, "popcas", l) /\ tail' = tail /\ instances' = instances
    BY <1>6, <2>1, SetMoves DEF PopRead, ends
  <2>3. l.q = loc[t].q
    BY <2>1 DEF TypeInv, Locals
  <2> QED
    BY <1>2, <2>2, <2>3
<1>7. ASSUME NEW t \in Threads, PopCas(t) PROVE InstancesInv'
  <2>1. CASE top # loc[t].old
    BY <1>4, <1>7, <2>1 DEF PopCas, ends
  <2>2. CASE top = loc[t].old
    <3>1. PICK l : l = [loc[t] EXCEPT !.old = NoLocals.old, !.new = 0]
      OBVIOUS
    <3>2. Moves(t, "alloc", l) /\ tail' = tail /\ instances' = instances
      BY <1>7, <2>2, <3>1, SetMoves DEF PopCas, ends
    <3>3. l.q = loc[t].q
      BY <3>1 DEF TypeInv, Locals
    <3> QED
      BY <1>2, <3>2, <3>3
  <2> QED
    BY <2>1, <2>2
<1>8. ASSUME NEW t \in Threads, ReserveGlobalInternal(t) PROVE InstancesInv'
  <2>0. tail' = tail /\ instances' = instances
    BY <1>8 DEF ReserveGlobalInternal, ends
  <2>1. CASE top.node # 0
    <3>1. Moves(t, "alloc", loc[t])
      BY <1>8, <2>1, SetMoves DEF ReserveGlobalInternal
    <3> QED
      BY <1>2, <2>0, <3>1
  <2>2. CASE top.node = 0
    <3>1. PICK n : Reserve(t, n)
      BY <1>8, <2>2 DEF ReserveGlobalInternal
    <3>2. PICK l : l = [loc[t] EXCEPT !.node = count + 1, !.last = count + n]
      OBVIOUS
    <3>3. Moves(t, "push", l)
      BY <3>1, <3>2, SetMoves DEF Reserve
    <3>4. l.q = loc[t].q
      BY <3>2 DEF TypeInv, Locals
    <3> QED
      BY <1>2, <2>0, <3>3, <3>4
  <2> QED
    BY <2>1, <2>2
<1>9. ASSUME NEW t \in Threads, Set(t, "pushcas", [loc[t] EXCEPT !.old = top]), tail' = tail,
             instances' = instances
      PROVE  InstancesInv'
  <2>1. PICK l : l = [loc[t] EXCEPT !.old = top]
    OBVIOUS
  <2>2. Moves(t, "pushcas", l)
    BY <1>9, <2>1, SetMoves
  <2>3. l.q = loc[t].q
    BY <2>1 DEF TypeInv, Locals
  <2> QED
    BY <1>2, <1>9, <2>2, <2>3
<1>10. ASSUME NEW t \in Threads, PushLoad(t) PROVE InstancesInv'
  BY <1>9, <1>10 DEF PushLoad, ends
<1>11. ASSUME NEW t \in Threads, PushCas(t) PROVE InstancesInv'
  <2>0. tail' = tail /\ instances' = instances
    BY <1>11 DEF PushCas, ends
  <2>1. CASE top # loc[t].old
    BY <1>9, <1>11, <2>0, <2>1 DEF PushCas
  <2>2. CASE top = loc[t].old
    <3>0. Pushed(t)
      BY <1>11, <2>2 DEF PushCas
    <3>1. PICK l : l = [loc[t] EXCEPT !.old = NoLocals.old]
      OBVIOUS
    <3>2. l.q = loc[t].q /\ l \in Locals /\ l.last = loc[t].last /\ l.dtor = loc[t].dtor
      BY <3>1, OldForgotten DEF TypeInv
    <3>3. \/ \E s : Set(t, s, [l EXCEPT !.node = @ + capacity])
          \/ \E s : Set(t, s, [l EXCEPT !.node = 0, !.last = 0])
          \/ \E s : Set(t, s, [l EXCEPT !.node = 0])
          \/ Set(t, "idle", NoLocals) /\ loc[t].last = 0
      BY <3>0, <3>1, <3>2 DEF Pushed
    <3>4. CASE Set(t, "idle", NoLocals) /\ loc[t].last = 0
      <4>1. Moves(t, "idle", NoLocals)
        BY <3>4, SetMoves
      <4>2. loc[t].q \in Queues => tail[loc[t].q] # 0
        BY <1>11, <3>4, Inside DEF PushCas, Resting, Allocating, Reserving, Popping
      <4> QED
        BY <1>3, <2>0, <4>1, <4>2
    <3>5. CASE ~ (Set(t, "idle", NoLocals) /\ loc[t].last = 0)
      <4>1. PICK s, m : /\ Set(t, s, m)
                        /\ m \in {[l EXCEPT !.node = @ + capacity], [l EXCEPT !.node = 0],
                                  [l EXCEPT !.node = 0, !.last = 0]}
        BY <3>3, <3>5
      <4>2. Moves(t, s, m) /\ m.q = l.q
        BY <3>2, <4>1, SetMoves DEF Locals
      <4> QED
        BY <1>2, <2>0, <3>2, <4>2
    <3> QED
      BY <3>4, <3>5
  <2> QED
    BY <2>1, <2>2
<1>12. ASSUME NEW t \in Threads, Take(t) PROVE InstancesInv'
  <2>1. loc[t].q \in Queues /\ pc[t] = "alloc" /\ list[t] # 0 /\ instances' = instances
    BY <1>12, Inside DEF Take, Resting
  <2>2. CASE loc[t].value # 0
    <3>1. PICK l : l = [loc[t] EXCEPT !.node = list[t], !.value = 0]
      OBVIOUS
    <3>2. Moves(t, "exchange", l) /\ tail' = tail
      BY <1>12, <2>2, <3>1, SetMoves DEF Take, ends
    <3>3. l.q = loc[t].q
      BY <3>1 DEF TypeInv, Locals
    <3> QED
      BY <1>2, <2>1, <3>2, <3>3
  <2>3. CASE loc[t].value = 0
    <3>1. Moves(t, "idle", NoLocals)
      BY <1>12, <2>3, SetMoves DEF Take
    <3>2. tail' = [tail EXCEPT ![loc[t].q] = list[t]]
      BY <1>12, <2>3 DEF Take, Initial
    <3>3. tail'[loc[t].q] # 0 /\ \A p \in Queues : p # loc[t].q => tail'[p] = tail[p]
      BY <2>1, <3>2 DEF TypeInv
    <3> QED
      BY <1>3, <2>1, <3>1, <3>3
  <2> QED
    BY <2>2, <2>3
<1>13. ASSUME NEW t \in Threads, Exchange(t) PROVE InstancesInv'
  <2>1. PICK l : l = [loc[t] EXCEPT !.to = head[loc[t].q]]
    OBVIOUS
  <2>2. Moves(t, "link", l) /\ tail' = tail /\ instances' = instances
    BY <1>13, <2>1, SetMoves DEF Exchange
  <2>3. l.q = loc[t].q
    BY <2>1 DEF TypeInv, Locals
  <2> QED
    BY <1>2, <2>2, <2>3
<1>14. ASSUME NEW t \in Threads, Link(t) PROVE InstancesInv'
  <2>1. Moves(t, "idle", NoLocals) /\ tail' = tail /\ instances' = instances
    BY <1>14, SetMoves DEF Link, ends
  <2>2. loc[t].q \in Queues => tail[loc[t].q] # 0
    BY <1>14, Inside DEF Link, Resting, Allocating, Reserving, Popping, Pushing
  <2> QED
    BY <1>3, <2>1, <2>2
<1>15. ASSUME NEW t \in Threads, NEW q \in Queues, NEW l \in Locals, Advance(t, q, l), tail[q] # 0,
              next[tail[q]] # 0, l.q = q, loc[t].q \in {q, NoQueue}
       PROVE  InstancesInv'
  <2>1. tail' = [tail EXCEPT ![q] = next[tail[q]]] /\ instances' = instances
    BY <1>15 DEF Advance
  <2>2. (\A p \in Queues : tail'[p] = 0 <=> tail[p] = 0) /\ tail'[q] # 0
    BY <1>15, <2>1 DEF TypeInv
  <2>3. PICK s, m : Set(t, s, m) /\ m \in {l, [l EXCEPT !.node = tail[q]], NoLocals}
    BY <1>15 DEF Advance
  <2>4. m.q \in {q, NoQueue}
    BY <1>15, <2>3, NoLocalsAre DEF Locals
  <2>5. Moves(t, s, m)
    BY <2>3, SetMoves
  <2> QED
    BY <1>15, <2>1, <2>2, <2>4, <2>5, MpscAssumption, LiveKept
<1>16. ASSUME NEW t \in Threads, NEW q \in Queues, TryDequeue(t, q) PROVE InstancesInv'
  <2>1. PICK l : l = [NoLocals EXCEPT !.q = q]
    OBVIOUS
  <2>2. l \in Locals /\ l.q = q
    BY <2>1, NoLocalsAre DEF NoLocals
  <2>3. Advance(t, q, l) /\ tail[q] # 0 /\ next[tail[q]] # 0
    BY <1>16, <2>1 DEF TryDequeue, Usable
  <2>4. loc[t].q = NoQueue
    BY <1>16, NoLocalsAre DEF TryDequeue, ControlInv, Control, Resting
  <2> QED
    BY <1>15, <2>2, <2>3, <2>4
<1>17. ASSUME NEW t \in Threads, Drain(t) PROVE InstancesInv'
  <2>1. pc[t] = "drain" /\ loc[t].q \in Queues /\ tail[loc[t].q] # 0 /\ loc[t] \in Locals
    BY <1>17, Inside DEF Drain, Resting, Allocating, Reserving, Popping, Pushing, TypeInv
  <2>2. \A u \in Threads : loc[u].q = loc[t].q => u = t
    BY <2>1 DEF ControlInv, Control, Resting, Allocating, Reserving, Popping, Pushing
  <2>3. CASE next[tail[loc[t].q]] # 0
    <3>1. Advance(t, loc[t].q, loc[t])
      BY <1>17, <2>3 DEF Drain
    <3> QED
      BY <1>15, <2>1, <2>3, <3>1
  <2>4. CASE next[tail[loc[t].q]] = 0
    <3>1. PICK s, q : Moves(t, s, NoLocals) /\ q = loc[t].q
      BY <1>17, <2>4, SetMoves DEF Drain
    <3>2. tail' = [tail EXCEPT ![q] = 0] /\ instances' = instances - 1
      BY <1>17, <2>4, <3>1 DEF Drain
    <3>3. \A p \in Queues : tail'[p] = IF p = q THEN 0 ELSE tail[p]
      BY <3>2 DEF TypeInv
    <3>4. \A u \in Threads : loc'[u].q = IF u = t THEN NoQueue ELSE loc[u].q
      BY <3>1, NoLocalsAre DEF Moves
    <3>5. ASSUME NEW p \in Queues, p # q PROVE Quiet(p)' <=> Quiet(p)
      BY <3>1, <3>4, <3>5, MpscAssumption DEF Quiet
    <3>6. Quiet(q)' /\ q \in Queues
      BY <2>1, <2>2, <3>1, <3>4, MpscAssumption DEF Quiet
    <3>7. Live' = Live \ {q} /\ q \in Live
      BY <2>1, <3>1, <3>3, <3>5, <3>6 DEF Live
    <3> QED
      BY <3>2, <3>7, FS_RemoveElement DEF InstancesInv
  <2> QED
    BY <2>3, <2>4
<1>18. ASSUME NEW t \in Threads, NEW q \in Queues, Construct(t, q) PROVE InstancesInv'
  <2>1. PICK l : l = [NoLocals EXCEPT !.q = q]
    OBVIOUS
  <2>2. l.q = q /\ loc[t].q = NoQueue
    BY <1>18, <2>1, NoLocalsAre DEF NoLocals, Construct, ControlInv, Control, Resting
  <2>3. /\ Moves(t, "alloc", l) /\ tail' = tail /\ tail[q] = 0 /\ Quiet(q)
        /\ instances' = instances + 1
    BY <1>18, <2>1, SetMoves DEF Construct, ends
  <2>4. \A u \in Threads : loc'[u].q = IF u = t THEN q ELSE loc[u].q
    BY <2>2, <2>3 DEF Moves
  <2>5. ASSUME NEW p \in Queues, p # q PROVE Quiet(p)' <=> Quiet(p)
    BY <2>2, <2>4, <2>5, MpscAssumption DEF Quiet
  <2>6. ~ Quiet(q)'
    BY <2>4 DEF Quiet
  <2>7. Live' = Live \cup {q} /\ q \notin Live
    BY <2>3, <2>5, <2>6 DEF Live
  <2> QED
    BY <2>3, <2>7, FS_AddElement DEF InstancesInv
<1>19. ASSUME NEW t \in Threads, NEW q \in Queues, Emplace(t, q) \/ Destroy(t, q)
       PROVE  InstancesInv'
  <2>2. PICK s, m : Set(t, s, m) /\ m \in {[NoLocals EXCEPT !.q = q, !.value = MaxNodes + used'],
                                           [NoLocals EXCEPT !.q = q, !.dtor = TRUE]}
    BY <1>19 DEF Emplace, Destroy
  <2>3. Moves(t, s, m) /\ m.q = q
    BY <2>2, SetMoves DEF NoLocals
  <2>4. tail' = tail /\ instances' = instances /\ tail[q] # 0
    BY <1>19 DEF Emplace, Destroy, ends, Usable
  <2>5. loc[t].q = NoQueue
    BY <1>19, NoLocalsAre DEF Emplace, Destroy, ControlInv, Control, Resting
  <2> QED
    BY <2>3, <2>4, <2>5, MpscAssumption, LiveKept
<1>20. ASSUME NEW t \in Threads, Free(t) PROVE InstancesInv'
  <2>1. Moves(t, "idle", NoLocals) /\ tail' = tail /\ instances' = instances /\ loc[t] = NoLocals
    BY <1>20, SetMoves DEF Free, ends, ControlInv, Control, Resting
  <2> QED
    BY <1>2, <2>1
<1>21. ASSUME NEW t \in Threads, ThreadExit(t) PROVE InstancesInv'
  BY <1>1, <1>21 DEF ThreadExit, ends
<1>22. CASE UNCHANGED vars
  BY <1>1, <1>22 DEF vars
<1> QED
  BY <1>5, <1>6, <1>7, <1>8, <1>10, <1>11, <1>12, <1>13, <1>14, <1>16, <1>17, <1>18, <1>19, <1>20,
     <1>21, <1>22 DEF Next

\* The places differ.
LEMMA PlacesDiffer ==
  /\ \A x, y : /\ InQueue(x) # InList(y) /\ InQueue(x) # InHand(y) /\ InQueue(x) # InChunk(y)
               /\ InList(x) # InHand(y) /\ InList(x) # InChunk(y) /\ InHand(x) # InChunk(y)
               /\ InQueue(x) = InQueue(y) => x = y
               /\ InList(x) = InList(y) => x = y
               /\ InHand(x) = InHand(y) => x = y
               /\ InChunk(x) = InChunk(y) => x = y
  /\ \A x : /\ InQueue(x) # Nowhere /\ InList(x) # Nowhere /\ InHand(x) # Nowhere
            /\ InChunk(x) # Nowhere
            /\ ~ OnChain(InQueue(x)) /\ ~ OnChain(InHand(x))
            /\ OnChain(InList(x)) /\ OnChain(InChunk(x))
  /\ ~ OnChain(Nowhere)
BY DEF InQueue, InList, InHand, InChunk, Nowhere, OnChain

\* The node a thread pushes is in no chunk.
LEMMA PushedIsPrivate ==
  ASSUME NEW o, NEW Q, Placed(o, Q), NEW t \in Threads, pc[t] \in Pushing
  PROVE  /\ loc[t].node \in Nodes
         /\ o[loc[t].node] = IF loc[t].last = 0 THEN InList(t) ELSE InHand(t)
         /\ \A c : o[loc[t].node] # InChunk(c)
         /\ loc[t].node # top.node
<1>1. CASE loc[t].last = 0
  <2>1. loc[t].node = list[t] /\ list[t] # 0
    BY <1>1 DEF Placed, HandsInv, Holding, GivingBack
  <2>2. loc[t].node \in Nodes /\ o[loc[t].node] = InList(t)
    BY <2>1 DEF Placed, ListsInv, First
  <2> QED
    BY <1>1, <2>2, PlacesDiffer DEF Placed, StackInv, Stacked, Nodes
<1>2. CASE loc[t].last # 0
  <2>1. Reserving(t)
    BY <1>2 DEF Reserving
  <2>2. /\ {loc[t].node, loc[t].last} \subseteq Nodes /\ loc[t].node <= loc[t].last
        /\ \A i \in loc[t].node .. loc[t].last : o[i] = InHand(t)
    BY <2>1 DEF Placed, HandsInv, Holding
  <2>3. loc[t].node \in Nodes /\ o[loc[t].node] = InHand(t)
    BY <2>2, MpscAssumption DEF Nodes
  <2> QED
    BY <1>2, <2>3, PlacesDiffer DEF Placed, StackInv, Stacked, Nodes
<1> QED
  BY <1>1, <1>2

\* A step of t keeps PopInv if it leaves the top alone or raises its tag.
LEMMA PopOthers ==
  ASSUME TypeInv, TypeInv', PopInv, NEW t \in Threads, NEW s, NEW l, Moves(t, s, l),
         \/ top' = top /\ (top.node \in Nodes => slot'[top.node] = slot[top.node])
         \/ top'.tag > top.tag,
         Popped(t)'
  PROVE  PopInv'
<1>1. ASSUME NEW u \in Threads, u # t PROVE Popped(u)'
  <2>1. pc'[u] = pc[u] /\ loc'[u] = loc[u] /\ Popped(u)
    BY <1>1 DEF Moves, PopInv
  <2>2. CASE top' = top /\ (top.node \in Nodes => slot'[top.node] = slot[top.node])
    BY <2>1, <2>2 DEF Popped, Popping
  <2>3. CASE top'.tag > top.tag
    <3>1. top.tag \in Nat /\ top'.tag \in Nat /\ loc[u].old.tag \in Nat
      BY LocalsAre DEF TypeInv
    <3>2. pc[u] \in Popping => loc[u].old.tag < top'.tag
      BY <2>1, <2>3, <3>1 DEF Popped
    <3> QED
      BY <2>1, <3>1, <3>2 DEF Popped, Popping
  <2> QED
    BY <2>2, <2>3
<1> QED
  BY <1>1 DEF PopInv

\* A thread that is not in Try_pop has read no top.
LEMMA PopElsewhere ==
  ASSUME NEW t \in Threads, pc'[t] \notin Popping
  PROVE  Popped(t)'
BY DEF Popped, Popping

\* The tops that threads have read are not newer than the top.
LEMMA PopNext ==
  ASSUME TypeInv, TypeInv', ControlInv, InstancesInv, PopInv, NEW o, NEW Q, Placed(o, Q),
         [Next]_vars
  PROVE  PopInv'
<1>0. \A s \in Labels : s \in Popping <=> s \in {"popread", "popcas"}
  BY DEF Popping
<1>1. ASSUME NEW t \in Threads, Loaded(t), UNCHANGED <<top, slot>> PROVE PopInv'
  <2>1. PICK s, l : /\ Set(t, s, l)
                    /\ s = IF top.node = 0 THEN "reserve" ELSE "popread"
                    /\ l = [loc[t] EXCEPT !.old = top]
    BY <1>1 DEF Loaded
  <2>2. Moves(t, s, l)
    BY <2>1, SetMoves
  <2>3. l.old = top
    BY <2>1 DEF TypeInv, Locals
  <2>4. top.node # 0 => top.node \in Nodes
    BY DEF Placed, StackInv, Stacked
  <2>5. pc'[t] = s /\ loc'[t] = l
    BY <2>2 DEF Moves
  <2>6. top.tag \in Nat
    BY DEF TypeInv
  <2>7. Popped(t)'
    BY <1>1, <2>1, <2>3, <2>4, <2>5, <2>6 DEF Popped, Popping
  <2> QED
    BY <1>1, <2>2, <2>7, PopOthers
<1>2. ASSUME NEW t \in Threads, NEW s, NEW l, Set(t, s, l), s \notin Popping,
             \/ top' = top /\ (top.node \in Nodes => slot'[top.node] = slot[top.node])
             \/ top'.tag > top.tag
      PROVE  PopInv'
  <2>1. Moves(t, s, l)
    BY <1>2, SetMoves
  <2>2. Popped(t)'
    BY <1>2, <2>1, PopElsewhere DEF Moves
  <2> QED
    BY <1>2, <2>1, <2>2, PopOthers
<1>3. ASSUME NEW t \in Threads, PopLoad(t) PROVE PopInv'
  BY <1>1, <1>3 DEF PopLoad, memory
<1>4. ASSUME NEW t \in Threads, PopRead(t) PROVE PopInv'
  <2>1. PICK l : l = [loc[t] EXCEPT !.new = slot[loc[t].old.node]]
    OBVIOUS
  <2>2. Moves(t, "popcas", l) /\ top' = top /\ slot' = slot /\ pc[t] = "popread"
    BY <1>4, <2>1, SetMoves DEF PopRead, memory
  <2>3. l.old = loc[t].old /\ l.new = slot[loc[t].old.node]
    BY <2>1 DEF TypeInv, Locals
  <2>4. Popped(t)'
    BY <2>2, <2>3 DEF Moves, PopInv, Popped, Popping
  <2> QED
    BY <2>2, <2>4, PopOthers
<1>5. ASSUME NEW t \in Threads, PopCas(t) PROVE PopInv'
  <2>1. CASE top # loc[t].old
    BY <1>1, <1>5, <2>1 DEF PopCas, memory
  <2>2. CASE top = loc[t].old
    <3>1. PICK l : Set(t, "alloc", l)
      BY <1>5, <2>2 DEF PopCas
    <3>2. top'.tag > top.tag
      BY <1>5, <2>2 DEF PopCas, TypeInv
    <3> QED
      BY <1>2, <3>1, <3>2 DEF Popping
  <2> QED
    BY <2>1, <2>2
<1>6. ASSUME NEW t \in Threads, ReserveGlobalInternal(t) PROVE PopInv'
  <2>1. PICK s, l : Set(t, s, l) /\ s \in {"alloc", "push"}
    BY <1>6 DEF ReserveGlobalInternal, Reserve
  <2> QED
    BY <1>2, <1>6, <2>1 DEF Popping, ReserveGlobalInternal
<1>7. ASSUME NEW t \in Threads, PushLoad(t) PROVE PopInv'
  BY <1>2, <1>7 DEF PushLoad, memory, Popping
<1>8. ASSUME NEW t \in Threads, PushCas(t) PROVE PopInv'
  <2>0. loc[t].node # top.node
    BY <1>8, PushedIsPrivate DEF PushCas, Pushing
  <2>1. PICK s, l : Set(t, s, l) /\ s \in {"pushcas", "push", "alloc", "drain", "idle"}
    BY <1>8 DEF PushCas, Pushed
  <2>2. CASE top # loc[t].old
    <3>1. top' = top /\ (top.node \in Nodes => slot'[top.node] = slot[top.node])
      BY <1>8, <2>0, <2>2 DEF PushCas, TypeInv
    <3> QED
      BY <1>2, <2>1, <3>1 DEF Popping
  <2>3. CASE top = loc[t].old
    <3>1. top'.tag > top.tag
      BY <1>8, <2>3 DEF PushCas, TypeInv
    <3> QED
      BY <1>2, <2>1, <3>1 DEF Popping
  <2> QED
    BY <2>2, <2>3
<1>9. ASSUME NEW t \in Threads, Take(t) PROVE PopInv'
  <2>1. PICK s, l : Set(t, s, l) /\ s \in {"exchange", "idle"}
    BY <1>9 DEF Take
  <2>2. list[t] \in Nodes /\ o[list[t]] = InList(t)
    BY <1>9 DEF Take, Placed, ListsInv, First
  <2>3. top.node # list[t]
    <3>1. top.node # 0 => o[top.node] = InChunk(top.node)
      BY DEF Placed, StackInv, Stacked
    <3>2. list[t] # 0
      BY <1>9 DEF Take
    <3> QED
      BY <2>2, <3>1, <3>2, PlacesDiffer
  <2>4. top' = top /\ (slot' = slot \/ slot' = [slot EXCEPT ![list[t]] = loc[t].value])
    BY <1>9 DEF Take
  <2>5. top.node \in Nodes => slot'[top.node] = slot[top.node]
    BY <2>3, <2>4 DEF TypeInv
  <2> QED
    BY <1>2, <2>1, <2>4, <2>5 DEF Popping
<1>10. ASSUME NEW t \in Threads, Exchange(t) PROVE PopInv'
  BY <1>2, <1>10 DEF Exchange, memory, Popping
<1>11. ASSUME NEW t \in Threads, Link(t) PROVE PopInv'
  BY <1>2, <1>11 DEF Link, Popping
<1>12. ASSUME NEW t \in Threads, NEW q, NEW l, Advance(t, q, l) PROVE PopInv'
  <2>1. PICK s, m : Set(t, s, m) /\ s \in {"push", "drain", "idle"}
    BY <1>12 DEF Advance
  <2> QED
    BY <1>2, <1>12, <2>1 DEF Advance, Popping
<1>13. ASSUME NEW t \in Threads, NEW q \in Queues, TryDequeue(t, q) PROVE PopInv'
  BY <1>12, <1>13 DEF TryDequeue
<1>14. ASSUME NEW t \in Threads, Drain(t) PROVE PopInv'
  <2>1. CASE next[tail[loc[t].q]] # 0
    BY <1>12, <1>14, <2>1 DEF Drain
  <2>2. CASE next[tail[loc[t].q]] = 0
    <3>1. PICK s : Set(t, s, NoLocals) /\ s \in {"free", "idle"}
      BY <1>14, <2>2 DEF Drain
    <3> QED
      BY <1>2, <1>14, <2>2, <3>1 DEF Drain, memory, Popping
  <2> QED
    BY <2>1, <2>2
<1>15. ASSUME NEW t \in Threads, NEW q \in Queues, Construct(t, q) \/ Emplace(t, q) \/ Destroy(t, q)
       PROVE  PopInv'
  <2>1. PICK s, m : Set(t, s, m) /\ s \in {"alloc", "drain"}
    BY <1>15 DEF Construct, Emplace, Destroy
  <2> QED
    BY <1>2, <1>15, <2>1 DEF Construct, Emplace, Destroy, memory, Popping
<1>16. ASSUME NEW t \in Threads, Free(t) PROVE PopInv'
  <2>1. CASE instances # 0
    BY <1>2, <1>16, <2>1 DEF Free, memory, Popping
  <2>2. CASE instances = 0
    <3>1. Live = {}
      BY <2>2, FS_EmptySet DEF InstancesInv
    <3>2. \A u \in Threads : pc[u] \in Resting
      BY <3>1 DEF Live, Quiet, ControlInv, Control
    <3>3. \A u \in Threads : pc'[u] \in Resting
      BY <1>16, <3>2 DEF Free, Set, Resting, TypeInv
    <3> QED
      BY <3>3 DEF PopInv, Popped, Popping, Resting
  <2> QED
    BY <2>1, <2>2
<1>17. ASSUME UNCHANGED <<top, slot, pc, loc>> PROVE PopInv'
  BY <1>17 DEF PopInv, Popped
<1>18. ASSUME NEW t \in Threads, ThreadExit(t) PROVE PopInv'
  BY <1>17, <1>18 DEF ThreadExit, memory
<1>19. CASE UNCHANGED vars
  BY <1>17, <1>19 DEF vars
<1> QED
  BY <1>3, <1>4, <1>5, <1>6, <1>7, <1>8, <1>9, <1>10, <1>11, <1>13, <1>14, <1>15, <1>16, <1>18,
     <1>19 DEF Next

-----------------------------------------------------------------------------
(* The places of the nodes.                                                *)

\* The nodes of a queue.
LEMMA QueueNodes ==
  ASSUME NEW o, NEW Q, QueuesInv(o, Q), NEW q \in Queues
  PROVE  /\ Q[q] \in Seq(Nodes)
         /\ \A i \in 1 .. Len(Q[q]) : Q[q][i] \in Nodes /\ o[Q[q][i]] = InQueue(q)
         /\ Len(Q[q]) \in Nat
         /\ Q[q] = << >> <=> Len(Q[q]) = 0
         /\ tail[q] = 0 <=> Len(Q[q]) = 0
<1>1. Q[q] \in Seq(Nodes) /\ Chain(o, q, Q[q])
  BY DEF QueuesInv, Chain
<1>2. Len(Q[q]) \in Nat /\ (Q[q] = << >> <=> Len(Q[q]) = 0)
  BY <1>1, LenProperties, EmptySeq
<1>3. \A i \in 1 .. Len(Q[q]) : Q[q][i] \in Nodes
  BY <1>1, ElementOfSeq
<1> QED
  BY <1>1, <1>2, <1>3 DEF Chain

\* A thread that has exchanged head_ has a gap in its queue.
LEMMA GapIs ==
  ASSUME TypeInv, ControlInv, NEW o, NEW Q, QueuesInv(o, Q), NEW t \in Threads, pc[t] = "link"
  PROVE  /\ loc[t].q \in Queues /\ Len(Q[loc[t].q]) \in Nat
         /\ \E i \in 1 .. Len(Q[loc[t].q]) - 1 :
              /\ loc[t].to = Q[loc[t].q][i] /\ loc[t].node = Q[loc[t].q][i + 1]
              /\ i \in 1 .. Len(Q[loc[t].q]) /\ i + 1 \in 1 .. Len(Q[loc[t].q])
         /\ loc[t].to \in Nodes /\ loc[t].node \in Nodes
         /\ o[loc[t].to] = InQueue(loc[t].q) /\ o[loc[t].node] = InQueue(loc[t].q)
         /\ next[loc[t].to] = 0
         /\ \A u \in Threads : Linking(u, loc[t].to) => u = t
<1>1. loc[t].q \in Queues
  BY Inside DEF Resting
<1>2. PICK q \in Queues : q = loc[t].q
  BY <1>1
<1>3. Gap(t, Q)
  BY DEF QueuesInv
<1>4. /\ Len(Q[q]) \in Nat
      /\ \A i \in 1 .. Len(Q[q]) : Q[q][i] \in Nodes /\ o[Q[q][i]] = InQueue(q)
  BY QueueNodes
<1>5. PICK i \in 1 .. Len(Q[q]) - 1 : loc[t].to = Q[q][i] /\ loc[t].node = Q[q][i + 1]
  BY <1>2, <1>3 DEF Gap
<1>6. i \in 1 .. Len(Q[q]) /\ i + 1 \in 1 .. Len(Q[q])
  BY <1>4, <1>5
<1> QED
  BY <1>2, <1>3, <1>4, <1>5, <1>6 DEF Gap

\* A step that leaves the nodes of the queues alone keeps the queues.
LEMMA QueuesKept ==
  ASSUME TypeInv, ControlInv, NEW o, NEW Q, QueuesInv(o, Q), NEW p,
         NEW t \in Threads, NEW s, NEW l, Moves(t, s, l), pc[t] # "link", s # "link",
         UNCHANGED <<head, tail>>,
         \A n \in Nodes : \A q \in Queues :
           o[n] = InQueue(q) => p[n] = o[n] /\ next'[n] = next[n]
  PROVE  QueuesInv(p, Q)'
<1>1. \A u \in Threads : /\ pc'[u] = "link" <=> pc[u] = "link"
                         /\ pc[u] = "link" => loc'[u] = loc[u]
  BY DEF Moves
<1>2. \A u \in Threads : \A n : Linking(u, n)' <=> Linking(u, n)
  BY <1>1 DEF Linking
<1>3. ASSUME NEW u \in Threads PROVE Gap(u, Q)'
  <2> SUFFICES ASSUME pc[u] = "link" PROVE Gap(u, Q)'
    BY <1>1 DEF Gap
  <2>1. loc[u].q \in Queues /\ loc[u].to \in Nodes /\ o[loc[u].to] = InQueue(loc[u].q)
    BY GapIs
  <2>2. next'[loc[u].to] = next[loc[u].to] /\ loc'[u] = loc[u]
    BY <1>1, <2>1
  <2>3. Gap(u, Q)
    BY DEF QueuesInv
  <2> QED
    BY <1>2, <2>2, <2>3 DEF Gap
<1>4. ASSUME NEW q \in Queues PROVE Chain(p, q, Q[q])'
  <2>1. PICK c : c = Q[q]
    OBVIOUS
  <2>2. /\ c \in Seq(Nodes) /\ Len(c) \in Nat
        /\ \A i \in 1 .. Len(c) : c[i] \in Nodes /\ o[c[i]] = InQueue(q)
        /\ c = << >> <=> Len(c) = 0
    BY <2>1, QueueNodes
  <2>3. \A i \in 1 .. Len(c) : p[c[i]] = InQueue(q) /\ next'[c[i]] = next[c[i]]
    BY <2>2
  <2>4. Chain(o, q, c)
    BY <2>1 DEF QueuesInv
  <2>5. Chain(p, q, c)'
    BY <1>2, <2>2, <2>3, <2>4 DEF Chain
  <2> QED
    BY <2>1, <2>5
<1> QED
  BY <1>3, <1>4 DEF QueuesInv

\* A step that leaves the nodes of lists and chunks alone keeps their links.
LEMMA LinksKept ==
  ASSUME TypeInv, NEW o, LinksInv(o), NEW p,
         \A n \in Nodes : OnChain(o[n]) \/ OnChain(p[n]) => p[n] = o[n] /\ next'[n] = next[n]
  PROVE  LinksInv(p)'
BY DEF LinksInv

\* So does a step that moves together all the nodes S linked to each other.
LEMMA LinksMoved ==
  ASSUME TypeInv, NEW o, LinksInv(o), DOMAIN o = Nodes, next' = next,
         NEW S \in SUBSET Nodes, NEW a, NEW p,
         p = [n \in Nodes |-> IF n \in S THEN a ELSE o[n]],
         \A n \in S : next[n] # 0 => next[n] \in S,
         \A m, n \in S : next[m] = next[n] /\ next[n] # 0 => m = n,
         \A n \in Nodes \ S : OnChain(o[n]) => next[n] \notin S
  PROVE  LinksInv(p)'
<1> SUFFICES ASSUME NEW n \in Nodes, OnChain(p[n]), next[n] # 0
             PROVE  /\ next[n] \in Nodes /\ p[next[n]] = p[n]
                    /\ \A m \in Nodes : p[m] = p[n] /\ next[m] = next[n] => m = n
  BY DEF LinksInv
<1>1. CASE n \in S
  <2>1. next[n] \in S
    BY <1>1
  <2>2. ASSUME NEW m \in Nodes, p[m] = p[n], next[m] = next[n] PROVE m = n
    <3>1. CASE m \in S
      BY <1>1, <2>2, <3>1
    <3>2. CASE m \notin S
      <4>1. o[m] = p[m]
        BY <3>2
      <4>2. OnChain(o[m])
        BY <2>2, <4>1
      <4> QED
        BY <2>1, <2>2, <3>2, <4>2
    <3> QED
      BY <3>1, <3>2
  <2> QED
    BY <1>1, <2>1, <2>2
<1>2. CASE n \notin S
  <2>1. p[n] = o[n] /\ next[n] \notin S
    BY <1>2
  <2>2. next[n] \in Nodes /\ o[next[n]] = o[n] /\ OnChain(o[n])
    BY <2>1 DEF LinksInv
  <2>3. p[next[n]] = o[next[n]]
    BY <2>1, <2>2
  <2>4. ASSUME NEW m \in Nodes, p[m] = p[n], next[m] = next[n] PROVE m = n
    <3>1. m \notin S
      BY <2>1, <2>4
    <3>2. o[m] = o[n]
      BY <2>1, <2>4, <3>1
    <3> QED
      BY <2>2, <2>4, <3>2 DEF LinksInv
  <2> QED
    BY <2>1, <2>2, <2>3, <2>4
<1> QED
  BY <1>1, <1>2

\* The list of a thread is not disturbed by a step that leaves it and its nodes alone.
LEMMA FirstKept ==
  ASSUME NEW o, NEW p, NEW u \in Threads, First(u, o), list'[u] = list[u],
         \A n \in Nodes : o[n] = InList(u) \/ p[n] = InList(u) =>
           p[n] = o[n] /\ next'[n] = next[n]
  PROVE  First(u, p)'
BY DEF First

\* A step that leaves the stack and the nodes of its chunks alone keeps the stack.
LEMMA StackKept ==
  ASSUME NEW o, StackInv(o), NEW p, top' = top,
         \A n \in Nodes : \A c : o[n] = InChunk(c) \/ p[n] = InChunk(c) =>
           p[n] = o[n] /\ next'[n] = next[n] /\ slot'[n] = slot[n]
  PROVE  StackInv(p)'
<1>1. \A c \in Nodes : p[c] = InChunk(c) <=> o[c] = InChunk(c)
  OBVIOUS
<1>2. \A c : Stacked(p, c) <=> Stacked(o, c)
  BY <1>1 DEF Stacked
<1>3. ASSUME NEW c \in Nodes, p[c] = InChunk(c)
      PROVE  /\ slot'[c] # 0 => Stacked(p, slot'[c]) /\ slot'[c] # top.node
             /\ \A d \in Nodes : p[d] = InChunk(d) /\ slot'[d] = slot'[c] /\ slot'[c] # 0 => d = c
             /\ \A n \in Nodes : p[n] = InChunk(c) => next'[n] # c
  <2>1. o[c] = InChunk(c) /\ slot'[c] = slot[c]
    BY <1>3
  <2>2. \A d \in Nodes : p[d] = InChunk(d) => o[d] = InChunk(d) /\ slot'[d] = slot[d]
    OBVIOUS
  <2>3. \A n \in Nodes : p[n] = InChunk(c) => o[n] = InChunk(c) /\ next'[n] = next[n]
    OBVIOUS
  <2> QED
    BY <1>2, <2>1, <2>2, <2>3 DEF StackInv
<1> QED
  BY <1>2, <1>3 DEF StackInv, Stacked

\* A step of t that leaves the nodes in the hands of the others alone.
LEMMA HandsKept ==
  ASSUME NEW o, HandsInv(o), NEW p, NEW t \in Threads, NEW s, NEW l, Moves(t, s, l),
         capacity' = capacity,
         \A u \in Threads : u # t => list'[u] = list[u],
         \A n \in Nodes : \A u \in Threads : u # t /\ o[n] = InHand(u) =>
           p[n] = o[n] /\ next'[n] = next[n],
         Holding(t, p)'
  PROVE  HandsInv(p)'
<1>1. ASSUME NEW u \in Threads, u # t PROVE Holding(u, p)'
  <2>1. pc'[u] = pc[u] /\ loc'[u] = loc[u] /\ Holding(u, o) /\ list'[u] = list[u]
    BY <1>1 DEF Moves, HandsInv
  <2>2. pc[u] = "exchange" =>
          loc[u].node \in Nodes /\ p[loc[u].node] = InHand(u) /\ next'[loc[u].node] = 0
    BY <1>1, <2>1 DEF Holding
  <2>3. GivingBack(u) => loc[u].node = list[u] /\ list[u] # 0
    BY <2>1 DEF Holding
  <2>4. ASSUME Reserving(u)
        PROVE  /\ {loc[u].node, loc[u].last} \subseteq Nodes /\ loc[u].node <= loc[u].last
               /\ Ends(loc[u].node - 1) /\ Ends(loc[u].last)
               /\ \A i \in loc[u].node .. loc[u].last :
                    /\ p[i] = InHand(u)
                    /\ next'[i] \in {0, i + 1}
                    /\ Ends(i) => next'[i] = 0
    <3>1. /\ {loc[u].node, loc[u].last} \subseteq Nodes /\ loc[u].node <= loc[u].last
          /\ Ends(loc[u].node - 1) /\ Ends(loc[u].last)
          /\ \A i \in loc[u].node .. loc[u].last :
               /\ o[i] = InHand(u)
               /\ next[i] \in {0, i + 1}
               /\ Ends(i) => next[i] = 0
      BY <2>1, <2>4 DEF Holding
    <3>2. \A i \in loc[u].node .. loc[u].last : i \in Nodes
      BY <3>1, MpscAssumption DEF Nodes
    <3>3. \A i \in loc[u].node .. loc[u].last : p[i] = o[i] /\ next'[i] = next[i]
      BY <1>1, <3>1, <3>2
    <3> HIDE DEF Ends
    <3> QED
      BY <3>1, <3>3
  <2>5. \A i : Ends(i)' <=> Ends(i)
    BY DEF Ends
  <2>6. (GivingBack(u)' <=> GivingBack(u)) /\ (Reserving(u)' <=> Reserving(u))
    BY <2>1 DEF GivingBack, Reserving
  <2> QED
    BY <2>1, <2>2, <2>3, <2>4, <2>5, <2>6 DEF Holding
<1> QED
  BY <1>1 DEF HandsInv

\* A thread that neither pushes nor is about to exchange holds nothing.
LEMMA HoldsNothing ==
  ASSUME NEW t \in Threads, NEW p, pc'[t] \notin Pushing \cup {"exchange"}
  PROVE  Holding(t, p)'
BY DEF Holding, GivingBack, Reserving, Pushing

\* A thread that goes on pushing holds the same nodes.
LEMMA HoldsStill ==
  ASSUME NEW t \in Threads, NEW o, Holding(t, o), pc[t] \in Pushing, pc'[t] \in Pushing,
         loc'[t].node = loc[t].node, loc'[t].last = loc[t].last,
         list'[t] = list[t], next' = next, capacity' = capacity
  PROVE  Holding(t, o)'
<1>1. \A i : Ends(i)' <=> Ends(i)
  BY DEF Ends
<1>2. (GivingBack(t)' <=> GivingBack(t)) /\ (Reserving(t)' <=> Reserving(t))
  BY DEF GivingBack, Reserving
<1>3. pc'[t] # "exchange"
  BY DEF Pushing
<1> HIDE DEF Ends, Reserving, GivingBack
<1> QED
  BY <1>1, <1>2, <1>3 DEF Holding

\* A step of t that touches no node of a queue, a list or a chunk moves no node.
LEMMA PlacedStill ==
  ASSUME TypeInv, ControlInv, NEW o, NEW Q, Placed(o, Q),
         NEW t \in Threads, NEW s, NEW l, Moves(t, s, l), pc[t] # "link", s # "link",
         UNCHANGED <<capacity, next, top, count, head, tail>>,
         \A u \in Threads : u # t => list'[u] = list[u],
         list'[t] \in {0, list[t]},
         \A n \in Nodes : \A c : o[n] = InChunk(c) => slot'[n] = slot[n],
         Holding(t, o)'
  PROVE  Placed(o, Q)'
<1>1. QueuesInv(o, Q)'
  BY QueuesKept DEF Placed
<1>2. LinksInv(o)'
  BY LinksKept DEF Placed, ListsInv
<1>3. ASSUME NEW u \in Threads PROVE First(u, o)'
  <2>1. CASE list'[u] = list[u]
    BY <2>1, FirstKept DEF Placed, ListsInv
  <2>2. CASE list'[u] = 0
    BY <2>2 DEF First
  <2> QED
    BY <2>1, <2>2
<1>4. StackInv(o)'
  BY StackKept DEF Placed
<1>5. HandsInv(o)'
  BY HandsKept DEF Placed
<1>6. PagesInv(o)'
  BY DEF Placed, PagesInv, Ends
<1> QED
  BY <1>1, <1>2, <1>3, <1>4, <1>5, <1>6 DEF Placed, ListsInv

\* Try_pop that has loaded the top.
LEMMA PlacedLoaded ==
  ASSUME TypeInv, ControlInv, NEW o, NEW Q, Placed(o, Q), NEW t \in Threads, Loaded(t),
         pc[t] # "link", UNCHANGED <<capacity, memory, top, count, list, ends>>
  PROVE  Placed(o, Q)'
<1>1. PICK s, l : Set(t, s, l) /\ s \in {"reserve", "popread"}
  BY DEF Loaded
<1>2. Moves(t, s, l)
  BY <1>1, SetMoves
<1>3. Holding(t, o)'
  BY <1>1, <1>2, HoldsNothing DEF Moves, Pushing
<1> QED
  BY <1>1, <1>2, <1>3, PlacedStill DEF memory, ends

\* A thread that goes to rest, into Allocate or into the destructor.
LEMMA PlacedResting ==
  ASSUME TypeInv, ControlInv, NEW o, NEW Q, Placed(o, Q),
         NEW t \in Threads, NEW s, NEW l, Set(t, s, l), pc[t] # "link",
         s \in Resting \cup {"alloc", "drain", "popcas"},
         UNCHANGED <<capacity, memory, top, count, list, ends>>
  PROVE  Placed(o, Q)'
<1>1. Moves(t, s, l)
  BY SetMoves
<1>2. Holding(t, o)'
  BY <1>1, HoldsNothing DEF Moves, Pushing, Resting
<1> QED
  BY <1>1, <1>2, PlacedStill DEF memory, ends, Resting

\* A push that goes on.
LEMMA PlacedPushing ==
  ASSUME TypeInv, ControlInv, NEW o, NEW Q, Placed(o, Q), NEW t \in Threads, pc[t] \in Pushing,
         Set(t, "pushcas", [loc[t] EXCEPT !.old = top]),
         UNCHANGED <<capacity, next, top, count, list, ends>>,
         \A n \in Nodes : n # loc[t].node => slot'[n] = slot[n]
  PROVE  Placed(o, Q)'
<1>1. PICK l : l = [loc[t] EXCEPT !.old = top]
  OBVIOUS
<1>2. Moves(t, "pushcas", l)
  BY <1>1, SetMoves
<1>3. l.node = loc[t].node /\ l.last = loc[t].last
  BY <1>1 DEF TypeInv, Locals
<1>4. Holding(t, o)'
  BY <1>2, <1>3, HoldsStill DEF Placed, HandsInv, Moves, Pushing
<1>5. \A n \in Nodes : \A c : o[n] = InChunk(c) => slot'[n] = slot[n]
  BY PushedIsPrivate
<1> QED
  BY <1>2, <1>4, <1>5, PlacedStill DEF ends, Pushing

-----------------------------------------------------------------------------
\* Try_pop takes the chunk on the top of the stack as the list of the thread.
LEMMA PlacedPopped ==
  ASSUME TypeInv, ControlInv, PopInv, NEW o, NEW Q, Placed(o, Q), NEW t \in Threads, PopCas(t),
         top = loc[t].old
  PROVE  \E p : Placed(p, Q)'
<1>1. PICK c : c = top.node
  OBVIOUS
<1>2. /\ c \in Nodes /\ o[c] = InChunk(c) /\ loc[t].new = slot[c] /\ c # 0
      /\ DOMAIN o = Nodes
  <2>1. top.node \in Nodes /\ loc[t].new = slot[top.node]
    BY DEF PopCas, PopInv, Popped, Popping
  <2>2. top.node # 0
    BY <2>1 DEF Nodes
  <2> QED
    BY <1>1, <2>1, <2>2 DEF Placed, StackInv, Stacked, PagesInv
<1>3. PICK S : S = {n \in Nodes : o[n] = InChunk(c)}
  OBVIOUS
<1>4. PICK p : p = [n \in Nodes |-> IF n \in S THEN InList(t) ELSE o[n]]
  OBVIOUS
<1>5. PICK l : Set(t, "alloc", l)
  BY DEF PopCas
<1>6. /\ Moves(t, "alloc", l) /\ pc[t] = "popcas"
      /\ UNCHANGED <<next, slot, capacity, count, head, tail>>
      /\ list' = [list EXCEPT ![t] = c]
      /\ top' = [node |-> slot[c], tag |-> top.tag + 1]
  BY <1>1, <1>2, <1>5, SetMoves DEF PopCas, memory, ends
<1>7. \A n \in Nodes : /\ n \in S => p[n] = InList(t) /\ o[n] = InChunk(c)
                       /\ n \notin S => p[n] = o[n] /\ o[n] # InChunk(c)
  BY <1>3, <1>4
<1>8. QueuesInv(p, Q)'
  <2>1. \A n \in Nodes : \A q \in Queues :
           o[n] = InQueue(q) => p[n] = o[n] /\ next'[n] = next[n]
    BY <1>6, <1>7, PlacesDiffer
  <2> QED
    BY <1>6, <2>1, QueuesKept DEF Placed
<1>9. LinksInv(p)'
  <2>1. OnChain(InChunk(c))
    BY PlacesDiffer
  <2>2. \A n \in S : next[n] # 0 => next[n] \in S
    BY <1>3, <2>1 DEF Placed, ListsInv, LinksInv
  <2>3. \A m, n \in S : next[m] = next[n] /\ next[n] # 0 => m = n
    BY <1>3, <2>1 DEF Placed, ListsInv, LinksInv
  <2>4. \A n \in Nodes \ S : OnChain(o[n]) => next[n] \notin S
    BY <1>3 DEF Placed, ListsInv, LinksInv, Nodes
  <2>5. S \in SUBSET Nodes
    BY <1>3
  <2> QED
    BY <1>2, <1>4, <1>6, <2>2, <2>3, <2>4, <2>5, LinksMoved DEF Placed, ListsInv
<1>10. ASSUME NEW u \in Threads PROVE First(u, p)'
  <2>1. CASE u # t
    <3>1. list'[u] = list[u]
      BY <1>6, <2>1 DEF TypeInv
    <3>2. \A n \in Nodes : o[n] = InList(u) \/ p[n] = InList(u) =>
            p[n] = o[n] /\ next'[n] = next[n]
      BY <1>6, <1>7, <2>1, PlacesDiffer
    <3> QED
      BY <3>1, <3>2, FirstKept DEF Placed, ListsInv
  <2>2. CASE u = t
    <3>1. list'[t] = c /\ p[c] = InList(t)
      BY <1>2, <1>6, <1>7 DEF TypeInv
    <3>2. ASSUME NEW n \in Nodes, p[n] = InList(t) PROVE next[n] # c
      <4>1. CASE n \in S
        BY <1>2, <1>7, <4>1 DEF Placed, StackInv
      <4>2. CASE n \notin S
        <5>1. o[n] = InList(t) /\ OnChain(o[n])
          BY <1>7, <3>2, <4>2, PlacesDiffer
        <5>2. next[n] = c => o[c] = InList(t)
          BY <1>2, <5>1 DEF Placed, ListsInv, LinksInv
        <5> QED
          BY <1>2, <5>2, PlacesDiffer
      <4> QED
        BY <4>1, <4>2
    <3> QED
      BY <1>2, <1>6, <2>2, <3>1, <3>2 DEF First
  <2> QED
    BY <2>1, <2>2
<1>11. StackInv(p)'
  <2>1. top'.node = slot[c] /\ slot' = slot /\ next' = next
    BY <1>6
  <2>2. \A d : Stacked(p, d) <=> Stacked(o, d) /\ d # c
    BY <1>2, <1>7, PlacesDiffer DEF Stacked
  <2>3. slot[c] # 0 => Stacked(o, slot[c]) /\ slot[c] # c
    BY <1>1, <1>2 DEF Placed, StackInv
  <2>4. ASSUME NEW d \in Nodes, p[d] = InChunk(d)
        PROVE  /\ slot[d] # 0 => Stacked(p, slot[d]) /\ slot[d] # slot[c]
               /\ \A e \in Nodes : p[e] = InChunk(e) /\ slot[e] = slot[d] /\ slot[d] # 0 => e = d
               /\ \A n \in Nodes : p[n] = InChunk(d) => next[n] # d
    <3>1. o[d] = InChunk(d) /\ d # c
      BY <1>7, <2>4, PlacesDiffer
    <3>2. slot[d] # 0 => Stacked(o, slot[d]) /\ slot[d] # c /\ slot[d] # slot[c]
      BY <1>1, <1>2, <3>1 DEF Placed, StackInv
    <3>3. \A e \in Nodes : p[e] = InChunk(e) => o[e] = InChunk(e)
      BY <1>7, PlacesDiffer
    <3>4. \A n \in Nodes : p[n] = InChunk(d) => o[n] = InChunk(d)
      BY <1>7, PlacesDiffer
    <3> QED
      BY <2>2, <3>1, <3>2, <3>3, <3>4 DEF Placed, StackInv
  <2> QED
    BY <2>1, <2>2, <2>3, <2>4 DEF StackInv
<1>12. HandsInv(p)'
  <2>1. Holding(t, p)'
    BY <1>6, HoldsNothing DEF Moves, Pushing
  <2>2. \A n \in Nodes : \A u \in Threads : u # t /\ o[n] = InHand(u) =>
           p[n] = o[n] /\ next'[n] = next[n]
    BY <1>6, <1>7, PlacesDiffer
  <2>3. \A u \in Threads : u # t => list'[u] = list[u]
    BY <1>6 DEF TypeInv
  <2> QED
    BY <1>6, <2>1, <2>2, <2>3, HandsKept DEF Placed
<1>13. PagesInv(p)'
  <2>1. DOMAIN p = Nodes
    BY <1>4
  <2>2. \A n \in Nodes : n > count => p[n] = Nowhere
    BY <1>2, <1>7, PlacesDiffer DEF Placed, PagesInv
  <2> QED
    BY <1>6, <2>1, <2>2 DEF Placed, PagesInv, Ends
<1> QED
  BY <1>8, <1>9, <1>10, <1>11, <1>12, <1>13 DEF Placed, ListsInv

\* The ends of chunks are a capacity apart.
LEMMA EndsApart ==
  ASSUME capacity \in Nat \ {0}
  PROVE  /\ Ends(0)
         /\ \A i \in Nat : Ends(i) => Ends(i + capacity) /\ Ends(i + i)
         /\ \A i, j \in Nat : Ends(i) /\ Ends(j) /\ i < j => i + capacity <= j
         /\ \A i, j \in Nat : Ends(i) /\ Ends(j) /\ i < j => (j - i) % capacity = 0
<1>1. Ends(0)
  <2>1. 0 = 0 * capacity
    OBVIOUS
  <2> QED
    BY <2>1 DEF Ends
<1>2. ASSUME NEW i \in Nat, Ends(i) PROVE Ends(i + capacity) /\ Ends(i + i)
  <2>1. PICK k \in Nat : i = k * capacity
    BY <1>2 DEF Ends
  <2>2. i + capacity = (k + 1) * capacity /\ i + i = (k + k) * capacity
    BY <2>1
  <2>3. k + 1 \in Nat /\ k + k \in Nat
    OBVIOUS
  <2> QED
    BY <2>2, <2>3 DEF Ends
<1>3. ASSUME NEW i \in Nat, NEW j \in Nat, Ends(i), Ends(j), i < j
      PROVE  i + capacity <= j /\ (j - i) % capacity = 0
  <2>1. PICK a \in Nat : i = a * capacity
    BY <1>3 DEF Ends
  <2>2. PICK b \in Nat : j = b * capacity
    BY <1>3 DEF Ends
  <2>3. b > a
    BY <1>3, <2>1, <2>2
  <2>4. PICK d \in Nat : b = a + 1 + d
    <3>1. b - a - 1 \in Nat /\ b = a + 1 + (b - a - 1)
      BY <2>3
    <3> QED
      BY <3>1
  <2>5. j = i + capacity + d * capacity
    BY <2>1, <2>2, <2>4
  <2>6. d * capacity \in Nat
    OBVIOUS
  <2>7. i + capacity <= j
    BY <2>5, <2>6
  <2>8. j - i = (d + 1) * capacity
    BY <2>5
  <2>9. ((d + 1) * capacity) % capacity = 0
    OBVIOUS
  <2> QED
    BY <2>7, <2>8, <2>9
<1> QED
  BY <1>1, <1>2, <1>3

\* Reserve takes nodes from nowhere into the hands of the thread.
LEMMA PlacedReserved ==
  ASSUME TypeInv, ControlInv, NEW o, NEW Q, Placed(o, Q), NEW t \in Threads,
         ReserveGlobalInternal(t), top.node = 0
  PROVE  \E p : Placed(p, Q)'
<1>1. PICK n \in Nat : /\ Reserve(t, n)
                       /\ n = IF count > capacity THEN count ELSE capacity
  BY DEF ReserveGlobalInternal, TypeInv
<1>2. /\ count \in Nat /\ capacity \in Nat \ {0} /\ n > 0 /\ count + n <= MaxNodes
      /\ count' = count + n
  BY <1>1 DEF TypeInv, Reserve
<1>3. PICK l : l = [loc[t] EXCEPT !.node = count + 1, !.last = count + n]
  OBVIOUS
<1>4. /\ Moves(t, "push", l) /\ pc[t] = "reserve"
      /\ UNCHANGED <<slot, capacity, head, tail, list, top>>
  BY <1>1, <1>3, SetMoves DEF Reserve, ReserveGlobalInternal, ends
<1>5. l.node = count + 1 /\ l.last = count + n
  BY <1>3 DEF TypeInv, Locals
<1>6. PICK p : p = [i \in Nodes |-> IF i \in count + 1 .. count + n THEN InHand(t) ELSE o[i]]
  OBVIOUS
<1>7. \A i \in Nodes : i \in count + 1 .. count + n => i > count /\ o[i] = Nowhere
  BY <1>2 DEF Placed, PagesInv, Nodes
<1>8. \A i \in Nodes : i \notin count + 1 .. count + n => p[i] = o[i] /\ next'[i] = next[i]
  BY <1>1, <1>6 DEF Reserve
<1>9. \A i \in Nodes : i \in count + 1 .. count + n =>
        /\ p[i] = InHand(t)
        /\ next'[i] = IF (i - count) % capacity = 0 THEN 0 ELSE i + 1
  BY <1>1, <1>6 DEF Reserve
<1>10. \A i \in Nodes : o[i] # Nowhere => p[i] = o[i] /\ next'[i] = next[i]
  BY <1>7, <1>8
<1>11. \A i \in Nodes : (p[i] = o[i] /\ next'[i] = next[i]) \/ p[i] = InHand(t)
  BY <1>8, <1>9
<1>12. Ends(count) /\ Ends(count + n)
  <2>1. Ends(count)
    BY DEF Placed, PagesInv
  <2> QED
    BY <1>1, <1>2, <2>1, EndsApart
<1>13. QueuesInv(p, Q)'
  <2>1. \A i \in Nodes : \A q \in Queues :
           o[i] = InQueue(q) => p[i] = o[i] /\ next'[i] = next[i]
    BY <1>10, PlacesDiffer
  <2> QED
    BY <1>4, <2>1, QueuesKept DEF Placed
<1>14. LinksInv(p)'
  <2>1. \A i \in Nodes : OnChain(o[i]) \/ OnChain(p[i]) => p[i] = o[i] /\ next'[i] = next[i]
    BY <1>10, <1>11, PlacesDiffer
  <2> QED
    BY <2>1, LinksKept DEF Placed, ListsInv
<1>15. ASSUME NEW u \in Threads PROVE First(u, p)'
  <2>1. \A i \in Nodes : o[i] = InList(u) \/ p[i] = InList(u) => p[i] = o[i] /\ next'[i] = next[i]
    BY <1>10, <1>11, PlacesDiffer
  <2> QED
    BY <1>4, <2>1, FirstKept DEF Placed, ListsInv
<1>16. StackInv(p)'
  <2>1. \A i \in Nodes : \A c : o[i] = InChunk(c) \/ p[i] = InChunk(c) =>
          p[i] = o[i] /\ next'[i] = next[i] /\ slot'[i] = slot[i]
    BY <1>4, <1>10, <1>11, PlacesDiffer
  <2> QED
    BY <1>4, <2>1, StackKept DEF Placed
<1>17. Holding(t, p)'
  <2>1. pc'[t] = "push" /\ loc'[t] = l
    BY <1>4 DEF Moves
  <2>2. {l.node, l.last} \subseteq Nodes /\ l.node <= l.last /\ l.last # 0
    BY <1>2, <1>5, MpscAssumption DEF Nodes
  <2>3. Ends(l.node - 1) /\ Ends(l.last)
    BY <1>2, <1>5, <1>12
  <2>4. ASSUME NEW i \in l.node .. l.last
        PROVE  p[i] = InHand(t) /\ next'[i] \in {0, i + 1} /\ (Ends(i) => next'[i] = 0)
    <3>1. i \in Nodes /\ i \in count + 1 .. count + n /\ i \in Nat /\ count < i
      BY <1>2, <1>5, MpscAssumption DEF Nodes
    <3>2. Ends(i) => (i - count) % capacity = 0
      BY <1>2, <1>12, <3>1, EndsApart
    <3> QED
      BY <1>9, <3>1, <3>2
  <2>5. \A i : Ends(i)' <=> Ends(i)
    BY <1>4 DEF Ends
  <2>6. ~ GivingBack(t)'
    BY <2>1, <2>2 DEF GivingBack
  <2> HIDE DEF Ends
  <2> QED
    BY <2>1, <2>2, <2>3, <2>4, <2>5, <2>6 DEF Holding
<1>18. HandsInv(p)'
  <2>1. \A i \in Nodes : \A u \in Threads : u # t /\ o[i] = InHand(u) =>
           p[i] = o[i] /\ next'[i] = next[i]
    BY <1>10, PlacesDiffer
  <2> QED
    BY <1>4, <1>17, <2>1, HandsKept DEF Placed
<1>19. PagesInv(p)'
  <2>1. DOMAIN p = Nodes
    BY <1>6
  <2>2. \A i \in Nodes : i > count' => p[i] = Nowhere
    BY <1>2, <1>8 DEF Placed, PagesInv, Nodes
  <2>3. Ends(count)'
    BY <1>2, <1>4, <1>12 DEF Ends
  <2> QED
    BY <2>1, <2>2, <2>3 DEF PagesInv
<1> QED
  BY <1>13, <1>14, <1>15, <1>16, <1>18, <1>19 DEF Placed, ListsInv

\* A push puts the chunk S, headed by the node, on the stack.
LEMMA StackPushed ==
  ASSUME TypeInv, NEW o, StackInv(o), LinksInv(o), NEW c \in Nodes, ~ \E d : o[c] = InChunk(d),
         NEW S \in SUBSET Nodes, c \in S, NEW p,
         \A n \in Nodes : p[n] = IF n \in S THEN InChunk(c) ELSE o[n],
         \A n \in S : next[n] # c /\ ~ \E d : o[n] = InChunk(d),
         next' = next, slot' = [slot EXCEPT ![c] = top.node], top'.node = c
  PROVE  StackInv(p)'
<1>1. slot'[c] = top.node /\ \A n \in Nodes : n # c => slot'[n] = slot[n]
  BY DEF TypeInv
<1>2. \A d : Stacked(o, d) => Stacked(p, d) /\ d # c
  BY DEF Stacked
<1>3. Stacked(p, c)
  BY DEF Stacked
<1>4. \A d \in Nodes : p[d] = InChunk(d) /\ d # c => o[d] = InChunk(d) /\ d \notin S
  BY PlacesDiffer
<1>5. top.node # 0 => Stacked(o, top.node)
  BY DEF StackInv
<1>6. ASSUME NEW d \in Nodes, p[d] = InChunk(d)
      PROVE  slot'[d] # 0 => Stacked(p, slot'[d]) /\ slot'[d] # c
  <2>1. CASE d = c
    BY <1>1, <1>2, <1>5, <2>1
  <2>2. CASE d # c
    <3>1. o[d] = InChunk(d) /\ slot'[d] = slot[d]
      BY <1>1, <1>4, <1>6, <2>2
    <3>2. slot[d] # 0 => Stacked(o, slot[d])
      BY <3>1 DEF StackInv
    <3> QED
      BY <1>2, <3>1, <3>2
  <2> QED
    BY <2>1, <2>2
<1>7. ASSUME NEW d \in Nodes, p[d] = InChunk(d), NEW e \in Nodes, p[e] = InChunk(e),
             slot'[e] = slot'[d], slot'[d] # 0
      PROVE  e = d
  <2>1. CASE d # c /\ e # c
    <3>1. o[d] = InChunk(d) /\ o[e] = InChunk(e) /\ slot[e] = slot[d] /\ slot[d] # 0
      BY <1>1, <1>4, <1>7, <2>1
    <3> QED
      BY <3>1 DEF StackInv
  <2>2. CASE d = c /\ e # c
    <3>1. o[e] = InChunk(e) /\ slot[e] = top.node /\ slot[e] # 0
      BY <1>1, <1>4, <1>7, <2>2
    <3> QED
      BY <3>1 DEF StackInv
  <2>3. CASE d # c /\ e = c
    <3>1. o[d] = InChunk(d) /\ slot[d] = top.node /\ slot[d] # 0
      BY <1>1, <1>4, <1>7, <2>3
    <3> QED
      BY <3>1 DEF StackInv
  <2> QED
    BY <2>1, <2>2, <2>3
<1>8. ASSUME NEW d \in Nodes, p[d] = InChunk(d), NEW n \in Nodes, p[n] = InChunk(d)
      PROVE  next[n] # d
  <2>1. CASE d # c
    <3>1. o[d] = InChunk(d)
      BY <1>4, <1>8, <2>1
    <3>2. o[n] = InChunk(d)
      BY <1>8, <2>1, PlacesDiffer
    <3> QED
      BY <3>1, <3>2 DEF StackInv
  <2>2. CASE d = c /\ n \in S
    BY <2>2
  <2>3. CASE d = c /\ n \notin S
    <3>1. o[n] = InChunk(c) /\ OnChain(o[n])
      BY <1>8, <2>3, PlacesDiffer
    <3>2. next[n] = c => o[c] = o[n]
      BY <3>1 DEF LinksInv, Nodes
    <3> QED
      BY <2>3, <3>1, <3>2
  <2> QED
    BY <2>1, <2>2, <2>3
<1> QED
  BY <1>3, <1>6, <1>7, <1>8 DEF StackInv

\* Reserve pushes a chunk of the nodes it holds.
LEMMA PlacedReservePushed ==
  ASSUME TypeInv, ControlInv, NEW o, NEW Q, Placed(o, Q), NEW t \in Threads, PushCas(t),
         top = loc[t].old, loc[t].last # 0
  PROVE  \E p : Placed(p, Q)'
<1>1. PICK c, e : c = loc[t].node /\ e = loc[t].last
  OBVIOUS
<1>2. /\ c \in Nodes /\ e \in Nodes /\ c <= e
      /\ Ends(c - 1) /\ Ends(e)
      /\ \A i \in c .. e : o[i] = InHand(t) /\ next[i] \in {0, i + 1} /\ (Ends(i) => next[i] = 0)
  <2>1. Reserving(t)
    BY DEF Reserving, PushCas, Pushing
  <2> HIDE DEF Ends
  <2> QED
    BY <1>1, <2>1 DEF Placed, HandsInv, Holding
<1>3. /\ c \in Nat /\ e \in Nat /\ c > 0 /\ e <= MaxNodes /\ capacity \in Nat \ {0}
      /\ MaxNodes \in Nat
  BY <1>2, MpscAssumption DEF Nodes, TypeInv
<1>4. PICK d \in Nat : d = c + capacity - 1
  BY <1>3
<1>5. d <= e /\ Ends(d) /\ c <= d
  <2>1. c - 1 \in Nat /\ c - 1 < e /\ d = (c - 1) + capacity
    BY <1>2, <1>3, <1>4
  <2> HIDE DEF Ends
  <2> QED
    BY <1>2, <1>3, <2>1, EndsApart
<1>6. PICK S : S = c .. d
  OBVIOUS
<1>7. S \in SUBSET Nodes /\ c \in S /\ \A i \in S : i \in c .. e
  BY <1>3, <1>5, <1>6 DEF Nodes
<1>8. PICK p : p = [i \in Nodes |-> IF i \in S THEN InChunk(c) ELSE o[i]]
  OBVIOUS
<1>9. \A i \in Nodes : /\ i \in S => p[i] = InChunk(c) /\ o[i] = InHand(t)
                       /\ i \notin S => p[i] = o[i]
  BY <1>2, <1>7, <1>8
<1>10. /\ UNCHANGED <<next, capacity, head, tail, count>>
       /\ slot' = [slot EXCEPT ![c] = top.node]
       /\ top'.node = c
       /\ Pushed(t)
       /\ pc[t] = "pushcas"
  BY <1>1 DEF PushCas, ends
<1>11. /\ list' = list
       /\ \/ /\ d # e /\ c + capacity <= e
             /\ \E l : Moves(t, "push", l) /\ l.node = d + 1 /\ l.last = e
          \/ \E l : Moves(t, "alloc", l)
  <2>1. PICK l : l = [loc[t] EXCEPT !.old = NoLocals.old]
    OBVIOUS
  <2>2. l \in Locals /\ l.node = c /\ l.last = e
    BY <1>1, <2>1, OldForgotten DEF TypeInv
  <2>3. CASE c + capacity <= e
    <3>1. Set(t, "push", [l EXCEPT !.node = @ + capacity]) /\ list' = list
      BY <1>1, <1>3, <1>10, <2>1, <2>2, <2>3 DEF Pushed
    <3>2. PICK m : m = [l EXCEPT !.node = @ + capacity]
      OBVIOUS
    <3>3. m.node = d + 1 /\ m.last = e
      BY <1>3, <1>4, <2>2, <3>2 DEF Locals
    <3>4. Moves(t, "push", m)
      BY <3>1, <3>2, SetMoves
    <3>5. d # e
      BY <1>3, <1>4, <2>3
    <3> QED
      BY <2>3, <3>1, <3>3, <3>4, <3>5
  <2>4. CASE ~ (c + capacity <= e)
    <3>1. Set(t, "alloc", [l EXCEPT !.node = 0, !.last = 0]) /\ list' = list
      BY <1>1, <1>3, <1>10, <2>1, <2>2, <2>4 DEF Pushed
    <3> QED
      BY <3>1, SetMoves
  <2> QED
    BY <2>3, <2>4
<1>12. PICK s, l : Moves(t, s, l) /\ s \in {"push", "alloc"}
                   /\ (s = "push" => c + capacity <= e /\ l.node = d + 1 /\ l.last = e)
  BY <1>11
<1>13. QueuesInv(p, Q)'
  <2>1. \A n \in Nodes : \A q \in Queues :
           o[n] = InQueue(q) => p[n] = o[n] /\ next'[n] = next[n]
    BY <1>9, <1>10, PlacesDiffer
  <2> QED
    BY <1>10, <1>12, <2>1, QueuesKept DEF Placed
<1>14. \A n \in S : next[n] # c /\ (next[n] # 0 => next[n] \in S)
  <2> SUFFICES ASSUME NEW n \in S PROVE next[n] # c /\ (next[n] # 0 => next[n] \in S)
    OBVIOUS
  <2>1. next[n] \in {0, n + 1} /\ (Ends(n) => next[n] = 0) /\ n \in Nat /\ c <= n /\ n <= d
    BY <1>2, <1>3, <1>6, <1>7
  <2>2. n = d => next[n] = 0
    BY <1>5, <2>1
  <2> QED
    BY <1>3, <1>6, <2>1, <2>2
<1>15. LinksInv(p)'
  <2>1. \A m, n \in S : next[m] = next[n] /\ next[n] # 0 => m = n
    <3> SUFFICES ASSUME NEW m \in S, NEW n \in S, next[m] = next[n], next[n] # 0 PROVE m = n
      OBVIOUS
    <3>1. next[n] \in {0, n + 1} /\ next[m] \in {0, m + 1} /\ n \in Nat /\ m \in Nat
      BY <1>7, <1>2, <1>3
    <3> QED
      BY ONLY <3>1, next[m] = next[n], next[n] # 0
  <2>2. \A n \in Nodes \ S : OnChain(o[n]) => next[n] \notin S
    <3> SUFFICES ASSUME NEW n \in Nodes \ S, OnChain(o[n]), next[n] \in S PROVE FALSE
      OBVIOUS
    <3>0. next[n] \in Nodes
      BY <1>7
    <3>1. next[n] # 0 /\ o[next[n]] = InHand(t)
      BY <1>3, <1>9, <3>0 DEF Nodes
    <3>2. o[next[n]] = o[n]
      BY <3>1 DEF Placed, ListsInv, LinksInv
    <3> QED
      BY <3>1, <3>2, PlacesDiffer
  <2>3. DOMAIN o = Nodes /\ LinksInv(o) /\ S \in SUBSET Nodes /\ next' = next
    BY <1>7, <1>10 DEF Placed, PagesInv, ListsInv
  <2>4. \A n \in S : next[n] # 0 => next[n] \in S
    BY <1>14
  <2> QED
    BY ONLY TypeInv, <1>8, <2>1, <2>2, <2>3, <2>4, LinksMoved
<1>16. ASSUME NEW u \in Threads PROVE First(u, p)'
  <2>1. \A i \in Nodes : o[i] = InList(u) \/ p[i] = InList(u) => p[i] = o[i] /\ next'[i] = next[i]
    BY <1>9, <1>10, PlacesDiffer
  <2> QED
    BY <1>11, <2>1, FirstKept DEF Placed, ListsInv
<1>17. StackInv(p)'
  <2>1. ~ \E x : o[c] = InChunk(x)
    BY <1>7, <1>9, PlacesDiffer
  <2>2. \A n \in Nodes : p[n] = IF n \in S THEN InChunk(c) ELSE o[n]
    BY <1>8
  <2>3. \A n \in S : next[n] # c /\ ~ \E x : o[n] = InChunk(x)
    BY <1>7, <1>9, <1>14, PlacesDiffer
  <2>4. LinksInv(o) /\ StackInv(o) /\ c \in Nodes /\ S \in SUBSET Nodes /\ c \in S
    BY <1>2, <1>7 DEF Placed, ListsInv
  <2>5. next' = next /\ slot' = [slot EXCEPT ![c] = top.node] /\ top'.node = c
    BY <1>10
  <2> QED
    BY ONLY TypeInv, <2>1, <2>2, <2>3, <2>4, <2>5, StackPushed
<1>18. Holding(t, p)'
  <2>1. pc'[t] = s /\ loc'[t] = l
    BY <1>12 DEF Moves
  <2>2. CASE s = "alloc"
    BY <2>1, <2>2, HoldsNothing DEF Pushing
  <2>3. CASE s = "push"
    <3>1. l.node = d + 1 /\ l.last = e /\ c + capacity <= e /\ e # 0
      BY <1>3, <1>12, <2>3
    <3>2. d + 1 \in Nodes /\ d + 1 <= e
      BY <1>3, <1>4, <3>1 DEF Nodes
    <3>3. d + 1 - 1 = d
      OBVIOUS
    <3>4. ASSUME NEW i \in d + 1 .. e
          PROVE  p[i] = InHand(t) /\ next[i] \in {0, i + 1} /\ (Ends(i) => next[i] = 0)
      <4>1. i \in c .. e /\ i \notin S /\ i \in Nodes
        BY <1>3, <1>5, <1>6 DEF Nodes
      <4> QED
        BY <1>2, <1>9, <4>1
    <3>5. \A i : Ends(i)' <=> Ends(i)
      BY <1>10 DEF Ends
    <3>6. ~ GivingBack(t)'
      BY <2>1, <3>1 DEF GivingBack
    <3> HIDE DEF Ends
    <3> QED
      BY <1>2, <1>5, <1>10, <2>1, <2>3, <3>1, <3>2, <3>3, <3>4, <3>5, <3>6 DEF Holding
  <2> QED
    BY <1>12, <2>2, <2>3
<1>19. HandsInv(p)'
  <2>1. \A i \in Nodes : \A u \in Threads : u # t /\ o[i] = InHand(u) =>
           p[i] = o[i] /\ next'[i] = next[i]
    BY <1>9, <1>10, PlacesDiffer
  <2> QED
    BY <1>10, <1>11, <1>12, <1>18, <2>1, HandsKept DEF Placed
<1>20. PagesInv(p)'
  <2>1. DOMAIN p = Nodes
    BY <1>8
  <2>2. \A i \in Nodes : i > count => p[i] = Nowhere
    BY <1>9, PlacesDiffer DEF Placed, PagesInv
  <2> QED
    BY <1>10, <2>1, <2>2 DEF Placed, PagesInv, Ends
<1> QED
  BY <1>13, <1>15, <1>16, <1>17, <1>19, <1>20 DEF Placed, ListsInv

\* Deallocate pushes the list of the thread as a chunk.
LEMMA PlacedGivenBack ==
  ASSUME TypeInv, ControlInv, NEW o, NEW Q, Placed(o, Q), NEW t \in Threads, PushCas(t),
         top = loc[t].old, loc[t].last = 0
  PROVE  \E p : Placed(p, Q)'
<1>1. PICK c : c = loc[t].node
  OBVIOUS
<1>2. /\ c = list[t] /\ c # 0 /\ c \in Nodes /\ o[c] = InList(t)
      /\ \A n \in Nodes : o[n] = InList(t) => next[n] # c
      /\ DOMAIN o = Nodes
  <2>1. GivingBack(t)
    BY DEF GivingBack, PushCas, Pushing
  <2>2. c = list[t] /\ c # 0
    BY <1>1, <2>1 DEF Placed, HandsInv, Holding
  <2>3. First(t, o)
    BY DEF Placed, ListsInv
  <2> QED
    BY <2>2, <2>3 DEF First, Placed, PagesInv
<1>3. PICK S : S = {n \in Nodes : o[n] = InList(t)}
  OBVIOUS
<1>4. PICK p : p = [n \in Nodes |-> IF n \in S THEN InChunk(c) ELSE o[n]]
  OBVIOUS
<1>5. \A n \in Nodes : /\ n \in S => p[n] = InChunk(c) /\ o[n] = InList(t)
                       /\ n \notin S => p[n] = o[n] /\ o[n] # InList(t)
  BY <1>3, <1>4
<1>6. /\ UNCHANGED <<next, capacity, head, tail, count>>
      /\ slot' = [slot EXCEPT ![c] = top.node]
      /\ top'.node = c
      /\ Pushed(t)
      /\ pc[t] = "pushcas"
  BY <1>1 DEF PushCas, ends
<1>7. list' = [list EXCEPT ![t] = 0] /\ \E s, l : Moves(t, s, l) /\ s \in {"drain", "idle"}
  <2>1. PICK l : l = [loc[t] EXCEPT !.old = NoLocals.old]
    OBVIOUS
  <2>2. l.last = 0
    BY <2>1 DEF TypeInv, Locals
  <2>3. PICK s, m : /\ list' = [list EXCEPT ![t] = 0] /\ Set(t, s, m)
                    /\ s = IF l.dtor THEN "drain" ELSE "idle"
    BY <1>6, <2>1, <2>2 DEF Pushed
  <2> QED
    BY <2>3, SetMoves
<1>8. PICK s, l : Moves(t, s, l) /\ s \in {"drain", "idle"}
  BY <1>7
<1>9. QueuesInv(p, Q)'
  <2>1. \A n \in Nodes : \A q \in Queues :
           o[n] = InQueue(q) => p[n] = o[n] /\ next'[n] = next[n]
    BY <1>5, <1>6, PlacesDiffer
  <2> QED
    BY <1>6, <1>8, <2>1, QueuesKept DEF Placed
<1>10. LinksInv(p)'
  <2>1. OnChain(InList(t))
    BY PlacesDiffer
  <2>2. \A n \in S : next[n] # 0 => next[n] \in S
    BY <1>3, <2>1 DEF Placed, ListsInv, LinksInv
  <2>3. \A m, n \in S : next[m] = next[n] /\ next[n] # 0 => m = n
    BY <1>3, <2>1 DEF Placed, ListsInv, LinksInv
  <2>4. \A n \in Nodes \ S : OnChain(o[n]) => next[n] \notin S
    BY <1>3 DEF Placed, ListsInv, LinksInv, Nodes
  <2>5. S \in SUBSET Nodes
    BY <1>3
  <2> QED
    BY <1>2, <1>4, <1>6, <2>2, <2>3, <2>4, <2>5, LinksMoved DEF Placed, ListsInv
<1>11. ASSUME NEW u \in Threads PROVE First(u, p)'
  <2>1. CASE u # t
    <3>1. list'[u] = list[u]
      BY <1>7, <2>1 DEF TypeInv
    <3>2. \A n \in Nodes : o[n] = InList(u) \/ p[n] = InList(u) =>
            p[n] = o[n] /\ next'[n] = next[n]
      BY <1>5, <1>6, <2>1, PlacesDiffer
    <3> QED
      BY <3>1, <3>2, FirstKept DEF Placed, ListsInv
  <2>2. CASE u = t
    BY <1>7, <2>2 DEF First, TypeInv
  <2> QED
    BY <2>1, <2>2
<1>12. StackInv(p)'
  <2>1. ~ \E x : o[c] = InChunk(x)
    BY <1>2, PlacesDiffer
  <2>2. \A n \in Nodes : p[n] = IF n \in S THEN InChunk(c) ELSE o[n]
    BY <1>4
  <2>3. \A n \in S : next[n] # c /\ ~ \E x : o[n] = InChunk(x)
    BY <1>2, <1>3, PlacesDiffer
  <2>4. S \in SUBSET Nodes /\ c \in S
    BY <1>2, <1>3
  <2>5. LinksInv(o) /\ StackInv(o) /\ c \in Nodes
    BY <1>2 DEF Placed, ListsInv
  <2>6. next' = next /\ slot' = [slot EXCEPT ![c] = top.node] /\ top'.node = c
    BY <1>6
  <2> QED
    BY ONLY TypeInv, <2>1, <2>2, <2>3, <2>4, <2>5, <2>6, StackPushed
<1>13. HandsInv(p)'
  <2>1. Holding(t, p)'
    BY <1>8, HoldsNothing DEF Moves, Pushing
  <2>2. \A n \in Nodes : \A u \in Threads : u # t /\ o[n] = InHand(u) =>
           p[n] = o[n] /\ next'[n] = next[n]
    BY <1>5, <1>6, PlacesDiffer
  <2>3. \A u \in Threads : u # t => list'[u] = list[u]
    BY <1>7 DEF TypeInv
  <2> QED
    BY <1>6, <1>8, <2>1, <2>2, <2>3, HandsKept DEF Placed
<1>14. PagesInv(p)'
  <2>1. DOMAIN p = Nodes
    BY <1>4
  <2>2. \A n \in Nodes : n > count => p[n] = Nowhere
    BY <1>5, PlacesDiffer DEF Placed, PagesInv
  <2> QED
    BY <1>6, <2>1, <2>2 DEF Placed, PagesInv, Ends
<1> QED
  BY <1>9, <1>10, <1>11, <1>12, <1>13, <1>14 DEF Placed, ListsInv

\* A queue whose nodes, ends and pending links stay.
LEMMA ChainKept ==
  ASSUME NEW o, NEW p, NEW q \in Queues, NEW c, Chain(o, q, c),
         head'[q] = head[q], tail'[q] = tail[q],
         \A n \in Nodes : o[n] = InQueue(q) =>
           /\ p[n] = o[n] /\ next'[n] = next[n]
           /\ (\E u \in Threads : Linking(u, n)) => \E u \in Threads : Linking(u, n)'
  PROVE  Chain(p, q, c)'
<1>1. c \in Seq(Nodes) /\ Len(c) \in Nat /\ (c = << >> <=> Len(c) = 0)
  BY LenProperties, EmptySeq DEF Chain
<1>2. \A i \in 1 .. Len(c) : c[i] \in Nodes
  BY <1>1, ElementOfSeq
<1>3. \A i \in 1 .. Len(c) :
        o[c[i]] = InQueue(q) /\ p[c[i]] = InQueue(q) /\ next'[c[i]] = next[c[i]]
  BY <1>2 DEF Chain
<1>4. ASSUME NEW i \in 1 .. Len(c) - 1, next'[c[i]] # c[i + 1]
      PROVE  \E u \in Threads : Linking(u, c[i])'
  <2>1. i \in 1 .. Len(c)
    BY <1>1
  <2>2. \E u \in Threads : Linking(u, c[i])
    BY <1>3, <1>4, <2>1 DEF Chain
  <2> QED
    BY <1>2, <1>3, <2>1, <2>2
<1>5. c # << >> => Len(c) \in 1 .. Len(c)
  BY <1>1
<1> HIDE DEF Linking
<1> QED
  BY <1>1, <1>3, <1>4, <1>5 DEF Chain

\* A gap of a queue that stays.
LEMMA GapKept ==
  ASSUME NEW Q, NEW R, NEW u \in Threads, Gap(u, Q), pc'[u] = pc[u], loc'[u] = loc[u],
         pc[u] = "link" => /\ next'[loc[u].to] = 0
                           /\ \A w \in Threads : Linking(w, loc[u].to)' => Linking(w, loc[u].to)
                           /\ R[loc[u].q] = Q[loc[u].q]
  PROVE  Gap(u, R)'
BY DEF Gap

\* What Allocate does to the lists when it takes node n, the first of its thread's.
Takes(t, n) ==
  /\ n = list[t] /\ n # 0
  /\ list' = [list EXCEPT ![t] = next[n]] /\ next' = [next EXCEPT ![n] = 0]
  /\ \A m \in Nodes : m # n => slot'[m] = slot[m]
  /\ UNCHANGED <<top, capacity, count>>

\* The node n has gone from the list of t to the place a.
Gone(o, p, t, n, a) ==
  /\ ListsInv(p)' /\ StackInv(p)' /\ PagesInv(p)'
  /\ n \in Nodes /\ o[n] = InList(t) /\ p[n] = a /\ next'[n] = 0
  /\ \A m \in Nodes : m # n => p[m] = o[m] /\ next'[m] = next[m]

\* Allocate takes the first node of the thread's list.
LEMMA Taken ==
  ASSUME TypeInv, NEW o, NEW Q, Placed(o, Q), NEW t \in Threads, NEW n, Takes(t, n), NEW a,
         ~ OnChain(a), a # Nowhere
  PROVE  Gone(o, [o EXCEPT ![n] = a], t, n, a)
<1> USE DEF Takes
<1>0. PICK p : p = [o EXCEPT ![n] = a]
  OBVIOUS
<1>1. /\ n \in Nodes /\ o[n] = InList(t) /\ DOMAIN o = Nodes
      /\ \A m \in Nodes : o[m] = InList(t) => next[m] # n
  BY DEF Placed, ListsInv, First, PagesInv
<1>2. /\ p[n] = a /\ next'[n] = 0 /\ DOMAIN p = Nodes
      /\ \A m \in Nodes : m # n => p[m] = o[m] /\ next'[m] = next[m]
  BY <1>0, <1>1 DEF TypeInv
<1>3. \A m \in Nodes : OnChain(o[m]) => next[m] # n
  <2> SUFFICES ASSUME NEW m \in Nodes, OnChain(o[m]), next[m] = n PROVE FALSE
    OBVIOUS
  <2>1. o[n] = o[m]
    BY DEF Placed, ListsInv, LinksInv
  <2> QED
    BY <1>1, <2>1
<1>4. LinksInv(p)'
  <2> SUFFICES ASSUME NEW m \in Nodes, OnChain(p[m]), next'[m] # 0
               PROVE  /\ next'[m] \in Nodes /\ p[next'[m]] = p[m]
                      /\ \A k \in Nodes : p[k] = p[m] /\ next'[k] = next'[m] => k = m
    BY DEF LinksInv
  <2>1. m # n /\ p[m] = o[m] /\ next'[m] = next[m]
    BY <1>2
  <2>2. next[m] \in Nodes /\ o[next[m]] = o[m] /\ next[m] # n
    BY <1>3, <2>1 DEF Placed, ListsInv, LinksInv
  <2>3. ASSUME NEW k \in Nodes, p[k] = p[m], next'[k] = next'[m] PROVE k = m
    <3>1. k # n
      BY <1>2, <2>1, <2>3
    <3> QED
      BY <1>2, <2>1, <2>3, <3>1 DEF Placed, ListsInv, LinksInv
  <2> QED
    BY <1>2, <2>1, <2>2, <2>3
<1>5. ASSUME NEW u \in Threads PROVE First(u, p)'
  <2>1. CASE u # t
    <3>1. list'[u] = list[u]
      BY <2>1 DEF TypeInv
    <3>2. \A m \in Nodes : o[m] = InList(u) \/ p[m] = InList(u) => m # n
      BY <1>1, <1>2, <2>1, PlacesDiffer
    <3>3. \A m \in Nodes : o[m] = InList(u) \/ p[m] = InList(u) =>
            p[m] = o[m] /\ next'[m] = next[m]
      BY <1>2, <3>2
    <3>4. First(u, o)
      BY DEF Placed, ListsInv
    <3> QED
      BY ONLY <3>1, <3>3, <3>4, FirstKept, u \in Threads
  <2>2. CASE u = t
    <3>1. list'[t] = next[n]
      BY DEF TypeInv
    <3>2. next[n] # 0 => next[n] \in Nodes /\ o[next[n]] = InList(t) /\ next[n] # n
      BY <1>1, <1>3, PlacesDiffer DEF Placed, ListsInv, LinksInv
    <3>3. ASSUME NEW m \in Nodes, p[m] = InList(t), next[n] # 0 PROVE next'[m] # next[n]
      <4>1. m # n
        BY <1>2, <3>3, PlacesDiffer
      <4>2. o[m] = o[n] /\ OnChain(o[n]) /\ next'[m] = next[m]
        BY <1>1, <1>2, <3>3, <4>1, PlacesDiffer
      <4>3. next[m] = next[n] => m = n
        BY <1>1, <3>3, <4>2 DEF Placed, ListsInv, LinksInv
      <4> QED
        BY <4>1, <4>2, <4>3
    <3> QED
      BY <1>2, <2>2, <3>1, <3>2, <3>3 DEF First
  <2> QED
    BY <2>1, <2>2
<1>6. StackInv(p)'
  <2>1. \A m \in Nodes : \A c : o[m] = InChunk(c) \/ p[m] = InChunk(c) => m # n
    BY <1>1, <1>2, PlacesDiffer
  <2>2. \A m \in Nodes : \A c : o[m] = InChunk(c) \/ p[m] = InChunk(c) =>
          p[m] = o[m] /\ next'[m] = next[m] /\ slot'[m] = slot[m]
    BY <1>2, <2>1
  <2>3. StackInv(o)
    BY DEF Placed
  <2>4. top' = top
    OBVIOUS
  <2> QED
    BY ONLY <2>2, <2>3, <2>4, StackKept
<1>7. PagesInv(p)'
  <2>1. n > count => o[n] = Nowhere
    BY <1>1 DEF Placed, PagesInv
  <2>2. \A m \in Nodes : m > count => p[m] = Nowhere
    BY <1>1, <1>2, <2>1, PlacesDiffer DEF Placed, PagesInv
  <2> QED
    BY <1>2, <2>2 DEF Placed, PagesInv, Ends
<1> QED
  BY <1>0, <1>1, <1>2, <1>4, <1>5, <1>6, <1>7 DEF ListsInv, Gone

\* The elements of the queues stay: only a dummy comes or goes.
Kept(Q, R) ==
  \A q \in Queues : R[q] = Q[q] \/ (Len(Q[q]) \in {0, 1} /\ Len(R[q]) \in {0, 1})

\* Allocate, for the node of an element or for the dummy of a queue.
LEMMA PlacedTaken ==
  ASSUME TypeInv, ControlInv, NEW o, NEW Q, Placed(o, Q), NEW t \in Threads, Take(t)
  PROVE  \E p, R : Placed(p, R)' /\ Kept(Q, R)
<1>1. PICK n, q : n = list[t] /\ q = loc[t].q
  OBVIOUS
<1>2. /\ n # 0 /\ pc[t] = "alloc" /\ q \in Queues
      /\ list' = [list EXCEPT ![t] = next[n]] /\ next' = [next EXCEPT ![n] = 0]
      /\ UNCHANGED <<top, count, capacity>>
  BY <1>1, Inside DEF Take, Resting
<1>3. /\ \A m \in Nodes : m # n => slot'[m] = slot[m]
      /\ \A u \in Threads : u # t => list'[u] = list[u]
  <2>1. slot' = slot \/ slot' = [slot EXCEPT ![n] = loc[t].value]
    BY <1>1 DEF Take
  <2> QED
    BY <1>2, <2>1 DEF TypeInv
<1>4. CASE loc[t].value # 0
  <2>1. PICK p, a : p = [o EXCEPT ![n] = a] /\ a = InHand(t)
    OBVIOUS
  <2>a. ~ OnChain(a) /\ a # Nowhere
    BY <2>1, PlacesDiffer
  <2>2. /\ ListsInv(p)' /\ StackInv(p)' /\ PagesInv(p)'
        /\ n \in Nodes /\ o[n] = InList(t) /\ p[n] = InHand(t) /\ next'[n] = 0
        /\ \A m \in Nodes : m # n => p[m] = o[m] /\ next'[m] = next[m]
    <3>1. Takes(t, n)
      BY <1>1, <1>2, <1>3 DEF Takes
    <3>2. Gone(o, p, t, n, a)
      BY <2>1, <2>a, <3>1, Taken
    <3> QED
      BY <2>1, <3>2 DEF Gone
  <2>3. PICK l : l = [loc[t] EXCEPT !.node = n, !.value = 0]
    OBVIOUS
  <2>4. Moves(t, "exchange", l) /\ UNCHANGED <<head, tail>>
    BY <1>1, <1>4, <2>3, SetMoves DEF Take, ends
  <2>5. l.node = n /\ l.last = loc[t].last
    BY <2>3 DEF TypeInv, Locals
  <2>6. QueuesInv(p, Q)'
    <3>1. \A m \in Nodes : \A x \in Queues :
            o[m] = InQueue(x) => p[m] = o[m] /\ next'[m] = next[m]
      BY <2>2, PlacesDiffer
    <3> QED
      BY <1>2, <2>4, <3>1, QueuesKept DEF Placed
  <2>7. Holding(t, p)'
    <3>1. pc'[t] = "exchange" /\ loc'[t] = l
      BY <2>4 DEF Moves
    <3> QED
      BY <2>2, <2>5, <3>1 DEF Holding, GivingBack, Reserving, Pushing
  <2>8. HandsInv(p)'
    <3>1. \A m \in Nodes : \A u \in Threads : u # t /\ o[m] = InHand(u) =>
            p[m] = o[m] /\ next'[m] = next[m]
      BY <2>2, PlacesDiffer
    <3> QED
      BY <1>2, <1>3, <2>4, <2>7, <3>1, HandsKept DEF Placed
  <2>9. Placed(p, Q)'
    BY <2>2, <2>6, <2>8 DEF Placed
  <2> QED
    BY <2>9 DEF Kept
<1>5. CASE loc[t].value = 0
  <2>1. PICK p, a : p = [o EXCEPT ![n] = a] /\ a = InQueue(q)
    OBVIOUS
  <2>a. ~ OnChain(a) /\ a # Nowhere
    BY <2>1, PlacesDiffer
  <2>2. /\ ListsInv(p)' /\ StackInv(p)' /\ PagesInv(p)'
        /\ n \in Nodes /\ o[n] = InList(t) /\ p[n] = InQueue(q) /\ next'[n] = 0
        /\ \A m \in Nodes : m # n => p[m] = o[m] /\ next'[m] = next[m]
    <3>1. Takes(t, n)
      BY <1>1, <1>2, <1>3 DEF Takes
    <3>2. Gone(o, p, t, n, a)
      BY <2>1, <2>a, <3>1, Taken
    <3> QED
      BY <2>1, <3>2 DEF Gone
  <2>3. /\ Moves(t, "idle", NoLocals)
        /\ head' = [head EXCEPT ![q] = n] /\ tail' = [tail EXCEPT ![q] = n]
    BY <1>1, <1>5, SetMoves DEF Take, Initial
  <2>4. tail[q] = 0
    BY <1>1, <1>2, <1>5 DEF ControlInv, Control, Allocating
  <2>5. PICK R : R = [Q EXCEPT ![q] = <<n>>]
    OBVIOUS
  <2>6. DOMAIN R = Queues /\ R[q] = <<n>> /\ \A x \in Queues : x # q => R[x] = Q[x]
    BY <1>2, <2>5 DEF Placed, QueuesInv
  <2>7. \A u \in Threads : /\ pc[u] = "link" => u # t
                           /\ pc'[u] = "link" <=> pc[u] = "link"
                           /\ pc[u] = "link" => pc'[u] = pc[u] /\ loc'[u] = loc[u]
    BY <1>2, <2>3 DEF Moves
  <2>8. \A u \in Threads : \A m : Linking(u, m)' <=> Linking(u, m)
    BY <2>7 DEF Linking
  <2>9. ASSUME NEW x \in Queues PROVE Chain(p, x, R[x])'
    <3>1. CASE x # q
      <4>1. head'[x] = head[x] /\ tail'[x] = tail[x]
        BY <2>3, <3>1 DEF TypeInv
      <4>2. Chain(o, x, Q[x])
        BY DEF Placed, QueuesInv
      <4>3. \A m \in Nodes : o[m] = InQueue(x) =>
              /\ p[m] = o[m] /\ next'[m] = next[m]
              /\ (\E u \in Threads : Linking(u, m)) => \E u \in Threads : Linking(u, m)'
        BY <2>2, <2>8, PlacesDiffer
      <4>4. Chain(p, x, Q[x])'
        BY <4>1, <4>2, <4>3, ChainKept
      <4> QED
        BY <2>6, <3>1, <4>4
    <3>2. CASE x = q
      <4>1. head'[q] = n /\ tail'[q] = n /\ n # 0
        BY <1>2, <2>3 DEF TypeInv
      <4>2. PICK c : c = <<n>>
        OBVIOUS
      <4>3. c \in Seq(Nodes) /\ Len(c) = 1 /\ c[1] = n /\ c # << >>
        BY <2>2, <4>2
      <4>4. Chain(p, q, c)'
        BY <2>2, <4>1, <4>3 DEF Chain
      <4> QED
        BY <2>6, <3>2, <4>2, <4>4
    <3> QED
      BY <3>1, <3>2
  <2>10. ASSUME NEW u \in Threads PROVE Gap(u, R)'
    <3>1. CASE pc[u] = "link"
      <4>1. loc[u].q \in Queues /\ loc[u].to \in Nodes /\ next[loc[u].to] = 0
            /\ o[loc[u].to] = InQueue(loc[u].q) /\ (\E i : i \in 1 .. Len(Q[loc[u].q]))
        BY <3>1, GapIs DEF Placed
      <4>2. loc[u].q # q
        BY <1>2, <2>4, <4>1, QueueNodes DEF Placed
      <4>3. next'[loc[u].to] = 0
        BY <2>2, <4>1, PlacesDiffer
      <4> QED
        BY <2>6, <2>7, <2>8, <3>1, <4>1, <4>2, <4>3, GapKept DEF Placed, QueuesInv
    <3>2. CASE pc[u] # "link"
      BY <2>7, <3>2 DEF Gap
    <3> QED
      BY <3>1, <3>2
  <2>11. QueuesInv(p, R)'
    BY <2>6, <2>9, <2>10 DEF QueuesInv
  <2>12. HandsInv(p)'
    <3>1. \A m \in Nodes : \A u \in Threads : u # t /\ o[m] = InHand(u) =>
            p[m] = o[m] /\ next'[m] = next[m]
      BY <2>2, PlacesDiffer
    <3>2. Holding(t, p)'
      BY <2>3, HoldsNothing DEF Moves, Pushing
    <3> QED
      BY <1>2, <1>3, <2>3, <3>1, <3>2, HandsKept DEF Placed
  <2>13. Kept(Q, R)
    <3>1. Len(Q[q]) = 0 /\ Len(R[q]) = 1
      BY <1>2, <2>4, <2>6, QueueNodes DEF Placed
    <3> QED
      BY <2>6, <3>1 DEF Kept
  <2>14. Placed(p, R)'
    BY <2>2, <2>11, <2>12 DEF Placed
  <2> QED
    BY <2>13, <2>14
<1> QED
  BY <1>4, <1>5

\* The node of a new element goes from the hands of emplace to the end of its queue.
LEMMA PlacedExchanged ==
  ASSUME TypeInv, ControlInv, NEW o, NEW Q, Placed(o, Q), NEW t \in Threads, Exchange(t)
  PROVE  \E p, R : Placed(p, R)' /\ R = [Q EXCEPT ![loc[t].q] = Append(@, loc[t].node)]
<1>1. PICK n, q, c : n = loc[t].node /\ q = loc[t].q /\ c = Q[q]
  OBVIOUS
<1>2. /\ pc[t] = "exchange" /\ q \in Queues /\ tail[q] # 0
      /\ n \in Nodes /\ o[n] = InHand(t) /\ next[n] = 0
      /\ DOMAIN o = Nodes /\ DOMAIN Q = Queues
  <2>1. pc[t] = "exchange"
    BY DEF Exchange
  <2>2. Holding(t, o)
    BY DEF Placed, HandsInv
  <2> QED
    BY <1>1, <2>1, <2>2, Inside DEF Holding, Resting, Allocating, Reserving, Popping, Pushing,
      Placed, PagesInv, QueuesInv
<1>3. /\ c \in Seq(Nodes) /\ Len(c) \in Nat /\ Len(c) # 0 /\ c # << >>
      /\ \A i \in 1 .. Len(c) : c[i] \in Nodes /\ o[c[i]] = InQueue(q)
      /\ head[q] = c[Len(c)] /\ tail[q] = c[1] /\ next[c[Len(c)]] = 0
      /\ Chain(o, q, c) /\ Len(c) \in 1 .. Len(c)
  <2>1. QueuesInv(o, Q) /\ Chain(o, q, c)
    BY <1>1, <1>2 DEF Placed, QueuesInv
  <2>2. /\ c \in Seq(Nodes) /\ Len(c) \in Nat /\ Len(c) # 0
        /\ \A i \in 1 .. Len(c) : c[i] \in Nodes /\ o[c[i]] = InQueue(q)
    BY <1>1, <1>2, <2>1, QueueNodes
  <2>3. c # << >> /\ Len(c) \in 1 .. Len(c)
    BY <2>2
  <2>4. head[q] = c[Len(c)] /\ tail[q] = c[1] /\ next[c[Len(c)]] = 0
    BY ONLY <2>1, <2>3 DEF Chain
  <2> QED
    BY ONLY <2>1, <2>2, <2>3, <2>4
<1>4. PICK l : l = [loc[t] EXCEPT !.to = head[q]]
  OBVIOUS
<1>5. /\ Moves(t, "link", l)
      /\ head' = [head EXCEPT ![q] = n]
      /\ UNCHANGED <<next, slot, count, list, size, top, tail, capacity>>
  BY <1>1, <1>4, SetMoves DEF Exchange, memory, pool
<1>6. l.to = c[Len(c)] /\ l.node = n /\ l.q = q
  BY <1>1, <1>3, <1>4 DEF TypeInv, Locals
<1>7. PICK p, R, d : /\ p = [o EXCEPT ![n] = InQueue(q)]
                     /\ R = [Q EXCEPT ![q] = d]
                     /\ d = Append(c, n)
  OBVIOUS
<1>8. /\ DOMAIN p = Nodes /\ p[n] = InQueue(q)
      /\ \A m \in Nodes : m # n => p[m] = o[m]
  BY <1>2, <1>7
<1>9. DOMAIN R = Queues /\ R[q] = d /\ \A x \in Queues : x # q => R[x] = Q[x]
  BY <1>2, <1>7
<1>10. /\ d \in Seq(Nodes) /\ Len(d) = Len(c) + 1 /\ d[Len(d)] = n
       /\ \A i \in 1 .. Len(c) : d[i] = c[i]
  BY <1>2, <1>3, <1>7, AppendProperties
<1>11. /\ pc'[t] = "link" /\ loc'[t] = l /\ pc[t] # "link"
       /\ \A u \in Threads : u # t => pc'[u] = pc[u] /\ loc'[u] = loc[u]
  BY <1>2, <1>5 DEF Moves
<1>12. \A u \in Threads : \A m : Linking(u, m)' <=> Linking(u, m) \/ (u = t /\ m = c[Len(c)])
  BY <1>6, <1>11 DEF Linking
<1>13. \A u \in Threads : ~ Linking(u, c[Len(c)])
  <2> SUFFICES ASSUME NEW u \in Threads, Linking(u, c[Len(c)]) PROVE FALSE
    OBVIOUS
  <2>1. pc[u] = "link" /\ loc[u].to = c[Len(c)]
    BY DEF Linking
  <2>2. PICK x, i : /\ x = loc[u].q /\ x \in Queues /\ Len(Q[x]) \in Nat
                    /\ i \in 1 .. Len(Q[x]) - 1 /\ loc[u].to = Q[x][i]
                    /\ o[loc[u].to] = InQueue(x)
    BY <2>1, GapIs DEF Placed
  <2>3. o[c[Len(c)]] = InQueue(q)
    BY <1>3
  <2>4. x = q
    BY <2>1, <2>2, <2>3, PlacesDiffer
  <2>5. i \in 1 .. Len(c) /\ i # Len(c) /\ c[i] = c[Len(c)]
    BY <1>1, <1>3, <2>1, <2>2, <2>4
  <2> QED
    BY <1>3, <2>5 DEF Chain
<1>14. Chain(p, q, d)'
  <2>1. \A i \in 1 .. Len(d) : i = Len(d) \/ i \in 1 .. Len(c)
    BY <1>3, <1>10
  <2>2. \A i \in 1 .. Len(c) : c[i] # n /\ p[c[i]] = InQueue(q) /\ d[i] = c[i]
    BY <1>2, <1>3, <1>8, <1>10, PlacesDiffer
  <2>3. \A i \in 1 .. Len(d) : p[d[i]] = InQueue(q)
    BY <1>8, <1>10, <2>1, <2>2
  <2>4. \A i, j \in 1 .. Len(d) : d[i] = d[j] => i = j
    BY <1>3, <1>10, <2>1, <2>2 DEF Chain
  <2>5. d # << >> /\ tail'[q] = d[1] /\ tail'[q] # 0 /\ head'[q] = n /\ next'[n] = 0
    <3>1. d[1] = c[1]
      BY <1>3, <1>10
    <3>2. head'[q] = n
      BY <1>2, <1>5 DEF TypeInv
    <3>3. d # << >>
      BY <1>3, <1>10, EmptySeq
    <3> QED
      BY <1>2, <1>3, <1>5, <3>1, <3>2, <3>3
  <2>6. ASSUME NEW i \in 1 .. Len(d) - 1, next'[d[i]] # d[i + 1]
        PROVE  \E u \in Threads : Linking(u, d[i])'
    <3>1. i \in 1 .. Len(c) /\ d[i] = c[i]
      BY <1>3, <1>10
    <3>2. CASE i = Len(c)
      BY <1>12, <3>1, <3>2
    <3>3. CASE i # Len(c)
      <4>1. i \in 1 .. Len(c) - 1 /\ i + 1 \in 1 .. Len(c)
        BY <1>3, <3>1, <3>3
      <4>2. next[c[i]] # c[i + 1]
        BY <1>5, <1>10, <2>6, <3>1, <4>1
      <4>3. \E u \in Threads : Linking(u, c[i])
        BY <1>3, <4>1, <4>2 DEF Chain
      <4> QED
        BY <1>12, <3>1, <4>3
    <3> QED
      BY <3>2, <3>3
  <2> HIDE DEF Linking
  <2> QED
    BY <1>10, <2>3, <2>4, <2>5, <2>6 DEF Chain
<1>15. ASSUME NEW x \in Queues PROVE Chain(p, x, R[x])'
  <2>1. CASE x # q
    <3>1. head'[x] = head[x] /\ tail'[x] = tail[x]
      BY <1>5, <2>1 DEF TypeInv
    <3>2. Chain(o, x, Q[x])
      BY DEF Placed, QueuesInv
    <3>3. \A m \in Nodes : o[m] = InQueue(x) =>
            /\ p[m] = o[m] /\ next'[m] = next[m]
            /\ (\E u \in Threads : Linking(u, m)) => \E u \in Threads : Linking(u, m)'
      BY <1>2, <1>5, <1>8, <1>12, PlacesDiffer
    <3>4. Chain(p, x, Q[x])'
      BY <3>1, <3>2, <3>3, ChainKept
    <3> QED
      BY <1>9, <2>1, <3>4
  <2>2. CASE x = q
    BY <1>9, <1>14, <2>2
  <2> QED
    BY <2>1, <2>2
<1>16. ASSUME NEW u \in Threads PROVE Gap(u, R)'
  <2>1. CASE u = t
    <3>1. /\ Len(c) \in 1 .. Len(d) - 1 /\ l.to = d[Len(c)] /\ l.node = d[Len(c) + 1]
      BY <1>3, <1>6, <1>10
    <3>2. next'[l.to] = 0
      BY <1>3, <1>5, <1>6
    <3>3. \A w \in Threads : Linking(w, l.to)' => w = t
      BY <1>6, <1>12, <1>13
    <3> QED
      BY <1>6, <1>9, <1>11, <2>1, <3>1, <3>2, <3>3 DEF Gap
  <2>2. CASE u # t /\ pc[u] = "link"
    <3>1. PICK x, i : /\ x = loc[u].q /\ x \in Queues /\ Len(Q[x]) \in Nat
                      /\ i \in 1 .. Len(Q[x]) - 1
                      /\ loc[u].to = Q[x][i] /\ loc[u].node = Q[x][i + 1]
                      /\ i \in 1 .. Len(Q[x]) /\ i + 1 \in 1 .. Len(Q[x])
      BY <2>2, GapIs DEF Placed
    <3>2. i \in 1 .. Len(R[x]) - 1 /\ R[x][i] = Q[x][i] /\ R[x][i + 1] = Q[x][i + 1]
      <4>1. CASE x = q
        <5>1. Q[x] = c /\ R[x] = d
          BY <1>1, <1>9, <4>1
        <5> QED
          BY <1>3, <1>10, <3>1, <5>1
      <4>2. CASE x # q
        BY <1>9, <3>1, <4>2
      <4> QED
        BY <4>1, <4>2
    <3>3. /\ next[loc[u].to] = 0 /\ \A w \in Threads : Linking(w, loc[u].to) => w = u
      BY <2>2, GapIs DEF Placed
    <3>4. loc[u].to # c[Len(c)]
      BY <1>13, <2>2 DEF Linking
    <3>a. PICK y : y = loc[u].to
      OBVIOUS
    <3>5. next'[y] = 0 /\ \A w \in Threads : Linking(w, y)' => w = u
      BY <1>5, <1>12, <3>3, <3>4, <3>a
    <3>6. pc'[u] = "link" /\ loc'[u] = loc[u] /\ y = loc'[u].to
      BY <1>11, <2>2, <3>a
    <3> HIDE DEF Linking
    <3> QED
      BY <3>1, <3>2, <3>5, <3>6 DEF Gap
  <2>3. CASE u # t /\ pc[u] # "link"
    BY <1>11, <2>3 DEF Gap
  <2> QED
    BY <2>1, <2>2, <2>3
<1>17. QueuesInv(p, R)'
  BY <1>9, <1>15, <1>16 DEF QueuesInv
<1>18. \A m \in Nodes : OnChain(o[m]) \/ OnChain(p[m]) => p[m] = o[m]
  BY <1>2, <1>8, PlacesDiffer
<1>19. LinksInv(p)'
  BY <1>5, <1>18, LinksKept DEF Placed, ListsInv
<1>20. ASSUME NEW u \in Threads PROVE First(u, p)'
  <2>1. \A m \in Nodes : o[m] = InList(u) \/ p[m] = InList(u) => p[m] = o[m] /\ next'[m] = next[m]
    BY <1>5, <1>18, PlacesDiffer
  <2> QED
    BY <1>5, <2>1, FirstKept DEF Placed, ListsInv
<1>21. StackInv(p)'
  <2>1. \A m \in Nodes : \A x : o[m] = InChunk(x) \/ p[m] = InChunk(x) =>
          p[m] = o[m] /\ next'[m] = next[m] /\ slot'[m] = slot[m]
    BY <1>5, <1>18, PlacesDiffer
  <2> QED
    BY <1>5, <2>1, StackKept DEF Placed
<1>22. HandsInv(p)'
  <2>1. \A m \in Nodes : \A u \in Threads : u # t /\ o[m] = InHand(u) =>
          p[m] = o[m] /\ next'[m] = next[m]
    BY <1>2, <1>5, <1>8, PlacesDiffer
  <2>2. Holding(t, p)'
    BY <1>11, HoldsNothing DEF Pushing
  <2> QED
    BY <1>5, <2>1, <2>2, HandsKept DEF Placed
<1>23. PagesInv(p)'
  <2>1. \A m \in Nodes : m > count => p[m] = Nowhere
    BY <1>2, <1>8, PlacesDiffer DEF Placed, PagesInv
  <2> QED
    BY <1>5, <1>8, <2>1 DEF Placed, PagesInv, Ends
<1>24. Placed(p, R)'
  BY <1>17, <1>19, <1>20, <1>21, <1>22, <1>23 DEF Placed, ListsInv
<1>25. R = [Q EXCEPT ![loc[t].q] = Append(@, loc[t].node)]
  BY <1>1, <1>2, <1>7
<1> QED
  BY <1>24, <1>25

\* The store of next_ that ends emplace closes the gap.
LEMMA PlacedLinked ==
  ASSUME TypeInv, ControlInv, NEW o, NEW Q, Placed(o, Q), NEW t \in Threads, Link(t)
  PROVE  Placed(o, Q)'
<1>1. pc[t] = "link" /\ Moves(t, "idle", NoLocals)
  BY SetMoves DEF Link
<1>0. PICK a, b, q, c : a = loc[t].to /\ b = loc[t].node /\ q = loc[t].q /\ c = Q[q]
  OBVIOUS
<1>a. PICK i \in 1 .. Len(c) - 1 :
        /\ a = c[i] /\ b = c[i + 1]
        /\ i \in 1 .. Len(c) /\ i + 1 \in 1 .. Len(c)
  BY <1>0, <1>1, GapIs DEF Placed
<1>b. /\ loc[t].q \in Queues /\ Len(Q[loc[t].q]) \in Nat
      /\ loc[t].to \in Nodes /\ o[loc[t].to] = InQueue(loc[t].q)
      /\ \A u \in Threads : Linking(u, loc[t].to) => u = t
  BY <1>1, GapIs DEF Placed
<1>2. /\ a = loc[t].to /\ b = loc[t].node /\ q = loc[t].q /\ q \in Queues
      /\ c = Q[q] /\ Len(c) \in Nat
      /\ i \in 1 .. Len(c) - 1 /\ a = c[i] /\ b = c[i + 1]
      /\ i \in 1 .. Len(c) /\ i + 1 \in 1 .. Len(c)
      /\ a \in Nodes /\ o[a] = InQueue(q)
      /\ \A u \in Threads : Linking(u, a) => u = t
  BY <1>0, <1>a, <1>b
<1>3. /\ next' = [next EXCEPT ![a] = b]
      /\ UNCHANGED <<slot, count, list, size, top, head, tail, capacity>>
  BY <1>2 DEF Link, pool, ends
<1>4. next'[a] = b /\ \A m \in Nodes : m # a => next'[m] = next[m]
  BY <1>2, <1>3 DEF TypeInv
<1>5. /\ pc'[t] = "idle" /\ \A u \in Threads : u # t => pc'[u] = pc[u] /\ loc'[u] = loc[u]
  BY <1>1 DEF Moves
<1>6. \A u \in Threads : \A m : Linking(u, m)' <=> Linking(u, m) /\ u # t
  BY <1>5 DEF Linking
<1>7. Linking(t, a)
  BY <1>1, <1>2 DEF Linking
<1>8. Chain(o, q, c)'
  <2>1. Chain(o, q, c) /\ \A j \in 1 .. Len(c) : c[j] \in Nodes
    BY <1>2, QueueNodes DEF Placed, QueuesInv
  <2>2. \A j, k \in 1 .. Len(c) : c[j] = c[k] => j = k
    BY <2>1 DEF Chain
  <2>3. c # << >> => /\ tail[q] = c[1] /\ head[q] = c[Len(c)] /\ next[c[Len(c)]] = 0
                     /\ next'[c[Len(c)]] = 0
    <3>1. Len(c) \in 1 .. Len(c) /\ Len(c) # i
      BY <1>2
    <3>2. c[Len(c)] # a /\ c[Len(c)] \in Nodes
      BY <1>2, <2>1, <2>2, <3>1
    <3> QED
      BY <1>4, <2>1, <3>2 DEF Chain
  <2>4. ASSUME NEW j \in 1 .. Len(c) - 1, next'[c[j]] # c[j + 1]
        PROVE  \E u \in Threads : Linking(u, c[j])'
    <3>1. j \in 1 .. Len(c) /\ j # i
      BY <1>2, <1>4, <2>4
    <3>2. c[j] # a /\ c[j] \in Nodes
      BY <1>2, <2>1, <2>2, <3>1
    <3>3. PICK u \in Threads : Linking(u, c[j])
      BY <1>4, <2>1, <2>4, <3>2 DEF Chain
    <3>4. u # t
      BY <1>2, <3>2, <3>3 DEF Linking
    <3> QED
      BY <1>6, <3>3, <3>4
  <2> HIDE DEF Linking
  <2> QED
    BY <1>3, <2>1, <2>3, <2>4 DEF Chain
<1>9. ASSUME NEW x \in Queues PROVE Chain(o, x, Q[x])'
  <2>1. CASE x # q
    <3>1. head'[x] = head[x] /\ tail'[x] = tail[x]
      BY <1>3
    <3>2. Chain(o, x, Q[x])
      BY DEF Placed, QueuesInv
    <3>3. \A m \in Nodes : o[m] = InQueue(x) =>
            /\ o[m] = o[m] /\ next'[m] = next[m]
            /\ (\E u \in Threads : Linking(u, m)) => \E u \in Threads : Linking(u, m)'
      <4> SUFFICES ASSUME NEW m \in Nodes, o[m] = InQueue(x)
                   PROVE  /\ next'[m] = next[m]
                          /\ \A u \in Threads : Linking(u, m) => Linking(u, m)'
        OBVIOUS
      <4>1. m # a
        BY <1>2, <2>1, PlacesDiffer
      <4>2. \A u \in Threads : Linking(u, m) => u # t
        BY <1>2, <4>1 DEF Linking
      <4> QED
        BY <1>4, <1>6, <4>1, <4>2
    <3> QED
      BY <3>1, <3>2, <3>3, ChainKept
  <2>2. CASE x = q
    BY <1>2, <1>8, <2>2
  <2> QED
    BY <2>1, <2>2
<1>10. ASSUME NEW u \in Threads PROVE Gap(u, Q)'
  <2>1. CASE u # t /\ pc[u] = "link"
    <3>1. loc[u].to \in Nodes /\ next[loc[u].to] = 0
      BY <2>1, GapIs DEF Placed
    <3>2. loc[u].to # a
      BY <1>2, <2>1 DEF Linking
    <3>3. next'[loc[u].to] = 0
      BY <1>4, <3>1, <3>2
    <3> QED
      BY <1>5, <1>6, <2>1, <3>3, GapKept DEF Placed, QueuesInv
  <2>2. CASE ~ (u # t /\ pc[u] = "link")
    BY <1>5, <2>2 DEF Gap
  <2> QED
    BY <2>1, <2>2
<1>11. QueuesInv(o, Q)'
  BY <1>9, <1>10 DEF QueuesInv, Placed
<1>12. LinksInv(o)'
  <2>1. \A m \in Nodes : OnChain(o[m]) \/ OnChain(o[m]) => o[m] = o[m] /\ next'[m] = next[m]
    BY <1>2, <1>4, PlacesDiffer
  <2> QED
    BY <2>1, LinksKept DEF Placed, ListsInv
<1>13. ASSUME NEW u \in Threads PROVE First(u, o)'
  <2>1. \A m \in Nodes : o[m] = InList(u) \/ o[m] = InList(u) => o[m] = o[m] /\ next'[m] = next[m]
    BY <1>2, <1>4, PlacesDiffer
  <2> QED
    BY <1>3, <2>1, FirstKept DEF Placed, ListsInv
<1>14. StackInv(o)'
  <2>1. \A m \in Nodes : \A x : o[m] = InChunk(x) \/ o[m] = InChunk(x) =>
          o[m] = o[m] /\ next'[m] = next[m] /\ slot'[m] = slot[m]
    BY <1>2, <1>3, <1>4, PlacesDiffer
  <2> QED
    BY <1>3, <2>1, StackKept DEF Placed
<1>15. HandsInv(o)'
  <2>1. \A m \in Nodes : \A u \in Threads : u # t /\ o[m] = InHand(u) =>
          o[m] = o[m] /\ next'[m] = next[m]
    BY <1>2, <1>4, PlacesDiffer
  <2>2. Holding(t, o)'
    BY <1>5, HoldsNothing DEF Pushing
  <2> QED
    BY <1>1, <1>3, <2>1, <2>2, HandsKept DEF Placed
<1>16. PagesInv(o)'
  BY <1>3 DEF Placed, PagesInv, Ends
<1> QED
  BY <1>11, <1>12, <1>13, <1>14, <1>15, <1>16 DEF Placed, ListsInv

\* The consumer of a queue that has an element finds the link of its dummy.
LEMMA DummyLinked ==
  ASSUME TypeInv, ControlInv, NEW o, NEW Q, QueuesInv(o, Q), NEW q \in Queues,
         tail[q] # 0, next[tail[q]] # 0
  PROVE  /\ Len(Q[q]) \in Nat /\ Len(Q[q]) > 1
         /\ tail[q] = Q[q][1] /\ next[tail[q]] = Q[q][2]
         /\ \A u \in Threads : ~ Linking(u, tail[q])
<1>1. PICK c : c = Q[q]
  OBVIOUS
<1>2. /\ c \in Seq(Nodes) /\ Len(c) \in Nat /\ Len(c) # 0 /\ c # << >> /\ Chain(o, q, c)
      /\ \A i \in 1 .. Len(c) : c[i] \in Nodes /\ o[c[i]] = InQueue(q)
  <2>1. Chain(o, q, c)
    BY <1>1 DEF QueuesInv
  <2>2. /\ c \in Seq(Nodes) /\ Len(c) \in Nat /\ Len(c) # 0 /\ (c = << >> <=> Len(c) = 0)
        /\ \A i \in 1 .. Len(c) : c[i] \in Nodes /\ o[c[i]] = InQueue(q)
    BY <1>1, QueueNodes
  <2> QED
    BY <2>1, <2>2
<1>3. tail[q] = c[1] /\ next[c[Len(c)]] = 0
  BY <1>2 DEF Chain
<1>4. Len(c) > 1
  BY <1>2, <1>3
<1>5. \A u \in Threads : ~ Linking(u, tail[q])
  <2> SUFFICES ASSUME NEW u \in Threads, Linking(u, tail[q]) PROVE FALSE
    OBVIOUS
  <2>1. pc[u] = "link" /\ loc[u].to = tail[q]
    BY DEF Linking
  <2> QED
    BY <2>1, GapIs
<1>6. next[tail[q]] = c[2]
  <2>1. 1 \in 1 .. Len(c) - 1 /\ 1 + 1 = 2
    BY <1>2, <1>4
  <2> HIDE DEF Linking
  <2> QED
    BY <1>2, <1>3, <1>5, <2>1 DEF Chain
<1> QED
  BY <1>1, <1>2, <1>3, <1>4, <1>5, <1>6

\* The queue without its dummy: the node of the first element is the dummy now.
LEMMA ChainAdvanced ==
  ASSUME NEW o, NEW p, NEW q \in Queues, NEW c, Chain(o, q, c), Len(c) > 1,
         head'[q] = head[q], tail'[q] = c[2], c[2] # 0,
         \A n \in Nodes : o[n] = InQueue(q) /\ n # c[1] =>
           /\ p[n] = o[n] /\ next'[n] = next[n]
           /\ (\E u \in Threads : Linking(u, n)) => \E u \in Threads : Linking(u, n)'
  PROVE  Chain(p, q, Tail(c))'
<1>1. PICK d : d = Tail(c)
  OBVIOUS
<1>2. c \in Seq(Nodes) /\ Len(c) \in Nat /\ c # << >>
  BY LenProperties, EmptySeq DEF Chain
<1>3. /\ d \in Seq(Nodes) /\ Len(d) = Len(c) - 1
      /\ \A i \in 1 .. Len(d) : d[i] = c[i + 1]
  BY <1>1, <1>2, HeadTailProperties
<1>4. \A i \in 1 .. Len(c) : c[i] \in Nodes /\ o[c[i]] = InQueue(q)
  BY <1>2, ElementOfSeq DEF Chain
<1>5. \A i, j \in 1 .. Len(c) : c[i] = c[j] => i = j
  BY DEF Chain
<1>6. ASSUME NEW i \in 1 .. Len(d)
      PROVE  /\ d[i] \in Nodes /\ d[i] = c[i + 1] /\ i + 1 \in 1 .. Len(c)
             /\ p[d[i]] = InQueue(q) /\ next'[d[i]] = next[d[i]]
             /\ (\E u \in Threads : Linking(u, d[i])) => \E u \in Threads : Linking(u, d[i])'
  <2>1. i + 1 \in 1 .. Len(c) /\ 1 \in 1 .. Len(c) /\ i + 1 # 1
    BY <1>2, <1>3
  <2>2. d[i] = c[i + 1] /\ d[i] \in Nodes /\ o[d[i]] = InQueue(q)
    BY <1>3, <1>4, <2>1
  <2>3. d[i] # c[1]
    BY <1>5, <2>1, <2>2
  <2>4. PICK m \in Nodes : m = d[i]
    BY <2>2
  <2> HIDE DEF Linking
  <2> QED
    BY <2>1, <2>2, <2>3, <2>4
<1>7. d # << >> /\ Len(d) \in Nat /\ Len(d) \in 1 .. Len(d) /\ 1 \in 1 .. Len(d)
  <2>1. Len(d) >= 1 /\ Len(d) \in Nat
    BY <1>2, <1>3
  <2> QED
    BY <1>3, <2>1, EmptySeq
<1>8. \A i, j \in 1 .. Len(d) : d[i] = d[j] => i = j
  <2> SUFFICES ASSUME NEW i \in 1 .. Len(d), NEW j \in 1 .. Len(d), d[i] = d[j] PROVE i = j
    OBVIOUS
  <2>1. i + 1 = j + 1
    BY <1>5, <1>6
  <2> QED
    BY <1>7, <2>1
<1>9. tail'[q] = d[1] /\ head'[q] = d[Len(d)] /\ next'[d[Len(d)]] = 0
  <2>1. d[Len(d)] = c[Len(c)] /\ d[1] = c[2]
    BY <1>2, <1>3, <1>7
  <2> QED
    BY <1>2, <1>6, <1>7, <2>1 DEF Chain
<1>10. ASSUME NEW i \in 1 .. Len(d) - 1, next'[d[i]] # d[i + 1]
       PROVE  \E u \in Threads : Linking(u, d[i])'
  <2>1. i \in 1 .. Len(d) /\ i + 1 \in 1 .. Len(d) /\ i + 1 \in 1 .. Len(c) - 1
    BY <1>2, <1>3
  <2>2. d[i] = c[i + 1] /\ d[i + 1] = c[(i + 1) + 1]
    BY <1>3, <2>1
  <2>3. next[c[i + 1]] # c[(i + 1) + 1]
    BY <1>6, <1>10, <2>1, <2>2
  <2>4. \E u \in Threads : Linking(u, c[i + 1])
    BY <2>1, <2>3 DEF Chain
  <2> QED
    BY <1>6, <2>1, <2>2, <2>4
<1> HIDE DEF Linking
<1>11. Chain(p, q, d)'
  BY <1>3, <1>6, <1>7, <1>8, <1>9, <1>10 DEF Chain
<1> QED
  BY <1>1, <1>11

\* The dummy goes from the queue to the list of the thread.
LEMMA PlacedAdvanced ==
  ASSUME TypeInv, ControlInv, NEW o, NEW Q, Placed(o, Q), NEW t \in Threads, NEW q \in Queues,
         NEW k \in Locals, Advance(t, q, k), tail[q] # 0, next[tail[q]] # 0,
         k.last = 0, pc[t] \in {"idle", "drain"}
  PROVE  \E p, R : Placed(p, R)' /\ R = [Q EXCEPT ![q] = Tail(@)]
<1>1. PICK n, c : n = tail[q] /\ c = Q[q]
  OBVIOUS
<1>2. /\ Len(c) \in Nat /\ Len(c) > 1 /\ n = c[1] /\ next[n] = c[2]
      /\ \A u \in Threads : ~ Linking(u, n)
  BY <1>1, DummyLinked DEF Placed
<1>3. /\ Chain(o, q, c) /\ 1 \in 1 .. Len(c) /\ n \in Nodes /\ o[n] = InQueue(q)
      /\ DOMAIN o = Nodes /\ DOMAIN Q = Queues /\ n # 0 /\ c[2] # 0
  BY <1>1, <1>2, QueueNodes DEF Placed, QueuesInv, PagesInv
<1>4. /\ tail' = [tail EXCEPT ![q] = c[2]]
      /\ next' = [next EXCEPT ![n] = list[t]]
      /\ list' = [list EXCEPT ![t] = n]
      /\ UNCHANGED <<slot, top, count, head, capacity>>
  BY <1>1, <1>2 DEF Advance
<1>5. /\ next'[n] = list[t] /\ \A m \in Nodes : m # n => next'[m] = next[m]
      /\ list'[t] = n /\ \A u \in Threads : u # t => list'[u] = list[u]
  BY <1>3, <1>4 DEF TypeInv
<1>6. PICK s, l : /\ Moves(t, s, l) /\ s \in {"push", "drain", "idle"}
                  /\ s = "push" => l.node = n /\ l.last = 0
  <2>1. PICK s, l : Set(t, s, l) /\ s \in {"push", "drain", "idle"}
                    /\ (s = "push" => l = [k EXCEPT !.node = n])
    BY <1>1 DEF Advance
  <2>2. s = "push" => l.node = n /\ l.last = 0
    BY <2>1 DEF Locals
  <2> QED
    BY <2>1, <2>2, SetMoves
<1>7. PICK p, R, d : /\ p = [o EXCEPT ![n] = InList(t)]
                     /\ R = [Q EXCEPT ![q] = d]
                     /\ d = Tail(c)
  OBVIOUS
<1>8. p[n] = InList(t) /\ DOMAIN p = Nodes /\ \A m \in Nodes : m # n => p[m] = o[m]
  BY <1>3, <1>7
<1>9. DOMAIN R = Queues /\ R[q] = d /\ \A x \in Queues : x # q => R[x] = Q[x]
  BY <1>3, <1>7
<1>10. /\ pc'[t] = s /\ loc'[t] = l /\ pc[t] # "link" /\ s # "link"
       /\ \A u \in Threads : u # t => pc'[u] = pc[u] /\ loc'[u] = loc[u]
  BY <1>6 DEF Moves
<1>11. \A u \in Threads : \A m : Linking(u, m)' <=> Linking(u, m)
  BY <1>10 DEF Linking
<1>12. Chain(p, q, d)'
  <2>1. head'[q] = head[q] /\ tail'[q] = c[2]
    BY <1>4 DEF TypeInv
  <2>2. \A m \in Nodes : o[m] = InQueue(q) /\ m # c[1] =>
           /\ p[m] = o[m] /\ next'[m] = next[m]
           /\ (\E u \in Threads : Linking(u, m)) => \E u \in Threads : Linking(u, m)'
    BY <1>2, <1>5, <1>8, <1>11
  <2>3. Chain(p, q, Tail(c))'
    BY <1>2, <1>3, <2>1, <2>2, ChainAdvanced
  <2> QED
    BY <1>7, <2>3
<1>13. ASSUME NEW x \in Queues PROVE Chain(p, x, R[x])'
  <2>1. CASE x # q
    <3>1. head'[x] = head[x] /\ tail'[x] = tail[x]
      BY <1>4, <2>1 DEF TypeInv
    <3>2. Chain(o, x, Q[x])
      BY DEF Placed, QueuesInv
    <3>3. \A m \in Nodes : o[m] = InQueue(x) =>
            /\ p[m] = o[m] /\ next'[m] = next[m]
            /\ (\E u \in Threads : Linking(u, m)) => \E u \in Threads : Linking(u, m)'
      BY <1>3, <1>5, <1>8, <1>11, <2>1, PlacesDiffer
    <3>4. Chain(p, x, Q[x])'
      BY <3>1, <3>2, <3>3, ChainKept
    <3> QED
      BY <1>9, <2>1, <3>4
  <2>2. CASE x = q
    BY <1>9, <1>12, <2>2
  <2> QED
    BY <2>1, <2>2
<1>14. ASSUME NEW u \in Threads PROVE Gap(u, R)'
  <2>1. CASE pc[u] # "link"
    BY <1>10, <2>1 DEF Gap
  <2>2. CASE pc[u] = "link"
    <3>0. pc'[u] = "link" /\ loc'[u] = loc[u] /\ u # t
      BY <1>10, <2>2
    <3>1. PICK y, x : y = loc[u].to /\ x = loc[u].q
      OBVIOUS
    <3>2. x \in Queues /\ Len(Q[x]) \in Nat /\ next[y] = 0 /\ y \in Nodes
          /\ \A w \in Threads : Linking(w, y) => w = u
      BY <2>2, <3>1, GapIs DEF Placed
    <3>3. PICK i \in 1 .. Len(Q[x]) - 1 : y = Q[x][i] /\ loc[u].node = Q[x][i + 1]
      BY <2>2, <3>1, GapIs DEF Placed
    <3>4. y # n
      BY <1>2, <2>2, <3>1 DEF Linking
    <3>5. next'[y] = 0 /\ \A w \in Threads : Linking(w, y)' => w = u
      BY <1>5, <1>11, <3>2, <3>4
    <3>6. \E j \in 1 .. Len(R[x]) - 1 : y = R[x][j] /\ loc[u].node = R[x][j + 1]
      <4>1. CASE x # q
        BY <1>9, <3>2, <3>3, <4>1
      <4>2. CASE x = q
        <5>1. i # 1 /\ i \in Nat /\ i < Len(c) /\ i >= 1
          BY <1>1, <1>2, <3>2, <3>3, <3>4, <4>2
        <5>2. c \in Seq(Nodes) /\ c # << >>
          BY <1>2, <1>3, EmptySeq DEF Chain
        <5>3. Len(d) = Len(c) - 1 /\ \A j \in 1 .. Len(d) : d[j] = c[j + 1]
          BY <1>7, <5>2, HeadTailProperties
        <5>4. i - 1 \in 1 .. Len(d) - 1 /\ i - 1 \in 1 .. Len(d) /\ i \in 1 .. Len(d)
          BY <1>2, <5>1, <5>3
        <5>5. d[i - 1] = c[i] /\ d[(i - 1) + 1] = c[i + 1]
          BY <5>1, <5>3, <5>4
        <5> QED
          BY <1>1, <1>9, <3>3, <4>2, <5>4, <5>5
      <4> QED
        BY <4>1, <4>2
    <3> HIDE DEF Linking
    <3> QED
      BY <3>0, <3>1, <3>5, <3>6 DEF Gap
  <2> QED
    BY <2>1, <2>2
<1>15. QueuesInv(p, R)'
  BY <1>9, <1>13, <1>14 DEF QueuesInv
<1>16. First(t, o) /\ LinksInv(o)
  BY DEF Placed, ListsInv
<1>17. LinksInv(p)'
  <2> SUFFICES ASSUME NEW m \in Nodes, OnChain(p[m]), next'[m] # 0
               PROVE  /\ next'[m] \in Nodes /\ p[next'[m]] = p[m]
                      /\ \A j \in Nodes : p[j] = p[m] /\ next'[j] = next'[m] => j = m
    BY DEF LinksInv
  <2>1. CASE m = n
    <3>1. list[t] # 0 /\ list[t] \in Nodes /\ o[list[t]] = InList(t) /\ list[t] # n
      BY <1>3, <1>5, <1>16, <2>1, PlacesDiffer DEF First
    <3>2. \A j \in Nodes : o[j] = InList(t) => next[j] # list[t]
      BY <1>16, <3>1 DEF First
    <3> QED
      BY <1>5, <1>8, <2>1, <3>1, <3>2
  <2>2. CASE m # n
    <3>1. p[m] = o[m] /\ next'[m] = next[m]
      BY <1>5, <1>8, <2>2
    <3>2. next[m] \in Nodes /\ o[next[m]] = o[m] /\ OnChain(o[m])
      BY <1>16, <3>1 DEF LinksInv
    <3>3. next[m] # n
      BY <1>3, <3>2, PlacesDiffer
    <3>4. ASSUME NEW j \in Nodes, p[j] = p[m], next'[j] = next'[m] PROVE j = m
      <4>1. CASE j = n
        <5>1. o[m] = InList(t) /\ next[m] = list[t] /\ list[t] # 0
          BY <1>5, <1>8, <3>1, <3>4, <4>1
        <5> QED
          BY <1>16, <5>1 DEF First
      <4>2. CASE j # n
        <5>1. o[j] = o[m] /\ next[j] = next[m]
          BY <1>5, <1>8, <3>1, <3>4, <4>2
        <5> QED
          BY <1>16, <3>1, <3>2, <5>1 DEF LinksInv
      <4> QED
        BY <4>1, <4>2
    <3> QED
      BY <1>8, <3>1, <3>2, <3>3, <3>4
  <2> QED
    BY <2>1, <2>2
<1>18. ASSUME NEW u \in Threads PROVE First(u, p)'
  <2>1. CASE u # t
    <3>1. \A m \in Nodes : o[m] = InList(u) \/ p[m] = InList(u) => p[m] = o[m] /\ next'[m] = next[m]
      BY <1>3, <1>5, <1>8, <2>1, PlacesDiffer
    <3> QED
      BY <1>5, <2>1, <3>1, FirstKept DEF Placed, ListsInv
  <2>2. CASE u = t
    <3>1. ASSUME NEW m \in Nodes, p[m] = InList(t) PROVE next'[m] # n
      <4>1. CASE m = n
        <5>1. list[t] = 0 \/ o[list[t]] = InList(t)
          BY <1>16 DEF First
        <5> QED
          BY <1>3, <1>5, <4>1, <5>1, PlacesDiffer
      <4>2. CASE m # n
        <5>1. o[m] = InList(t) /\ OnChain(o[m]) /\ next'[m] = next[m]
          BY <1>5, <1>8, <3>1, <4>2, PlacesDiffer
        <5>2. next[m] = n => o[n] = InList(t)
          BY <1>3, <1>16, <5>1 DEF LinksInv
        <5> QED
          BY <1>3, <5>1, <5>2, PlacesDiffer
      <4> QED
        BY <4>1, <4>2
    <3> QED
      BY <1>3, <1>5, <1>8, <2>2, <3>1 DEF First
  <2> QED
    BY <2>1, <2>2
<1>19. StackInv(p)'
  <2>1. \A m \in Nodes : \A x : o[m] = InChunk(x) \/ p[m] = InChunk(x) =>
          p[m] = o[m] /\ next'[m] = next[m] /\ slot'[m] = slot[m]
    BY <1>3, <1>4, <1>5, <1>8, PlacesDiffer
  <2> QED
    BY <1>4, <2>1, StackKept DEF Placed
<1>20. HandsInv(p)'
  <2>1. \A m \in Nodes : \A u \in Threads : u # t /\ o[m] = InHand(u) =>
          p[m] = o[m] /\ next'[m] = next[m]
    BY <1>3, <1>5, <1>8, PlacesDiffer
  <2>2. Holding(t, p)'
    BY <1>3, <1>5, <1>6, <1>10 DEF Holding, GivingBack, Reserving, Pushing
  <2> QED
    BY <1>4, <1>5, <1>6, <2>1, <2>2, HandsKept DEF Placed
<1>21. PagesInv(p)'
  <2>1. \A m \in Nodes : m > count => p[m] = Nowhere
    BY <1>3, <1>8, PlacesDiffer DEF Placed, PagesInv
  <2> QED
    BY <1>4, <1>8, <2>1 DEF Placed, PagesInv, Ends
<1>22. Placed(p, R)'
  BY <1>15, <1>17, <1>18, <1>19, <1>20, <1>21 DEF Placed, ListsInv
<1>23. R = [Q EXCEPT ![q] = Tail(@)]
  BY <1>1, <1>3, <1>7
<1> QED
  BY <1>22, <1>23

\* The destructor has removed all elements: its queue has no node but the dummy.
LEMMA OnlyDummy ==
  ASSUME TypeInv, ControlInv, NEW o, NEW Q, QueuesInv(o, Q), NEW t \in Threads,
         pc[t] = "drain", next[tail[loc[t].q]] = 0
  PROVE  Len(Q[loc[t].q]) = 1 /\ loc[t].q \in Queues
<1>1. PICK q, c : q = loc[t].q /\ c = Q[q]
  OBVIOUS
<1>2. q \in Queues /\ tail[q] # 0 /\ \A u \in Threads : loc[u].q = q => u = t
  <2>1. loc[t].q \in Queues /\ tail[loc[t].q] # 0
    BY Inside DEF Resting, Allocating, Reserving, Popping, Pushing
  <2>2. \A u \in Threads : loc[u].q = loc[t].q => u = t
    BY DEF ControlInv, Control, Resting
  <2> QED
    BY <1>1, <2>1, <2>2
<1>3. Chain(o, q, c)
  BY <1>1, <1>2 DEF QueuesInv
<1>4. /\ c \in Seq(Nodes) /\ Len(c) \in Nat /\ Len(c) # 0 /\ (c = << >> <=> Len(c) = 0)
      /\ \A i \in 1 .. Len(c) : c[i] \in Nodes /\ o[c[i]] = InQueue(q)
  BY <1>1, <1>2, QueueNodes
<1>5. tail[q] = c[1]
  BY <1>3, <1>4 DEF Chain
<1>6. PICK k \in Nat : k = Len(c)
  BY <1>4
<1>7. k = 1
  <2> SUFFICES ASSUME k > 1 PROVE FALSE
    BY <1>4, <1>6
  <2>1. 1 \in 1 .. Len(c) - 1 /\ 1 + 1 \in 1 .. Len(c) /\ 1 \in 1 .. Len(c)
    BY <1>6
  <2>2. next[c[1]] # c[1 + 1]
    BY <1>1, <1>4, <1>5, <2>1 DEF Nodes
  <2>3. PICK u \in Threads : Linking(u, c[1])
    BY <1>3, <2>1, <2>2 DEF Chain
  <2>4. pc[u] = "link" /\ loc[u].to = c[1]
    BY <2>3 DEF Linking
  <2>5. o[c[1]] = InQueue(loc[u].q) /\ o[c[1]] = InQueue(q)
    BY <1>4, <2>1, <2>4, GapIs
  <2>6. u = t
    BY <1>2, <2>5, PlacesDiffer
  <2> QED
    BY <2>4, <2>6
<1> QED
  BY <1>1, <1>2, <1>6, <1>7

\* The destructor leaves the dummy behind.
LEMMA PlacedDrained ==
  ASSUME TypeInv, ControlInv, NEW o, NEW Q, Placed(o, Q), NEW t \in Threads, Drain(t),
         next[tail[loc[t].q]] = 0
  PROVE  \E R : Placed(o, R)' /\ Kept(Q, R)
<1>1. PICK q : q = loc[t].q
  OBVIOUS
<1>2. pc[t] = "drain" /\ q \in Queues /\ \A u \in Threads : loc[u].q = q => u = t
  <2>1. pc[t] = "drain"
    BY DEF Drain
  <2> QED
    BY <1>1, <2>1, Inside DEF Resting, ControlInv, Control
<1>3. /\ head' = [head EXCEPT ![q] = 0] /\ tail' = [tail EXCEPT ![q] = 0]
      /\ UNCHANGED <<next, slot, count, list, size, top, capacity>>
  BY <1>1 DEF Drain, memory, pool
<1>4. PICK s : Moves(t, s, NoLocals) /\ s \in {"free", "idle"}
  BY SetMoves DEF Drain
<1>5. /\ pc'[t] = s /\ \A u \in Threads : u # t => pc'[u] = pc[u] /\ loc'[u] = loc[u]
      /\ s # "link" /\ pc[t] # "link"
  BY <1>2, <1>4 DEF Moves
<1>6. \A u \in Threads : \A m : Linking(u, m)' <=> Linking(u, m)
  BY <1>5 DEF Linking
<1>7. PICK R : R = [Q EXCEPT ![q] = << >>]
  OBVIOUS
<1>8. DOMAIN R = Queues /\ R[q] = << >> /\ \A x \in Queues : x # q => R[x] = Q[x]
  BY <1>2, <1>7 DEF Placed, QueuesInv
<1>9. ASSUME NEW x \in Queues PROVE Chain(o, x, R[x])'
  <2>1. CASE x # q
    <3>1. head'[x] = head[x] /\ tail'[x] = tail[x]
      BY <1>3, <2>1 DEF TypeInv
    <3>2. Chain(o, x, Q[x])
      BY DEF Placed, QueuesInv
    <3>3. \A m \in Nodes : o[m] = InQueue(x) =>
            /\ o[m] = o[m] /\ next'[m] = next[m]
            /\ (\E u \in Threads : Linking(u, m)) => \E u \in Threads : Linking(u, m)'
      BY <1>3, <1>6
    <3>4. Chain(o, x, Q[x])'
      BY <3>1, <3>2, <3>3, ChainKept
    <3> QED
      BY <1>8, <2>1, <3>4
  <2>2. CASE x = q
    <3>1. tail'[q] = 0
      BY <1>2, <1>3 DEF TypeInv
    <3>2. PICK c : c = << >>
      OBVIOUS
    <3>3. c \in Seq(Nodes) /\ Len(c) = 0
      BY <3>2
    <3>4. 1 .. Len(c) = {} /\ 1 .. Len(c) - 1 = {}
      BY <3>3
    <3>5. Chain(o, q, c)'
      BY <3>1, <3>2, <3>3, <3>4 DEF Chain
    <3> QED
      BY <1>8, <2>2, <3>2, <3>5
  <2> QED
    BY <2>1, <2>2
<1>10. ASSUME NEW u \in Threads PROVE Gap(u, R)'
  <2>1. CASE u # t /\ pc[u] = "link"
    <3>1. loc[u].q \in Queues /\ loc[u].q # q /\ next[loc[u].to] = 0
      BY <1>2, <2>1, GapIs DEF Placed
    <3>2. R[loc[u].q] = Q[loc[u].q] /\ next'[loc[u].to] = 0
      BY <1>3, <1>8, <3>1
    <3> QED
      BY <1>5, <1>6, <2>1, <3>2, GapKept DEF Placed, QueuesInv
  <2>2. CASE ~ (u # t /\ pc[u] = "link")
    BY <1>5, <2>2 DEF Gap
  <2> QED
    BY <2>1, <2>2
<1>11. QueuesInv(o, R)'
  BY <1>8, <1>9, <1>10 DEF QueuesInv
<1>12. ListsInv(o)'
  BY <1>3 DEF Placed, ListsInv, LinksInv, First
<1>13. StackInv(o)'
  BY <1>3 DEF Placed, StackInv
<1>14. HandsInv(o)'
  <2>1. Holding(t, o)'
    BY <1>4, <1>5, HoldsNothing DEF Pushing
  <2>2. \A m \in Nodes : \A u \in Threads : u # t /\ o[m] = InHand(u) =>
          o[m] = o[m] /\ next'[m] = next[m]
    BY <1>3
  <2> QED
    BY <1>3, <1>4, <2>1, <2>2, HandsKept DEF Placed
<1>15. PagesInv(o)'
  BY <1>3 DEF Placed, PagesInv, Ends
<1>16. Placed(o, R)'
  BY <1>11, <1>12, <1>13, <1>14, <1>15 DEF Placed
<1>17. Kept(Q, R)
  <2>1. Len(Q[q]) = 1 /\ Len(R[q]) = 0
    BY <1>1, <1>2, <1>8, OnlyDummy DEF Placed
  <2> QED
    BY <1>8, <2>1 DEF Kept
<1> QED
  BY <1>16, <1>17

\* No queue lives, nobody is in an operation and there are no nodes.
Nothing(R) ==
  /\ TypeInv
  /\ \A q \in Queues : tail[q] = 0
  /\ \A t \in Threads : pc[t] \in Resting /\ list[t] = 0
  /\ top.node = 0 /\ count = 0
  /\ DOMAIN R = Queues /\ \A q \in Queues : R[q] = << >>

Somewhere(R) == \E p : Placed(p, R)

\* Then every node is nowhere.
LEMMA NothingPlaced == \A R : Nothing(R) => Somewhere(R)
<1> SUFFICES ASSUME NEW R, Nothing(R) PROVE Somewhere(R)
  OBVIOUS
<1> USE DEF Nothing
<1>1. PICK p : p = [n \in Nodes |-> Nowhere]
  OBVIOUS
<1>2. \A n \in Nodes : p[n] = Nowhere
  BY <1>1
<1>3. QueuesInv(p, R)
  <2>1. PICK c : c = << >>
    OBVIOUS
  <2>2. c \in Seq(Nodes) /\ Len(c) = 0
    BY <2>1
  <2>3. 1 .. Len(c) = {} /\ 1 .. Len(c) - 1 = {}
    BY <2>2
  <2>4. \A q \in Queues : Chain(p, q, c)
    BY <2>1, <2>2, <2>3 DEF Chain
  <2>5. DOMAIN R = Queues /\ \A q \in Queues : R[q] = c
    BY <2>1
  <2>6. \A t \in Threads : Gap(t, R)
    BY DEF Gap, Resting
  <2> QED
    BY <2>4, <2>5, <2>6 DEF QueuesInv
<1>4. ListsInv(p)
  BY <1>2, PlacesDiffer DEF ListsInv, LinksInv, First
<1>5. StackInv(p)
  BY <1>2, PlacesDiffer DEF StackInv
<1>6. HandsInv(p)
  BY DEF HandsInv, Holding, GivingBack, Reserving, Pushing, Resting
<1>7. PagesInv(p)
  BY <1>1, <1>2, EndsApart DEF PagesInv, TypeInv
<1>8. Placed(p, R)
  BY <1>3, <1>4, <1>5, <1>6, <1>7 DEF Placed
<1> QED
  BY <1>8 DEF Somewhere

\* Free_global, when there is no queue.
LEMMA PlacedFreed ==
  ASSUME TypeInv, TypeInv', ControlInv, InstancesInv, NEW o, NEW Q, Placed(o, Q),
         NEW t \in Threads, Free(t)
  PROVE  \E p : Placed(p, Q)'
<1>1. CASE instances # 0
  <2>1. Set(t, "idle", NoLocals) /\ UNCHANGED <<capacity, memory, top, count, list, ends>>
        /\ pc[t] # "link"
    BY <1>1 DEF Free, pool
  <2>2. "idle" \in Resting
    BY DEF Resting
  <2> QED
    BY <2>1, <2>2, PlacedResting
<1>2. CASE instances = 0
  <2>1. Live = {}
    BY <1>2, FS_EmptySet DEF InstancesInv
  <2>2. \A q \in Queues : tail[q] = 0
    BY <2>1 DEF Live
  <2>3. \A u \in Threads : pc[u] \in Resting
    BY <2>1 DEF Live, Quiet, ControlInv, Control
  <2>4. \A u \in Threads : pc'[u] \in Resting
    BY <2>3 DEF Free, Set, Resting, TypeInv
  <2>5. /\ \A q \in Queues : tail'[q] = 0
        /\ \A u \in Threads : list'[u] = 0
        /\ top'.node = 0 /\ count' = 0
    BY <1>2, <2>2 DEF Free, FreeGlobal, StackReset, ManagerReset, ends
  <2>6. DOMAIN Q = Queues /\ \A q \in Queues : Q[q] = << >>
    BY <2>2, QueueNodes DEF Placed, QueuesInv
  <2>7. Nothing(Q)'
    BY <2>4, <2>5, <2>6 DEF Nothing
  <2>8. (\A R : Nothing(R) => Somewhere(R))'
    BY NothingPlaced, PTL
  <2> QED
    BY <2>7, <2>8 DEF Somewhere
<1> QED
  BY <1>1, <1>2

\* What a step does to the queues: nothing to their elements, or one leaves, or an
\* emplace exchanges head_.
Flow(Q, R) ==
  \/ Kept(Q, R)
  \/ \E q \in Queues : Len(Q[q]) > 1 /\ R = [Q EXCEPT ![q] = Tail(@)]
  \/ \E t \in Threads : Exchange(t)

\* The places of the nodes are preserved: every node has one in every reachable state.
LEMMA PlacedNext ==
  ASSUME TypeInv, TypeInv', ControlInv, InstancesInv, PopInv, NEW o, NEW Q, Placed(o, Q),
         [Next]_vars
  PROVE  \E p, R : Placed(p, R)' /\ Flow(Q, R)
<1> DEFINE Goal == \E p, R : Placed(p, R)' /\ Flow(Q, R)
<1> HIDE DEF Goal
<1>0. /\ \A p : Placed(p, Q)' => Goal
      /\ \A p, R : Placed(p, R)' /\ Kept(Q, R) => Goal
      /\ \A p, R : Placed(p, R)' /\ (\E t \in Threads : Exchange(t)) => Goal
      /\ \A p, R : \A q \in Queues :
           Placed(p, R)' /\ Len(Q[q]) > 1 /\ R = [Q EXCEPT ![q] = Tail(@)] => Goal
  <2>1. Kept(Q, Q)
    BY DEF Kept
  <2> QED
    BY <2>1 DEF Flow, Goal
<1>1. ASSUME NEW t \in Threads, PopLoad(t) PROVE Goal
  BY <1>0, <1>1, PlacedLoaded DEF PopLoad, pool
<1>2. ASSUME NEW t \in Threads, PopRead(t) PROVE Goal
  BY <1>0, <1>2, PlacedResting DEF PopRead, pool
<1>3. ASSUME NEW t \in Threads, PopCas(t) PROVE Goal
  <2>1. CASE top = loc[t].old
    BY <1>0, <1>3, <2>1, PlacedPopped
  <2>2. CASE top # loc[t].old
    BY <1>0, <1>3, <2>2, PlacedLoaded DEF PopCas
  <2> QED
    BY <2>1, <2>2
<1>4. ASSUME NEW t \in Threads, ReserveGlobalInternal(t) PROVE Goal
  <2>1. CASE top.node = 0
    BY <1>0, <1>4, <2>1, PlacedReserved
  <2>2. CASE top.node # 0
    BY <1>0, <1>4, <2>2, PlacedResting DEF ReserveGlobalInternal, memory
  <2> QED
    BY <2>1, <2>2
<1>5. ASSUME NEW t \in Threads, PushLoad(t) PROVE Goal
  BY <1>0, <1>5, PlacedPushing DEF PushLoad, pool, memory, Pushing
<1>6. ASSUME NEW t \in Threads, PushCas(t) PROVE Goal
  <2>1. CASE top = loc[t].old /\ loc[t].last # 0
    BY <1>0, <1>6, <2>1, PlacedReservePushed
  <2>2. CASE top = loc[t].old /\ loc[t].last = 0
    BY <1>0, <1>6, <2>2, PlacedGivenBack
  <2>3. CASE top # loc[t].old
    <3>1. \A n \in Nodes : n # loc[t].node => slot'[n] = slot[n]
      BY <1>6 DEF PushCas, TypeInv
    <3> QED
      BY <1>0, <1>6, <2>3, <3>1, PlacedPushing DEF PushCas, Pushing
  <2> QED
    BY <2>1, <2>2, <2>3
<1>7. ASSUME NEW t \in Threads, Take(t) PROVE Goal
  BY <1>0, <1>7, PlacedTaken
<1>8. ASSUME NEW t \in Threads, Exchange(t) PROVE Goal
  BY <1>0, <1>8, PlacedExchanged
<1>9. ASSUME NEW t \in Threads, Link(t) PROVE Goal
  BY <1>0, <1>9, PlacedLinked
<1>10. ASSUME NEW t \in Threads, NEW q \in Queues, TryDequeue(t, q) PROVE Goal
  <2>1. PICK k : k = [NoLocals EXCEPT !.q = q]
    OBVIOUS
  <2>2. k \in Locals /\ k.last = 0
    BY <2>1, NoLocalsAre DEF NoLocals
  <2>3. Advance(t, q, k) /\ tail[q] # 0 /\ next[tail[q]] # 0 /\ pc[t] = "idle"
    BY <1>10, <2>1 DEF TryDequeue, Usable
  <2>4. Len(Q[q]) > 1
    BY <2>3, DummyLinked DEF Placed
  <2> QED
    BY <1>0, <2>2, <2>3, <2>4, PlacedAdvanced
<1>11. ASSUME NEW t \in Threads, Drain(t) PROVE Goal
  <2>1. CASE next[tail[loc[t].q]] = 0
    BY <1>0, <1>11, <2>1, PlacedDrained
  <2>2. CASE next[tail[loc[t].q]] # 0
    <3>1. Advance(t, loc[t].q, loc[t]) /\ pc[t] = "drain"
      BY <1>11, <2>2 DEF Drain
    <3>2. loc[t].q \in Queues /\ tail[loc[t].q] # 0 /\ loc[t].last = 0 /\ loc[t] \in Locals
      BY <3>1, Inside DEF Resting, Allocating, Reserving, Popping, Pushing, ControlInv, Control,
        TypeInv
    <3>3. Len(Q[loc[t].q]) > 1
      BY <2>2, <3>2, DummyLinked DEF Placed
    <3> QED
      BY <1>0, <2>2, <3>1, <3>2, <3>3, PlacedAdvanced
  <2> QED
    BY <2>1, <2>2
<1>12. ASSUME NEW t \in Threads, NEW q \in Queues, Construct(t, q) \/ Emplace(t, q) \/ Destroy(t, q)
       PROVE  Goal
  <2>1. PICK s, l : Set(t, s, l) /\ s \in {"alloc", "drain"}
    BY <1>12 DEF Construct, Emplace, Destroy
  <2>2. pc[t] # "link" /\ UNCHANGED <<capacity, memory, top, count, list, ends>>
    BY <1>12 DEF Construct, Emplace, Destroy, pool
  <2> QED
    BY <1>0, <2>1, <2>2, PlacedResting
<1>13. ASSUME NEW t \in Threads, Free(t) PROVE Goal
  BY <1>0, <1>13, PlacedFreed
<1>14. ASSUME NEW t \in Threads, ThreadExit(t) PROVE Goal
  <2>1. Moves(t, "idle", loc[t]) /\ pc[t] = "idle"
    BY <1>14 DEF ThreadExit, Moves, TypeInv
  <2>2. /\ UNCHANGED <<capacity, next, slot, top, count, head, tail>>
        /\ \A u \in Threads : u # t => list'[u] = list[u]
        /\ list'[t] = 0
    BY <1>14 DEF ThreadExit, Unregister, memory, ends, TypeInv
  <2>3. Holding(t, o)'
    BY <2>1, HoldsNothing DEF Moves, Pushing
  <2>4. Placed(o, Q)'
    BY <2>1, <2>2, <2>3, PlacedStill
  <2> QED
    BY <1>0, <2>4
<1>15. CASE UNCHANGED vars
  <2>1. Placed(o, Q)'
    BY <1>15 DEF vars, Placed, QueuesInv, Chain, Gap, Linking, ListsInv, LinksInv, First, StackInv,
      Stacked, HandsInv, Holding, GivingBack, Reserving, PagesInv, Ends
  <2>2. Goal
    BY <1>0, <2>1
  <2> QED
    BY <2>2 DEF Goal
<1> QED
  BY <1>1, <1>2, <1>3, <1>4, <1>5, <1>6, <1>7, <1>8, <1>9, <1>10, <1>11, <1>12, <1>13, <1>14, <1>15
  DEF Next, Goal

\* The invariant holds at the start.
LEMMA NodesInit == Init => NodesInv
<1> SUFFICES ASSUME Init PROVE NodesInv
  OBVIOUS
<1> USE DEF Init
<1>1. TypeInv
  <2>1. "idle" \in Labels /\ NoLocals \in Locals
    BY NoLocalsAre DEF Labels, Resting
  <2>2. capacity \in Nat \ {0} /\ count \in 0 .. MaxNodes
    BY MpscAssumption
  <2>3. pc \in [Threads -> Labels] /\ loc \in [Threads -> Locals]
    BY <2>1
  <2> QED
    BY <2>2, <2>3 DEF TypeInv
<1>2. \A t \in Threads : pc[t] = "idle" /\ loc[t] = NoLocals /\ list[t] = 0
  OBVIOUS
<1>3. ControlInv
  BY <1>2, NoLocalsAre DEF ControlInv, Control, Resting, Allocating, Reserving, Popping, Pushing
<1>4. InstancesInv
  <2>1. \A q \in Queues : Quiet(q)
    BY <1>2, NoLocalsAre, MpscAssumption DEF Quiet
  <2>2. Live = {}
    BY <2>1 DEF Live
  <2> QED
    BY <2>2, FS_EmptySet DEF InstancesInv
<1>5. PopInv
  BY <1>2 DEF PopInv, Popped, Popping
<1>6. \E o, Q : Placed(o, Q)
  <2>1. PICK R : R = [q \in Queues |-> << >>]
    OBVIOUS
  <2>2. Nothing(R)
    BY <1>1, <1>2, <2>1 DEF Nothing, Resting
  <2> QED
    BY <2>2, NothingPlaced DEF Somewhere
<1> QED
  BY <1>1, <1>3, <1>4, <1>5, <1>6 DEF NodesInv

\* Every step preserves it.
LEMMA NodesNext == NodesInv /\ [Next]_vars => NodesInv'
<1> SUFFICES ASSUME NodesInv, [Next]_vars PROVE NodesInv'
  OBVIOUS
<1>1. PICK o, Q : Placed(o, Q)
  BY DEF NodesInv
<1>2. TypeInv /\ ControlInv /\ InstancesInv /\ PopInv
  BY DEF NodesInv
<1>3. TypeInv'
  BY <1>1, <1>2, TypeNext
<1>4. ControlInv'
  BY <1>1, <1>2, ControlNext
<1>5. InstancesInv'
  BY <1>1, <1>2, InstancesNext
<1>6. PopInv'
  BY <1>1, <1>2, <1>3, PopNext
<1>7. \E p, R : Placed(p, R)' /\ Flow(Q, R)
  BY <1>1, <1>2, <1>3, PlacedNext
<1> QED
  BY <1>3, <1>4, <1>5, <1>6, <1>7 DEF NodesInv

\* In every reachable state every node has one place: the inductive invariant.
THEOREM NodesArePlaced == Spec => []NodesInv
BY NodesInit, NodesNext, PTL DEF Spec

-----------------------------------------------------------------------------
(* Walks along next_ and next_chunk_.                                      *)

\* A nonempty set of naturals has a least element.
LEMMA Least ==
  ASSUME NEW T, T \subseteq Nat, T # {}
  PROVE  \E x \in T : \A y \in T : x <= y
<1>1. IsWellFoundedOn(OpToRel(<,Nat), Nat)
  BY NatLessThanWellFounded
<1>2. PICK x \in T : \A y \in T : ~ (<<y, x>> \in OpToRel(<,Nat))
  BY <1>1, WFMin
<1>3. \A y \in T : <<y,x>> \in Nat \X Nat /\ ~ (y < x)
  BY <1>2 DEF OpToRel
<1>4. \A y \in T : y \in Nat /\ ~ (y < x)
  BY <1>3, Zenon
<1> HIDE <1>2
<1>5. x \in T /\ x \in Nat
  BY <1>2
<1> QED
  BY ONLY <1>4, <1>5

\* So a set that holds 0 and the successor of each of its elements below the bound
\* holds all of them.
LEMMA UpTo ==
  ASSUME NEW M \in Nat, NEW S, 0 \in S, \A k \in 1 .. M : k - 1 \in S => k \in S
  PROVE  0 .. M \subseteq S
<1> SUFFICES ASSUME (0 .. M) \ S # {} PROVE FALSE
  OBVIOUS
<1>1. PICK k \in (0 .. M) \ S : \A j \in (0 .. M) \ S : k <= j
  <2>1. (0 .. M) \ S \subseteq Nat
    OBVIOUS
  <2> QED
    BY <2>1, Least
<1>2. k # 0 /\ k \in 0 .. M /\ k \notin S
  BY <1>1
<1>3. k \in 1 .. M /\ k - 1 \in 0 .. M /\ ~ (k <= k - 1)
  BY <1>2
<1>4. k - 1 \in S
  BY <1>1, <1>3
<1> QED
  BY <1>2, <1>3, <1>4

\* The k-th step of a walk: w are the nodes so far.
Step(f, n, k, w) ==
  IF k = 0 THEN (IF n \in Nodes THEN <<n>> ELSE <<>>)
  ELSE IF Len(w) = k /\ f[w[k]] \in Nodes THEN Append(w, f[w[k]]) ELSE w

Steps(f, n, M, w) ==
  /\ DOMAIN w = 0 .. M
  /\ w[0] = Step(f, n, 0, << >>)
  /\ \A k \in 1 .. M : w[k] = Step(f, n, k, w[k - 1])

\* The steps of a walk exist.
LEMMA StepsExist == ASSUME NEW f, NEW n, NEW M \in Nat PROVE \E w : Steps(f, n, M, w)
<1>1. PICK S : S = {K \in 0 .. M : \E w : Steps(f, n, K, w)}
  OBVIOUS
<1>2. 0 \in S
  <2>1. PICK w : w = [k \in 0 .. 0 |-> Step(f, n, 0, << >>)]
    OBVIOUS
  <2>2. Steps(f, n, 0, w)
    BY <2>1 DEF Steps
  <2> QED
    BY <1>1, <2>2
<1>3. ASSUME NEW K \in 1 .. M, K - 1 \in S PROVE K \in S
  <2>1. PICK g : Steps(f, n, K - 1, g)
    BY <1>1, <1>3
  <2>2. PICK w : w = [k \in 0 .. K |-> IF k = K THEN Step(f, n, K, g[K - 1]) ELSE g[k]]
    OBVIOUS
  <2>3. DOMAIN w = 0 .. K /\ w[K] = Step(f, n, K, g[K - 1]) /\ \A k \in 0 .. K - 1 : w[k] = g[k]
    BY <2>2
  <2>4. \A k \in 1 .. K : k = K \/ (k \in 1 .. K - 1 /\ k - 1 \in 0 .. K - 1 /\ k \in 0 .. K - 1)
    OBVIOUS
  <2>5. 0 \in 0 .. K - 1 /\ K - 1 \in 0 .. K - 1
    OBVIOUS
  <2>6. w[0] = Step(f, n, 0, << >>)
    BY <2>1, <2>3, <2>5 DEF Steps
  <2>7. \A k \in 1 .. K : w[k] = Step(f, n, k, w[k - 1])
    BY <2>1, <2>3, <2>4, <2>5 DEF Steps
  <2>8. Steps(f, n, K, w)
    BY <2>3, <2>6, <2>7 DEF Steps
  <2> QED
    BY <1>1, <2>8
<1>4. M \in S
  BY <1>2, <1>3, UpTo
<1> QED
  BY <1>1, <1>4

\* Walk follows them.
LEMMA WalkSteps ==
  ASSUME NEW f, NEW n
  PROVE  \E w : Steps(f, n, MaxNodes, w) /\ Walk(f, n) = w[MaxNodes]
<1> USE MpscAssumption
<1> DEFINE Body(w) ==
      [k \in 0 .. MaxNodes |->
        IF k = 0 THEN (IF n \in Nodes THEN <<n>> ELSE <<>>)
        ELSE IF Len(w[k - 1]) = k /\ f[w[k - 1][k]] \in Nodes
             THEN Append(w[k - 1], f[w[k - 1][k]])
             ELSE w[k - 1]]
<1>1. PICK g : Steps(f, n, MaxNodes, g)
  BY StepsExist
<1>2. g = Body(g)
  <2>1. \A k \in 0 .. MaxNodes : k = 0 \/ k \in 1 .. MaxNodes
    OBVIOUS
  <2>2. \A k \in 0 .. MaxNodes : g[k] = Body(g)[k]
    BY <1>1, <2>1 DEF Steps, Step
  <2>3. g = [k \in 0 .. MaxNodes |-> g[k]]
    BY <1>1 DEF Steps
  <2> QED
    BY <2>2, <2>3
<1>3. PICK w : w = CHOOSE v : v = Body(v)
  OBVIOUS
<1>4. w = Body(w)
  BY <1>2, <1>3
<1>5. Walk(f, n) = w[MaxNodes]
  BY <1>3 DEF Walk
<1>6. Steps(f, n, MaxNodes, w)
  <2>1. /\ DOMAIN w = 0 .. MaxNodes /\ 0 \in 0 .. MaxNodes
        /\ \A k \in 1 .. MaxNodes : k \in 0 .. MaxNodes /\ k # 0
    BY <1>4
  <2>2. w[0] = Step(f, n, 0, << >>)
    BY <1>4, <2>1 DEF Step
  <2>3. \A k \in 1 .. MaxNodes : w[k] = Step(f, n, k, w[k - 1])
    BY <1>4, <2>1 DEF Step
  <2> QED
    BY <2>1, <2>2, <2>3 DEF Steps
<1> QED
  BY <1>5, <1>6

\* What a walk meets stays within a set that the links do not leave.
LEMMA WalkWithin ==
  ASSUME NEW f, NEW n, NEW S, n \in Nodes => n \in S, \A m \in S : f[m] \in Nodes => f[m] \in S
  PROVE  /\ Walk(f, n) \in Seq(S) /\ Met(f, n) \subseteq S
         /\ n \notin Nodes => Walk(f, n) = << >>
<1> USE MpscAssumption
<1>1. PICK w : Steps(f, n, MaxNodes, w) /\ Walk(f, n) = w[MaxNodes]
  BY WalkSteps
<1>2. PICK T : T = {k \in 0 .. MaxNodes : w[k] \in Seq(S) /\ (n \notin Nodes => w[k] = << >>)}
  OBVIOUS
<1>3. 0 \in T
  <2>1. w[0] = IF n \in Nodes THEN <<n>> ELSE << >>
    BY <1>1 DEF Steps, Step
  <2>2. n \in Nodes => <<n>> \in Seq(S)
    OBVIOUS
  <2>3. << >> \in Seq(S) /\ 0 \in 0 .. MaxNodes
    OBVIOUS
  <2> QED
    BY <1>2, <2>1, <2>2, <2>3
<1>4. ASSUME NEW k \in 1 .. MaxNodes, k - 1 \in T PROVE k \in T
  <2>1. PICK v : v = w[k - 1]
    OBVIOUS
  <2>2. v \in Seq(S) /\ (n \notin Nodes => v = << >>)
    BY <1>2, <1>4, <2>1
  <2>3. w[k] = IF Len(v) = k /\ f[v[k]] \in Nodes THEN Append(v, f[v[k]]) ELSE v
    BY <1>1, <2>1 DEF Steps, Step
  <2>4. CASE Len(v) = k /\ f[v[k]] \in Nodes
    <3>1. v[k] \in S /\ v # << >>
      BY <2>2, <2>4, ElementOfSeq, EmptySeq
    <3>2. f[v[k]] \in S
      BY <2>4, <3>1
    <3>3. Append(v, f[v[k]]) \in Seq(S)
      BY <2>2, <3>2, AppendProperties
    <3> QED
      BY <1>2, <2>2, <2>3, <2>4, <3>1, <3>3
  <2>5. CASE ~ (Len(v) = k /\ f[v[k]] \in Nodes)
    BY <1>2, <2>2, <2>3, <2>5
  <2> QED
    BY <2>4, <2>5
<1>5. MaxNodes \in T
  BY <1>3, <1>4, UpTo
<1>6. Walk(f, n) \in Seq(S) /\ (n \notin Nodes => Walk(f, n) = << >>)
  BY <1>1, <1>2, <1>5
<1>7. Met(f, n) \subseteq S
  BY <1>6, ElementOfSeq DEF Met
<1> QED
  BY <1>6, <1>7

\* Different nodes are at most as many as there are.
LEMMA FewNodes ==
  ASSUME NEW s \in Seq(Nodes), \A i, j \in 1 .. Len(s) : s[i] = s[j] => i = j
  PROVE  Len(s) \in Nat /\ Len(s) <= MaxNodes
<1>1. Len(s) \in Nat /\ s \in [1 .. Len(s) -> Nodes]
  BY LenProperties
<1>2. IsFiniteSet(Nodes) /\ Cardinality(Nodes) = MaxNodes
  BY MpscAssumption, FS_Interval DEF Nodes
<1>3. IsFiniteSet(1 .. Len(s)) /\ Cardinality(1 .. Len(s)) = Len(s)
  <2>1. 1 \in Int /\ Len(s) \in Int
    BY <1>1
  <2> QED
    BY <1>1, <2>1, FS_Interval
<1>4. s \in Injection(1 .. Len(s), Nodes)
  BY <1>1 DEF Injection, IsInjective
<1>5. Cardinality(1 .. Len(s)) <= Cardinality(Nodes)
  BY <1>2, <1>4, FS_Injection
<1> QED
  BY <1>1, <1>2, <1>3, <1>5

\* The walk along different nodes, each linked to the next, is their sequence.
LEMMA WalkChain ==
  ASSUME NEW f, NEW s \in Seq(Nodes), s # << >>,
         \A i, j \in 1 .. Len(s) : s[i] = s[j] => i = j,
         \A i \in 1 .. Len(s) - 1 : f[s[i]] = s[i + 1],
         f[s[Len(s)]] \notin Nodes
  PROVE  Walk(f, s[1]) = s
<1> USE MpscAssumption
<1>1. PICK w : Steps(f, s[1], MaxNodes, w) /\ Walk(f, s[1]) = w[MaxNodes]
  BY WalkSteps
<1>2. Len(s) \in Nat /\ Len(s) # 0 /\ Len(s) <= MaxNodes /\ \A i \in 1 .. Len(s) : s[i] \in Nodes
  BY FewNodes, EmptySeq, ElementOfSeq
<1> DEFINE Upto(k) == IF k < Len(s) THEN k + 1 ELSE Len(s)
           Part(k) == [i \in 1 .. Upto(k) |-> s[i]]
<1>3. PICK T : T = {k \in 0 .. MaxNodes : w[k] = Part(k)}
  OBVIOUS
<1>4. 0 \in T
  <2>1. w[0] = <<s[1]>>
    BY <1>1, <1>2 DEF Steps, Step
  <2>2. Upto(0) = 1
    BY <1>2
  <2>3. w[0] = Part(0)
    BY <2>1, <2>2
  <2> QED
    BY <1>3, <2>3
<1>5. ASSUME NEW k \in 1 .. MaxNodes, k - 1 \in T PROVE k \in T
  <2>1. PICK v : v = w[k - 1]
    OBVIOUS
  <2>2. v = Part(k - 1)
    BY <1>3, <1>5, <2>1
  <2>3. w[k] = IF Len(v) = k /\ f[v[k]] \in Nodes THEN Append(v, f[v[k]]) ELSE v
    BY <1>1, <2>1 DEF Steps, Step
  <2>4. CASE k < Len(s)
    <3>1. v = [i \in 1 .. k |-> s[i]] /\ Len(v) = k /\ v \in Seq(Nodes)
      BY <1>2, <2>2, <2>4
    <3>2. k \in 1 .. Len(s) - 1 /\ v[k] = s[k] /\ f[v[k]] = s[k + 1] /\ s[k + 1] \in Nodes
      BY <1>2, <2>4, <3>1
    <3>3. w[k] = Append(v, s[k + 1])
      BY <2>3, <3>1, <3>2
    <3>4. Append(v, s[k + 1]) = [i \in 1 .. k + 1 |-> s[i]]
      BY <1>2, <3>1, <3>2
    <3> QED
      BY <1>3, <2>4, <3>3, <3>4
  <2>5. CASE k = Len(s)
    <3>1. v = [i \in 1 .. k |-> s[i]] /\ Len(v) = k
      BY <1>2, <2>2, <2>5
    <3>2. f[v[k]] \notin Nodes
      BY <1>2, <2>5, <3>1
    <3> QED
      BY <1>3, <2>3, <2>5, <3>1, <3>2
  <2>6. CASE k > Len(s)
    <3>1. v = [i \in 1 .. Len(s) |-> s[i]] /\ Len(v) # k
      BY <1>2, <2>2, <2>6
    <3> QED
      BY <1>2, <1>3, <2>3, <2>6, <3>1
  <2> QED
    BY <1>2, <2>4, <2>5, <2>6
<1>6. w[MaxNodes] = Part(MaxNodes)
  <2>1. PICK M : M = MaxNodes /\ M \in Nat
    OBVIOUS
  <2>2. \A k \in 1 .. M : k - 1 \in T => k \in T
    BY ONLY <1>5, <2>1
  <2>3. 0 .. M \subseteq T
    BY ONLY <1>4, <2>1, <2>2, UpTo
  <2>4. MaxNodes \in T
    BY <2>1, <2>3
  <2> QED
    BY <1>3, <2>4
<1>7. Part(MaxNodes) = s
  BY <1>2
<1> QED
  BY <1>1, <1>6, <1>7

-----------------------------------------------------------------------------
(* A node is in one place.                                                 *)

\* With the links that emplaces still owe, each node of a queue leads to the next.
LEMMA LinkedChain ==
  ASSUME TypeInv, ControlInv, NEW o, NEW Q, QueuesInv(o, Q), NEW q \in Queues
  PROVE  /\ \A i \in 1 .. Len(Q[q]) - 1 : Linked[Q[q][i]] = Q[q][i + 1]
         /\ Q[q] # << >> => Linked[Q[q][Len(Q[q])]] = 0
<1>1. PICK s : s = Q[q]
  OBVIOUS
<1>2. /\ Len(s) \in Nat /\ Chain(o, q, s)
      /\ \A i \in 1 .. Len(s) : s[i] \in Nodes /\ o[s[i]] = InQueue(q)
      /\ s # << >> => Len(s) \in 1 .. Len(s)
  <2>1. Chain(o, q, s)
    BY <1>1 DEF QueuesInv
  <2>2. /\ Len(s) \in Nat /\ (s = << >> <=> Len(s) = 0)
        /\ \A i \in 1 .. Len(s) : s[i] \in Nodes /\ o[s[i]] = InQueue(q)
    BY <1>1, QueueNodes
  <2> QED
    BY <2>1, <2>2
<1>3. ASSUME NEW i \in 1 .. Len(s), NEW u \in Threads, Linking(u, s[i])
      PROVE  i + 1 \in 1 .. Len(s) /\ loc[u].node = s[i + 1]
  <2>1. pc[u] = "link" /\ loc[u].to = s[i]
    BY <1>3 DEF Linking
  <2>2. PICK x, j : /\ x = loc[u].q /\ x \in Queues
                    /\ j \in 1 .. Len(Q[x]) /\ j + 1 \in 1 .. Len(Q[x])
                    /\ loc[u].to = Q[x][j] /\ loc[u].node = Q[x][j + 1]
                    /\ o[loc[u].to] = InQueue(x)
    BY <2>1, GapIs
  <2>3. x = q
    BY <1>2, <2>1, <2>2, PlacesDiffer
  <2>4. j = i
    <3>1. \A k, l \in 1 .. Len(s) : s[k] = s[l] => k = l
      BY <1>2 DEF Chain
    <3> QED
      BY <1>1, <2>1, <2>2, <2>3, <3>1
  <2> QED
    BY <1>1, <2>2, <2>3, <2>4
<1>4. ASSUME NEW i \in 1 .. Len(s)
      PROVE  \/ \E u \in Threads : Linking(u, s[i]) /\ Linked[s[i]] = loc[u].node
             \/ (\A u \in Threads : ~ Linking(u, s[i])) /\ Linked[s[i]] = next[s[i]]
  <2>1. PICK n : n = s[i] /\ n \in Nodes
    BY <1>2
  <2>2. CASE \E u \in Threads : Linking(u, n)
    <3>1. PICK u : u = CHOOSE t \in Threads : pc[t] = "link" /\ loc[t].to = n
      OBVIOUS
    <3>2. u \in Threads /\ Linking(u, n)
      BY <2>2, <3>1 DEF Linking
    <3>3. Linked[n] = loc[u].node
      BY <2>1, <3>1, <3>2 DEF Linked, Linking
    <3> QED
      BY <2>1, <3>2, <3>3
  <2>3. CASE \A u \in Threads : ~ Linking(u, n)
    <3>1. Linked[n] = next[n]
      BY <2>1, <2>3 DEF Linked, Linking
    <3> QED
      BY <2>1, <2>3, <3>1
  <2> QED
    BY <2>2, <2>3
<1>5. ASSUME NEW i \in 1 .. Len(s) - 1 PROVE Linked[s[i]] = s[i + 1]
  <2>1. i \in 1 .. Len(s)
    BY <1>2
  <2>2. CASE \E u \in Threads : Linking(u, s[i]) /\ Linked[s[i]] = loc[u].node
    BY <1>3, <2>1, <2>2
  <2>3. CASE (\A u \in Threads : ~ Linking(u, s[i])) /\ Linked[s[i]] = next[s[i]]
    BY <1>2, <2>3 DEF Chain
  <2> QED
    BY <1>4, <2>1, <2>2, <2>3
<1>6. ASSUME s # << >> PROVE Linked[s[Len(s)]] = 0
  <2>1. PICK i : i = Len(s) /\ i \in 1 .. Len(s) /\ ~ (i + 1 \in 1 .. Len(s))
    BY <1>2, <1>6
  <2>2. \A u \in Threads : ~ Linking(u, s[i])
    BY <1>3, <2>1
  <2>3. Linked[s[i]] = next[s[i]]
    BY <1>4, <2>1, <2>2
  <2> QED
    BY <1>2, <1>6, <2>1, <2>3 DEF Chain
<1> QED
  BY <1>1, <1>5, <1>6

\* So the walk from tail_ meets the nodes of the queue in order.
LEMMA WalkQueue ==
  ASSUME TypeInv, ControlInv, NEW o, NEW Q, QueuesInv(o, Q), NEW q \in Queues
  PROVE  Walk(Linked, tail[q]) = Q[q]
<1>1. PICK s : s = Q[q]
  OBVIOUS
<1>2. Len(s) \in Nat /\ s \in Seq(Nodes) /\ Chain(o, q, s) /\ (s = << >> <=> tail[q] = 0)
  BY <1>1, QueueNodes DEF QueuesInv, Chain
<1>3. 0 \notin Nodes
  BY DEF Nodes
<1>4. CASE s # << >>
  <2>1. \A i \in 1 .. Len(s) - 1 : Linked[s[i]] = s[i + 1]
    BY <1>1, LinkedChain
  <2>2. Linked[s[Len(s)]] \notin Nodes
    BY <1>1, <1>3, <1>4, LinkedChain
  <2>3. \A i, j \in 1 .. Len(s) : s[i] = s[j] => i = j
    BY <1>2 DEF Chain
  <2>4. Walk(Linked, s[1]) = s
    BY <1>2, <1>4, <2>1, <2>2, <2>3, WalkChain
  <2> QED
    BY <1>1, <1>2, <1>4, <2>4 DEF Chain
<1>5. CASE s = << >>
  <2>1. tail[q] \notin Nodes
    BY <1>2, <1>3, <1>5
  <2>2. Walk(Linked, tail[q]) = << >>
    <3>1. \A m \in Nodes : Linked[m] \in Nodes => Linked[m] \in Nodes
      OBVIOUS
    <3> QED
      BY <2>1, <3>1, WalkWithin
  <2> QED
    BY <1>1, <1>5, <2>2
<1> QED
  BY <1>4, <1>5

\* A thread's list and a chunk lead to nodes of theirs only.
LEMMA MetOnChain ==
  ASSUME NEW o, LinksInv(o), NEW a, OnChain(a), NEW n, n \in Nodes => o[n] = a,
         NEW m, m \in Met(next, n)
  PROVE  m \in Nodes /\ o[m] = a
<1>1. PICK S : S = {k \in Nodes : o[k] = a}
  OBVIOUS
<1>2. \A k \in S : next[k] \in Nodes => next[k] \in S
  <2>1. 0 \notin Nodes
    BY DEF Nodes
  <2> QED
    BY <1>1, <2>1 DEF LinksInv
<1>3. n \in Nodes => n \in S
  BY <1>1
<1>4. Met(next, n) \subseteq S
  BY <1>2, <1>3, WalkWithin
<1> QED
  BY <1>1, <1>4

\* The stack leads to first nodes of chunks only.
LEMMA ChunksStacked ==
  ASSUME NEW o, StackInv(o)
  PROVE  \A c \in Chunks : Stacked(o, c)
<1>1. PICK S : S = {c \in Nodes : Stacked(o, c)}
  OBVIOUS
<1>2. 0 \notin Nodes
  BY DEF Nodes
<1>3. \A c \in S : slot[c] \in Nodes => slot[c] \in S
  BY <1>1, <1>2 DEF StackInv, Stacked
<1>4. top.node \in Nodes => top.node \in S
  BY <1>1, <1>2 DEF StackInv, Stacked
<1>5. Chunks \subseteq S
  BY <1>3, <1>4, WalkWithin DEF Chunks
<1> QED
  BY <1>1, <1>5

\* A set whose elements are all the same has at most one.
LEMMA AtMostOne ==
  ASSUME NEW S, \A x, y \in S : x = y
  PROVE  Cardinality(S) \in {0, 1} /\ (S = {} => Cardinality(S) = 0)
<1>1. CASE S = {}
  BY <1>1, FS_EmptySet
<1>2. CASE S # {}
  <2>1. PICK x : x \in S
    BY <1>2
  <2>2. S = {x}
    BY <2>1
  <2> QED
    BY <1>2, <2>2, FS_Singleton
<1> QED
  BY <1>1, <1>2

\* Whoever has a node, the node's place says so.
LEMMA OwnerPlaced ==
  ASSUME TypeInv, ControlInv, NEW o, NEW Q, Placed(o, Q), NEW n \in Nodes
  PROVE  /\ \A q \in Queues : n \in Met(Linked, tail[q]) => o[n] = InQueue(q)
         /\ \A t \in Threads : n \in Met(next, list[t]) => o[n] = InList(t)
         /\ \A t \in Threads : n \in Hand(t) => o[n] = InHand(t)
         /\ \A c \in Chunks : n \in Met(next, c) => o[n] = InChunk(c)
<1>1. ASSUME NEW q \in Queues, n \in Met(Linked, tail[q]) PROVE o[n] = InQueue(q)
  <2>1. Walk(Linked, tail[q]) = Q[q] /\ Q[q] \in Seq(Nodes)
        /\ \A i \in 1 .. Len(Q[q]) : o[Q[q][i]] = InQueue(q)
    BY WalkQueue, QueueNodes DEF Placed
  <2>2. DOMAIN Q[q] = 1 .. Len(Q[q])
    BY <2>1, LenProperties
  <2> QED
    BY <1>1, <2>1, <2>2 DEF Met
<1>2. LinksInv(o) /\ 0 \notin Nodes
  BY DEF Placed, ListsInv, Nodes
<1>3. ASSUME NEW t \in Threads, n \in Met(next, list[t]) PROVE o[n] = InList(t)
  <2>1. list[t] \in Nodes => o[list[t]] = InList(t)
    BY <1>2 DEF Placed, ListsInv, First
  <2>2. OnChain(InList(t))
    BY PlacesDiffer
  <2> QED
    BY <1>2, <1>3, <2>1, <2>2, MetOnChain
<1>4. ASSUME NEW t \in Threads, n \in Hand(t) PROVE o[n] = InHand(t)
  <2>1. Holding(t, o)
    BY DEF Placed, HandsInv
  <2>2. CASE pc[t] = "exchange"
    BY <1>4, <2>1, <2>2 DEF Hand, Holding
  <2>3. CASE pc[t] # "exchange"
    <3>1. loc[t].last # 0 /\ n \in loc[t].node .. loc[t].last
      BY <1>4, <2>3 DEF Hand
    <3>2. Reserving(t)
      BY <3>1 DEF ControlInv, Control, Reserving
    <3> QED
      BY <2>1, <3>1, <3>2 DEF Holding
  <2> QED
    BY <2>2, <2>3
<1>5. ASSUME NEW c \in Chunks, n \in Met(next, c) PROVE o[n] = InChunk(c)
  <2>1. o[c] = InChunk(c)
    BY ChunksStacked DEF Placed, Stacked
  <2>2. OnChain(InChunk(c))
    BY PlacesDiffer
  <2> QED
    BY <1>2, <1>5, <2>1, <2>2, MetOnChain
<1> QED
  BY <1>1, <1>3, <1>4, <1>5

\* A node has at most one owner, and none if it is in no page.
LEMMA FewOwners ==
  ASSUME TypeInv, ControlInv, NEW o, NEW Q, Placed(o, Q), NEW n \in Nodes
  PROVE  Owners(n) <= (IF n <= count THEN 1 ELSE 0)
<1>1. PICK A, B, C, D :
        /\ A = {q \in Queues : n \in Met(Linked, tail[q])}
        /\ B = {t \in Threads : n \in Met(next, list[t])}
        /\ C = {t \in Threads : n \in Hand(t)}
        /\ D = {c \in Chunks : n \in Met(next, c)}
  OBVIOUS
<1>2. /\ \A x \in A : o[n] = InQueue(x)
      /\ \A x \in B : o[n] = InList(x)
      /\ \A x \in C : o[n] = InHand(x)
      /\ \A x \in D : o[n] = InChunk(x)
  BY <1>1, OwnerPlaced
<1>3. PICK a, b, c, d : /\ a = Cardinality(A) /\ b = Cardinality(B)
                        /\ c = Cardinality(C) /\ d = Cardinality(D)
  OBVIOUS
<1>4. /\ a \in {0, 1} /\ b \in {0, 1} /\ c \in {0, 1} /\ d \in {0, 1}
      /\ A = {} => a = 0 
      /\ B = {} => b = 0
      /\ C = {} => c = 0
      /\ D = {} => d = 0
  <2>1. \A x, y \in A : x = y
    BY <1>2, PlacesDiffer
  <2>2. \A x, y \in B : x = y
    BY <1>2, PlacesDiffer
  <2>3. \A x, y \in C : x = y
    BY <1>2, PlacesDiffer
  <2>4. \A x, y \in D : x = y
    BY <1>2, PlacesDiffer
  <2> QED
    BY <1>3, <2>1, <2>2, <2>3, <2>4, AtMostOne
<1>5. /\ A = {} \/ B = {} 
      /\ A = {} \/ C = {} 
      /\ A = {} \/ D = {} 
      /\ B = {} \/ C = {} 
      /\ B = {} \/ D = {} 
      /\ C = {} \/ D = {} 
  BY <1>2, PlacesDiffer
<1>6. n \in Nat /\ count \in Nat
  BY DEF TypeInv, Nodes
<1>7. n > count => A = {} /\ B = {} /\ C = {} /\ D = {}
  BY <1>2, PlacesDiffer DEF Placed, PagesInv
<1>8. Owners(n) = a + b + c + d
  BY <1>1, <1>3 DEF Owners
<1>9. a + b + c + d <= 1 /\ (n > count => a + b + c + d = 0)
  BY <1>4, <1>5, <1>7
<1> QED
  BY <1>6, <1>8, <1>9

\* In every reachable state a node is in one place at a time, none of a freed page
\* is anywhere, and the stack holds pointers only, whatever a thread that lost the
\* race has read from a node that another has popped meanwhile.
THEOREM NodesHaveOneOwner == Spec => []OneOwner
<1>1. ASSUME NodesInv PROVE OneOwner
  <2>1. PICK o, Q : Placed(o, Q)
    BY <1>1 DEF NodesInv
  <2>2. TypeInv /\ ControlInv
    BY <1>1 DEF NodesInv
  <2>3. \A n \in Nodes : Owners(n) <= (IF n <= count THEN 1 ELSE 0)
    BY <2>1, <2>2, FewOwners
  <2>4. StackInv(o)
    BY <2>1 DEF Placed
  <2>5. \A c \in Chunks : slot[c] \in Nodes \cup {0}
    BY <2>4, ChunksStacked DEF StackInv, Stacked
  <2>6. top.node \in Nodes \cup {0}
    BY <2>4 DEF StackInv, Stacked
  <2> QED
    BY <2>3, <2>5, <2>6 DEF OneOwner
<1> QED
  BY <1>1, NodesArePlaced, PTL

-----------------------------------------------------------------------------
(* The elements.                                                           *)

\* The element that emplace has in its hands, or 0.
Element(t) == IF pc[t] = "exchange" THEN slot[loc[t].node] ELSE loc[t].value

\* No two emplaces have the same, and each was counted.
ValuesInv ==
  /\ used <= MaxValues
  /\ \A t \in Threads :
       /\ pc[t] = "exchange" => Element(t) # 0
       /\ Element(t) # 0 => Element(t) \in MaxNodes + 1 .. MaxNodes + used
       /\ \A u \in Threads : Element(t) = Element(u) /\ Element(t) # 0 => t = u

\* The values not enqueued yet, as in the refinement.
Fresh ==
  {v \in Values :
     \/ v > MaxNodes + used
     \/ \E t \in Threads :
          \/ loc[t].value = v
          \/ pc[t] = "exchange" /\ slot[loc[t].node] = v}

\* They are those to come and those in the hands of an emplace.
ToCome == {v \in Values : v > MaxNodes + used \/ \E t \in Threads : Element(t) = v}

\* The element of an emplace is in value or in its node.
LEMMA FreshIs == ControlInv => Fresh = ToCome
<1> SUFFICES ASSUME ControlInv, NEW v \in Values, NEW t \in Threads
             PROVE  (loc[t].value = v \/ (pc[t] = "exchange" /\ slot[loc[t].node] = v))
                      <=> Element(t) = v
  BY DEF Fresh, ToCome
<1>1. v # 0
  BY MpscAssumption DEF Values
<1>2. pc[t] = "exchange" => loc[t].value = 0
  BY DEF ControlInv, Control, Resting, Allocating, Reserving, Popping, Pushing
<1> QED
  BY <1>1, <1>2 DEF Element

\* The step of t writes to no node of a queue, nor of another's emplace.
SlotsKept(o, t) ==
  \A n \in Nodes :
    (\E q : o[n] = InQueue(q)) \/ (\E u \in Threads : u # t /\ o[n] = InHand(u)) =>
      slot'[n] = slot[n]

\* Then the others' elements are what they were.
LEMMA ElementsKept ==
  ASSUME NEW o, NEW Q, Placed(o, Q), NEW t \in Threads, NEW s, NEW l, Moves(t, s, l),
         SlotsKept(o, t)
  PROVE  \A u \in Threads : u # t => Element(u)' = Element(u) /\ pc'[u] = pc[u]
<1> SUFFICES ASSUME NEW u \in Threads, u # t PROVE Element(u)' = Element(u) /\ pc'[u] = pc[u]
  OBVIOUS
<1>1. pc'[u] = pc[u] /\ loc'[u] = loc[u]
  BY DEF Moves
<1>2. pc[u] = "exchange" => loc[u].node \in Nodes /\ o[loc[u].node] = InHand(u)
  BY DEF Placed, HandsInv, Holding
<1>3. pc[u] = "exchange" => slot'[loc[u].node] = slot[loc[u].node]
  BY <1>2 DEF SlotsKept
<1> QED
  BY <1>1, <1>3 DEF Element

\* What a step that enqueues nothing does to the elements.
Steady(o) ==
  /\ ValuesInv'
  /\ Fresh' = Fresh
  /\ \A n \in Nodes : (\E q : o[n] = InQueue(q)) => slot'[n] = slot[n]

\* It is so if the element in the hands of t stays as well.
LEMMA SteadyIf ==
  ASSUME ControlInv, ControlInv', ValuesInv, NEW o, NEW Q, Placed(o, Q),
         NEW t \in Threads, NEW s, NEW l, Moves(t, s, l), SlotsKept(o, t), used' = used,
         Element(t)' = Element(t), s = "exchange" => Element(t) # 0
  PROVE  Steady(o)
<1>1. \A u \in Threads : Element(u)' = Element(u) /\ (pc'[u] = "exchange" => Element(u) # 0)
  BY ElementsKept DEF Moves, ValuesInv
<1>2. ValuesInv'
  BY <1>1 DEF ValuesInv
<1>3. Fresh' = Fresh
  <2>1. Fresh = ToCome
    BY FreshIs
  <2>2. (ControlInv => Fresh = ToCome)'
    BY FreshIs, PTL
  <2>3. Fresh' = ToCome'
    BY <2>2
  <2>4. ToCome' = ToCome
    BY <1>1 DEF ToCome, Values
  <2> QED
    BY <2>1, <2>3, <2>4
<1> QED
  BY <1>2, <1>3 DEF Steady, SlotsKept

\* The step of t is not about its element.
Quietly(t) ==
  \E s, l : Moves(t, s, l) /\ s # "exchange" /\ l.value = loc[t].value

\* Most steps are not.
LEMMA SteadyQuietly ==
  ASSUME ControlInv, ControlInv', ValuesInv, NEW o, NEW Q, Placed(o, Q),
         NEW t \in Threads, Quietly(t), pc[t] # "exchange", SlotsKept(o, t), used' = used
  PROVE  Steady(o)
<1>1. PICK s, l : Moves(t, s, l) /\ s # "exchange" /\ l.value = loc[t].value
  BY DEF Quietly
<1>2. Element(t)' = Element(t)
  BY <1>1 DEF Moves, Element
<1> QED
  BY <1>1, <1>2, SteadyIf

\* Moving tail_ on.
LEMMA SteadyAdvance ==
  ASSUME TypeInv, NEW t \in Threads, NEW q, NEW k \in Locals, Advance(t, q, k),
         k.value = 0, loc[t].value = 0
  PROVE  Quietly(t)
<1>1. PICK n, m : n = tail[q] /\ m = [k EXCEPT !.node = n]
  OBVIOUS
<1>2. m.value = 0 /\ NoLocals.value = 0
  BY <1>1 DEF NoLocals, Locals
<1>3. \E s, l : Set(t, s, l) /\ s # "exchange" /\ l.value = 0
  BY <1>1, <1>2 DEF Advance
<1>4. \E s, l : Moves(t, s, l) /\ s # "exchange" /\ l.value = 0
  BY <1>3, SetMoves
<1> QED
  BY <1>4 DEF Quietly

\* Giving back nodes and reserving nodes.
LEMMA SteadyPushed ==
  ASSUME TypeInv, ControlInv, NEW o, NEW Q, Placed(o, Q), NEW t \in Threads, PushCas(t)
  PROVE  Quietly(t) /\ SlotsKept(o, t)
<1>0. pc[t] \in Pushing
  BY DEF PushCas, Pushing
<1>1. SlotsKept(o, t)
  <2>1. \A n \in Nodes : n # loc[t].node => slot'[n] = slot[n]
    BY DEF PushCas, TypeInv
  <2>2. /\ \A q : o[loc[t].node] # InQueue(q)
        /\ \A u \in Threads : u # t => o[loc[t].node] # InHand(u)
    BY <1>0, PushedIsPrivate, PlacesDiffer
  <2> QED
    BY <2>1, <2>2 DEF SlotsKept
<1>2. ASSUME NEW s, NEW l, Set(t, s, l), s # "exchange", l.value = loc[t].value
      PROVE  Quietly(t)
  BY <1>2, SetMoves DEF Quietly
<1>3. loc[t] \in Locals
  BY DEF TypeInv
<1>4. CASE top # loc[t].old
  <2>1. PICK l : l = [loc[t] EXCEPT !.old = top]
    OBVIOUS
  <2>2. l.value = loc[t].value
    BY <1>3, <2>1 DEF Locals
  <2>3. Set(t, "pushcas", l)
    BY <1>4, <2>1 DEF PushCas
  <2> QED
    BY <1>1, <1>2, <2>2, <2>3
<1>5. CASE top = loc[t].old
  <2>1. PICK l : l = [loc[t] EXCEPT !.old = NoLocals.old]
    OBVIOUS
  <2>2. l \in Locals /\ l.value = loc[t].value /\ l.last = loc[t].last
    <3>1. l \in Locals
      BY <1>3, <2>1, LocalsKept, NoLocalsAre
    <3>2. l.value = loc[t].value /\ l.last = loc[t].last
      BY <1>3, <2>1 DEF Locals
    <3> QED
      BY <3>1, <3>2
  <2>3. PICK a, b, c : /\ a = [l EXCEPT !.node = @ + capacity]
                       /\ b = [l EXCEPT !.node = 0, !.last = 0]
                       /\ c = [l EXCEPT !.node = 0]
    OBVIOUS
  <2>4. a.value = loc[t].value /\ b.value = loc[t].value /\ c.value = loc[t].value
    BY <2>2, <2>3 DEF Locals
  <2>5. loc[t].last = 0 => loc[t].value = NoLocals.value
    BY <1>0, NoLocalsAre DEF ControlInv, Control, Resting, Allocating, Reserving, Popping, Pushing
  <2>6. \/ Set(t, "push", a) \/ Set(t, "alloc", b)
        \/ /\ loc[t].last = 0
           /\ \/ Set(t, "drain", c) \/ Set(t, "idle", NoLocals)
    <3>1. Pushed(t)
      BY <1>5 DEF PushCas
    <3> QED
      BY <2>1, <2>2, <2>3, <3>1 DEF Pushed
  <2> QED
    BY <1>1, <1>2, <2>4, <2>5, <2>6
<1> QED
  BY <1>4, <1>5

\* Allocate ends: the element goes to its node, or the dummy to its queue.
LEMMA SteadyTaken ==
  ASSUME TypeInv, ControlInv, ControlInv', ValuesInv, NEW o, NEW Q, Placed(o, Q),
         NEW t \in Threads, Take(t)
  PROVE  Steady(o)
<1>1. PICK n, v : n = list[t] /\ v = loc[t].value
  OBVIOUS
<1>2. n \in Nodes /\ o[n] = InList(t) /\ pc[t] = "alloc" /\ used' = used /\ loc[t] \in Locals
  BY <1>1 DEF Take, TypeInv, Placed, ListsInv, First
<1>3. Element(t) = v
  BY <1>1, <1>2 DEF Element
<1>4. CASE v = 0
  <2>1. slot' = slot /\ Moves(t, "idle", NoLocals)
    BY <1>1, <1>4, SetMoves DEF Take
  <2>2. SlotsKept(o, t) /\ Quietly(t)
    BY <1>1, <1>4, <2>1, NoLocalsAre DEF SlotsKept, Quietly
  <2> QED
    BY <1>2, <2>2, SteadyQuietly
<1>5. CASE v # 0
  <2>1. PICK l : l = [loc[t] EXCEPT !.node = n, !.value = 0]
    OBVIOUS
  <2>2. l.node = n
    BY <1>2, <2>1 DEF Locals
  <2>3. slot' = [slot EXCEPT ![n] = v] /\ Moves(t, "exchange", l)
    BY <1>1, <1>5, <2>1, SetMoves DEF Take
  <2>4. SlotsKept(o, t)
    BY <1>2, <2>3, PlacesDiffer DEF SlotsKept, TypeInv
  <2>5. Element(t)' = v
    <3>1. slot'[n] = v
      BY <1>2, <2>3 DEF TypeInv
    <3>2. pc'[t] = "exchange" /\ loc'[t] = l
      BY <2>3 DEF Moves
    <3> QED
      BY <2>2, <3>1, <3>2 DEF Element
  <2> QED
    BY <1>2, <1>3, <1>5, <2>3, <2>4, <2>5, SteadyIf
<1> QED
  BY <1>4, <1>5

\* A new emplace takes the next value.
LEMMA SteadyEmplaced ==
  ASSUME TypeInv, ControlInv, ControlInv', ValuesInv, NEW o, NEW Q, Placed(o, Q),
         NEW t \in Threads, NEW q \in Queues, Emplace(t, q)
  PROVE  Steady(o)
<1>1. PICK v, l : v = MaxNodes + used' /\ l = [NoLocals EXCEPT !.q = q, !.value = v]
  OBVIOUS
<1>2. /\ pc[t] = "idle" /\ used < MaxValues /\ used' = used + 1 /\ used \in Nat
      /\ slot' = slot /\ Moves(t, "alloc", l) /\ l.value = v
      /\ MaxNodes \in Nat /\ MaxValues \in Nat
  <2>1. /\ pc[t] = "idle" /\ used < MaxValues /\ used' = used + 1
        /\ slot' = slot /\ Moves(t, "alloc", l)
    BY <1>1, SetMoves DEF Emplace, memory
  <2>2. l.value = v
    BY <1>1 DEF NoLocals
  <2> QED
    BY <2>1, <2>2, MpscAssumption DEF TypeInv
<1>3. SlotsKept(o, t)
  BY <1>2 DEF SlotsKept
<1>4. \A u \in Threads : u # t => Element(u)' = Element(u) /\ pc'[u] = pc[u]
  BY <1>2, <1>3, ElementsKept
<1>5. Element(t) = 0 /\ Element(t)' = v /\ pc'[t] # "exchange"
  <2>1. loc[t].value = 0
    BY <1>2, NoLocalsAre DEF ControlInv, Control, Resting
  <2> QED
    BY <1>2, <2>1 DEF Element, Moves
<1>6. v = MaxNodes + used + 1 /\ v \in Values /\ v # 0
  BY <1>1, <1>2 DEF Values
<1>7. ValuesInv'
  <2>1. used' <= MaxValues
    BY <1>2
  <2>2. ASSUME NEW u \in Threads
        PROVE  /\ pc'[u] = "exchange" => Element(u)' # 0
               /\ Element(u)' # 0 => Element(u)' \in MaxNodes + 1 .. MaxNodes + used'
    <3>1. CASE u = t
      BY <1>2, <1>5, <1>6, <3>1
    <3>2. CASE u # t
      <4>1. /\ pc[u] = "exchange" => Element(u) # 0
            /\ Element(u) # 0 => Element(u) \in MaxNodes + 1 .. MaxNodes + used
        BY DEF ValuesInv
      <4> QED
        BY <1>2, <1>4, <3>2, <4>1
    <3> QED
      BY <3>1, <3>2
  <2>3. ASSUME NEW u \in Threads, NEW w \in Threads, Element(u)' = Element(w)', Element(u)' # 0
        PROVE  u = w
    <3>1. \A x \in Threads : x # t => Element(x)' # v
      <4>1. \A x \in Threads : Element(x) # 0 => Element(x) \in MaxNodes + 1 .. MaxNodes + used
        BY DEF ValuesInv
      <4> QED
        BY <1>2, <1>4, <1>6, <4>1
    <3>2. CASE u # t /\ w # t
      <4>1. Element(u) = Element(w) /\ Element(u) # 0
        BY <1>4, <2>3, <3>2
      <4> QED
        BY <4>1 DEF ValuesInv
    <3> QED
      BY <1>5, <2>3, <3>1, <3>2
  <2> QED
    BY <2>1, <2>2, <2>3 DEF ValuesInv
<1>8. Fresh' = Fresh
  <2>1. Fresh = ToCome
    BY FreshIs
  <2>2. (ControlInv => Fresh = ToCome)'
    BY FreshIs, PTL
  <2>3. Fresh' = ToCome'
    BY <2>2
  <2>4. ASSUME NEW x \in Values
        PROVE  x > MaxNodes + used' \/ (\E u \in Threads : Element(u)' = x)
                 <=> x > MaxNodes + used \/ \E u \in Threads : Element(u) = x
    <3>1. x \in Nat /\ x # 0
      BY <1>2 DEF Values
    <3>2. x > MaxNodes + used <=> x > MaxNodes + used' \/ x = v
      BY <1>2, <1>6, <3>1
    <3>3. (\E u \in Threads : Element(u)' = x) <=> x = v \/ (\E u \in Threads : Element(u) = x)
      BY <1>4, <1>5, <3>1
    <3> QED
      BY <3>2, <3>3
  <2>5. ToCome' = ToCome
    BY <2>4 DEF ToCome, Values
  <2> QED
    BY <2>1, <2>3, <2>5
<1> QED
  BY <1>2, <1>7, <1>8 DEF Steady

\* Every step but an exchange leaves the elements as they are.
LEMMA SteadyNext ==
  ASSUME TypeInv, ControlInv, ControlInv', ValuesInv, NEW o, NEW Q, Placed(o, Q),
         [Next]_vars, \A t \in Threads : ~ Exchange(t)
  PROVE  Steady(o)
<1>0. ASSUME NEW t \in Threads, NEW s, NEW l, Set(t, s, l), s # "exchange",
             l.value = loc[t].value, pc[t] # "exchange", slot' = slot, used' = used
      PROVE  Steady(o)
  <2>1. Quietly(t) /\ SlotsKept(o, t)
    BY <1>0, SetMoves DEF Quietly, SlotsKept
  <2> QED
    BY <1>0, <2>1, SteadyQuietly
<1>a. ASSUME NEW t \in Threads
      PROVE  /\ pc[t] \in Resting \cup {"link", "drain"} => loc[t].value = 0
             /\ \A x : [loc[t] EXCEPT !.old = x].value = loc[t].value
             /\ \A x : [loc[t] EXCEPT !.new = x].value = loc[t].value
             /\ \A x, y : [loc[t] EXCEPT !.old = x, !.new = y].value = loc[t].value
             /\ \A x, y : [loc[t] EXCEPT !.node = x, !.last = y].value = loc[t].value
  <2>1. loc[t] \in Locals
    BY DEF TypeInv
  <2>2. pc[t] \in Resting \cup {"link", "drain"} => loc[t].value = 0
    BY NoLocalsAre DEF ControlInv, Control, Resting, Allocating, Reserving, Popping, Pushing
  <2> QED
    BY ONLY <2>1, <2>2 DEF Locals
<1>b. \A q : NoLocals.value = 0 /\ [NoLocals EXCEPT !.q = q].value = 0
             /\ [NoLocals EXCEPT !.q = q, !.dtor = TRUE].value = 0
  BY DEF NoLocals
<1>c. ASSUME NEW t \in Threads, Loaded(t), pc[t] # "exchange", slot' = slot, used' = used
      PROVE  Steady(o)
  BY <1>0, <1>a, <1>c DEF Loaded
<1>1. ASSUME NEW t \in Threads, PopLoad(t) PROVE Steady(o)
  BY <1>1, <1>c DEF PopLoad, memory
<1>2. ASSUME NEW t \in Threads, PopRead(t) PROVE Steady(o)
  BY <1>0, <1>2, <1>a DEF PopRead, memory
<1>3. ASSUME NEW t \in Threads, PopCas(t) PROVE Steady(o)
  <2>1. CASE top = loc[t].old
    <3>1. PICK l : l = [loc[t] EXCEPT !.old = NoLocals.old, !.new = 0]
      OBVIOUS
    <3>2. Set(t, "alloc", l) /\ l.value = loc[t].value
      BY <1>3, <1>a, <2>1, <3>1 DEF PopCas
    <3>3. slot' = slot /\ used' = used /\ pc[t] # "exchange"
      BY <1>3 DEF PopCas, memory
    <3> QED
      BY <1>0, <3>2, <3>3
  <2>2. CASE top # loc[t].old
    BY <1>3, <1>c, <2>2 DEF PopCas, memory
  <2> QED
    BY <2>1, <2>2
<1>4. ASSUME NEW t \in Threads, ReserveGlobalInternal(t) PROVE Steady(o)
  <2>1. slot' = slot /\ used' = used /\ pc[t] # "exchange"
    BY <1>4 DEF ReserveGlobalInternal
  <2>2. \/ Set(t, "alloc", loc[t])
        \/ \E x, y : Set(t, "push", [loc[t] EXCEPT !.node = x, !.last = y])
    BY <1>4 DEF ReserveGlobalInternal, Reserve
  <2> QED
    BY <1>0, <1>a, <2>1, <2>2
<1>5. ASSUME NEW t \in Threads, PushLoad(t) PROVE Steady(o)
  BY <1>0, <1>5, <1>a DEF PushLoad, memory
<1>6. ASSUME NEW t \in Threads, PushCas(t) PROVE Steady(o)
  <2>1. pc[t] # "exchange" /\ used' = used
    BY <1>6 DEF PushCas
  <2> QED
    BY <1>6, <2>1, SteadyPushed, SteadyQuietly
<1>7. ASSUME NEW t \in Threads, Take(t) PROVE Steady(o)
  BY <1>7, SteadyTaken
<1>8. ASSUME NEW t \in Threads, Link(t) PROVE Steady(o)
  BY <1>0, <1>8, <1>a, <1>b DEF Link
<1>9. ASSUME NEW t \in Threads, NEW q, NEW k \in Locals, Advance(t, q, k), k.value = 0,
             pc[t] \in {"idle", "drain"}
      PROVE  Steady(o)
  <2>1. loc[t].value = 0
    BY <1>9, <1>a DEF Resting
  <2>2. slot' = slot /\ used' = used
    BY <1>9 DEF Advance
  <2>3. Quietly(t) /\ SlotsKept(o, t)
    BY <1>9, <2>1, <2>2, SteadyAdvance DEF SlotsKept
  <2> QED
    BY <1>9, <2>2, <2>3, SteadyQuietly
<1>10. ASSUME NEW t \in Threads, NEW q \in Queues, TryDequeue(t, q) PROVE Steady(o)
  <2>1. PICK k : k = [NoLocals EXCEPT !.q = q]
    OBVIOUS
  <2>2. k \in Locals /\ k.value = 0
    BY <1>b, <2>1, NoLocalsAre
  <2> QED
    BY <1>9, <1>10, <2>1, <2>2 DEF TryDequeue
<1>11. ASSUME NEW t \in Threads, Drain(t) PROVE Steady(o)
  <2>0. pc[t] = "drain" /\ loc[t].value = 0 /\ loc[t] \in Locals
    BY <1>11, <1>a DEF Drain, TypeInv
  <2>1. CASE next[tail[loc[t].q]] = 0
    BY <1>0, <1>11, <1>b, <2>0, <2>1 DEF Drain, memory
  <2>2. CASE next[tail[loc[t].q]] # 0
    BY <1>9, <1>11, <2>0, <2>2 DEF Drain
  <2> QED
    BY <2>1, <2>2
<1>12. ASSUME NEW t \in Threads, NEW q \in Queues, Construct(t, q) \/ Destroy(t, q)
       PROVE  Steady(o)
  BY <1>0, <1>12, <1>a, <1>b DEF Construct, Destroy, memory, Resting
<1>13. ASSUME NEW t \in Threads, NEW q \in Queues, Emplace(t, q) PROVE Steady(o)
  BY <1>13, SteadyEmplaced
<1>14. ASSUME NEW t \in Threads, Free(t) PROVE Steady(o)
  BY <1>0, <1>14, <1>a, <1>b DEF Free, memory, Resting
<1>15. ASSUME NEW t \in Threads, ThreadExit(t) PROVE Steady(o)
  <2>1. Moves(t, "idle", loc[t]) /\ pc[t] = "idle" /\ slot' = slot /\ used' = used
    BY <1>15 DEF ThreadExit, Moves, TypeInv, memory
  <2>2. Quietly(t) /\ SlotsKept(o, t)
    BY <2>1 DEF Quietly, SlotsKept
  <2> QED
    BY <2>1, <2>2, SteadyQuietly
<1>16. CASE UNCHANGED vars
  BY <1>16 DEF vars, Steady, ValuesInv, Element, Fresh, Values
<1> QED
  BY <1>1, <1>2, <1>3, <1>4, <1>5, <1>6, <1>7, <1>8, <1>10, <1>11, <1>12, <1>13, <1>14, <1>15, <1>16
  DEF Next

\* The exchange of head_ enqueues the element: its emplace has none any more.
LEMMA ExchangedValues ==
  ASSUME TypeInv, ControlInv, ControlInv', ValuesInv, NEW o, NEW Q, Placed(o, Q),
         NEW t \in Threads, Exchange(t)
  PROVE  /\ ValuesInv'
         /\ slot[loc[t].node] \in Fresh
         /\ Fresh' = Fresh \ {slot[loc[t].node]}
         /\ slot' = slot
<1>1. PICK v : v = slot[loc[t].node]
  OBVIOUS
<1>2. pc[t] = "exchange" /\ slot' = slot /\ used' = used /\ loc[t] \in Locals
  BY DEF Exchange, memory, TypeInv
<1>3. Element(t) = v /\ v # 0 /\ v \in Values
  <2>1. v \in MaxNodes + 1 .. MaxNodes + used /\ v # 0 /\ Element(t) = v /\ used <= MaxValues
    BY <1>1, <1>2 DEF ValuesInv, Element
  <2> QED
    BY <2>1, MpscAssumption DEF Values, TypeInv
<1>4. PICK l : l = [loc[t] EXCEPT !.to = head[loc[t].q]]
  OBVIOUS
<1>5. Moves(t, "link", l)
  BY <1>4, SetMoves DEF Exchange
<1>6. \A u \in Threads : u # t => Element(u)' = Element(u) /\ pc'[u] = pc[u]
  <2>1. SlotsKept(o, t)
    BY <1>2 DEF SlotsKept
  <2> QED
    BY <1>5, <2>1, ElementsKept
<1>7. Element(t)' = 0 /\ pc'[t] = "link"
  <2>1. loc[t].value = 0
    BY <1>2 DEF ControlInv, Control, Resting, Allocating, Reserving, Popping, Pushing
  <2>2. l.value = 0
    BY <1>2, <1>4, <2>1 DEF Locals
  <2> QED
    BY <1>5, <2>2 DEF Moves, Element
<1>8. ValuesInv'
  BY <1>2, <1>6, <1>7 DEF ValuesInv
<1>9. Fresh = ToCome
  BY FreshIs
<1>10. Fresh' = ToCome'
  <2>1. (ControlInv => Fresh = ToCome)'
    BY FreshIs, PTL
  <2> QED
    BY <2>1
<1>11. ASSUME NEW x \in Values
       PROVE  x > MaxNodes + used \/ (\E u \in Threads : Element(u)' = x)
                <=> x # v /\ (x > MaxNodes + used \/ \E u \in Threads : Element(u) = x)
  <2>1. x # 0
    BY MpscAssumption DEF Values
  <2>2. ~ (v > MaxNodes + used)
    BY <1>3, MpscAssumption DEF ValuesInv, TypeInv
  <2>3. \A u \in Threads : u # t => Element(u) # v
    BY <1>3 DEF ValuesInv
  <2> QED
    BY <1>3, <1>6, <1>7, <2>1, <2>2, <2>3
<1>12. ToCome' = ToCome \ {v}
  BY <1>2, <1>11 DEF ToCome, Values
<1>13. v \in ToCome
  BY <1>3 DEF ToCome
<1> QED
  BY <1>1, <1>2, <1>8, <1>9, <1>10, <1>12, <1>13

-----------------------------------------------------------------------------
(* The queues are FIFO.                                                    *)

\* The elements of the nodes s: all but the dummy's.
Elements(f, s) == [i \in 1 .. (IF s = << >> THEN 0 ELSE Len(s) - 1) |-> f[s[i + 1]]]

InOrder(o, Q) == TypeInv /\ ControlInv /\ QueuesInv(o, Q)
Holds(Q) == \A q \in Queues : Contents(q) = Elements(slot, Q[q])

AllHold == \A o, Q : InOrder(o, Q) => Holds(Q)

\* The contents of a queue are the elements of its nodes.
LEMMA ContentsAre == AllHold
BY WalkQueue DEF AllHold, InOrder, Holds, Contents, Elements

\* A dummy alone holds nothing.
LEMMA DummyHoldsNothing ==
  ASSUME NEW f, NEW s \in Seq(Nodes), Len(s) \in {0, 1}
  PROVE  Elements(f, s) = << >>
<1>1. (IF s = << >> THEN 0 ELSE Len(s) - 1) = 0
  BY EmptySeq
<1>2. PICK e : e = [i \in 1 .. 0 |-> f[s[i + 1]]]
  OBVIOUS
<1>3. Elements(f, s) = e
  BY <1>1, <1>2 DEF Elements
<1>4. DOMAIN e = 1 .. 0 /\ e \in [1 .. 0 -> Nodes]
  BY <1>2
<1>5. e \in Seq(Nodes) /\ Len(e) = 0
  BY <1>4, SeqDef
<1> QED
  BY <1>3, <1>5, EmptySeq

\* What holds of the elements when the last node is new, and when the dummy goes.
LEMMA ElementsMove ==
  ASSUME NEW f, NEW s \in Seq(Nodes), s # << >>
  PROVE  /\ \A n \in Nodes : Elements(f, Append(s, n)) = Append(Elements(f, s), f[n])
         /\ Len(s) > 1 =>
              /\ Elements(f, s) # << >>
              /\ Elements(f, Tail(s)) = Tail(Elements(f, s))
<1>1. PICK k \in Nat : k = Len(s) /\ k # 0
  BY LenProperties, EmptySeq
<1>2. Elements(f, s) = [i \in 1 .. k - 1 |-> f[s[i + 1]]]
  BY <1>1 DEF Elements
<1>3. PICK e : e = [i \in 1 .. k - 1 |-> f[s[i + 1]]]
  OBVIOUS
<1>4. Len(e) = k - 1 /\ DOMAIN e = 1 .. k - 1 /\ \A i \in 1 .. k - 1 : e[i] = f[s[i + 1]]
  <2>1. DOMAIN e = 1 .. k - 1 /\ k - 1 \in Nat
    BY <1>1, <1>3
  <2> QED
    BY <1>3, <2>1
<1>5. ASSUME NEW n \in Nodes PROVE Elements(f, Append(s, n)) = Append(e, f[n])
  <2>1. PICK d : d = Append(s, n)
    OBVIOUS
  <2>2. d # << >> /\ Len(d) = k + 1 /\ d[k + 1] = n /\ \A i \in 1 .. k : d[i] = s[i]
    <3>1. /\ d \in Seq(Nodes) /\ Len(d) = k + 1 /\ d[k + 1] = n
          /\ \A i \in 1 .. k : d[i] = s[i]
      BY <1>1, <2>1, AppendProperties
    <3> QED
      BY <1>1, <3>1, EmptySeq
  <2>3. Elements(f, d) = [i \in 1 .. k |-> f[d[i + 1]]]
    BY <1>1, <2>2 DEF Elements
  <2>4. Append(e, f[n]) = [i \in 1 .. k |-> IF i = k THEN f[n] ELSE e[i]]
    <3>1. Append(e, f[n]) = [i \in 1 .. Len(e) + 1 |-> IF i = Len(e) + 1 THEN f[n] ELSE e[i]]
      BY DEF Append
    <3>2. Len(e) + 1 = k
      BY <1>1, <1>4
    <3> QED
      BY ONLY <3>1, <3>2
  <2>5. \A i \in 1 .. k : f[d[i + 1]] = IF i = k THEN f[n] ELSE e[i]
    <3>1. \A i \in 1 .. k : i = k \/ (i \in 1 .. k - 1 /\ i + 1 \in 1 .. k)
      BY <1>1
    <3> QED
      BY <1>4, <2>2, <3>1
  <2> QED
    BY <2>1, <2>3, <2>4, <2>5
<1>6. ASSUME k > 1 PROVE e # << >> /\ Elements(f, Tail(s)) = Tail(e)
  <2>1. PICK d : d = Tail(s)
    OBVIOUS
  <2>2. d # << >> /\ Len(d) = k - 1 /\ \A i \in 1 .. k - 1 : d[i] = s[i + 1]
    <3>1. Len(d) = Len(s) - 1 /\ d \in Seq(Nodes) /\ \A i \in 1 .. Len(d) : d[i] = s[i + 1]
      BY <2>1, HeadTailProperties
    <3>2. Len(d) = k - 1 /\ Len(d) # 0
      BY <1>1, <1>6, <3>1
    <3> QED
      BY <3>1, <3>2, EmptySeq
  <2>3. Elements(f, d) = [i \in 1 .. k - 2 |-> f[d[i + 1]]]
    BY <1>1, <1>6, <2>2 DEF Elements
  <2>4. Tail(e) = [i \in 1 .. k - 2 |-> e[i + 1]]
    <3>1. PICK V : V = {f[s[i + 1]] : i \in 1 .. k - 1}
      OBVIOUS
    <3>2. e \in Seq(V)
      <4>1. k - 1 \in Nat /\ e \in [1 .. k - 1 -> V]
        BY <1>1, <1>3, <3>1
      <4> QED
        BY <4>1, SeqDef
    <3>3. e # << >>
      BY <1>1, <1>4, <1>6, EmptySeq
    <3>4. /\ Tail(e) \in Seq(V) /\ Len(Tail(e)) = Len(e) - 1
          /\ \A i \in 1 .. Len(Tail(e)) : Tail(e)[i] = e[i + 1]
      BY <3>2, <3>3, HeadTailProperties
    <3>5. PICK r : r = Tail(e)
      OBVIOUS
    <3>6. Len(r) = k - 2
      BY <1>1, <1>4, <3>4, <3>5
    <3>7. r \in [1 .. k - 2 -> V] /\ \A i \in 1 .. k - 2 : r[i] = e[i + 1]
      BY <3>4, <3>5, <3>6, LenProperties
    <3> QED
      BY ONLY <3>5, <3>7
  <2>5. \A i \in 1 .. k - 2 : f[d[i + 1]] = e[i + 1]
    <3>1. \A i \in 1 .. k - 2 : i + 1 \in 1 .. k - 1
      BY <1>1
    <3> QED
      BY <1>4, <2>2, <3>1
  <2>6. e # << >>
    BY <1>1, <1>4, <1>6
  <2> QED
    BY <2>1, <2>3, <2>4, <2>5, <2>6
<1> QED
  BY <1>1, <1>2, <1>3, <1>5, <1>6

\* Whatever the nodes of the queues in the next state, so are the contents.
LEMMA ContentsNext ==
  ASSUME NEW o, NEW Q, Placed(o, Q), TypeInv, ControlInv,
         NEW p, NEW R, Placed(p, R)', TypeInv', ControlInv'
  PROVE  \A q \in Queues :
           /\ Contents(q) = Elements(slot, Q[q])
           /\ Contents(q)' = Elements(slot', R[q])
           /\ Q[q] \in Seq(Nodes) /\ R[q] \in Seq(Nodes)
           /\ \A i \in 1 .. Len(Q[q]) : Q[q][i] \in Nodes /\ o[Q[q][i]] = InQueue(q)
<1>1. Holds(Q)
  BY ContentsAre DEF AllHold, InOrder, Placed
<1>2. Holds(R)'
  <2>1. AllHold'
    BY ContentsAre, PTL
  <2>2. InOrder(p, R)'
    BY DEF InOrder, Placed
  <2> QED
    BY <2>1, <2>2 DEF AllHold
<1>3. \A q \in Queues : R[q] \in Seq(Nodes)
  BY DEF Placed, QueuesInv, Chain, Nodes
<1>4. \A q \in Queues : Contents(q)' = Elements(slot', R[q])
  BY <1>2 DEF Holds, Elements
<1> QED
  BY <1>1, <1>3, <1>4, QueueNodes DEF Holds, Placed

\* The elements of nodes that nobody writes to.
LEMMA ElementsStay ==
  ASSUME NEW f, NEW g, NEW s \in Seq(Nodes), \A i \in 1 .. Len(s) : f[s[i]] = g[s[i]]
  PROVE  Elements(f, s) = Elements(g, s)
<1>1. Len(s) \in Nat /\ (s # << >> => Len(s) # 0)
  BY LenProperties, EmptySeq
<1>2. CASE s = << >>
  BY <1>2 DEF Elements
<1>3. CASE s # << >>
  <2>1. PICK k \in Nat : k = Len(s) - 1 /\ k + 1 = Len(s)
    BY <1>1, <1>3
  <2>2. \A i \in 1 .. k : i + 1 \in 1 .. Len(s)
    BY <2>1
  <2>3. \A i \in 1 .. k : f[s[i + 1]] = g[s[i + 1]]
    BY <2>2
  <2>4. /\ Elements(f, s) = [i \in 1 .. k |-> f[s[i + 1]]]
        /\ Elements(g, s) = [i \in 1 .. k |-> g[s[i + 1]]]
    BY <1>3, <2>1 DEF Elements
  <2> QED
    BY ONLY <2>3, <2>4
<1> QED
  BY <1>2, <1>3

\* The refinement mapping, and its steps.
Mapped == [q \in Queues |-> Contents(q)]
Unmoved == Mapped' = Mapped /\ Fresh' = Fresh
Dequeued(q) ==
  Mapped[q] # << >> /\ Mapped' = [Mapped EXCEPT ![q] = Tail(@)] /\ Fresh' = Fresh
Enqueued(q, v) ==
  /\ v \in Fresh
  /\ Mapped' = [Mapped EXCEPT ![q] = Append(@, v)]
  /\ Fresh' = Fresh \ {v}

\* The exchange of head_ enqueues the element.
LEMMA ExchangeEnqueues ==
  ASSUME TypeInv, ControlInv, TypeInv', ControlInv', ValuesInv, NEW o, NEW Q, Placed(o, Q),
         NEW t \in Threads, Exchange(t)
  PROVE  \E q \in Queues, v \in Values : Enqueued(q, v)
<1>1. PICK n, q, v : n = loc[t].node /\ q = loc[t].q /\ v = slot[n]
  OBVIOUS
<1>2. v \in Fresh /\ Fresh' = Fresh \ {v} /\ slot' = slot /\ v \in Values
  BY <1>1, ExchangedValues DEF Fresh
<1>3. PICK p, R : Placed(p, R)' /\ R = [Q EXCEPT ![q] = Append(@, n)]
  BY <1>1, PlacedExchanged
<1>4. \A x \in Queues :
        /\ Contents(x) = Elements(slot, Q[x]) /\ Contents(x)' = Elements(slot', R[x])
        /\ Q[x] \in Seq(Nodes)
  BY <1>3, ContentsNext
<1>5. pc[t] = "exchange" /\ q \in Queues /\ tail[q] # 0 /\ n \in Nodes /\ DOMAIN Q = Queues
  <2>1. pc[t] = "exchange"
    BY DEF Exchange
  <2>2. Holding(t, o)
    BY DEF Placed, HandsInv
  <2> QED
    BY <1>1, <2>1, <2>2, Inside DEF Holding, Resting, Allocating, Reserving, Popping, Pushing,
      Placed, QueuesInv
<1>6. Q[q] # << >>
  BY <1>5, QueueNodes DEF Placed
<1>7. Contents(q)' = Append(Contents(q), v)
  <2>1. R[q] = Append(Q[q], n)
    BY <1>3, <1>5
  <2>2. Contents(q) = Elements(slot, Q[q]) /\ Contents(q)' = Elements(slot, R[q])
    BY <1>2, <1>4, <1>5
  <2>3. Elements(slot, Append(Q[q], n)) = Append(Elements(slot, Q[q]), slot[n])
    BY <1>4, <1>5, <1>6, ElementsMove
  <2> QED
    BY ONLY <1>1, <2>1, <2>2, <2>3
<1>8. \A x \in Queues : x # q => Contents(x)' = Contents(x)
  BY <1>2, <1>3, <1>4, <1>5
<1>9. Mapped' = [Mapped EXCEPT ![q] = Append(@, v)]
  BY <1>5, <1>7, <1>8 DEF Mapped
<1> QED
  BY <1>2, <1>5, <1>9 DEF Enqueued

\* Every other step dequeues the oldest element of a queue or none.
LEMMA OthersDequeue ==
  ASSUME TypeInv, ControlInv, TypeInv', ControlInv', InstancesInv, PopInv, ValuesInv,
         NEW o, NEW Q, Placed(o, Q), [Next]_vars, \A t \in Threads : ~ Exchange(t)
  PROVE  Unmoved \/ \E q \in Queues : Dequeued(q)
<1>1. Steady(o)
  BY SteadyNext
<1>2. PICK p, R : Placed(p, R)' /\ Flow(Q, R)
  BY PlacedNext
<1>3. \A x \in Queues :
        /\ Contents(x) = Elements(slot, Q[x]) /\ Contents(x)' = Elements(slot', R[x])
        /\ Q[x] \in Seq(Nodes) /\ R[x] \in Seq(Nodes)
        /\ \A i \in 1 .. Len(Q[x]) : Q[x][i] \in Nodes /\ o[Q[x][i]] = InQueue(x)
  BY <1>2, ContentsNext
<1>4. \A x \in Queues : Elements(slot', Q[x]) = Elements(slot, Q[x])
  <2> SUFFICES ASSUME NEW x \in Queues PROVE Elements(slot', Q[x]) = Elements(slot, Q[x])
    OBVIOUS
  <2>1. \A i \in 1 .. Len(Q[x]) : slot'[Q[x][i]] = slot[Q[x][i]]
    BY <1>1, <1>3 DEF Steady
  <2> QED
    BY <1>3, <2>1, ElementsStay
<1>5. CASE Kept(Q, R)
  <2>1. ASSUME NEW x \in Queues PROVE Contents(x)' = Contents(x)
    <3>1. CASE R[x] = Q[x]
      BY <1>3, <1>4, <3>1
    <3>2. CASE Len(Q[x]) \in {0, 1} /\ Len(R[x]) \in {0, 1}
      BY <1>3, <3>2, DummyHoldsNothing
    <3> QED
      BY <1>5, <3>1, <3>2 DEF Kept
  <2>2. Mapped' = Mapped
    BY <2>1 DEF Mapped
  <2> QED
    BY <1>1, <2>2 DEF Unmoved, Steady
<1>6. ASSUME NEW q \in Queues, Len(Q[q]) > 1, R = [Q EXCEPT ![q] = Tail(@)] PROVE Dequeued(q)
  <2>1. DOMAIN Q = Queues
    BY DEF Placed, QueuesInv
  <2>2. R[q] = Tail(Q[q]) /\ \A x \in Queues : x # q => R[x] = Q[x]
    BY <1>6, <2>1
  <2>3. Contents(q) # << >> /\ Contents(q)' = Tail(Contents(q))
    <3>1. Q[q] # << >>
      BY <1>3, <1>6, EmptySeq
    <3> QED
      BY <1>3, <1>4, <1>6, <2>2, <3>1, ElementsMove
  <2>4. \A x \in Queues : x # q => Contents(x)' = Contents(x)
    BY <1>3, <1>4, <2>2
  <2>5. Mapped[q] # << >> /\ Mapped' = [Mapped EXCEPT ![q] = Tail(@)]
    BY <2>3, <2>4 DEF Mapped
  <2> QED
    BY <1>1, <2>5 DEF Dequeued, Steady
<1> QED
  BY <1>2, <1>5, <1>6 DEF Flow

\* The values of the elements are preserved.
LEMMA ValuesNext == NodesInv /\ NodesInv' /\ ValuesInv /\ [Next]_vars => ValuesInv'
<1> SUFFICES ASSUME NodesInv, NodesInv', ValuesInv, [Next]_vars PROVE ValuesInv'
  OBVIOUS
<1>1. PICK o, Q : Placed(o, Q)
  BY DEF NodesInv
<1>2. TypeInv /\ ControlInv /\ ControlInv'
  BY DEF NodesInv
<1>3. CASE \E t \in Threads : Exchange(t)
  BY <1>1, <1>2, <1>3, ExchangedValues
<1>4. CASE \A t \in Threads : ~ Exchange(t)
  BY <1>1, <1>2, <1>4, SteadyNext DEF Steady
<1> QED
  BY <1>3, <1>4

\* The initial states are mapped to the initial state.
LEMMA FifoInit == Init => ValuesInv /\ Abstract!Init
<1> SUFFICES ASSUME Init PROVE ValuesInv /\ Abstract!Init
  OBVIOUS
<1>1. NodesInv
  BY NodesInit
<1>2. PICK o, Q : Placed(o, Q)
  BY <1>1 DEF NodesInv
<1>3. TypeInv /\ ControlInv
  BY <1>1 DEF NodesInv
<1>4. \A t \in Threads : pc[t] = "idle" /\ loc[t].value = 0
  BY NoLocalsAre DEF Init
<1>5. ValuesInv
  BY <1>4, MpscAssumption DEF Init, ValuesInv, Element
<1>6. \A q \in Queues : Contents(q) = << >>
  <2> SUFFICES ASSUME NEW q \in Queues PROVE Contents(q) = << >>
    OBVIOUS
  <2>1. tail[q] = 0
    BY DEF Init
  <2>2. Q[q] \in Seq(Nodes) /\ Len(Q[q]) \in {0, 1}
    BY <1>2, <2>1, QueueNodes DEF Placed
  <2>3. Contents(q) = Elements(slot, Q[q])
    BY <1>2, <1>3, ContentsAre DEF AllHold, InOrder, Holds, Placed
  <2> QED
    BY <2>2, <2>3, DummyHoldsNothing
<1>7. Fresh = Values
  BY MpscAssumption DEF Init, Fresh, Values
<1>8. Abstract!Init
  BY <1>6, <1>7 DEF Abstract!Init, Fresh
<1> QED
  BY <1>5, <1>8

\* Every step is mapped to the enqueuing or the dequeuing of an element, or to none.
LEMMA FifoNext ==
  NodesInv /\ NodesInv' /\ ValuesInv /\ [Next]_vars => [Abstract!Next]_(Abstract!vars)
<1> SUFFICES ASSUME NodesInv, NodesInv', ValuesInv, [Next]_vars
             PROVE  [Abstract!Next]_(Abstract!vars)
  OBVIOUS
<1>1. PICK o, Q : Placed(o, Q)
  BY DEF NodesInv
<1>2. TypeInv /\ ControlInv /\ InstancesInv /\ PopInv /\ TypeInv' /\ ControlInv'
  BY DEF NodesInv
<1>3. ASSUME NEW q \in Queues, NEW v \in Values, Enqueued(q, v) PROVE Abstract!Next
  <2>1. Abstract!Enqueue(q, v)
    BY <1>3 DEF Enqueued, Mapped, Fresh, Abstract!Enqueue
  <2> QED
    BY <2>1 DEF Abstract!Next
<1>4. ASSUME NEW q \in Queues, Dequeued(q) PROVE Abstract!Next
  <2>1. Abstract!Dequeue(q)
    BY <1>4 DEF Dequeued, Mapped, Fresh, Abstract!Dequeue
  <2> QED
    BY <2>1 DEF Abstract!Next
<1>5. CASE Unmoved
  BY <1>5 DEF Unmoved, Mapped, Fresh, Abstract!vars
<1>6. CASE \E t \in Threads : Exchange(t)
  BY <1>1, <1>2, <1>3, <1>6, ExchangeEnqueues
<1>7. CASE \A t \in Threads : ~ Exchange(t)
  BY <1>1, <1>2, <1>4, <1>5, <1>7, OthersDequeue
<1> QED
  BY <1>6, <1>7

\* The queues are FIFO: under any interleaving of producers, consumers, constructors
\* and destructors of queues that share their nodes, an element leaves its queue once,
\* in the order of the exchanges of head_.
THEOREM QueuesAreFifo == Spec => RefinesFifoQueue
<1>1. Init /\ [][Next]_vars => []ValuesInv
  BY NodesInit, NodesNext, FifoInit, ValuesNext, PTL
<1>2. Spec => []NodesInv
  BY NodesArePlaced
<1> QED
  BY <1>1, <1>2, FifoInit, FifoNext, PTL DEF Spec, RefinesFifoQueue, Abstract!Spec

=============================================================================
