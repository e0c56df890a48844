------------------------ MODULE MessageBrokerProofs ------------------------
(***************************************************************************)
(* Proofs about MessageBroker, for any number of nodes, calls and          *)
(* heartbeats, whether or not closing a socket discards messages: every    *)
(* response finds its operation, a call gets its own reply, the latch never *)
(* goes below zero, and a node stops only when all have decided to.        *)
(***************************************************************************)
EXTENDS MessageBroker, FiniteSetTheorems, SequenceTheorems, TLAPS

-----------------------------------------------------------------------------
(* Counting the elements of a sequence that lie in a set.                  *)

Hits(s, C) == {i \in 1 .. Len(s) : s[i] \in C}

Count(s, C) == Cardinality(Hits(s, C))

\* The number of elements of a queue that lie in C is a natural number.
LEMMA CountType ==
  ASSUME NEW S, NEW s \in Seq(S), NEW C
  PROVE  IsFiniteSet(Hits(s, C)) /\ Count(s, C) \in Nat
<1>1. Hits(s, C) \subseteq 1 .. Len(s) /\ Len(s) \in Nat
  BY DEF Hits
<1>2. IsFiniteSet(1 .. Len(s))
  BY <1>1, FS_Interval
<1> QED
  BY <1>1, <1>2, FS_Subset, FS_CardinalityType DEF Count

\* An empty queue holds nothing.
LEMMA CountEmpty == ASSUME NEW C PROVE Count(<< >>, C) = 0
<1>1. Hits(<< >>, C) = {}
  BY DEF Hits
<1> QED
  BY <1>1, FS_EmptySet DEF Count

\* A queue that holds something of C counts at least one.
LEMMA CountPositive ==
  ASSUME NEW S, NEW s \in Seq(S), NEW C, NEW i \in 1 .. Len(s), s[i] \in C
  PROVE  Count(s, C) > 0
<1>1. i \in Hits(s, C)
  BY DEF Hits
<1>2. Hits(s, C) # {} /\ IsFiniteSet(Hits(s, C)) /\ Count(s, C) \in Nat
  BY <1>1, CountType
<1> QED
  BY <1>2, FS_EmptySet DEF Count

\* push_back adds one, if the new element is in C.
LEMMA CountAppend ==
  ASSUME NEW S, NEW s \in Seq(S), NEW e \in S, NEW C
  PROVE  Count(Append(s, e), C) = Count(s, C) + (IF e \in C THEN 1 ELSE 0)
<1> DEFINE t == Append(s, e)
<1>1. /\ Len(s) \in Nat /\ Len(t) = Len(s) + 1 /\ t[Len(s) + 1] = e
      /\ \A i \in 1 .. Len(s) : t[i] = s[i]
  BY AppendProperties
<1>2. IsFiniteSet(Hits(s, C)) /\ Count(s, C) \in Nat
  BY CountType
<1> HIDE DEF t
<1>3. CASE e \in C
  <2>1. Hits(t, C) = Hits(s, C) \cup {Len(s) + 1} /\ Len(s) + 1 \notin Hits(s, C)
    BY <1>1, <1>3 DEF Hits
  <2>2. Cardinality(Hits(s, C) \cup {Len(s) + 1}) = Cardinality(Hits(s, C)) + 1
    BY <1>2, <2>1, FS_AddElement
  <2> QED
    BY <1>3, <2>1, <2>2 DEF Count, t
<1>4. CASE e \notin C
  <2>1. Hits(t, C) = Hits(s, C)
    BY <1>1, <1>4 DEF Hits
  <2> QED
    BY <1>2, <1>4, <2>1 DEF Count, t
<1> QED
  BY <1>3, <1>4

\* pop_front takes one away, if the first element is in C.
LEMMA CountTail ==
  ASSUME NEW S, NEW s \in Seq(S), s # << >>, NEW C
  PROVE  Count(Tail(s), C) = Count(s, C) - (IF Head(s) \in C THEN 1 ELSE 0)
<1> DEFINE t == Tail(s)
           R == Hits(s, C) \ {1}
<1>1. /\ Len(s) \in Nat /\ Len(s) > 0 /\ Head(s) = s[1]
      /\ t \in Seq(S) /\ Len(t) = Len(s) - 1
      /\ \A i \in 1 .. Len(t) : t[i] = s[i + 1]
  BY HeadTailProperties
<1>2. /\ IsFiniteSet(Hits(s, C)) /\ Count(s, C) \in Nat
      /\ IsFiniteSet(Hits(t, C)) /\ Count(t, C) \in Nat
  BY <1>1, CountType
<1> HIDE DEF t
<1>3. Cardinality(R) = Cardinality(Hits(t, C))
  <2> DEFINE f == [i \in Hits(t, C) |-> i + 1]
  <2>1. f \in [Hits(t, C) -> R]
    BY <1>1 DEF Hits
  <2>2. \A i, j \in Hits(t, C) : f[i] = f[j] => i = j
    BY <1>1 DEF Hits
  <2>3. \A j \in R : \E i \in Hits(t, C) : f[i] = j
    <3> SUFFICES ASSUME NEW j \in R PROVE \E i \in Hits(t, C) : f[i] = j
      OBVIOUS
    <3>1. j - 1 \in Hits(t, C)
      BY <1>1 DEF Hits
    <3>2. f[j - 1] = j
      BY <1>1, <3>1 DEF Hits
    <3> QED
      BY <3>1, <3>2
  <2>4. f \in Bijection(Hits(t, C), R)
    BY <2>1, <2>2, <2>3 DEF Bijection, Injection, Surjection, IsInjective
  <2>5. ExistsBijection(Hits(t, C), R)
    BY <2>4 DEF ExistsBijection
  <2> QED
    BY <1>2, <2>5, FS_Bijection
<1>4. CASE Head(s) \in C
  <2>1. 1 \in Hits(s, C)
    BY <1>1, <1>4 DEF Hits
  <2>2. Cardinality(R) = Cardinality(Hits(s, C)) - 1
    BY <1>2, <2>1, FS_RemoveElement
  <2> QED
    BY <1>2, <1>3, <1>4, <2>2 DEF Count, t
<1>5. CASE Head(s) \notin C
  <2>1. R = Hits(s, C)
    BY <1>1, <1>5 DEF Hits
  <2> HIDE DEF R
  <2> QED
    BY <1>2, <1>3, <1>5, <2>1 DEF Count, t
<1> QED
  BY <1>4, <1>5

\* What is left of a queue when its end is discarded holds no more than it did.
LEMMA CountPrefix ==
  ASSUME NEW S, NEW s \in Seq(S), NEW j \in 0 .. Len(s), NEW C
  PROVE  /\ SubSeq(s, 1, j) \in Seq(S)
         /\ Count(SubSeq(s, 1, j), C) <= Count(s, C)
         /\ Count(SubSeq(s, 1, j), C) \in Nat
<1> DEFINE t == SubSeq(s, 1, j)
<1>1. t \in Seq(S) /\ Len(t) = j /\ \A i \in 1 .. j : t[i] = s[i]
  BY SubSeqProperties
<1>2. Hits(t, C) \subseteq Hits(s, C)
  BY <1>1 DEF Hits
<1>3. IsFiniteSet(Hits(s, C)) /\ Count(t, C) \in Nat
  BY <1>1, CountType
<1> QED
  BY <1>1, <1>2, <1>3, FS_Subset DEF Count
-----------------------------------------------------------------------------
(* The inductive invariant.                                                *)

\* The messages there can be now: a normal one is its call's request or the
\* response to it, with the id the call has drawn.
Message ==
  {op \in OperationType :
     IF op.flag = "kNormal" THEN op.call \in Calls /\ op = CallOperation(op.call)
     ELSE op.call = None /\ op.from # op.to}

\* Those of the operations of n, those on the way from a to b, and the requests
\* that n has been asked.
Own(n) == {op \in Message : op.from = n}
Between(a, b) ==
  {op \in Message : \/ op.from = a /\ op.to = b
                    \/ op.flag = "kNormal" /\ op.from = b /\ op.to = a}
Asked(n) == {op \in Message : op.flag = "kNormal" /\ op.to = n}

\* Every queue holds messages that belong there.
CallShape ==
  /\ call_pc \in [Calls -> {"idle", "insert", "push", "waiting", "done"}]
  /\ call_id \in [Calls -> Nat]
  /\ call_reply \in [Calls -> Calls \cup {None}]
  /\ request_id_counter \in [Nodes -> Nat]
OperationsShape ==
  /\ operations \in [Nodes -> SUBSET OperationType]
  /\ \A n \in Nodes : operations[n] \subseteq Own(n)
SendShape ==
  /\ pending_send \in [Nodes -> Seq(OperationType)]
  /\ \A n \in Nodes : pending_send[n] \in Seq(Own(n))
ReplyShape ==
  /\ pending_reply \in [Nodes -> Seq(OperationType)]
  /\ \A n \in Nodes : pending_reply[n] \in Seq(Asked(n))
ReceivedShape ==
  /\ received \in [Nodes -> SUBSET [rid : Nat, identifier : OperationType]]
  /\ \A n \in Nodes : \A r \in received[n] : r.identifier \in Asked(n)
  /\ received_id_counter \in [Nodes -> Nat]
NetShape ==
  /\ net \in [Nodes -> [Nodes -> Seq(OperationType)]]
  /\ \A a, b \in Nodes : net[a][b] \in Seq(Between(a, b))

ShapeInv ==
  CallShape /\ OperationsShape /\ SendShape /\ ReplyShape /\ ReceivedShape /\ NetShape

\* The control state of the threads.
ControlInv ==
  /\ send_pc \in [Nodes -> {"top", "sends", "flag", "replies", "heartbeat", "spawn", "exited"}]
  /\ send_op \in [Nodes -> OperationType \cup {None}]
  /\ send_peers \in [Nodes -> SUBSET Nodes]
  /\ \A n \in Nodes : send_peers[n] \subseteq Peers(n)
  /\ recv_pc \in [Nodes -> {"loop", "exited"}]
  /\ main_pc \in [Nodes -> {"run", "quits", "count", "latch", "empty", "join", "done", "closed"}]
  /\ quit_peers \in [Nodes -> SUBSET Nodes]
  /\ \A n \in Nodes : quit_peers[n] \subseteq Peers(n)
  /\ quit_latch \in [Nodes -> Int]
  /\ stopped \in [Nodes -> BOOLEAN]
  /\ async_scope \in [Nodes -> Int]
  /\ stop_requested \in [Nodes -> BOOLEAN]
  /\ heartbeats \in [Nodes -> Nat]

\* Ids are drawn once: the operations of a node have different ids, each call
\* that has registered its operation finds it there, and one that has not yet
\* has an id of its own.
IdsInv ==
  /\ \A n \in Nodes : \A op \in operations[n] :
       /\ op.id < request_id_counter[n]
       /\ op.flag = "kNormal" => call_pc[op.call] \in {"push", "waiting"}
       /\ \A o \in operations[n] : o.id = op.id => o = op
  /\ \A k \in Calls : call_pc[k] \in {"push", "waiting"} =>
       CallOperation(k) \in operations[CallFrom[k]]
  /\ \A k \in Calls : call_pc[k] = "insert" =>
       /\ call_id[k] < request_id_counter[CallFrom[k]]
       /\ \A op \in operations[CallFrom[k]] : op.id # call_id[k]
       /\ \A j \in Calls : call_pc[j] = "insert" /\ CallFrom[j] = CallFrom[k]
            /\ call_id[j] = call_id[k] => j = k

OfCall(k) == {op \in OperationType : op.call = k}

SendCount(n, C) == Count(pending_send[n], C)
NetCount(a, b, C) == Count(net[a][b], C)
ReplyCount(n, C) == Count(pending_reply[n], C)
ReceivedWith(n, C) == {r \in received[n] : r.identifier \in C}
ReceivedCount(n, C) == Cardinality(ReceivedWith(n, C))

\* How often the request or the response of call k is on its way.
Flight(k) ==
  LET n == CallFrom[k] m == CallTo[k] C == OfCall(k) IN
  SendCount(n, C) + NetCount(n, m, C) + ReceivedCount(m, C) + ReplyCount(m, C)
    + NetCount(m, n, C)

\* A call that waits has at most one message on its way, any other call none.
FlightInv ==
  /\ \A n \in Nodes : IsFiniteSet(received[n])
  /\ \A n \in Nodes : \A r \in received[n] : r.rid < received_id_counter[n]
  /\ \A k \in Calls : Flight(k) <= IF call_pc[k] = "waiting" THEN 1 ELSE 0

ReplyInv == ResponseFindsOperation /\ OwnReply

Quits(m, n) == {op \in OperationType : op.flag = "kQuit" /\ op.from = m /\ op.to = n}

\* The quit messages that m has still to send to n or that are on their way.
Todo(m, n) == IF main_pc[m] = "run" \/ n \in quit_peers[m] THEN 1 ELSE 0
Owed(m, n) == Todo(m, n) + SendCount(m, Quits(m, n)) + NetCount(m, n, Quits(m, n))

Owing(n) == {m \in Peers(n) : Owed(m, n) > 0}

\* n has not yet counted itself down.
BeforeLatch(n) == main_pc[n] \in {"run", "quits", "count"}

\* The latch of a node is at least the number of nodes whose quit message it has
\* yet to get, itself included.
StopInv ==
  /\ \A n \in Nodes : main_pc[n] # "quits" => quit_peers[n] = {}
  /\ \A k \in Calls : main_pc[CallFrom[k]] # "run" => call_pc[k] \in {"idle", "done"}
  /\ \A n \in Nodes : \A m \in Peers(n) : Owed(m, n) <= 1
  /\ \A n \in Nodes :
       quit_latch[n] >= Cardinality(Owing(n))
                          + (IF BeforeLatch(n) THEN 1 ELSE 0)
  /\ \A n \in Nodes : PastLatch(n) => \A m \in Nodes : main_pc[m] # "run"

Spawned == {op \in OperationType : op.flag # "kNormal"}

\* The scope counts the quit and heartbeat operations that are queued or in the
\* send thread's hand.
InHand(n) == IF send_pc[n] = "flag" /\ send_op[n].flag # "kNormal" THEN 1 ELSE 0
ScopeInv == \A n \in Nodes : async_scope[n] = SendCount(n, Spawned) + InHand(n)

BrokerInv ==
  ShapeInv /\ ControlInv /\ IdsInv /\ FlightInv /\ ReplyInv /\ StopInv /\ ScopeInv
-----------------------------------------------------------------------------
(* Messages and where they are.                                            *)

\* The requests and the operations a node spawns are messages of its own.
LEMMA OwnOperations ==
  ASSUME ShapeInv
  PROVE  /\ \A k \in Calls : CallOperation(k) \in Own(CallFrom[k])
         /\ \A n \in Nodes : \A m \in Peers(n) : \A i \in Nat : \A f \in {"kQuit", "kHeartbeat"} :
              Operation(n, m, i, f, None) \in Own(n)
<1>1. ASSUME NEW k \in Calls PROVE CallOperation(k) \in Own(CallFrom[k])
  <2>1. /\ CallOperation(k) \in OperationType /\ CallOperation(k).call = k
        /\ CallOperation(k).flag = "kNormal" /\ CallOperation(k).from = CallFrom[k]
    BY CallsAssumption DEF CallOperation, Operation, OperationType, ShapeInv, CallShape
  <2> QED
    BY <2>1 DEF Own, Message
<1>2. ASSUME NEW n \in Nodes, NEW m \in Peers(n), NEW i \in Nat,
             NEW f \in {"kQuit", "kHeartbeat"}
      PROVE  Operation(n, m, i, f, None) \in Own(n)
  <2>1. Operation(n, m, i, f, None) \in OperationType
    BY DEF Operation, OperationType, Peers
  <2> QED
    BY <2>1 DEF Operation, Own, Message, Peers
<1> QED
  BY <1>1, <1>2

\* What a message of each place says about its ends.
LEMMA MessageEnds ==
  ASSUME NEW op \in Message
  PROVE  /\ op \in OperationType /\ op.from \in Nodes /\ op.to \in Nodes /\ op.from # op.to
         /\ op.id \in Nat
         /\ op.flag = "kNormal" =>
              /\ op.call \in Calls /\ op.from = CallFrom[op.call] /\ op.to = CallTo[op.call]
              /\ op.id = call_id[op.call] /\ op = CallOperation(op.call)
         /\ op.flag # "kNormal" => op.call = None
<1>1. /\ op \in OperationType /\ op.from \in Nodes /\ op.to \in Nodes /\ op.id \in Nat
  BY DEF Message, OperationType
<1>2. CASE op.flag = "kNormal"
  <2>1. op.call \in Calls /\ op = CallOperation(op.call)
    BY <1>2 DEF Message
  <2>2. /\ CallOperation(op.call).from = CallFrom[op.call]
        /\ CallOperation(op.call).to = CallTo[op.call]
        /\ CallOperation(op.call).id = call_id[op.call]
    BY DEF CallOperation, Operation
  <2> QED
    BY <1>1, <1>2, <2>1, <2>2, CallsAssumption
<1>3. CASE op.flag # "kNormal"
  BY <1>1, <1>3 DEF Message
<1> QED
  BY <1>2, <1>3

\* As long as no call draws an id the messages there can be are the same.
LEMMA MessagesFixed ==
  ASSUME call_id' = call_id
  PROVE  /\ \A n : Own(n)' = Own(n) /\ Asked(n)' = Asked(n)
         /\ \A a, b : Between(a, b)' = Between(a, b)
BY DEF Own, Asked, Between, Message, CallOperation

\* A queue that changes at one place.
LEMMA NetUpdate ==
  ASSUME NetShape, NEW a \in Nodes, NEW b \in Nodes, NEW q,
         net' = [net EXCEPT ![a][b] = q]
  PROVE  /\ net'[a][b] = q
         /\ \A x, y \in Nodes : x # a \/ y # b => net'[x][y] = net[x][y]
         /\ q \in Seq(Between(a, b)) =>
              /\ net' \in [Nodes -> [Nodes -> Seq(OperationType)]]
              /\ \A x, y \in Nodes : net'[x][y] \in Seq(Between(x, y))
<1>1. net \in [Nodes -> [Nodes -> Seq(OperationType)]]
      /\ \A x, y \in Nodes : net[x][y] \in Seq(Between(x, y))
  BY DEF NetShape
<1>2. /\ net'[a][b] = q
      /\ \A x, y \in Nodes : x # a \/ y # b => net'[x][y] = net[x][y]
  BY <1>1
<1>3. ASSUME q \in Seq(Between(a, b))
      PROVE  net' \in [Nodes -> [Nodes -> Seq(OperationType)]]
  <2>1. q \in Seq(OperationType)
    <3>1. \A i \in 1 .. Len(q) : q[i] \in OperationType
      BY <1>3, ElementOfSeq DEF Between, Message
    <3> QED
      BY <1>3, <3>1
  <2> QED
    BY <1>1, <2>1
<1> QED
  BY <1>1, <1>2, <1>3

\* A message at the end or without the first one: the queue holds the same kind.
LEMMA QueueKept ==
  ASSUME NEW S, NEW s \in Seq(S)
  PROVE  /\ \A e \in S : Append(s, e) \in Seq(S)
         /\ s # << >> => Tail(s) \in Seq(S) /\ Head(s) \in S
BY HeadTailProperties, AppendProperties

\* A queue whose elements are all in T is a queue of T.
LEMMA QueueOf ==
  ASSUME NEW S, NEW T, NEW s \in Seq(S), \A i \in 1 .. Len(s) : s[i] \in T
  PROVE  s \in Seq(T)
OBVIOUS

\* A queue of messages is a queue of operations.
LEMMA QueueType ==
  ASSUME NEW s, NEW S, S \subseteq OperationType, s \in Seq(S)
  PROVE  s \in Seq(OperationType)
<1>1. \A i \in 1 .. Len(s) : s[i] \in OperationType
  BY ElementOfSeq
<1> QED
  BY <1>1

\* The operations, messages and requests of a node have the operation type.
LEMMA KindsAreOperations ==
  /\ \A n : Own(n) \subseteq OperationType /\ Asked(n) \subseteq OperationType
  /\ \A a, b : Between(a, b) \subseteq OperationType
BY DEF Own, Asked, Between, Message

\* What a step leaves alone keeps its shape, unless a call draws an id.
LEMMA ShapeFrame ==
  ASSUME call_id' = call_id
  PROVE  /\ OperationsShape /\ operations' = operations => OperationsShape'
         /\ SendShape /\ pending_send' = pending_send => SendShape'
         /\ ReplyShape /\ pending_reply' = pending_reply => ReplyShape'
         /\ ReceivedShape /\ received' = received
              /\ received_id_counter' = received_id_counter => ReceivedShape'
         /\ NetShape /\ net' = net => NetShape'
BY MessagesFixed DEF OperationsShape, SendShape, ReplyShape, ReceivedShape, NetShape

\* An operation that is registered and queued on its own node.
LEMMA ShapeInsert ==
  ASSUME ShapeInv, call_id' = call_id, NEW n \in Nodes, NEW op \in Own(n)
  PROVE  /\ Insert(n, op) => OperationsShape'
         /\ pending_send' = [pending_send EXCEPT ![n] = Append(@, op)] => SendShape'
<1>1. op \in OperationType
  BY KindsAreOperations
<1>2. ASSUME Insert(n, op) PROVE OperationsShape'
  BY <1>1, <1>2, MessagesFixed DEF Insert, OperationsShape, ShapeInv
<1>3. ASSUME pending_send' = [pending_send EXCEPT ![n] = Append(@, op)] PROVE SendShape'
  <2>1. Append(pending_send[n], op) \in Seq(Own(n))
    BY QueueKept DEF ShapeInv, SendShape
  <2>2. Append(pending_send[n], op) \in Seq(OperationType)
    BY <1>1, QueueKept DEF ShapeInv, SendShape
  <2> QED
    BY <1>3, <2>1, <2>2, MessagesFixed DEF ShapeInv, SendShape
<1> QED
  BY <1>2, <1>3

\* A message without its receiver's queue: the first one is taken off.
LEMMA ShapePop ==
  ASSUME ShapeInv, call_id' = call_id, NEW n \in Nodes
  PROVE  /\ pending_send[n] # << >> /\ pending_send' = [pending_send EXCEPT ![n] = Tail(@)]
              => SendShape' /\ Head(pending_send[n]) \in Own(n)
         /\ pending_reply[n] # << >> /\ pending_reply' = [pending_reply EXCEPT ![n] = Tail(@)]
              => ReplyShape' /\ Head(pending_reply[n]) \in Asked(n)
         /\ \A m \in Nodes : net[m][n] # << >> /\ net' = [net EXCEPT ![m][n] = Tail(@)]
              => NetShape' /\ Head(net[m][n]) \in Between(m, n)
<1>1. ASSUME pending_send[n] # << >>, pending_send' = [pending_send EXCEPT ![n] = Tail(@)]
      PROVE  SendShape' /\ Head(pending_send[n]) \in Own(n)
  <2>1. /\ Tail(pending_send[n]) \in Seq(Own(n)) /\ Head(pending_send[n]) \in Own(n)
        /\ Tail(pending_send[n]) \in Seq(OperationType)
    BY <1>1, QueueKept DEF ShapeInv, SendShape
  <2> QED
    BY <1>1, <2>1, MessagesFixed DEF ShapeInv, SendShape
<1>2. ASSUME pending_reply[n] # << >>, pending_reply' = [pending_reply EXCEPT ![n] = Tail(@)]
      PROVE  ReplyShape' /\ Head(pending_reply[n]) \in Asked(n)
  <2>1. /\ Tail(pending_reply[n]) \in Seq(Asked(n)) /\ Head(pending_reply[n]) \in Asked(n)
        /\ Tail(pending_reply[n]) \in Seq(OperationType)
    BY <1>2, QueueKept DEF ShapeInv, ReplyShape
  <2> QED
    BY <1>2, <2>1, MessagesFixed DEF ShapeInv, ReplyShape
<1>3. ASSUME NEW m \in Nodes, net[m][n] # << >>, net' = [net EXCEPT ![m][n] = Tail(@)]
      PROVE  NetShape' /\ Head(net[m][n]) \in Between(m, n)
  <2>1. Tail(net[m][n]) \in Seq(Between(m, n)) /\ Head(net[m][n]) \in Between(m, n)
    BY <1>3, QueueKept DEF ShapeInv, NetShape
  <2>2. NetShape /\ net' = [net EXCEPT ![m][n] = Tail(net[m][n])]
    BY <1>3 DEF ShapeInv
  <2> QED
    BY <2>1, <2>2, NetUpdate, MessagesFixed DEF NetShape
<1> QED
  BY <1>1, <1>2, <1>3

\* A message is put on the wire.
LEMMA ShapeWire ==
  ASSUME ShapeInv, call_id' = call_id, NEW a \in Nodes, NEW b \in Nodes,
         NEW op \in Between(a, b), net' = [net EXCEPT ![a][b] = Append(@, op)]
  PROVE  NetShape'
<1>1. Append(net[a][b], op) \in Seq(Between(a, b))
  BY QueueKept DEF ShapeInv, NetShape
<1>2. NetShape /\ net' = [net EXCEPT ![a][b] = Append(net[a][b], op)]
  BY DEF ShapeInv
<1>3. /\ net' \in [Nodes -> [Nodes -> Seq(OperationType)]]
      /\ \A x, y \in Nodes : net'[x][y] \in Seq(Between(x, y))
  BY <1>1, <1>2, NetUpdate
<1> QED
  BY <1>3, MessagesFixed DEF NetShape

\* What is counted is a number.
LEMMA CountsType ==
  ASSUME ShapeInv, NEW n \in Nodes, NEW C
  PROVE  /\ SendCount(n, C) \in Nat
         /\ ReplyCount(n, C) \in Nat
         /\ \A m \in Nodes : NetCount(m, n, C) \in Nat
         /\ IsFiniteSet(received[n]) =>
              IsFiniteSet(ReceivedWith(n, C)) /\ ReceivedCount(n, C) \in Nat
<1>1. /\ pending_send[n] \in Seq(OperationType) /\ pending_reply[n] \in Seq(OperationType)
      /\ \A m \in Nodes : net[m][n] \in Seq(OperationType)
  BY DEF ShapeInv, SendShape, ReplyShape, NetShape
<1>2. ReceivedWith(n, C) \subseteq received[n]
  BY DEF ReceivedWith
<1>3. IsFiniteSet(received[n]) =>
        IsFiniteSet(ReceivedWith(n, C)) /\ ReceivedCount(n, C) \in Nat
  BY <1>2, FS_Subset, FS_CardinalityType DEF ReceivedCount
<1>4. SendCount(n, C) \in Nat /\ ReplyCount(n, C) \in Nat
  BY <1>1, CountType DEF SendCount, ReplyCount
<1>5. \A m \in Nodes : NetCount(m, n, C) \in Nat
  BY <1>1, CountType DEF NetCount
<1> QED
  BY <1>3, <1>4, <1>5

\* The numbers that Flight adds.
LEMMA FlightTypes ==
  ASSUME ShapeInv, FlightInv, NEW k \in Calls
  PROVE  LET n == CallFrom[k] m == CallTo[k] C == OfCall(k) IN
         /\ n \in Nodes /\ m \in Nodes /\ n # m
         /\ SendCount(n, C) \in Nat /\ NetCount(n, m, C) \in Nat
         /\ ReceivedCount(m, C) \in Nat /\ ReplyCount(m, C) \in Nat
         /\ NetCount(m, n, C) \in Nat
         /\ IsFiniteSet(ReceivedWith(m, C))
<1>1. CallFrom[k] \in Nodes /\ CallTo[k] \in Nodes /\ CallFrom[k] # CallTo[k]
  BY CallsAssumption
<1> QED
  BY <1>1, CountsType DEF FlightInv

\* A message with call k is that call's, and counts for it.
LEMMA MessageOfCall ==
  ASSUME NEW op \in Message, NEW k \in Calls, op.call = k
  PROVE  /\ op \in OfCall(k) /\ op.flag = "kNormal"
         /\ op.from = CallFrom[k] /\ op.to = CallTo[k] /\ op.from # op.to
<1>1. op.flag = "kNormal"
  BY MessageEnds, BrokerNoneAssumption
<1> QED
  BY <1>1, MessageEnds DEF OfCall

\* A call that does not wait has no message anywhere.
LEMMA NotInFlight ==
  ASSUME ShapeInv, FlightInv, NEW k \in Calls, call_pc[k] # "waiting", NEW n \in Nodes
  PROVE  /\ \A i \in 1 .. Len(pending_send[n]) : pending_send[n][i].call # k
         /\ \A i \in 1 .. Len(pending_reply[n]) : pending_reply[n][i].call # k
         /\ \A r \in received[n] : r.identifier.call # k
         /\ \A m \in Nodes : \A i \in 1 .. Len(net[m][n]) : net[m][n][i].call # k
<1> DEFINE f == CallFrom[k] t == CallTo[k] C == OfCall(k)
<1>1. /\ SendCount(f, C) = 0 /\ NetCount(f, t, C) = 0 /\ ReceivedCount(t, C) = 0
      /\ ReplyCount(t, C) = 0 /\ NetCount(t, f, C) = 0
      /\ IsFiniteSet(ReceivedWith(t, C))
  <2>1. Flight(k) <= 0
    BY DEF FlightInv
  <2> QED
    BY <2>1, FlightTypes DEF Flight
<1>2. ASSUME NEW i \in 1 .. Len(pending_send[n]), pending_send[n][i].call = k PROVE FALSE
  <2>1. pending_send[n] \in Seq(Own(n)) /\ pending_send[n][i] \in Own(n)
    BY ElementOfSeq DEF ShapeInv, SendShape
  <2>2. n = f /\ pending_send[n][i] \in C
    BY <1>2, <2>1, MessageOfCall DEF Own
  <2> QED
    BY <1>1, <2>1, <2>2, CountPositive DEF SendCount
<1>3. ASSUME NEW i \in 1 .. Len(pending_reply[n]), pending_reply[n][i].call = k PROVE FALSE
  <2>1. pending_reply[n] \in Seq(Asked(n)) /\ pending_reply[n][i] \in Asked(n)
    BY ElementOfSeq DEF ShapeInv, ReplyShape
  <2>2. n = t /\ pending_reply[n][i] \in C
    BY <1>3, <2>1, MessageOfCall DEF Asked
  <2> QED
    BY <1>1, <2>1, <2>2, CountPositive DEF ReplyCount
<1>4. ASSUME NEW r \in received[n], r.identifier.call = k PROVE FALSE
  <2>1. n = t /\ r.identifier \in C
    BY <1>4, MessageOfCall DEF ShapeInv, ReceivedShape, Asked
  <2>2. r \in ReceivedWith(t, C)
    BY <2>1 DEF ReceivedWith
  <2> QED
    BY <1>1, <2>2, FS_EmptySet DEF ReceivedCount
<1>5. ASSUME NEW m \in Nodes, NEW i \in 1 .. Len(net[m][n]), net[m][n][i].call = k PROVE FALSE
  <2>1. net[m][n] \in Seq(Between(m, n)) /\ net[m][n][i] \in Between(m, n)
    BY ElementOfSeq DEF ShapeInv, NetShape
  <2>2. PICK op \in Between(m, n) : op = net[m][n][i] /\ op.call = k
    BY <1>5, <2>1
  <2>3. op \in C /\ op.from = f /\ op.to = t
    BY <2>2, MessageOfCall DEF Between
  <2>4. net[m][n][i] \in C
    BY <2>2, <2>3
  <2>5. (m = f /\ n = t) \/ (m = t /\ n = f)
    BY <2>2, <2>3 DEF Between
  <2> QED
    BY <1>1, <2>1, <2>4, <2>5, CountPositive DEF NetCount
<1> QED
  BY <1>2, <1>3, <1>4, <1>5

\* A message whose call does not draw an id now stays a message.
LEMMA MessageStays ==
  ASSUME ShapeInv, NEW k \in Calls, NEW i, call_id' = [call_id EXCEPT ![k] = i]
  PROVE  /\ \A n : \A op \in Own(n) : op.call # k => op \in Own(n)'
         /\ \A n : \A op \in Asked(n) : op.call # k => op \in Asked(n)'
         /\ \A a, b : \A op \in Between(a, b) : op.call # k => op \in Between(a, b)'
<1>1. \A op \in Message : op.call # k => op \in Message'
  BY DEF Message, CallOperation, Operation, ShapeInv, CallShape
<1> QED
  BY <1>1 DEF Own, Asked, Between

\* SendRequest draws the id of a call that has no message yet.
LEMMA ShapeSendRequest ==
  ASSUME ShapeInv, FlightInv, IdsInv, NEW k \in Calls, SendRequest(k)
  PROVE  ShapeInv'
<1> DEFINE n0 == CallFrom[k]
<1>1. /\ call_pc[k] = "idle" /\ call_id' = [call_id EXCEPT ![k] = request_id_counter[n0]]
      /\ UNCHANGED <<operations, pending_send, pending_reply, received, received_id_counter, net>>
  BY DEF SendRequest, recvVars
<1>2. CallShape'
  <2>1. n0 \in Nodes /\ request_id_counter[n0] \in Nat
    BY CallsAssumption DEF ShapeInv, CallShape
  <2>2. /\ call_pc' = [call_pc EXCEPT ![k] = "insert"] /\ call_reply' = call_reply
        /\ request_id_counter' = [request_id_counter EXCEPT ![n0] = @ + 1]
    BY DEF SendRequest, NextRequestId
  <2> QED
    BY <1>1, <2>1, <2>2 DEF ShapeInv, CallShape
<1>3. OperationsShape'
  <2>1. \A n \in Nodes : \A op \in operations[n] : op \in Own(n) /\ op.call # k
    <3> SUFFICES ASSUME NEW n \in Nodes, NEW op \in operations[n], op \in Own(n), op.call = k
                 PROVE  FALSE
      BY DEF ShapeInv, OperationsShape
    <3>1. op.flag = "kNormal"
      BY MessageOfCall DEF Own
    <3> QED
      BY <1>1, <3>1 DEF IdsInv
  <2> QED
    BY <1>1, <2>1, MessageStays DEF ShapeInv, OperationsShape
<1>4. SendShape'
  <2>1. \A n \in Nodes : pending_send[n] \in Seq(Own(n)')
    <3> SUFFICES ASSUME NEW n \in Nodes PROVE pending_send[n] \in Seq(Own(n)')
      OBVIOUS
    <3>1. \A i \in 1 .. Len(pending_send[n]) : pending_send[n][i] \in Own(n)'
      BY <1>1, NotInFlight, MessageStays, ElementOfSeq DEF ShapeInv, SendShape
    <3> QED
      BY <3>1 DEF ShapeInv, SendShape
  <2> QED
    BY <1>1, <2>1 DEF ShapeInv, SendShape
<1>5. ReplyShape'
  <2>1. \A n \in Nodes : pending_reply[n] \in Seq(Asked(n)')
    <3> SUFFICES ASSUME NEW n \in Nodes PROVE pending_reply[n] \in Seq(Asked(n)')
      OBVIOUS
    <3>1. \A i \in 1 .. Len(pending_reply[n]) : pending_reply[n][i] \in Asked(n)'
      BY <1>1, NotInFlight, MessageStays, ElementOfSeq DEF ShapeInv, ReplyShape
    <3> QED
      BY <3>1 DEF ShapeInv, ReplyShape
  <2> QED
    BY <1>1, <2>1 DEF ShapeInv, ReplyShape
<1>6. ReceivedShape'
  BY <1>1, NotInFlight, MessageStays DEF ShapeInv, ReceivedShape
<1>7. NetShape'
  <2>1. \A m, n \in Nodes : net[m][n] \in Seq(Between(m, n)')
    <3> SUFFICES ASSUME NEW m \in Nodes, NEW n \in Nodes PROVE net[m][n] \in Seq(Between(m, n)')
      OBVIOUS
    <3>1. \A i \in 1 .. Len(net[m][n]) : net[m][n][i] \in Between(m, n)'
      <4> SUFFICES ASSUME NEW i \in 1 .. Len(net[m][n]) PROVE net[m][n][i] \in Between(m, n)'
        OBVIOUS
      <4>1. net[m][n][i] \in Between(m, n)
        BY ElementOfSeq DEF ShapeInv, NetShape
      <4>2. net[m][n][i].call # k
        BY <1>1, NotInFlight
      <4> QED
        BY <1>1, <4>1, <4>2, MessageStays
    <3>2. net[m][n] \in Seq(OperationType)
      BY DEF ShapeInv, NetShape
    <3> QED
      BY <3>1, <3>2, QueueOf
  <2> QED
    BY <1>1, <2>1 DEF ShapeInv, NetShape
<1> QED
  BY <1>2, <1>3, <1>4, <1>5, <1>6, <1>7 DEF ShapeInv

\* PushOperation registers and queues the request of a call.
LEMMA ShapePush ==
  ASSUME ShapeInv, NEW k \in Calls, PushOperation(k)
  PROVE  ShapeInv'
<1>1. CallFrom[k] \in Nodes /\ CallOperation(k) \in Own(CallFrom[k])
  BY CallsAssumption, OwnOperations
<1>2. CASE PushOperationInsert(k)
  <2>1. /\ Insert(CallFrom[k], CallOperation(k))
        /\ UNCHANGED <<call_id, call_reply, request_id_counter, pending_send, pending_reply,
                       received, received_id_counter, net>>
        /\ call_pc' = [call_pc EXCEPT ![k] = "push"]
    BY <1>2 DEF PushOperationInsert, recvVars
  <2>2. CallShape'
    BY <2>1 DEF CallShape, ShapeInv
  <2> QED
    BY <1>1, <2>1, <2>2, ShapeInsert, ShapeFrame DEF ShapeInv
<1>3. CASE PushOperationPush(k)
  <2>1. /\ pending_send' = [pending_send EXCEPT ![CallFrom[k]] = Append(@, CallOperation(k))]
        /\ UNCHANGED <<call_id, call_reply, request_id_counter, operations, pending_reply,
                       received, received_id_counter, net>>
        /\ call_pc' = [call_pc EXCEPT ![k] = "waiting"]
    BY <1>3 DEF PushOperationPush, recvVars, mapVars
  <2>2. CallShape'
    BY <2>1 DEF CallShape, ShapeInv
  <2> QED
    BY <1>1, <2>1, <2>2, ShapeInsert, ShapeFrame DEF ShapeInv
<1> QED
  BY <1>2, <1>3 DEF PushOperation

\* The operation that SpawnRequest makes.
LEMMA ShapeSpawn ==
  ASSUME ShapeInv, NEW n \in Nodes, NEW m \in Peers(n), NEW f \in {"kQuit", "kHeartbeat"},
         SpawnRequest(n, m, f),
         UNCHANGED <<callVars, pending_reply, recvVars, net>>
  PROVE  ShapeInv'
<1> DEFINE op == Operation(n, m, request_id_counter[n], f, None)
<1>1. op \in Own(n) /\ request_id_counter[n] \in Nat
  BY OwnOperations DEF ShapeInv, CallShape
<1>2. /\ Insert(n, op) /\ pending_send' = [pending_send EXCEPT ![n] = Append(@, op)]
      /\ request_id_counter' = [request_id_counter EXCEPT ![n] = @ + 1]
      /\ UNCHANGED <<call_pc, call_id, call_reply, pending_reply, received,
                     received_id_counter, net>>
  BY DEF SpawnRequest, NextRequestId, callVars, recvVars
<1> HIDE DEF op
<1>3. CallShape'
  BY <1>1, <1>2 DEF CallShape, ShapeInv
<1> QED
  BY <1>1, <1>2, <1>3, ShapeInsert, ShapeFrame DEF ShapeInv

\* The send thread moves a message from a queue to the wire.
LEMMA ShapeSend ==
  ASSUME ShapeInv, NEW n \in Nodes, SendOne(n) \/ SendReply(n)
  PROVE  ShapeInv'
<1>1. CASE SendOne(n)
  <2> DEFINE op == Head(pending_send[n])
  <2>1. /\ pending_send[n] # << >> /\ pending_send' = [pending_send EXCEPT ![n] = Tail(@)]
        /\ net' = [net EXCEPT ![n][op.to] = Append(@, op)]
        /\ UNCHANGED <<call_pc, call_id, call_reply, request_id_counter, operations,
                       pending_reply, received, received_id_counter>>
    BY <1>1 DEF SendOne, callVars, recvVars, mapVars
  <2>2. SendShape' /\ op \in Own(n)
    BY <2>1, ShapePop
  <2>3. op.to \in Nodes /\ op \in Between(n, op.to)
    BY <2>2, MessageEnds DEF Own, Between
  <2> HIDE DEF op
  <2>4. NetShape'
    BY <2>1, <2>3, ShapeWire
  <2>5. CallShape'
    BY <2>1 DEF CallShape, ShapeInv
  <2> QED
    BY <2>1, <2>2, <2>4, <2>5, ShapeFrame DEF ShapeInv
<1>2. CASE SendReply(n)
  <2> DEFINE op == Head(pending_reply[n])
  <2>1. /\ pending_reply[n] # << >> /\ pending_reply' = [pending_reply EXCEPT ![n] = Tail(@)]
        /\ net' = [net EXCEPT ![n][op.from] = Append(@, op)]
        /\ UNCHANGED <<call_pc, call_id, call_reply, request_id_counter, operations,
                       pending_send, received, received_id_counter>>
    BY <1>2 DEF SendReply, callVars, recvVars, mapVars
  <2>2. ReplyShape' /\ op \in Asked(n)
    BY <2>1, ShapePop
  <2>3. op.from \in Nodes /\ op \in Between(n, op.from)
    BY <2>2, MessageEnds DEF Asked, Between
  <2> HIDE DEF op
  <2>4. NetShape'
    BY <2>1, <2>3, ShapeWire
  <2>5. CallShape'
    BY <2>1 DEF CallShape, ShapeInv
  <2> QED
    BY <2>1, <2>2, <2>4, <2>5, ShapeFrame DEF ShapeInv
<1> QED
  BY <1>1, <1>2

\* The receive thread takes a message off the wire: what it is and where it came
\* from.
LEMMA ReceivedIs ==
  ASSUME ShapeInv, NEW n \in Nodes, NEW m \in Peers(n), HandleReceivedMessage(n, m)
  PROVE  LET message == Head(net[m][n]) IN
         /\ net[m][n] # << >> /\ net' = [net EXCEPT ![m][n] = Tail(@)]
         /\ call_id' = call_id /\ m \in Nodes /\ m # n
         /\ NetShape' /\ message \in Between(m, n) /\ message \in Message
         /\ message.flag # "kNormal" => message.from = m /\ message.to = n
         /\ message.flag = "kNormal" /\ message.from # n => message \in Asked(n)
         /\ message.flag = "kNormal" /\ message.from = n => message.to = m
<1> DEFINE message == Head(net[m][n])
<1>1. /\ net[m][n] # << >> /\ net' = [net EXCEPT ![m][n] = Tail(@)]
      /\ call_id' = call_id /\ m \in Nodes /\ m # n
  BY DEF HandleReceivedMessage, Receive, HandleQuit, HandleResponse, HandleRequest, callVars,
         Peers
<1>2. NetShape' /\ message \in Between(m, n)
  BY <1>1, ShapePop
<1> HIDE DEF message
<1>3. /\ message.flag # "kNormal" => message.from = m /\ message.to = n
      /\ message.flag = "kNormal" /\ message.from # n => message \in Asked(n)
      /\ message.flag = "kNormal" /\ message.from = n => message.to = m
      /\ message \in Message
  BY <1>1, <1>2 DEF Between, Asked
<1> QED
  BY <1>1, <1>2, <1>3 DEF message

\* A received message is dropped, completes a call, or becomes a request of the
\* processor actor.
LEMMA ShapeReceive ==
  ASSUME ShapeInv, NEW n \in Nodes, NEW m \in Peers(n), HandleReceivedMessage(n, m)
  PROVE  ShapeInv'
<1> DEFINE message == Head(net[m][n])
<1>1. /\ call_id' = call_id /\ NetShape' /\ message \in Message
      /\ message.flag = "kNormal" /\ message.from # n => message \in Asked(n)
  BY ReceivedIs
<1>2. UNCHANGED <<request_id_counter, pending_send, pending_reply>>
  BY DEF HandleReceivedMessage
<1>3. SendShape' /\ ReplyShape'
  BY <1>1, <1>2, ShapeFrame DEF ShapeInv
<1>4. message \in OperationType /\ (message.flag = "kNormal" => message.call \in Calls)
  BY <1>1, MessageEnds
<1> HIDE DEF message
<1>5. CASE HandleQuit(n) \/ UNCHANGED <<callVars, operations, recvVars, stopVars, failed>>
  <2>1. UNCHANGED <<call_pc, call_id, call_reply, operations, received, received_id_counter>>
    BY <1>5 DEF HandleQuit, callVars, recvVars
  <2>2. CallShape'
    BY <1>2, <2>1 DEF CallShape, ShapeInv
  <2> QED
    BY <1>1, <1>3, <2>1, <2>2, ShapeFrame DEF ShapeInv
<1>6. CASE HandleResponse(n, message) /\ message.flag = "kNormal"
  <2>1. UNCHANGED <<received, received_id_counter>>
    BY <1>6 DEF HandleResponse, recvVars
  <2>2. OperationsShape'
    BY <1>1, <1>6, MessagesFixed DEF HandleResponse, Erase, ShapeInv, OperationsShape
  <2>3. CallShape'
    BY <1>1, <1>2, <1>4, <1>6 DEF HandleResponse, ShapeInv, CallShape
  <2> QED
    BY <1>1, <1>3, <2>1, <2>2, <2>3, ShapeFrame DEF ShapeInv
<1>7. CASE HandleRequest(n, message) /\ message.flag = "kNormal" /\ message.from # n
  <2>1. /\ UNCHANGED <<call_pc, call_id, call_reply, operations>>
        /\ received' = [received EXCEPT ![n] =
                          @ \cup {[rid |-> received_id_counter[n], identifier |-> message]}]
        /\ received_id_counter' = [received_id_counter EXCEPT ![n] = @ + 1]
    BY <1>7 DEF HandleRequest, callVars
  <2>2. ReceivedShape'
    BY <1>1, <1>4, <1>7, <2>1, MessagesFixed DEF ShapeInv, ReceivedShape
  <2>3. CallShape'
    BY <1>2, <2>1 DEF CallShape, ShapeInv
  <2> QED
    BY <1>1, <1>3, <2>1, <2>2, <2>3, ShapeFrame DEF ShapeInv
<1> QED
  BY <1>5, <1>6, <1>7 DEF HandleReceivedMessage, message

\* The processor actor's reply is queued.
LEMMA ShapeReplyRequest ==
  ASSUME ShapeInv, NEW n \in Nodes, ReplyRequest(n)
  PROVE  ShapeInv'
<1>1. /\ UNCHANGED <<call_pc, call_id, call_reply, request_id_counter, operations,
                     pending_send, received_id_counter, net>>
      /\ \E r \in received[n] :
           /\ received' = [received EXCEPT ![n] = @ \ {r}]
           /\ pending_reply' = [pending_reply EXCEPT ![n] = Append(@, r.identifier)]
  BY DEF ReplyRequest, callVars, mapVars
<1>2. PICK r \in received[n] :
           /\ received' = [received EXCEPT ![n] = @ \ {r}]
           /\ pending_reply' = [pending_reply EXCEPT ![n] = Append(@, r.identifier)]
  BY <1>1
<1>3. r.identifier \in Asked(n) /\ r.identifier \in OperationType
  BY KindsAreOperations DEF ShapeInv, ReceivedShape
<1>4. ReplyShape'
  <2>1. /\ Append(pending_reply[n], r.identifier) \in Seq(Asked(n))
        /\ Append(pending_reply[n], r.identifier) \in Seq(OperationType)
    BY <1>3, QueueKept DEF ShapeInv, ReplyShape
  <2> QED
    BY <1>1, <1>2, <2>1, MessagesFixed DEF ShapeInv, ReplyShape
<1>5. ReceivedShape'
  BY <1>1, <1>2, MessagesFixed DEF ShapeInv, ReceivedShape
<1>6. CallShape'
  BY <1>1 DEF CallShape, ShapeInv
<1> QED
  BY <1>1, <1>4, <1>5, <1>6, ShapeFrame DEF ShapeInv

\* Close drops the ends of some channels.
LEMMA ShapeClose ==
  ASSUME ShapeInv, NEW n \in Nodes, Close(n)
  PROVE  /\ ShapeInv'
         /\ \A a, b \in Nodes : \A C : NetCount(a, b, C)' \in Nat /\ NetCount(a, b, C)' <= NetCount(a, b, C)
<1>1. UNCHANGED <<call_pc, call_id, call_reply, request_id_counter, operations,
                  pending_send, pending_reply, received, received_id_counter>>
  BY DEF Close, callVars, mapVars, recvVars
<1>2. CallShape'
  BY <1>1 DEF CallShape, ShapeInv
<1>3. CASE UNCHANGED net
  <2>1. \A a, b \in Nodes : \A C : NetCount(a, b, C)' = NetCount(a, b, C)
    BY <1>3 DEF NetCount
  <2>2. \A a, b \in Nodes : \A C : NetCount(a, b, C) \in Nat
    BY CountsType
  <2> QED
    BY <1>1, <1>2, <1>3, <2>1, <2>2, ShapeFrame DEF ShapeInv
<1>4. ASSUME NEW keep \in [Nodes -> UNION {0 .. Len(net[n][m]) : m \in Nodes}],
             \A m \in Nodes : keep[m] <= Len(net[n][m]),
             net' = [net EXCEPT ![n] = [m \in Nodes |-> SubSeq(@[m], 1, keep[m])]]
      PROVE  /\ NetShape'
             /\ \A a, b \in Nodes : \A C : NetCount(a, b, C)' \in Nat /\ NetCount(a, b, C)' <= NetCount(a, b, C)
  <2>1. ASSUME NEW m \in Nodes
        PROVE  net[n][m] \in Seq(Between(n, m)) /\ keep[m] \in 0 .. Len(net[n][m])
    <3>1. net[n][m] \in Seq(Between(n, m)) /\ Len(net[n][m]) \in Nat
      BY LenProperties DEF ShapeInv, NetShape
    <3>2. keep[m] \in Nat
      <4>1. PICK x \in Nodes : keep[m] \in 0 .. Len(net[n][x])
        BY <1>4
      <4>2. Len(net[n][x]) \in Nat
        BY LenProperties DEF ShapeInv, NetShape
      <4> QED
        BY <4>1, <4>2
    <3>3. keep[m] <= Len(net[n][m])
      BY <1>4
    <3> QED
      BY <3>1, <3>2, <3>3
  <2>2. \A a, b \in Nodes : net'[a][b] = IF a = n THEN SubSeq(net[n][b], 1, keep[b]) ELSE net[a][b]
    BY <1>4 DEF ShapeInv, NetShape
  <2>3. ASSUME NEW a \in Nodes, NEW b \in Nodes, NEW C
        PROVE  /\ net'[a][b] \in Seq(Between(a, b))
               /\ NetCount(a, b, C)' \in Nat /\ NetCount(a, b, C)' <= NetCount(a, b, C)
    <3>1. CASE a = n
      <4>1. net[n][b] \in Seq(Between(n, b)) /\ keep[b] \in 0 .. Len(net[n][b])
        BY <2>1
      <4>2. net'[a][b] = SubSeq(net[n][b], 1, keep[b])
        BY <2>2, <3>1
      <4>3. /\ SubSeq(net[n][b], 1, keep[b]) \in Seq(Between(n, b))
            /\ Count(SubSeq(net[n][b], 1, keep[b]), C) <= Count(net[n][b], C)
            /\ Count(SubSeq(net[n][b], 1, keep[b]), C) \in Nat
        BY ONLY <4>1, CountPrefix
      <4> QED
        BY <3>1, <4>2, <4>3 DEF NetCount
    <3>2. CASE a # n
      <4>1. net'[a][b] = net[a][b] /\ net[a][b] \in Seq(Between(a, b))
        BY <2>2, <3>2 DEF ShapeInv, NetShape
      <4>2. NetCount(a, b, C) \in Nat
        BY CountsType
      <4> QED
        BY <4>1, <4>2 DEF NetCount
    <3> QED
      BY <3>1, <3>2
  <2>4. net' \in [Nodes -> [Nodes -> Seq(OperationType)]]
    <3>1. \A b \in Nodes : SubSeq(net[n][b], 1, keep[b]) \in Seq(OperationType)
      <4> SUFFICES ASSUME NEW b \in Nodes PROVE SubSeq(net[n][b], 1, keep[b]) \in Seq(OperationType)
        OBVIOUS
      <4>1. net[n][b] \in Seq(OperationType) /\ keep[b] \in 0 .. Len(net[n][b])
        BY <2>1 DEF ShapeInv, NetShape
      <4> QED
        BY <4>1, CountPrefix
    <3> QED
      BY <1>4, <3>1 DEF ShapeInv, NetShape
  <2> QED
    BY <1>1, <2>3, <2>4, MessagesFixed DEF NetShape
<1>5. ASSUME NetShape' PROVE ShapeInv'
  BY <1>1, <1>2, <1>5, ShapeFrame DEF ShapeInv
<1> QED
  BY <1>3, <1>4, <1>5 DEF Close

-----------------------------------------------------------------------------
(* The control state, and the steps that touch messages.                   *)

\* Every step keeps the threads' control state.
LEMMA ControlNext == ShapeInv /\ ControlInv /\ [Next]_vars => ControlInv'
<1> SUFFICES ASSUME ShapeInv, ControlInv, [Next]_vars PROVE ControlInv'
  OBVIOUS
<1>1. ASSUME NEW k \in Calls, SendRequest(k) \/ PushOperation(k) PROVE ControlInv'
  BY <1>1 DEF SendRequest, PushOperation, PushOperationInsert, PushOperationPush, ControlInv,
              sendVars, mainVars, stopVars
<1>2. ASSUME NEW n \in Nodes, SendProcessLoop(n) PROVE ControlInv'
  <2>1. CASE SendTop(n) \/ SendsEmpty(n) \/ RepliesEmpty(n)
    <3>1. PICK label \in {"exited", "sends", "replies", "heartbeat"} : SendMove(n, send_pc[n], label)
      BY <2>1 DEF SendTop, SendsEmpty, RepliesEmpty, SendMove
    <3> QED
      BY <3>1 DEF SendMove, SendGoto, mainVars, stopVars, ControlInv
  <2>2. CASE SendOne(n)
    <3>1. Head(pending_send[n]) \in OperationType
      BY <2>2, QueueKept DEF SendOne, ShapeInv, SendShape
    <3> QED
      BY <2>2, <3>1 DEF SendOne, SendGoto, mainVars, stopVars, ControlInv
  <2>3. CASE SendFlag(n)
    BY <2>3 DEF SendFlag, SendGoto, mainVars, ControlInv
  <2>4. CASE SendReply(n)
    BY <2>4 DEF SendReply, sendVars, mainVars, stopVars, ControlInv
  <2>5. CASE HeartbeatTest(n)
    BY <2>5 DEF HeartbeatTest, SendGoto, Peers, mainVars, stopVars, ControlInv
  <2>6. CASE HeartbeatSpawn(n)
    <3>1. UNCHANGED <<send_op, recv_pc, main_pc, quit_peers, quit_latch, stopped, stop_requested,
                      heartbeats>>
      BY <2>6 DEF HeartbeatSpawn, mainVars
    <3>2. ASSUME NEW m \in send_peers[n], SpawnRequest(n, m, "kHeartbeat"),
                 send_peers' = [send_peers EXCEPT ![n] = @ \ {m}], UNCHANGED send_pc
          PROVE  ControlInv'
      <4>1. async_scope' = [async_scope EXCEPT ![n] = @ + 1]
        BY <3>2 DEF SpawnRequest
      <4> QED
        BY <3>1, <3>2, <4>1 DEF ControlInv
    <3>3. ASSUME SendGoto(n, "top"), UNCHANGED <<send_peers, async_scope>> PROVE ControlInv'
      BY <3>1, <3>3 DEF SendGoto, ControlInv
    <3> QED
      BY <2>6, <3>2, <3>3 DEF HeartbeatSpawn
  <2> QED
    BY <1>2, <2>1, <2>2, <2>3, <2>4, <2>5, <2>6 DEF SendProcessLoop
<1>3. ASSUME NEW n \in Nodes, NEW m \in Peers(n), HandleReceivedMessage(n, m)
      PROVE  ControlInv'
  BY <1>3 DEF HandleReceivedMessage, HandleQuit, HandleResponse, HandleRequest, sendVars,
              mainVars, stopVars, ControlInv
<1>4. ASSUME NEW n \in Nodes, ReceiveExit(n) \/ ReplyRequest(n) PROVE ControlInv'
  BY <1>4 DEF ReceiveExit, ReplyRequest, sendVars, mainVars, stopVars, ControlInv
<1>5. ASSUME NEW n \in Nodes, StopBegin(n) PROVE ControlInv'
  BY <1>5 DEF StopBegin, MainStep, MainGoto, Peers, sendVars, ControlInv
<1>6. ASSUME NEW n \in Nodes, ClusterAlignedStop(n) PROVE ControlInv'
  <2>1. CASE StopQuit(n)
    <3>1. UNCHANGED <<send_pc, send_op, send_peers, recv_pc, quit_latch, stopped, stop_requested,
                      heartbeats>>
      BY <2>1 DEF StopQuit, sendVars
    <3>2. ASSUME NEW m \in quit_peers[n], SpawnRequest(n, m, "kQuit"),
                 quit_peers' = [quit_peers EXCEPT ![n] = @ \ {m}], UNCHANGED main_pc
          PROVE  ControlInv'
      <4>1. async_scope' = [async_scope EXCEPT ![n] = @ + 1]
        BY <3>2 DEF SpawnRequest
      <4> QED
        BY <3>1, <3>2, <4>1 DEF ControlInv
    <3>3. ASSUME MainGoto(n, "count"), UNCHANGED <<quit_peers, async_scope>> PROVE ControlInv'
      BY <3>1, <3>3 DEF MainGoto, ControlInv
    <3> QED
      BY <2>1, <3>2, <3>3 DEF StopQuit
  <2>2. CASE StopCountDown(n)
    BY <2>2 DEF StopCountDown, MainStep, MainGoto, sendVars, ControlInv
  <2>3. CASE StopLatch(n)
    BY <2>3 DEF StopLatch, MainStep, MainGoto, sendVars, ControlInv
  <2>4. CASE StopEmpty(n)
    BY <2>4 DEF StopEmpty, MainStep, MainGoto, sendVars, ControlInv
  <2>5. CASE StopJoin(n)
    BY <2>5 DEF StopJoin, MainStep, MainGoto, sendVars, ControlInv
  <2>6. CASE Close(n)
    BY <2>6 DEF Close, MainGoto, sendVars, stopVars, ControlInv
  <2> QED
    BY <1>6, <2>1, <2>2, <2>3, <2>4, <2>5, <2>6 DEF ClusterAlignedStop
<1>7. CASE UNCHANGED vars
  BY <1>7 DEF vars, sendVars, mainVars, stopVars, ControlInv
<1> QED
  BY <1>1, <1>2, <1>3, <1>4, <1>5, <1>6, <1>7 DEF Next

\* SpawnRequest with what the two actions around it leave alone.
Spawns(n, m, f) ==
  SpawnRequest(n, m, f) /\ UNCHANGED <<callVars, pending_reply, recvVars, net, failed>>

\* A step that touches no message, call or operation.
Quiet ==
  UNCHANGED <<callVars, mapVars, pending_send, pending_reply, recvVars, net, failed>>

\* The steps as far as messages are concerned.
LEMMA MessageSteps ==
  ASSUME ControlInv, [Next]_vars
  PROVE  \/ \E k \in Calls : SendRequest(k) \/ PushOperation(k)
         \/ \E n \in Nodes : SendOne(n) \/ SendReply(n) \/ ReplyRequest(n) \/ Close(n)
         \/ \E n \in Nodes : \E m \in Peers(n) : \E f \in {"kQuit", "kHeartbeat"} : Spawns(n, m, f)
         \/ \E n \in Nodes : \E m \in Peers(n) : HandleReceivedMessage(n, m)
         \/ Quiet
<1>1. ASSUME NEW n \in Nodes, HeartbeatSpawn(n)
      PROVE  Quiet \/ \E m \in Peers(n) : Spawns(n, m, "kHeartbeat")
  BY <1>1 DEF HeartbeatSpawn, Quiet, Spawns, ControlInv
<1>2. ASSUME NEW n \in Nodes, StopQuit(n)
      PROVE  Quiet \/ \E m \in Peers(n) : Spawns(n, m, "kQuit")
  BY <1>2 DEF StopQuit, Quiet, Spawns, ControlInv
<1>3. ASSUME NEW n \in Nodes,
             \/ SendTop(n) \/ SendFlag(n) \/ SendsEmpty(n) \/ RepliesEmpty(n) \/ HeartbeatTest(n)
             \/ ReceiveExit(n) \/ StopBegin(n) \/ StopCountDown(n) \/ StopLatch(n)
             \/ StopEmpty(n) \/ StopJoin(n)
      PROVE  Quiet
  BY <1>3 DEF SendTop, SendFlag, SendsEmpty, RepliesEmpty, SendMove, HeartbeatTest, ReceiveExit,
              StopBegin, StopCountDown, StopLatch, StopEmpty, StopJoin, MainStep, Quiet
<1>4. CASE UNCHANGED vars
  BY <1>4 DEF vars, Quiet
<1>5. CASE Next
  <2>1. CASE \E k \in Calls : SendRequest(k) \/ PushOperation(k)
    BY <2>1
  <2>2. CASE \E n \in Nodes : SendProcessLoop(n)
    BY <2>2, <1>1, <1>3 DEF SendProcessLoop
  <2>3. CASE \E n \in Nodes : \E m \in Peers(n) : HandleReceivedMessage(n, m)
    BY <2>3
  <2>4. CASE \E n \in Nodes : ReceiveExit(n) \/ ReplyRequest(n) \/ StopBegin(n)
    BY <2>4, <1>3
  <2>5. CASE \E n \in Nodes : ClusterAlignedStop(n)
    BY <2>5, <1>2, <1>3 DEF ClusterAlignedStop
  <2> QED
    BY <1>5, <2>1, <2>2, <2>3, <2>4, <2>5 DEF Next
<1> QED
  BY <1>4, <1>5

\* Every step keeps every message in its place.
LEMMA ShapeNext ==
  ShapeInv /\ ControlInv /\ FlightInv /\ IdsInv /\ [Next]_vars => ShapeInv'
<1> SUFFICES ASSUME ShapeInv, ControlInv, FlightInv, IdsInv, [Next]_vars PROVE ShapeInv'
  OBVIOUS
<1>1. CASE \E k \in Calls : SendRequest(k) \/ PushOperation(k)
  BY <1>1, ShapeSendRequest, ShapePush
<1>2. CASE \E n \in Nodes : SendOne(n) \/ SendReply(n) \/ ReplyRequest(n) \/ Close(n)
  BY <1>2, ShapeSend, ShapeReplyRequest, ShapeClose
<1>3. CASE \E n \in Nodes : \E m \in Peers(n) : \E f \in {"kQuit", "kHeartbeat"} : Spawns(n, m, f)
  BY <1>3, ShapeSpawn DEF Spawns
<1>4. CASE \E n \in Nodes : \E m \in Peers(n) : HandleReceivedMessage(n, m)
  BY <1>4, ShapeReceive
<1>5. CASE Quiet
  <2>1. /\ UNCHANGED <<call_pc, call_id, call_reply, request_id_counter, operations,
                       pending_send, pending_reply, received, received_id_counter, net>>
    BY <1>5 DEF Quiet, callVars, mapVars, recvVars
  <2>2. CallShape'
    BY <2>1 DEF ShapeInv, CallShape
  <2> QED
    BY <2>1, <2>2, ShapeFrame DEF ShapeInv
<1> QED
  BY <1>1, <1>2, <1>3, <1>4, <1>5, MessageSteps

-----------------------------------------------------------------------------
(* Ids and the map of operations.                                          *)

\* The operation of a call is made of its ids.
LEMMA CallOperationIs ==
  ASSUME NEW k
  PROVE  /\ CallOperation(k).from = CallFrom[k] /\ CallOperation(k).to = CallTo[k]
         /\ CallOperation(k).id = call_id[k] /\ CallOperation(k).flag = "kNormal"
         /\ CallOperation(k).call = k
BY DEF CallOperation, Operation

\* The id of a new call has not been drawn before.
LEMMA IdsSendRequest ==
  ASSUME ShapeInv, IdsInv, NEW k \in Calls, SendRequest(k)
  PROVE  IdsInv'
<1> DEFINE n == CallFrom[k]
<1>1. /\ n \in Nodes /\ request_id_counter[n] \in Nat
      /\ call_pc[k] = "idle" /\ operations' = operations
      /\ \A x \in Nodes : request_id_counter[x] \in Nat
           /\ request_id_counter'[x] = IF x = n THEN request_id_counter[n] + 1
                                       ELSE request_id_counter[x]
      /\ \A j \in Calls : call_pc'[j] = IF j = k THEN "insert" ELSE call_pc[j]
      /\ \A j \in Calls : call_id[j] \in Nat
           /\ call_id'[j] = IF j = k THEN request_id_counter[n] ELSE call_id[j]
  BY CallsAssumption DEF SendRequest, NextRequestId, ShapeInv, CallShape
<1>2. \A x \in Nodes : \A op \in operations[x] :
        op.id \in Nat /\ (op.flag = "kNormal" => op.call \in Calls)
  BY MessageEnds DEF ShapeInv, OperationsShape, Own
<1> HIDE DEF n
<1>3. \A x \in Nodes : \A op \in operations'[x] :
        /\ op.id < request_id_counter'[x]
        /\ op.flag = "kNormal" => call_pc'[op.call] \in {"push", "waiting"}
        /\ \A o \in operations'[x] : o.id = op.id => o = op
  BY <1>1, <1>2 DEF IdsInv
<1>4. \A j \in Calls : call_pc'[j] \in {"push", "waiting"} =>
        CallOperation(j)' \in operations'[CallFrom[j]]
  BY <1>1 DEF IdsInv, CallOperation
<1>5. \A j \in Calls : call_pc'[j] = "insert" =>
       /\ call_id'[j] < request_id_counter'[CallFrom[j]]
       /\ \A op \in operations'[CallFrom[j]] : op.id # call_id'[j]
       /\ \A i \in Calls : call_pc'[i] = "insert" /\ CallFrom[i] = CallFrom[j]
            /\ call_id'[i] = call_id'[j] => i = j
  <2>1. \A j \in Calls : CallFrom[j] \in Nodes
    BY CallsAssumption
  <2>2. \A op \in operations[n] : op.id < request_id_counter[n]
    BY <1>1 DEF IdsInv
  <2> QED
    BY <1>1, <1>2, <2>1, <2>2 DEF IdsInv, n
<1> QED
  BY <1>3, <1>4, <1>5 DEF IdsInv

\* The call registers its operation under an id that no other operation has.
LEMMA IdsPush ==
  ASSUME ShapeInv, IdsInv, NEW k \in Calls, PushOperation(k)
  PROVE  IdsInv'
<1> DEFINE n == CallFrom[k]
<1>1. /\ n \in Nodes /\ call_id' = call_id /\ request_id_counter' = request_id_counter
      /\ \A j : CallOperation(j)' = CallOperation(j)
  BY CallsAssumption DEF PushOperation, PushOperationInsert, PushOperationPush, mapVars,
     CallOperation
<1>2. \A x \in Nodes : \A op \in operations[x] : op.flag = "kNormal" => op.call \in Calls
  BY MessageEnds DEF ShapeInv, OperationsShape, Own
<1>3. CASE PushOperationInsert(k)
  <2>1. call_pc[k] = "insert" /\ \A j \in Calls : call_pc'[j] = IF j = k THEN "push" ELSE call_pc[j]
    BY <1>3 DEF PushOperationInsert, ShapeInv, CallShape
  <2>2. \A x \in Nodes : operations'[x] =
          IF x = n THEN operations[n] \cup {CallOperation(k)} ELSE operations[x]
    BY <1>1, <1>3, <2>1, CallOperationIs
    DEF PushOperationInsert, Insert, IdsInv, ShapeInv, OperationsShape
  <2>3. /\ call_id[k] < request_id_counter[n]
        /\ \A op \in operations[n] : op.id # call_id[k]
    BY <2>1 DEF IdsInv
  <2> HIDE DEF n
  <2>4. \A x \in Nodes : \A op \in operations'[x] :
          /\ op.id < request_id_counter'[x]
          /\ op.flag = "kNormal" => call_pc'[op.call] \in {"push", "waiting"}
          /\ \A o \in operations'[x] : o.id = op.id => o = op
    BY <1>1, <1>2, <2>1, <2>2, <2>3, CallOperationIs DEF IdsInv
  <2>5. \A j \in Calls : call_pc'[j] \in {"push", "waiting"} =>
          CallOperation(j)' \in operations'[CallFrom[j]]
    BY <1>1, <2>1, <2>2, CallsAssumption DEF IdsInv, n
  <2>6. \A j \in Calls : call_pc'[j] = "insert" =>
         /\ call_id'[j] < request_id_counter'[CallFrom[j]]
         /\ \A op \in operations'[CallFrom[j]] : op.id # call_id'[j]
         /\ \A i \in Calls : call_pc'[i] = "insert" /\ CallFrom[i] = CallFrom[j]
              /\ call_id'[i] = call_id'[j] => i = j
    BY <1>1, <2>1, <2>2, CallOperationIs, CallsAssumption DEF IdsInv, n
  <2> QED
    BY <2>4, <2>5, <2>6 DEF IdsInv
<1>4. CASE PushOperationPush(k)
  <2>1. /\ call_pc[k] = "push" /\ operations' = operations
        /\ \A j \in Calls : call_pc'[j] = IF j = k THEN "waiting" ELSE call_pc[j]
    BY <1>4 DEF PushOperationPush, ShapeInv, CallShape, mapVars
  <2> QED
    BY <1>1, <1>2, <2>1 DEF IdsInv
<1> QED
  BY <1>3, <1>4 DEF PushOperation

\* A quit or heartbeat operation has an id of its own.
LEMMA IdsSpawn ==
  ASSUME ShapeInv, IdsInv, NEW n \in Nodes, NEW m \in Peers(n), NEW f \in {"kQuit", "kHeartbeat"},
         Spawns(n, m, f)
  PROVE  IdsInv'
<1> DEFINE op == Operation(n, m, request_id_counter[n], f, None)
<1>1. /\ call_id' = call_id /\ call_pc' = call_pc
      /\ \A x \in Nodes : request_id_counter[x] \in Nat /\ request_id_counter'[x] =
           IF x = n THEN request_id_counter[n] + 1 ELSE request_id_counter[x]
      /\ \A j : CallOperation(j)' = CallOperation(j)
  BY DEF Spawns, SpawnRequest, NextRequestId, callVars, CallOperation, ShapeInv, CallShape
<1>2. op.id = request_id_counter[n] /\ op.flag # "kNormal"
  BY DEF Operation
<1>3. \A x \in Nodes : \A o \in operations[x] : o.id \in Nat
  BY MessageEnds DEF ShapeInv, OperationsShape, Own
<1>4. Insert(n, op)
  BY DEF Spawns, SpawnRequest
<1> HIDE DEF op
<1>5. \A x \in Nodes : operations'[x] =
        IF x = n THEN operations[n] \cup {op} ELSE operations[x]
  BY <1>1, <1>2, <1>3, <1>4 DEF Insert, IdsInv, ShapeInv, OperationsShape
<1>6. \A x \in Nodes : \A o \in operations'[x] :
        /\ o.id < request_id_counter'[x]
        /\ o.flag = "kNormal" => call_pc'[o.call] \in {"push", "waiting"}
        /\ \A p \in operations'[x] : p.id = o.id => p = o
  BY <1>1, <1>2, <1>3, <1>5 DEF IdsInv
<1>7. \A j \in Calls : call_pc'[j] \in {"push", "waiting"} =>
        CallOperation(j)' \in operations'[CallFrom[j]]
  BY <1>1, <1>5, CallsAssumption DEF IdsInv
<1>8. \A j \in Calls : call_pc'[j] = "insert" =>
       /\ call_id'[j] < request_id_counter'[CallFrom[j]]
       /\ \A o \in operations'[CallFrom[j]] : o.id # call_id'[j]
       /\ \A i \in Calls : call_pc'[i] = "insert" /\ CallFrom[i] = CallFrom[j]
            /\ call_id'[i] = call_id'[j] => i = j
  <2>1. \A j \in Calls : CallFrom[j] \in Nodes /\ call_id[j] \in Nat
    BY CallsAssumption DEF ShapeInv, CallShape
  <2> QED
    BY <1>1, <1>2, <1>5, <2>1 DEF IdsInv
<1> QED
  BY <1>6, <1>7, <1>8 DEF IdsInv

\* A response belongs to a call that waits for it, and At(id) finds exactly that
\* call's operation.
LEMMA ResponseOperation ==
  ASSUME ShapeInv, IdsInv, FlightInv, NEW n \in Nodes, NEW m \in Peers(n),
         HandleReceivedMessage(n, m),
         Head(net[m][n]).flag = "kNormal", Head(net[m][n]).from = n
  PROVE  LET k == Head(net[m][n]).call IN
         /\ k \in Calls /\ CallFrom[k] = n /\ CallTo[k] = m /\ call_pc[k] = "waiting"
         /\ Head(net[m][n]) \in OfCall(k)
         /\ At(n, Head(net[m][n]).id) = {CallOperation(k)}
<1> DEFINE message == Head(net[m][n])
           k == message.call
<1>1. message \in Message /\ message.to = m /\ m \in Nodes /\ net[m][n] # << >>
  BY ReceivedIs
<1>2. /\ k \in Calls /\ CallFrom[k] = n /\ CallTo[k] = m /\ message = CallOperation(k)
      /\ message \in OfCall(k)
  BY <1>1, MessageEnds, MessageOfCall
<1>3. NetCount(m, n, OfCall(k)) > 0
  <2>1. net[m][n] \in Seq(OperationType) /\ 1 \in 1 .. Len(net[m][n]) /\ message = net[m][n][1]
    <3>1. net[m][n] \in Seq(OperationType)
      BY <1>1 DEF ShapeInv, NetShape
    <3> QED
      BY <1>1, <3>1, HeadTailProperties
  <2> HIDE DEF message, k
  <2> QED
    BY <1>2, <2>1, CountPositive DEF NetCount
<1> HIDE DEF message, k
<1>4. call_pc[k] = "waiting"
  <2>1. Flight(k) \in Nat /\ Flight(k) > 0
    BY <1>2, <1>3, FlightTypes DEF Flight
  <2> QED
    BY <1>2, <2>1 DEF FlightInv
<1>5. At(n, message.id) = {CallOperation(k)}
  BY <1>2, <1>4 DEF At, IdsInv
<1> QED
  BY <1>2, <1>4, <1>5 DEF message, k

\* What handling a response does: the operation is erased and its call completed
\* with its own reply.
LEMMA ResponseEffect ==
  ASSUME ShapeInv, IdsInv, FlightInv, NEW n \in Nodes, NEW m \in Peers(n),
         HandleReceivedMessage(n, m),
         Head(net[m][n]).flag = "kNormal", Head(net[m][n]).from = n
  PROVE  LET k == Head(net[m][n]).call IN
         /\ ~failed => ~failed'
         /\ \A x \in Nodes : operations'[x] = IF x = n THEN operations[n] \ {CallOperation(k)}
                                              ELSE operations[x]
         /\ \A j \in Calls : call_pc'[j] = IF j = k THEN "done" ELSE call_pc[j]
         /\ \A j \in Calls : call_reply'[j] = IF j = k THEN k ELSE call_reply[j]
         /\ UNCHANGED <<call_id, request_id_counter, received, received_id_counter, main_pc>>
<1> DEFINE message == Head(net[m][n])
           k == message.call
<1>1. At(n, message.id) = {CallOperation(k)}
  BY ResponseOperation
<1>2. HandleResponse(n, message) /\ request_id_counter' = request_id_counter /\ main_pc' = main_pc
  BY DEF HandleReceivedMessage, mainVars
<1>3. CallOperation(k).call = k
  BY CallOperationIs
<1>4. /\ failed' = (failed \/ {CallOperation(k)} = {})
      /\ operations' = [operations EXCEPT ![n] = @ \ {CallOperation(k)}]
      /\ UNCHANGED <<call_id, received, received_id_counter>>
  BY <1>1, <1>2 DEF HandleResponse, Erase, recvVars
<1>5. /\ call_pc' = [j \in Calls |-> IF j \in {op.call : op \in {CallOperation(k)}}
                                     THEN "done" ELSE call_pc[j]]
      /\ call_reply' = [j \in Calls |-> IF j \in {op.call : op \in {CallOperation(k)}}
                                        THEN message.call ELSE call_reply[j]]
  BY <1>1, <1>2 DEF HandleResponse
<1> HIDE DEF message
<1>6. \A j \in Calls : j \in {op.call : op \in {CallOperation(k)}} <=> j = k
  BY <1>3
<1>7. /\ \A j \in Calls : call_pc'[j] = IF j = k THEN "done" ELSE call_pc[j]
      /\ \A j \in Calls : call_reply'[j] = IF j = k THEN k ELSE call_reply[j]
  BY <1>5, <1>6
<1>8. ~failed => ~failed'
  BY <1>4
<1>9. \A x \in Nodes : operations'[x] = IF x = n THEN operations[n] \ {CallOperation(k)}
                                         ELSE operations[x]
  BY <1>4 DEF ShapeInv, OperationsShape
<1> QED
  BY <1>2, <1>4, <1>7, <1>8, <1>9 DEF message

\* What the other messages leave alone.
LEMMA OtherEffect ==
  ASSUME NEW n \in Nodes, NEW m \in Peers(n), HandleReceivedMessage(n, m),
         ~ (Head(net[m][n]).flag = "kNormal" /\ Head(net[m][n]).from = n)
  PROVE  UNCHANGED <<call_pc, call_id, call_reply, operations, request_id_counter, failed,
                     main_pc>>
BY DEF HandleReceivedMessage, HandleQuit, HandleRequest, HandleResponse, callVars, stopVars,
       mainVars

\* The steps that only move messages leave calls and operations alone.
LEMMA MovesLeave ==
  ASSUME NEW n \in Nodes, SendOne(n) \/ SendReply(n) \/ ReplyRequest(n) \/ Close(n)
  PROVE  UNCHANGED <<call_pc, call_id, call_reply, operations, request_id_counter, failed>>
<1>1. CASE SendOne(n)
  BY <1>1 DEF SendOne, callVars, mapVars
<1>2. CASE SendReply(n)
  BY <1>2 DEF SendReply, callVars, mapVars
<1>3. CASE ReplyRequest(n)
  BY <1>3 DEF ReplyRequest, callVars, mapVars
<1>4. CASE Close(n)
  BY <1>4 DEF Close, callVars, mapVars
<1> QED
  BY <1>1, <1>2, <1>3, <1>4

\* A step that changes none of the variables of the ids keeps them.
LEMMA IdsFrame ==
  ASSUME IdsInv, UNCHANGED <<call_pc, call_id, operations, request_id_counter>>
  PROVE  IdsInv'
BY DEF IdsInv, CallOperation

\* A response erases the operation of the call it completes and no other.
LEMMA IdsReceive ==
  ASSUME ShapeInv, IdsInv, FlightInv, NEW n \in Nodes, NEW m \in Peers(n),
         HandleReceivedMessage(n, m)
  PROVE  IdsInv'
<1>1. CASE ~ (Head(net[m][n]).flag = "kNormal" /\ Head(net[m][n]).from = n)
  BY <1>1, OtherEffect, IdsFrame
<1>2. CASE Head(net[m][n]).flag = "kNormal" /\ Head(net[m][n]).from = n
  <2> DEFINE k == Head(net[m][n]).call
  <2>1. k \in Calls /\ CallFrom[k] = n /\ call_pc[k] = "waiting"
    BY <1>2, ResponseOperation
  <2>2. /\ \A x \in Nodes : operations'[x] = IF x = n THEN operations[n] \ {CallOperation(k)}
                                             ELSE operations[x]
        /\ \A j \in Calls : call_pc'[j] = IF j = k THEN "done" ELSE call_pc[j]
        /\ UNCHANGED <<call_id, request_id_counter>>
    <3>1. \A x \in Nodes : operations'[x] = IF x = n THEN operations[n] \ {CallOperation(k)}
                                             ELSE operations[x]
      BY <1>2, ResponseEffect
    <3>2. \A j \in Calls : call_pc'[j] = IF j = k THEN "done" ELSE call_pc[j]
      BY <1>2, ResponseEffect
    <3>3. UNCHANGED <<call_id, request_id_counter>>
      BY <1>2, ResponseEffect
    <3> QED
      BY <3>1, <3>2, <3>3
  <2>3. /\ \A x \in Nodes : \A op \in operations[x] : op.flag = "kNormal" =>
             op.call \in Calls /\ op = CallOperation(op.call) /\ op.from = x
        /\ \A j \in Calls : CallFrom[j] \in Nodes
    BY MessageEnds, CallsAssumption DEF ShapeInv, OperationsShape, Own
  <2>4. \A j : CallOperation(j)' = CallOperation(j)
    BY <2>2 DEF CallOperation
  <2>5. \A j \in Calls : CallOperation(j).from = CallFrom[j] /\ CallOperation(j).call = j
    BY CallOperationIs
  <2> HIDE DEF k
  <2>6. \A x \in Nodes : \A op \in operations'[x] :
          /\ op.id < request_id_counter'[x]
          /\ op.flag = "kNormal" => call_pc'[op.call] \in {"push", "waiting"}
          /\ \A o \in operations'[x] : o.id = op.id => o = op
    BY <2>1, <2>2, <2>3, <2>5 DEF IdsInv
  <2>7. \A j \in Calls : call_pc'[j] \in {"push", "waiting"} =>
          CallOperation(j)' \in operations'[CallFrom[j]]
    BY <2>1, <2>2, <2>3, <2>4, <2>5 DEF IdsInv
  <2>8. \A j \in Calls : call_pc'[j] = "insert" =>
         /\ call_id'[j] < request_id_counter'[CallFrom[j]]
         /\ \A o \in operations'[CallFrom[j]] : o.id # call_id'[j]
         /\ \A i \in Calls : call_pc'[i] = "insert" /\ CallFrom[i] = CallFrom[j]
              /\ call_id'[i] = call_id'[j] => i = j
    BY <2>1, <2>2, <2>3 DEF IdsInv
  <2> QED
    BY <2>6, <2>7, <2>8 DEF IdsInv
<1> QED
  BY <1>1, <1>2

\* Every step keeps the ids apart and the waiting calls registered.
LEMMA IdsNext ==
  ShapeInv /\ ControlInv /\ FlightInv /\ IdsInv /\ [Next]_vars => IdsInv'
<1> SUFFICES ASSUME ShapeInv, ControlInv, FlightInv, IdsInv, [Next]_vars PROVE IdsInv'
  OBVIOUS
<1>1. CASE \E k \in Calls : SendRequest(k) \/ PushOperation(k)
  BY <1>1, IdsSendRequest, IdsPush
<1>2. CASE \E n \in Nodes : SendOne(n) \/ SendReply(n) \/ ReplyRequest(n) \/ Close(n)
  BY <1>2, IdsFrame, MovesLeave
<1>3. CASE \E n \in Nodes : \E m \in Peers(n) : \E f \in {"kQuit", "kHeartbeat"} : Spawns(n, m, f)
  BY <1>3, IdsSpawn
<1>4. CASE \E n \in Nodes : \E m \in Peers(n) : HandleReceivedMessage(n, m)
  BY <1>4, IdsReceive
<1>5. CASE Quiet
  BY <1>5, IdsFrame DEF Quiet, callVars, mapVars
<1> QED
  BY <1>1, <1>2, <1>3, <1>4, <1>5, MessageSteps

\* Every step keeps the replies right: a response finds its operation, and the
\* call it completes gets the reply to its own request.
LEMMA RepliesNext ==
  ShapeInv /\ ControlInv /\ FlightInv /\ IdsInv /\ ReplyInv /\ [Next]_vars => ReplyInv'
<1> SUFFICES ASSUME ShapeInv, ControlInv, FlightInv, IdsInv, ReplyInv, [Next]_vars
             PROVE  ReplyInv'
  OBVIOUS
<1>1. ASSUME NEW k \in Calls, SendRequest(k) \/ PushOperation(k) PROVE ReplyInv'
  BY <1>1 DEF SendRequest, PushOperation, PushOperationInsert, PushOperationPush, ShapeInv,
              CallShape, ReplyInv, ResponseFindsOperation, OwnReply
<1>2. CASE UNCHANGED <<call_pc, call_reply, failed>>
  BY <1>2 DEF ReplyInv, ResponseFindsOperation, OwnReply
<1>3. ASSUME NEW n \in Nodes, NEW m \in Peers(n), HandleReceivedMessage(n, m) PROVE ReplyInv'
  <2>1. CASE ~ (Head(net[m][n]).flag = "kNormal" /\ Head(net[m][n]).from = n)
    <3>1. UNCHANGED <<call_pc, call_reply, failed>>
      BY <1>3, <2>1, OtherEffect
    <3> QED
      BY <1>2, <3>1
  <2>2. CASE Head(net[m][n]).flag = "kNormal" /\ Head(net[m][n]).from = n
    <3> DEFINE k == Head(net[m][n]).call
    <3>1. /\ ~failed => ~failed'
          /\ \A j \in Calls : call_pc'[j] = IF j = k THEN "done" ELSE call_pc[j]
          /\ \A j \in Calls : call_reply'[j] = IF j = k THEN k ELSE call_reply[j]
      <4>1. ~failed => ~failed'
        BY <1>3, <2>2, ResponseEffect
      <4>2. \A j \in Calls : call_pc'[j] = IF j = k THEN "done" ELSE call_pc[j]
        BY <1>3, <2>2, ResponseEffect
      <4>3. \A j \in Calls : call_reply'[j] = IF j = k THEN k ELSE call_reply[j]
        BY <1>3, <2>2, ResponseEffect
      <4> QED
        BY <4>1, <4>2, <4>3
    <3> HIDE DEF k
    <3> QED
      BY <3>1 DEF ReplyInv, ResponseFindsOperation, OwnReply
  <2> QED
    BY <2>1, <2>2
<1>4. CASE \E n \in Nodes : SendOne(n) \/ SendReply(n) \/ ReplyRequest(n) \/ Close(n)
  BY <1>2, <1>4, MovesLeave
<1>5. CASE \E n \in Nodes : \E m \in Peers(n) : \E f \in {"kQuit", "kHeartbeat"} : Spawns(n, m, f)
  BY <1>2, <1>5 DEF Spawns, callVars
<1>6. CASE Quiet
  BY <1>2, <1>6 DEF Quiet, callVars
<1> QED
  BY <1>1, <1>3, <1>4, <1>5, <1>6, MessageSteps

-----------------------------------------------------------------------------
(* Counting the messages on their way.                                     *)

Queues(n, op) == pending_send' = [pending_send EXCEPT ![n] = Append(@, op)]

\* An operation is queued for the send thread.
LEMMA SendCountAppend ==
  ASSUME ShapeInv, NEW n \in Nodes, NEW x \in Nodes, NEW C, NEW op \in OperationType,
         Queues(n, op)
  PROVE  SendCount(x, C)' = SendCount(x, C) + (IF x = n /\ op \in C THEN 1 ELSE 0)
<1>1. pending_send \in [Nodes -> Seq(OperationType)] /\ SendCount(x, C) \in Nat
  BY CountsType DEF ShapeInv, SendShape
<1>2. pending_send'[x] = IF x = n THEN Append(pending_send[n], op) ELSE pending_send[x]
  BY <1>1 DEF Queues
<1>3. Count(Append(pending_send[n], op), C)
        = Count(pending_send[n], C) + (IF op \in C THEN 1 ELSE 0)
  BY <1>1, CountAppend
<1> QED
  BY <1>1, <1>2, <1>3 DEF SendCount

\* The send thread takes an operation.
LEMMA SendCountTail ==
  ASSUME ShapeInv, NEW n \in Nodes, NEW x \in Nodes, NEW C,
         pending_send[n] # << >>, pending_send' = [pending_send EXCEPT ![n] = Tail(@)]
  PROVE  SendCount(x, C)' = SendCount(x, C)
           - (IF x = n /\ Head(pending_send[n]) \in C THEN 1 ELSE 0)
<1>1. pending_send \in [Nodes -> Seq(OperationType)] /\ SendCount(x, C) \in Nat
  BY CountsType DEF ShapeInv, SendShape
<1>2. pending_send'[x] = IF x = n THEN Tail(pending_send[n]) ELSE pending_send[x]
  BY <1>1
<1>3. Count(Tail(pending_send[n]), C)
        = Count(pending_send[n], C) - (IF Head(pending_send[n]) \in C THEN 1 ELSE 0)
  BY <1>1, CountTail
<1> QED
  BY <1>1, <1>2, <1>3 DEF SendCount

\* ReplyRequest puts a reply into pending_reply_operations_.
Answers(n, op) == pending_reply' = [pending_reply EXCEPT ![n] = Append(@, op)]

\* A reply is queued for the send thread.
LEMMA ReplyCountAppend ==
  ASSUME ShapeInv, NEW n \in Nodes, NEW x \in Nodes, NEW C, NEW op \in OperationType,
         Answers(n, op)
  PROVE  ReplyCount(x, C)' = ReplyCount(x, C) + (IF x = n /\ op \in C THEN 1 ELSE 0)
<1>1. pending_reply \in [Nodes -> Seq(OperationType)] /\ ReplyCount(x, C) \in Nat
  BY CountsType DEF ShapeInv, ReplyShape
<1>2. pending_reply'[x] = IF x = n THEN Append(pending_reply[n], op) ELSE pending_reply[x]
  BY <1>1 DEF Answers
<1>3. Count(Append(pending_reply[n], op), C)
        = Count(pending_reply[n], C) + (IF op \in C THEN 1 ELSE 0)
  BY <1>1, CountAppend
<1> QED
  BY <1>1, <1>2, <1>3 DEF ReplyCount

\* The send thread takes a reply.
LEMMA ReplyCountTail ==
  ASSUME ShapeInv, NEW n \in Nodes, NEW x \in Nodes, NEW C,
         pending_reply[n] # << >>, pending_reply' = [pending_reply EXCEPT ![n] = Tail(@)]
  PROVE  ReplyCount(x, C)' = ReplyCount(x, C)
           - (IF x = n /\ Head(pending_reply[n]) \in C THEN 1 ELSE 0)
<1>1. pending_reply \in [Nodes -> Seq(OperationType)] /\ ReplyCount(x, C) \in Nat
  BY CountsType DEF ShapeInv, ReplyShape
<1>2. pending_reply'[x] = IF x = n THEN Tail(pending_reply[n]) ELSE pending_reply[x]
  BY <1>1
<1>3. Count(Tail(pending_reply[n]), C)
        = Count(pending_reply[n], C) - (IF Head(pending_reply[n]) \in C THEN 1 ELSE 0)
  BY <1>1, CountTail
<1> QED
  BY <1>1, <1>2, <1>3 DEF ReplyCount

\* A message is put on the wire, or taken off.
Wires(a, b, op) == net' = [net EXCEPT ![a][b] = Append(@, op)]
Unwires(a, b) == net[a][b] # << >> /\ net' = [net EXCEPT ![a][b] = Tail(@)]

\* A message is put on the wire.
LEMMA NetCountAppend ==
  ASSUME ShapeInv, NEW a \in Nodes, NEW b \in Nodes, NEW x \in Nodes, NEW y \in Nodes, NEW C,
         NEW op \in OperationType, Wires(a, b, op)
  PROVE  NetCount(x, y, C)' = NetCount(x, y, C) + (IF x = a /\ y = b /\ op \in C THEN 1 ELSE 0)
<1> DEFINE q == Append(net[a][b], op)
<1>1. /\ net \in [Nodes -> [Nodes -> Seq(OperationType)]] /\ net[a][b] \in Seq(OperationType)
      /\ NetCount(x, y, C) \in Nat /\ net' = [net EXCEPT ![a][b] = q]
  BY CountsType DEF ShapeInv, NetShape, Wires
<1>2. Count(q, C) = Count(net[a][b], C) + (IF op \in C THEN 1 ELSE 0)
  <2>1. net[a][b] \in Seq(OperationType)
    BY <1>1
  <2> QED
    BY ONLY <2>1, CountAppend
<1> HIDE DEF q
<1>3. /\ net'[a][b] = q
      /\ \A u, v \in Nodes : u # a \/ v # b => net'[u][v] = net[u][v]
  BY ONLY <1>1
<1>4. net'[x][y] = IF x = a /\ y = b THEN q ELSE net[x][y]
  BY ONLY <1>3
<1>5. NetCount(x, y, C)' = Count(net'[x][y], C) /\ NetCount(x, y, C) = Count(net[x][y], C)
  BY DEF NetCount
<1>6. CASE x = a /\ y = b
  BY ONLY <1>1, <1>2, <1>4, <1>5, <1>6
<1>7. CASE ~ (x = a /\ y = b)
  <2>1. net'[x][y] = net[x][y]
    BY ONLY <1>4, <1>7
  <2>2. NetCount(x, y, C)' = NetCount(x, y, C) /\ NetCount(x, y, C) \in Nat
    BY ONLY <1>1, <1>5, <2>1
  <2> QED
    BY ONLY <1>7, <2>2
<1> QED
  BY ONLY <1>6, <1>7

\* A message is taken off the wire.
LEMMA NetCountTail ==
  ASSUME ShapeInv, NEW a \in Nodes, NEW b \in Nodes, NEW x \in Nodes, NEW y \in Nodes, NEW C,
         Unwires(a, b)
  PROVE  NetCount(x, y, C)' = NetCount(x, y, C)
           - (IF x = a /\ y = b /\ Head(net[a][b]) \in C THEN 1 ELSE 0)
<1> DEFINE q == Tail(net[a][b])
<1>1. /\ net \in [Nodes -> [Nodes -> Seq(OperationType)]] /\ net[a][b] \in Seq(OperationType)
      /\ NetCount(x, y, C) \in Nat /\ net' = [net EXCEPT ![a][b] = q]
  BY CountsType DEF ShapeInv, NetShape, Unwires
<1>2. Count(q, C) = Count(net[a][b], C) - (IF Head(net[a][b]) \in C THEN 1 ELSE 0)
  BY <1>1, CountTail DEF Unwires
<1> HIDE DEF q
<1>3. /\ net'[a][b] = q
      /\ \A u, v \in Nodes : u # a \/ v # b => net'[u][v] = net[u][v]
  BY ONLY <1>1
<1>4. net'[x][y] = IF x = a /\ y = b THEN q ELSE net[x][y]
  BY ONLY <1>3
<1>5. NetCount(x, y, C)' = Count(net'[x][y], C) /\ NetCount(x, y, C) = Count(net[x][y], C)
  BY DEF NetCount
<1>6. CASE x = a /\ y = b
  BY ONLY <1>1, <1>2, <1>4, <1>5, <1>6
<1>7. CASE ~ (x = a /\ y = b)
  <2>1. net'[x][y] = net[x][y]
    BY ONLY <1>4, <1>7
  <2>2. NetCount(x, y, C)' = NetCount(x, y, C) /\ NetCount(x, y, C) \in Nat
    BY ONLY <1>1, <1>5, <2>1
  <2> QED
    BY ONLY <1>7, <2>2
<1> QED
  BY ONLY <1>6, <1>7

\* A request is handed to the processor actor, or answered.
LEMMA ReceivedCounts ==
  ASSUME ShapeInv, FlightInv, NEW n \in Nodes, NEW x \in Nodes, NEW C, NEW r,
         received' = [received EXCEPT ![n] = IF r \in received[n] THEN @ \ {r} ELSE @ \cup {r}]
  PROVE  ReceivedCount(x, C)' = ReceivedCount(x, C)
           + (IF x = n /\ r.identifier \in C THEN (IF r \in received[n] THEN -1 ELSE 1) ELSE 0)
<1> DEFINE A == ReceivedWith(x, C)
           B == ReceivedWith(x, C)'
<1>1. IsFiniteSet(A) /\ Cardinality(A) \in Nat
  BY CountsType DEF FlightInv, ReceivedCount
<1>2. received'[x] = IF x = n THEN IF r \in received[n] THEN received[n] \ {r}
                                   ELSE received[n] \cup {r}
                     ELSE received[x]
  BY DEF ShapeInv, ReceivedShape
<1>3. CASE x = n /\ r.identifier \in C /\ r \in received[n]
  <2>1. r \in A /\ B = A \ {r}
    BY <1>2, <1>3 DEF ReceivedWith
  <2>2. Cardinality(B) = Cardinality(A) - 1
    BY <1>1, <2>1, FS_RemoveElement
  <2> QED
    BY <1>1, <1>3, <2>2 DEF ReceivedCount
<1>4. CASE x = n /\ r.identifier \in C /\ r \notin received[n]
  <2>1. r \notin A /\ B = A \cup {r}
    BY <1>2, <1>4 DEF ReceivedWith
  <2>2. Cardinality(B) = Cardinality(A) + 1
    BY <1>1, <2>1, FS_AddElement
  <2> QED
    BY <1>1, <1>4, <2>2 DEF ReceivedCount
<1>5. CASE ~ (x = n /\ r.identifier \in C)
  <2>1. B = A
    BY <1>2, <1>5 DEF ReceivedWith
  <2> QED
    BY <1>1, <1>5, <2>1 DEF ReceivedCount
<1> QED
  BY <1>3, <1>4, <1>5

\* Nothing moves: as many messages are on their way.
LEMMA FlightFrame ==
  ASSUME NEW k, UNCHANGED <<pending_send, pending_reply, received, net>>
  PROVE  Flight(k)' = Flight(k)
BY DEF Flight, SendCount, ReplyCount, NetCount, ReceivedCount, ReceivedWith

\* The send thread moves a request or a reply to the wire.
LEMMA FlightSend ==
  ASSUME ShapeInv, FlightInv, NEW n \in Nodes, SendOne(n) \/ SendReply(n), NEW k \in Calls
  PROVE  Flight(k)' = Flight(k)
<1> SUFFICES ASSUME NEW f \in Nodes, NEW t \in Nodes, NEW C, f = CallFrom[k], t = CallTo[k],
                    C = OfCall(k)
             PROVE  Flight(k)' = Flight(k)
  BY CallsAssumption, Zenon
<1>1. /\ f \in Nodes /\ t \in Nodes /\ f # t
      /\ SendCount(f, C) \in Nat /\ NetCount(f, t, C) \in Nat /\ ReceivedCount(t, C) \in Nat
      /\ ReplyCount(t, C) \in Nat /\ NetCount(t, f, C) \in Nat
  BY FlightTypes
<1>2. CASE SendOne(n)
  <2> DEFINE op == Head(pending_send[n])
  <2>0. pending_send[n] # << >> /\ pending_send' = [pending_send EXCEPT ![n] = Tail(@)]
    BY <1>2 DEF SendOne
  <2>1. /\ net' = [net EXCEPT ![n][op.to] = Append(@, op)]
        /\ UNCHANGED <<call_id, pending_reply, received>>
    BY <1>2 DEF SendOne, callVars, recvVars
  <2>2. op \in Own(n) /\ op \in Message
    BY <2>0, <2>1, ShapePop DEF Own
  <2>3. op \in OperationType /\ op.to \in Nodes
    BY <2>2, MessageEnds
  <2>4. op \in C => n = f /\ op.to = t
    BY <2>2, MessageOfCall DEF OfCall, Own
  <2>5. SendCount(f, C)' = SendCount(f, C) - (IF f = n /\ op \in C THEN 1 ELSE 0)
    BY ONLY ShapeInv, <2>0, SendCountTail, Zenon
  <2>6. PICK o \in OperationType, d \in Nodes : o = op /\ d = op.to
    BY <2>3
  <2>7. Wires(n, d, o)
    BY <2>1, <2>6 DEF Wires
  <2> HIDE DEF op
  <2>8. NetCount(f, t, C)' = NetCount(f, t, C) + (IF f = n /\ t = d /\ o \in C THEN 1 ELSE 0)
    BY ONLY ShapeInv, <2>7, NetCountAppend
  <2>9. NetCount(t, f, C)' = NetCount(t, f, C) + (IF t = n /\ f = d /\ o \in C THEN 1 ELSE 0)
    BY ONLY ShapeInv, <2>7, NetCountAppend
  <2>10. ReceivedCount(t, C)' = ReceivedCount(t, C) /\ ReplyCount(t, C)' = ReplyCount(t, C)
    BY <2>1 DEF ReceivedCount, ReceivedWith, ReplyCount
  <2>11. SendCount(f, C)' + NetCount(f, t, C)' + ReceivedCount(t, C)' + ReplyCount(t, C)'
          + NetCount(t, f, C)'
        = SendCount(f, C) + NetCount(f, t, C) + ReceivedCount(t, C) + ReplyCount(t, C)
          + NetCount(t, f, C)
    BY <1>1, <2>4, <2>5, <2>6, <2>8, <2>9, <2>10
  <2> QED
    BY <2>11 DEF Flight
<1>3. CASE SendReply(n)
  <2> DEFINE op == Head(pending_reply[n])
  <2>0. pending_reply[n] # << >> /\ pending_reply' = [pending_reply EXCEPT ![n] = Tail(@)]
    BY <1>3 DEF SendReply
  <2>1. /\ net' = [net EXCEPT ![n][op.from] = Append(@, op)]
        /\ UNCHANGED <<call_id, pending_send, received>>
    BY <1>3 DEF SendReply, callVars, recvVars
  <2>2. op \in Asked(n) /\ op \in Message
    BY <2>0, <2>1, ShapePop DEF Asked
  <2>3. op \in OperationType /\ op.from \in Nodes
    BY <2>2, MessageEnds
  <2>4. op \in C => n = t /\ op.from = f
    BY <2>2, MessageOfCall DEF OfCall, Asked
  <2>5. ReplyCount(t, C)' = ReplyCount(t, C) - (IF t = n /\ op \in C THEN 1 ELSE 0)
    BY ONLY ShapeInv, <2>0, ReplyCountTail, Zenon
  <2>6. PICK o \in OperationType, d \in Nodes : o = op /\ d = op.from
    BY <2>3
  <2>7. Wires(n, d, o)
    BY <2>1, <2>6 DEF Wires
  <2> HIDE DEF op
  <2>8. NetCount(f, t, C)' = NetCount(f, t, C) + (IF f = n /\ t = d /\ o \in C THEN 1 ELSE 0)
    BY ONLY ShapeInv, <2>7, NetCountAppend
  <2>9. NetCount(t, f, C)' = NetCount(t, f, C) + (IF t = n /\ f = d /\ o \in C THEN 1 ELSE 0)
    BY ONLY ShapeInv, <2>7, NetCountAppend
  <2>10. ReceivedCount(t, C)' = ReceivedCount(t, C) /\ SendCount(f, C)' = SendCount(f, C)
    BY <2>1 DEF ReceivedCount, ReceivedWith, SendCount
  <2>11. SendCount(f, C)' + NetCount(f, t, C)' + ReceivedCount(t, C)' + ReplyCount(t, C)'
          + NetCount(t, f, C)'
        = SendCount(f, C) + NetCount(f, t, C) + ReceivedCount(t, C) + ReplyCount(t, C)
          + NetCount(t, f, C)
    BY <1>1, <2>4, <2>5, <2>6, <2>8, <2>9, <2>10
  <2> QED
    BY <2>11 DEF Flight
<1> QED
  BY <1>2, <1>3

\* A queued request is one more on the way of its call; a quit or heartbeat is none.
LEMMA FlightQueue ==
  ASSUME ShapeInv, FlightInv, NEW n \in Nodes, NEW op \in Own(n), NEW k \in Calls,
         pending_send' = [pending_send EXCEPT ![n] = Append(@, op)],
         UNCHANGED <<pending_reply, received, net>>
  PROVE  Flight(k)' = Flight(k) + (IF op.call = k THEN 1 ELSE 0)
<1> SUFFICES ASSUME NEW f \in Nodes, NEW t \in Nodes, NEW C, f = CallFrom[k], t = CallTo[k],
                    C = OfCall(k)
             PROVE  Flight(k)' = Flight(k) + (IF op.call = k THEN 1 ELSE 0)
  BY CallsAssumption, Zenon
<1>1. /\ f \in Nodes /\ t \in Nodes /\ f # t
      /\ SendCount(f, C) \in Nat /\ NetCount(f, t, C) \in Nat /\ ReceivedCount(t, C) \in Nat
      /\ ReplyCount(t, C) \in Nat /\ NetCount(t, f, C) \in Nat
  BY FlightTypes
<1>2. op \in OperationType /\ (op \in C <=> op.call = k) /\ (op.call = k => f = n)
  BY KindsAreOperations, MessageOfCall DEF OfCall, Own
<1>3. SendCount(f, C)' = SendCount(f, C) + (IF f = n /\ op \in C THEN 1 ELSE 0)
  <2>1. Queues(n, op)
    BY DEF Queues
  <2> QED
    BY ONLY ShapeInv, <1>2, <2>1, SendCountAppend
<1>4. /\ NetCount(f, t, C)' = NetCount(f, t, C) /\ NetCount(t, f, C)' = NetCount(t, f, C)
      /\ ReceivedCount(t, C)' = ReceivedCount(t, C) /\ ReplyCount(t, C)' = ReplyCount(t, C)
  BY DEF NetCount, ReceivedCount, ReceivedWith, ReplyCount
<1>5. SendCount(f, C)' + NetCount(f, t, C)' + ReceivedCount(t, C)' + ReplyCount(t, C)'
        + NetCount(t, f, C)'
      = SendCount(f, C) + NetCount(f, t, C) + ReceivedCount(t, C) + ReplyCount(t, C)
        + NetCount(t, f, C) + (IF op.call = k THEN 1 ELSE 0)
  <2>1. CASE op.call = k
    <3>1. SendCount(f, C)' = SendCount(f, C) + 1
      BY ONLY <1>2, <1>3, <2>1
    <3> QED
      BY ONLY <1>1, <1>4, <2>1, <3>1
  <2>2. CASE op.call # k
    <3>1. SendCount(f, C)' = SendCount(f, C)
      BY ONLY <1>1, <1>2, <1>3, <2>2
    <3> QED
      BY ONLY <1>1, <1>4, <2>2, <3>1
  <2> QED
    BY <2>1, <2>2
<1> QED
  BY <1>5 DEF Flight

\* The processor actor's reply replaces the request.
LEMMA FlightReplyRequest ==
  ASSUME ShapeInv, FlightInv, NEW n \in Nodes, ReplyRequest(n), NEW k \in Calls
  PROVE  Flight(k)' = Flight(k)
<1> SUFFICES ASSUME NEW f \in Nodes, NEW t \in Nodes, NEW C, f = CallFrom[k], t = CallTo[k],
                    C = OfCall(k)
             PROVE  Flight(k)' = Flight(k)
  BY CallsAssumption, Zenon
<1>1. /\ f \in Nodes /\ t \in Nodes /\ f # t
      /\ SendCount(f, C) \in Nat /\ NetCount(f, t, C) \in Nat /\ ReceivedCount(t, C) \in Nat
      /\ ReplyCount(t, C) \in Nat /\ NetCount(t, f, C) \in Nat
  BY FlightTypes
<1>2. PICK r \in received[n] :
           /\ received' = [received EXCEPT ![n] = @ \ {r}]
           /\ pending_reply' = [pending_reply EXCEPT ![n] = Append(@, r.identifier)]
  BY DEF ReplyRequest
<1>3. UNCHANGED <<pending_send, net>>
  BY DEF ReplyRequest
<1>4. r.identifier \in OperationType
  BY KindsAreOperations DEF ShapeInv, ReceivedShape
<1>5. received' = [received EXCEPT ![n] = IF r \in received[n] THEN @ \ {r} ELSE @ \cup {r}]
  BY <1>2
<1>6. ReceivedCount(t, C)' = ReceivedCount(t, C)
         + (IF t = n /\ r.identifier \in C THEN (IF r \in received[n] THEN -1 ELSE 1) ELSE 0)
  BY ONLY ShapeInv, FlightInv, <1>5, ReceivedCounts, Zenon
<1>7. PICK o \in OperationType : o = r.identifier
  BY <1>4
<1>8. Answers(n, o)
  BY <1>2, <1>7 DEF Answers
<1>9. ReplyCount(t, C)' = ReplyCount(t, C) + (IF t = n /\ o \in C THEN 1 ELSE 0)
  BY ONLY ShapeInv, <1>8, ReplyCountAppend
<1>10. /\ NetCount(f, t, C)' = NetCount(f, t, C) /\ NetCount(t, f, C)' = NetCount(t, f, C)
      /\ SendCount(f, C)' = SendCount(f, C)
  BY <1>3 DEF NetCount, SendCount
<1>11. SendCount(f, C)' + NetCount(f, t, C)' + ReceivedCount(t, C)' + ReplyCount(t, C)'
        + NetCount(t, f, C)'
      = SendCount(f, C) + NetCount(f, t, C) + ReceivedCount(t, C) + ReplyCount(t, C)
        + NetCount(t, f, C)
  <2>1. CASE t = n /\ r.identifier \in C
    BY <1>1, <1>2, <1>6, <1>7, <1>9, <1>10, <2>1
  <2>2. CASE ~ (t = n /\ r.identifier \in C)
    BY <1>1, <1>2, <1>6, <1>7, <1>9, <1>10, <2>2
  <2> QED
    BY <2>1, <2>2
<1> QED
  BY <1>11 DEF Flight

\* Closing a socket loses messages and adds none.
LEMMA FlightClose ==
  ASSUME ShapeInv, FlightInv, NEW n \in Nodes, Close(n), NEW k \in Calls
  PROVE  Flight(k)' <= Flight(k) /\ Flight(k)' \in Nat /\ Flight(k) \in Nat
<1> SUFFICES ASSUME NEW f \in Nodes, NEW t \in Nodes, NEW C, f = CallFrom[k], t = CallTo[k],
                    C = OfCall(k)
             PROVE  Flight(k)' <= Flight(k) /\ Flight(k)' \in Nat /\ Flight(k) \in Nat
  BY CallsAssumption, Zenon
<1>1. /\ f \in Nodes /\ t \in Nodes /\ f # t
      /\ SendCount(f, C) \in Nat /\ NetCount(f, t, C) \in Nat /\ ReceivedCount(t, C) \in Nat
      /\ ReplyCount(t, C) \in Nat /\ NetCount(t, f, C) \in Nat
  BY FlightTypes
<1>2. UNCHANGED <<pending_send, pending_reply, received>>
  BY DEF Close, recvVars
<1>3. /\ SendCount(f, C)' = SendCount(f, C)
      /\ ReceivedCount(t, C)' = ReceivedCount(t, C) /\ ReplyCount(t, C)' = ReplyCount(t, C)
  BY <1>2 DEF SendCount, ReceivedCount, ReceivedWith, ReplyCount
<1>4. /\ NetCount(f, t, C)' <= NetCount(f, t, C) /\ NetCount(f, t, C)' \in Nat
      /\ NetCount(t, f, C)' <= NetCount(t, f, C) /\ NetCount(t, f, C)' \in Nat
  BY <1>1, ShapeClose
<1> DEFINE a == SendCount(f, C) + NetCount(f, t, C) + ReceivedCount(t, C) + ReplyCount(t, C)
                 + NetCount(t, f, C)
           b == SendCount(f, C)' + NetCount(f, t, C)' + ReceivedCount(t, C)' + ReplyCount(t, C)'
                 + NetCount(t, f, C)'
<1>5. b <= a /\ b \in Nat /\ a \in Nat
  BY <1>1, <1>3, <1>4
<1> QED
  BY <1>5 DEF Flight

\* The receive thread takes a message: a request is now with the processor actor,
\* a response is gone.
LEMMA FlightReceive ==
  ASSUME ShapeInv, FlightInv, NEW n \in Nodes, NEW m \in Peers(n), HandleReceivedMessage(n, m),
         NEW k \in Calls
  PROVE  Flight(k)' = Flight(k)
           - (IF /\ Head(net[m][n]).flag = "kNormal" /\ Head(net[m][n]).from = n
                 /\ Head(net[m][n]).call = k THEN 1 ELSE 0)
<1> SUFFICES ASSUME NEW f \in Nodes, NEW t \in Nodes, NEW C, f = CallFrom[k], t = CallTo[k],
                    C = OfCall(k), NEW message, message = Head(net[m][n])
             PROVE  Flight(k)' = Flight(k)
                      - (IF message.flag = "kNormal" /\ message.from = n /\ message.call = k
                         THEN 1 ELSE 0)
  BY CallsAssumption, Zenon
<1> DEFINE Sum == SendCount(f, C) + NetCount(f, t, C) + ReceivedCount(t, C) + ReplyCount(t, C)
                    + NetCount(t, f, C)
           Sum1 == SendCount(f, C)' + NetCount(f, t, C)' + ReceivedCount(t, C)'
                    + ReplyCount(t, C)' + NetCount(t, f, C)'
<1>1. /\ f # t
      /\ SendCount(f, C) \in Nat /\ NetCount(f, t, C) \in Nat /\ ReceivedCount(t, C) \in Nat
      /\ ReplyCount(t, C) \in Nat /\ NetCount(t, f, C) \in Nat
  BY FlightTypes
<1>2. Flight(k) = Sum /\ Flight(k)' = Sum1
  BY DEF Flight
<1>3. /\ Unwires(m, n) /\ m \in Nodes /\ m # n
      /\ message \in Between(m, n) /\ message \in Message
      /\ message.flag = "kNormal" /\ message.from # n => message \in Asked(n)
      /\ message.flag = "kNormal" /\ message.from = n => message.to = m
  BY ReceivedIs DEF Unwires
<1>4. /\ message \in C <=> message.call = k
      /\ message \in C => message.flag = "kNormal" /\ message.from = f /\ message.to = t
  BY <1>3, MessageOfCall DEF OfCall
<1>5. /\ NetCount(f, t, C)' = NetCount(f, t, C) - (IF f = m /\ t = n /\ message \in C THEN 1 ELSE 0)
      /\ NetCount(t, f, C)' = NetCount(t, f, C) - (IF t = m /\ f = n /\ message \in C THEN 1 ELSE 0)
  BY <1>3, NetCountTail
<1>6. SendCount(f, C)' = SendCount(f, C) /\ ReplyCount(t, C)' = ReplyCount(t, C)
  BY DEF HandleReceivedMessage, SendCount, ReplyCount
<1>7. CASE message.flag # "kNormal"
  <2>1. received' = received
    BY <1>7 DEF HandleReceivedMessage, HandleQuit, recvVars
  <2>2. ReceivedCount(t, C)' = ReceivedCount(t, C)
    BY <2>1 DEF ReceivedCount, ReceivedWith
  <2>3. message \notin C
    BY <1>4, <1>7
  <2>4. Sum1 = Sum
    BY <1>1, <1>5, <1>6, <2>2, <2>3
  <2>5. Sum \in Nat
    BY <1>1
  <2> QED
    BY <1>2, <1>7, <2>4, <2>5
<1>8. CASE message.flag = "kNormal" /\ message.from = n
  <2>1. received' = received
    BY <1>8 DEF HandleReceivedMessage, HandleResponse, recvVars
  <2>2. ReceivedCount(t, C)' = ReceivedCount(t, C)
    BY <2>1 DEF ReceivedCount, ReceivedWith
  <2>3. CASE message.call = k
    <3>1. Sum1 = Sum - 1
      BY <1>1, <1>3, <1>4, <1>5, <1>6, <1>8, <2>2, <2>3
    <3> QED
      BY <1>2, <1>8, <2>3, <3>1
  <2>4. CASE message.call # k
    <3>1. Sum1 = Sum /\ Sum \in Nat
      BY <1>1, <1>4, <1>5, <1>6, <2>2, <2>4
    <3> QED
      BY <1>2, <2>4, <3>1
  <2> QED
    BY <2>3, <2>4
<1>9. CASE message.flag = "kNormal" /\ message.from # n
  <2> DEFINE r == [rid |-> received_id_counter[n], identifier |-> message]
  <2>1. received' = [received EXCEPT ![n] = @ \cup {r}]
    BY <1>9 DEF HandleReceivedMessage, HandleRequest
  <2>2. r \notin received[n]
    <3>1. r.rid = received_id_counter[n] /\ received_id_counter[n] \in Nat
      BY DEF ShapeInv, ReceivedShape
    <3> HIDE DEF r
    <3> QED
      BY <3>1 DEF FlightInv
  <2>3. r.identifier = message
    OBVIOUS
  <2> HIDE DEF r
  <2>4. received' = [received EXCEPT ![n] = IF r \in received[n] THEN @ \ {r} ELSE @ \cup {r}]
    BY <2>1, <2>2
  <2>5. PICK c : c = r
    OBVIOUS
  <2>6. received' = [received EXCEPT ![n] = IF c \in received[n] THEN @ \ {c} ELSE @ \cup {c}]
    BY <2>4, <2>5
  <2>7. ReceivedCount(t, C)' = ReceivedCount(t, C)
           + (IF t = n /\ c.identifier \in C THEN (IF c \in received[n] THEN -1 ELSE 1) ELSE 0)
    BY ONLY ShapeInv, FlightInv, <2>6, ReceivedCounts, Zenon
  <2>8. ReceivedCount(t, C)' = ReceivedCount(t, C) + (IF t = n /\ message \in C THEN 1 ELSE 0)
    BY <2>2, <2>3, <2>5, <2>7
  <2>9. message.to = n /\ message.from = m
    BY <1>3, <1>9 DEF Asked, Between
  <2>10. CASE message \in C
    <3>1. Sum1 = Sum /\ Sum \in Nat
      BY <1>1, <1>3, <1>4, <1>5, <1>6, <2>8, <2>9, <2>10
    <3> QED
      BY <1>2, <1>9, <3>1
  <2>11. CASE message \notin C
    <3>1. Sum1 = Sum /\ Sum \in Nat
      BY <1>1, <1>5, <1>6, <2>8, <2>11
    <3> QED
      BY <1>2, <1>9, <3>1
  <2> QED
    BY <2>10, <2>11
<1> QED
  BY <1>7, <1>8, <1>9

\* The ids of the received requests stay apart, and finitely many.
ReceivedInv ==
  /\ \A n \in Nodes : IsFiniteSet(received[n])
  /\ \A n \in Nodes : \A r \in received[n] : r.rid < received_id_counter[n]

\* HandleRequest adds a request under a fresh id, ReplyRequest takes one away.
LEMMA ReceivedNext ==
  ShapeInv /\ ControlInv /\ FlightInv /\ [Next]_vars => ReceivedInv'
<1> SUFFICES ASSUME ShapeInv, ControlInv, FlightInv, [Next]_vars PROVE ReceivedInv'
  OBVIOUS
<1>1. ReceivedInv /\ received \in [Nodes -> SUBSET [rid : Nat, identifier : OperationType]]
      /\ received_id_counter \in [Nodes -> Nat]
  BY DEF FlightInv, ReceivedInv, ShapeInv, ReceivedShape
<1>2. CASE UNCHANGED <<received, received_id_counter>>
  BY <1>1, <1>2 DEF ReceivedInv
<1>3. ASSUME NEW n \in Nodes, ReplyRequest(n) PROVE ReceivedInv'
  <2>1. PICK r \in received[n] : received' = [received EXCEPT ![n] = @ \ {r}]
    BY <1>3 DEF ReplyRequest
  <2>2. received_id_counter' = received_id_counter
    BY <1>3 DEF ReplyRequest
  <2>3. IsFiniteSet(received[n] \ {r})
    BY <1>1, FS_RemoveElement DEF ReceivedInv
  <2> QED
    BY <1>1, <2>1, <2>2, <2>3 DEF ReceivedInv
<1>4. ASSUME NEW n \in Nodes, NEW message, HandleRequest(n, message) PROVE ReceivedInv'
  <2> DEFINE r == [rid |-> received_id_counter[n], identifier |-> message]
  <2>1. /\ received' = [received EXCEPT ![n] = @ \cup {r}]
        /\ received_id_counter' = [received_id_counter EXCEPT ![n] = @ + 1]
    BY <1>4 DEF HandleRequest
  <2>2. r.rid = received_id_counter[n]
    OBVIOUS
  <2> HIDE DEF r
  <2>3. IsFiniteSet(received[n] \cup {r})
    BY <1>1, FS_AddElement DEF ReceivedInv
  <2>4. \A x \in Nodes : \A c \in received[x] : c.rid \in Nat
    BY <1>1
  <2>5. \A x \in Nodes : /\ received'[x] = IF x = n THEN received[n] \cup {r} ELSE received[x]
                         /\ received_id_counter'[x] = IF x = n THEN received_id_counter[n] + 1
                                                      ELSE received_id_counter[x]
    BY <1>1, <2>1
  <2>6. \A x \in Nodes : IsFiniteSet(received'[x])
    BY <1>1, <2>3, <2>5 DEF ReceivedInv
  <2>7. \A x \in Nodes : \A c \in received'[x] : c.rid < received_id_counter'[x]
    BY <1>1, <2>2, <2>4, <2>5 DEF ReceivedInv
  <2> QED
    BY <2>6, <2>7 DEF ReceivedInv
<1>5. ASSUME NEW n \in Nodes, NEW m \in Peers(n), HandleReceivedMessage(n, m)
      PROVE  ReceivedInv'
  <2>1. UNCHANGED <<received, received_id_counter>> \/ HandleRequest(n, Head(net[m][n]))
    BY <1>5 DEF HandleReceivedMessage, HandleQuit, HandleResponse, recvVars
  <2> QED
    BY <1>2, <1>4, <2>1
<1>6. CASE \E k \in Calls : SendRequest(k) \/ PushOperation(k)
  BY <1>2, <1>6 DEF SendRequest, PushOperation, PushOperationInsert, PushOperationPush, recvVars
<1>7. CASE \E n \in Nodes : SendOne(n) \/ SendReply(n) \/ Close(n)
  <2>1. PICK n \in Nodes : SendOne(n) \/ SendReply(n) \/ Close(n)
    BY <1>7
  <2>2. /\ SendOne(n) => UNCHANGED recvVars
        /\ SendReply(n) => UNCHANGED recvVars
        /\ Close(n) => UNCHANGED recvVars
    BY DEF SendOne, SendReply, Close
  <2> QED
    BY <1>2, <2>1, <2>2 DEF recvVars
<1>8. CASE \E n \in Nodes : \E m \in Peers(n) : \E f \in {"kQuit", "kHeartbeat"} : Spawns(n, m, f)
  BY <1>2, <1>8 DEF Spawns, recvVars
<1>9. CASE Quiet
  BY <1>2, <1>9 DEF Quiet, recvVars
<1> QED
  BY <1>3, <1>5, <1>6, <1>7, <1>8, <1>9, MessageSteps

\* The number of messages of a call never rises but when the call starts to wait,
\* and is zero when it returns.
LEMMA FlightNext ==
  ShapeInv /\ ControlInv /\ FlightInv /\ IdsInv /\ [Next]_vars => FlightInv'
<1> SUFFICES ASSUME ShapeInv, ControlInv, FlightInv, IdsInv, [Next]_vars PROVE FlightInv'
  OBVIOUS
<1>1. ReceivedInv'
  BY ReceivedNext
<1> SUFFICES ASSUME NEW k \in Calls
             PROVE  Flight(k)' <= IF call_pc'[k] = "waiting" THEN 1 ELSE 0
  BY <1>1 DEF ReceivedInv, FlightInv
<1>2. /\ Flight(k) \in Nat
      /\ call_pc[k] = "waiting" => Flight(k) <= 1
      /\ call_pc[k] # "waiting" => Flight(k) <= 0
  BY FlightTypes DEF Flight, FlightInv
<1>3. ASSUME Flight(k)' \in Nat, Flight(k)' <= Flight(k), call_pc'[k] = call_pc[k]
      PROVE  Flight(k)' <= IF call_pc'[k] = "waiting" THEN 1 ELSE 0
  BY <1>2, <1>3
<1>4. CASE \E j \in Calls : SendRequest(j) \/ PushOperationInsert(j)
  <2>1. PICK j \in Calls : SendRequest(j) \/ PushOperationInsert(j)
    BY <1>4
  <2>2. UNCHANGED <<pending_send, pending_reply, received, net>>
    BY <2>1 DEF SendRequest, PushOperationInsert, recvVars
  <2>3. Flight(k)' = Flight(k)
    BY <2>2, FlightFrame
  <2>4. /\ call_pc[j] \in {"idle", "insert"} /\ call_pc'[j] \in {"insert", "push"}
        /\ k # j => call_pc'[k] = call_pc[k]
    BY <2>1 DEF SendRequest, PushOperationInsert, ShapeInv, CallShape
  <2> QED
    BY <1>2, <2>3, <2>4
<1>5. CASE \E j \in Calls : PushOperationPush(j)
  <2>1. PICK j \in Calls : PushOperationPush(j)
    BY <1>5
  <2>2. PICK n \in Nodes : n = CallFrom[j]
    BY CallsAssumption
  <2>3. CallOperation(j) \in Own(n)
    BY <2>2, OwnOperations
  <2>4. PICK op \in Own(n) : op = CallOperation(j)
    BY <2>3
  <2>5. /\ pending_send' = [pending_send EXCEPT ![n] = Append(@, op)]
        /\ UNCHANGED <<pending_reply, received, net>>
    BY <2>1, <2>2, <2>4 DEF PushOperationPush, recvVars
  <2>6. Flight(k)' = Flight(k) + (IF op.call = k THEN 1 ELSE 0)
    BY ONLY ShapeInv, FlightInv, <2>5, FlightQueue, Zenon
  <2>7. op.call = j
    BY <2>4, CallOperationIs
  <2>8. call_pc[j] = "push" /\ call_pc'[j] = "waiting" /\ (k # j => call_pc'[k] = call_pc[k])
    BY <2>1 DEF PushOperationPush, ShapeInv, CallShape
  <2>9. CASE k = j
    BY <1>2, <2>6, <2>7, <2>8, <2>9
  <2>10. CASE k # j
    BY <1>2, <2>6, <2>7, <2>8, <2>10
  <2> QED
    BY <2>9, <2>10
<1>6. CASE \E n \in Nodes : SendOne(n) \/ SendReply(n) \/ ReplyRequest(n) \/ Close(n)
  <2>1. PICK n \in Nodes : SendOne(n) \/ SendReply(n) \/ ReplyRequest(n) \/ Close(n)
    BY <1>6
  <2>2. call_pc' = call_pc
    BY <2>1, MovesLeave
  <2>3. Flight(k)' \in Nat /\ Flight(k)' <= Flight(k)
    BY <1>2, <2>1, FlightSend, FlightReplyRequest, FlightClose
  <2> QED
    BY <1>3, <2>2, <2>3
<1>7. CASE \E n \in Nodes : \E m \in Peers(n) : \E f \in {"kQuit", "kHeartbeat"} : Spawns(n, m, f)
  <2>0. PICK n \in Nodes : \E m \in Peers(n) : \E f \in {"kQuit", "kHeartbeat"} : Spawns(n, m, f)
    BY <1>7
  <2>1. PICK m \in Peers(n), f \in {"kQuit", "kHeartbeat"} : Spawns(n, m, f)
    BY <2>0
  <2>2. PICK i \in Nat : i = request_id_counter[n]
    BY DEF ShapeInv, CallShape
  <2>3. PICK op \in Own(n) : op = Operation(n, m, i, f, None)
    BY OwnOperations
  <2>4. /\ pending_send' = [pending_send EXCEPT ![n] = Append(@, op)]
        /\ UNCHANGED <<pending_reply, received, net>>
    BY <2>1, <2>2, <2>3 DEF Spawns, SpawnRequest, recvVars
  <2>5. Flight(k)' = Flight(k) + (IF op.call = k THEN 1 ELSE 0)
    BY ONLY ShapeInv, FlightInv, <2>4, FlightQueue, Zenon
  <2>6. op.call = None
    BY <2>3 DEF Operation
  <2>7. op.call # k /\ call_pc' = call_pc
    BY <2>1, <2>6, BrokerNoneAssumption DEF Spawns, callVars
  <2>8. Flight(k)' = Flight(k)
    BY <1>2, <2>5, <2>7
  <2> QED
    BY <1>2, <1>3, <2>7, <2>8
<1>8. CASE \E n \in Nodes : \E m \in Peers(n) : HandleReceivedMessage(n, m)
  <2>0. PICK n \in Nodes : \E m \in Peers(n) : HandleReceivedMessage(n, m)
    BY <1>8
  <2>1. PICK m \in Peers(n) : HandleReceivedMessage(n, m)
    BY <2>0
  <2> DEFINE message == Head(net[m][n])
  <2>2. Flight(k)' = Flight(k)
          - (IF message.flag = "kNormal" /\ message.from = n /\ message.call = k THEN 1 ELSE 0)
    BY <2>1, FlightReceive
  <2>3. CASE ~ (message.flag = "kNormal" /\ message.from = n)
    <3>1. call_pc' = call_pc
      BY <2>1, <2>3, OtherEffect
    <3>2. Flight(k)' = Flight(k)
      BY <1>2, <2>2, <2>3
    <3> QED
      BY <1>2, <1>3, <3>1, <3>2
  <2>4. CASE message.flag = "kNormal" /\ message.from = n
    <3>0. /\ \A j \in Calls : call_pc'[j] = IF j = message.call THEN "done" ELSE call_pc[j]
          /\ call_pc[message.call] = "waiting"
      <4>1. call_pc[message.call] = "waiting"
        BY <2>1, <2>4, ResponseOperation
      <4>2. \A j \in Calls : call_pc'[j] = IF j = message.call THEN "done" ELSE call_pc[j]
        BY <2>1, <2>4, ResponseEffect
      <4> QED
        BY ONLY <4>1, <4>2
    <3>1. /\ call_pc'[k] = IF k = message.call THEN "done" ELSE call_pc[k]
          /\ call_pc[message.call] = "waiting"
      BY ONLY <3>0
    <3> HIDE DEF message
    <3>2. CASE k = message.call
      <4>1. Flight(k)' = Flight(k) - 1
        BY <1>2, <2>2, <2>4, <3>2
      <4>2. Flight(k) <= 1
        BY <1>2, <3>1, <3>2
      <4> QED
        BY <1>2, <3>1, <3>2, <4>1, <4>2
    <3>3. CASE k # message.call
      <4>1. Flight(k)' = Flight(k)
        BY <1>2, <2>2, <3>3
      <4> QED
        BY <1>2, <1>3, <3>1, <3>3, <4>1
    <3> QED
      BY <3>2, <3>3
  <2> QED
    BY <2>3, <2>4
<1>9. CASE Quiet
  <2>1. Flight(k)' = Flight(k) /\ call_pc' = call_pc
    BY <1>9, FlightFrame DEF Quiet, callVars, recvVars
  <2> QED
    BY <1>2, <1>3, <2>1
<1> QED
  BY <1>4, <1>5, <1>6, <1>7, <1>8, <1>9, MessageSteps DEF PushOperation

-----------------------------------------------------------------------------
(* The aligned stop.                                                       *)

HeartbeatsTo(n, m) ==
  Spawns(n, m, "kHeartbeat") /\ UNCHANGED <<main_pc, quit_peers, quit_latch>>

QuitsTo(n, m) ==
  /\ Spawns(n, m, "kQuit") /\ main_pc[n] = "quits" /\ m \in quit_peers[n]
  /\ quit_peers' = [quit_peers EXCEPT ![n] = @ \ {m}]
  /\ UNCHANGED <<main_pc, quit_latch>>

\* The stopping thread goes on without touching the latch or the messages.
GoesOn(n) ==
  /\ Quiet /\ UNCHANGED <<quit_peers, quit_latch>>
  /\ \/ main_pc[n] = "quits" /\ quit_peers[n] = {} /\ main_pc' = [main_pc EXCEPT ![n] = "count"]
     \/ main_pc[n] = "empty" /\ main_pc' = [main_pc EXCEPT ![n] = "join"]
     \/ main_pc[n] = "join" /\ main_pc' = [main_pc EXCEPT ![n] = "done"]

\* The steps as far as the stop is concerned.
LEMMA StopSteps ==
  ASSUME ControlInv, [Next]_vars
  PROVE  \/ \E k \in Calls : SendRequest(k) \/ PushOperation(k)
         \/ \E n \in Nodes : SendOne(n) \/ SendReply(n) \/ ReplyRequest(n) \/ Close(n)
         \/ \E n \in Nodes : \E m \in Peers(n) : HeartbeatsTo(n, m) \/ QuitsTo(n, m)
         \/ \E n \in Nodes : \E m \in Peers(n) : HandleReceivedMessage(n, m)
         \/ \E n \in Nodes : StopBegin(n) \/ StopCountDown(n) \/ StopLatch(n) \/ GoesOn(n)
         \/ Quiet /\ UNCHANGED <<main_pc, quit_peers, quit_latch>>
<1> DEFINE Still == Quiet /\ UNCHANGED <<main_pc, quit_peers, quit_latch>>
<1>1. ASSUME NEW n \in Nodes, HeartbeatSpawn(n)
      PROVE  Still \/ \E m \in Peers(n) : HeartbeatsTo(n, m)
  BY <1>1 DEF HeartbeatSpawn, Quiet, Spawns, HeartbeatsTo, ControlInv, mainVars
<1>2. ASSUME NEW n \in Nodes, StopQuit(n)
      PROVE  GoesOn(n) \/ \E m \in Peers(n) : QuitsTo(n, m)
  BY <1>2 DEF StopQuit, Quiet, Spawns, QuitsTo, GoesOn, MainGoto, ControlInv
<1>3. ASSUME NEW n \in Nodes,
             \/ SendTop(n) \/ SendFlag(n) \/ SendsEmpty(n) \/ RepliesEmpty(n) \/ HeartbeatTest(n)
             \/ ReceiveExit(n)
      PROVE  Still
  BY <1>3 DEF SendTop, SendFlag, SendsEmpty, RepliesEmpty, SendMove, HeartbeatTest, ReceiveExit,
              Quiet, mainVars, stopVars
<1>4. ASSUME NEW n \in Nodes, StopEmpty(n) \/ StopJoin(n)
      PROVE  GoesOn(n)
  BY <1>4 DEF StopEmpty, StopJoin, MainStep, MainGoto, Quiet, GoesOn
<1>5. CASE UNCHANGED vars
  BY <1>5 DEF vars, Quiet, mainVars, stopVars
<1>6. CASE Next
  <2>1. CASE \E k \in Calls : SendRequest(k) \/ PushOperation(k)
    BY <2>1
  <2>2. CASE \E n \in Nodes : SendProcessLoop(n)
    BY <2>2, <1>1, <1>3 DEF SendProcessLoop
  <2>3. CASE \E n \in Nodes : \E m \in Peers(n) : HandleReceivedMessage(n, m)
    BY <2>3
  <2>4. CASE \E n \in Nodes : ReceiveExit(n) \/ ReplyRequest(n) \/ StopBegin(n)
    BY <2>4, <1>3
  <2>5. CASE \E n \in Nodes : ClusterAlignedStop(n)
    BY <2>5, <1>2, <1>4 DEF ClusterAlignedStop
  <2> QED
    BY <1>6, <2>1, <2>2, <2>3, <2>4, <2>5 DEF Next
<1> QED
  BY <1>5, <1>6

\* What the message steps leave of the stop's variables.
LEMMA StopLeft ==
  /\ \A k \in Calls : SendRequest(k) \/ PushOperation(k) =>
       UNCHANGED <<main_pc, quit_peers, quit_latch>>
  /\ \A n \in Nodes : SendOne(n) \/ SendReply(n) \/ ReplyRequest(n) =>
       UNCHANGED <<main_pc, quit_peers, quit_latch>>
  /\ \A n \in Nodes : \A m \in Peers(n) : HandleReceivedMessage(n, m) =>
       /\ UNCHANGED <<main_pc, quit_peers>>
       /\ quit_latch' = IF Head(net[m][n]).flag = "kQuit"
                        THEN [quit_latch EXCEPT ![n] = @ - 1] ELSE quit_latch
<1>1. ASSUME NEW k \in Calls, SendRequest(k) \/ PushOperation(k)
      PROVE  UNCHANGED <<main_pc, quit_peers, quit_latch>>
  BY <1>1 DEF SendRequest, PushOperation, PushOperationInsert, PushOperationPush, mainVars, stopVars
<1>2. ASSUME NEW n \in Nodes, SendOne(n) \/ SendReply(n) \/ ReplyRequest(n)
      PROVE  UNCHANGED <<main_pc, quit_peers, quit_latch>>
  <2>1. /\ SendOne(n) => UNCHANGED <<mainVars, stopVars>>
        /\ SendReply(n) => UNCHANGED <<mainVars, stopVars>>
        /\ ReplyRequest(n) => UNCHANGED <<mainVars, stopVars>>
    BY DEF SendOne, SendReply, ReplyRequest
  <2> QED
    BY <1>2, <2>1 DEF mainVars, stopVars
<1>3. ASSUME NEW n \in Nodes, NEW m \in Peers(n), HandleReceivedMessage(n, m)
      PROVE  /\ UNCHANGED <<main_pc, quit_peers>>
             /\ quit_latch' = IF Head(net[m][n]).flag = "kQuit"
                              THEN [quit_latch EXCEPT ![n] = @ - 1] ELSE quit_latch
  BY <1>3 DEF HandleReceivedMessage, HandleQuit, HandleResponse, HandleRequest, mainVars, stopVars
<1> QED
  BY <1>1, <1>2, <1>3

\* A node owes a quit message until it has spawned it.
LEMMA TodoNext ==
  ASSUME ControlInv, NEW m \in Nodes, NEW n \in Peers(m), [Next]_vars
  PROVE  /\ Todo(m, n) \in {0, 1} /\ Todo(m, n)' \in {0, 1}
         /\ \A x \in Nodes : \A y \in Peers(x) : QuitsTo(x, y) =>
              Todo(m, n)' = Todo(m, n) - (IF m = x /\ n = y THEN 1 ELSE 0)
         /\ (\A x \in Nodes : \A y \in Peers(x) : ~ QuitsTo(x, y)) => Todo(m, n)' = Todo(m, n)
<1>1. Todo(m, n) \in {0, 1} /\ Todo(m, n)' \in {0, 1}
  BY DEF Todo
<1>2. ASSUME NEW x \in Nodes, NEW y \in Peers(x), QuitsTo(x, y)
      PROVE  Todo(m, n)' = Todo(m, n) - (IF m = x /\ n = y THEN 1 ELSE 0)
  <2>1. /\ main_pc' = main_pc /\ main_pc[x] = "quits" /\ y \in quit_peers[x]
        /\ \A z \in Nodes : quit_peers'[z] = IF z = x THEN quit_peers[x] \ {y} ELSE quit_peers[z]
    BY <1>2 DEF QuitsTo, ControlInv
  <2>2. CASE m = x /\ n = y
    BY <2>1, <2>2 DEF Todo
  <2>3. CASE ~ (m = x /\ n = y)
    <3>1. n \in quit_peers'[m] <=> n \in quit_peers[m]
      BY <2>1, <2>3
    <3>2. Todo(m, n)' = Todo(m, n)
      BY <2>1, <3>1 DEF Todo
    <3> QED
      BY <1>1, <2>3, <3>2
  <2> QED
    BY <2>2, <2>3
<1>3. ASSUME main_pc' = main_pc, quit_peers' = quit_peers PROVE Todo(m, n)' = Todo(m, n)
  BY <1>3 DEF Todo
<1>4. ASSUME NEW x \in Nodes, StopBegin(x) PROVE Todo(m, n)' = Todo(m, n)
  BY <1>4 DEF StopBegin, MainStep, MainGoto, ControlInv, Todo
<1>5. ASSUME NEW x \in Nodes, main_pc[x] # "run", NEW l, l # "run", quit_peers' = quit_peers,
             main_pc' = [main_pc EXCEPT ![x] = l]
      PROVE  Todo(m, n)' = Todo(m, n)
  BY <1>5 DEF ControlInv, Todo
<1>6. ASSUME NEW x \in Nodes, StopCountDown(x) \/ StopLatch(x) \/ GoesOn(x) \/ Close(x)
      PROVE  Todo(m, n)' = Todo(m, n)
  <2>1. PICK l \in {"count", "latch", "empty", "join", "done", "closed"} :
          main_pc[x] # "run" /\ quit_peers' = quit_peers /\ main_pc' = [main_pc EXCEPT ![x] = l]
    BY <1>6 DEF StopCountDown, StopLatch, GoesOn, Close, MainStep, MainGoto
  <2> QED
    BY <1>5, <2>1
<1>7. ASSUME \A x \in Nodes : \A y \in Peers(x) : ~ QuitsTo(x, y) PROVE Todo(m, n)' = Todo(m, n)
  <2>1. CASE \E k \in Calls : SendRequest(k) \/ PushOperation(k)
    BY <1>3, <2>1, StopLeft
  <2>2. CASE \E x \in Nodes : SendOne(x) \/ SendReply(x) \/ ReplyRequest(x) \/ Close(x)
    BY <1>3, <1>6, <2>2, StopLeft
  <2>3. CASE \E x \in Nodes : \E y \in Peers(x) : HeartbeatsTo(x, y)
    BY <1>3, <2>3 DEF HeartbeatsTo
  <2>4. CASE \E x \in Nodes : \E y \in Peers(x) : HandleReceivedMessage(x, y)
    BY <1>3, <2>4, StopLeft
  <2>5. CASE \E x \in Nodes : StopBegin(x) \/ StopCountDown(x) \/ StopLatch(x) \/ GoesOn(x)
    BY <1>4, <1>6, <2>5
  <2>6. CASE Quiet /\ UNCHANGED <<main_pc, quit_peers, quit_latch>>
    BY <1>3, <2>6
  <2> QED
    BY <1>7, <2>1, <2>2, <2>3, <2>4, <2>5, <2>6, StopSteps
<1> QED
  BY <1>1, <1>2, <1>7

TakesQuit(n, m) == HandleReceivedMessage(n, m) /\ Head(net[m][n]).flag = "kQuit"

\* What a node owes to another never rises, and falls when the quit message is
\* handled.
LEMMA OwedNext ==
  ASSUME ShapeInv, ControlInv, [Next]_vars, NEW m \in Nodes, NEW n \in Peers(m)
  PROVE  /\ Owed(m, n) \in Nat /\ Owed(m, n)' \in Nat /\ Owed(m, n)' <= Owed(m, n)
         /\ TakesQuit(n, m) => Owed(m, n) > 0 /\ Owed(m, n)' = Owed(m, n) - 1
<1> SUFFICES ASSUME NEW Q, Q = Quits(m, n), n \in Nodes, n # m
             PROVE  /\ Owed(m, n) \in Nat /\ Owed(m, n)' \in Nat /\ Owed(m, n)' <= Owed(m, n)
                    /\ TakesQuit(n, m) => Owed(m, n) > 0 /\ Owed(m, n)' = Owed(m, n) - 1
  <2>1. n \in Nodes /\ n # m
    BY DEF Peers
  <2> QED
    BY <2>1, Zenon
<1> DEFINE Sum == Todo(m, n) + SendCount(m, Q) + NetCount(m, n, Q)
           Sum1 == Todo(m, n)' + SendCount(m, Q)' + NetCount(m, n, Q)'
<1>1. Owed(m, n) = Sum /\ Owed(m, n)' = Sum1
  BY DEF Owed
<1>2. /\ SendCount(m, Q) \in Nat /\ NetCount(m, n, Q) \in Nat
      /\ Todo(m, n) \in {0, 1} /\ Todo(m, n)' \in {0, 1}
  BY CountsType, TodoNext
<1>3. /\ UNCHANGED pending_send => SendCount(m, Q)' = SendCount(m, Q)
      /\ UNCHANGED net => NetCount(m, n, Q)' = NetCount(m, n, Q)
  BY DEF SendCount, NetCount
<1>4. ASSUME NEW x \in Nodes, NEW y \in Peers(x), QuitsTo(x, y)
      PROVE  Sum1 \in Nat /\ Sum1 <= Sum
  <2>1. PICK i \in Nat : i = request_id_counter[x]
    BY DEF ShapeInv, CallShape
  <2>2. Operation(x, y, i, "kQuit", None) \in Own(x)
    BY OwnOperations
  <2>3. PICK op \in OperationType : op = Operation(x, y, i, "kQuit", None)
    BY <2>2, KindsAreOperations
  <2>4. op \in Q <=> x = m /\ y = n
    BY <2>3 DEF Quits, Operation
  <2>5. pending_send' = [pending_send EXCEPT ![x] = Append(@, op)] /\ UNCHANGED net
    BY <1>4, <2>1, <2>3 DEF QuitsTo, Spawns, SpawnRequest
  <2>6. Queues(x, op)
    BY <2>5 DEF Queues
  <2>7. SendCount(m, Q)' = SendCount(m, Q) + (IF m = x /\ op \in Q THEN 1 ELSE 0)
    BY <2>6, SendCountAppend
  <2>8. Todo(m, n)' = Todo(m, n) - (IF m = x /\ n = y THEN 1 ELSE 0)
    BY <1>4, TodoNext
  <2> QED
    BY <1>2, <1>3, <2>4, <2>5, <2>7, <2>8
<1>5. ASSUME \A x \in Nodes : \A y \in Peers(x) : ~ QuitsTo(x, y) PROVE Todo(m, n)' = Todo(m, n)
  BY <1>5, TodoNext
<1>6. ASSUME Todo(m, n)' = Todo(m, n), NEW x \in Nodes, NEW op \in Own(x), op \notin Q,
             pending_send' = [pending_send EXCEPT ![x] = Append(@, op)], UNCHANGED net
      PROVE  Sum1 = Sum
  <2>1. op \in OperationType
    BY KindsAreOperations
  <2>2. Queues(x, op)
    BY <1>6 DEF Queues
  <2>3. SendCount(m, Q)' = SendCount(m, Q) + (IF m = x /\ op \in Q THEN 1 ELSE 0)
    BY <2>1, <2>2, SendCountAppend
  <2> QED
    BY <1>2, <1>3, <1>6, <2>3
<1>7. ASSUME Todo(m, n)' = Todo(m, n), NEW x \in Nodes, SendOne(x)
      PROVE  Sum1 = Sum
  <2> DEFINE h == Head(pending_send[x])
  <2>1. pending_send[x] # << >> /\ pending_send' = [pending_send EXCEPT ![x] = Tail(@)]
    BY <1>7 DEF SendOne
  <2>2. net' = [net EXCEPT ![x][h.to] = Append(@, h)] /\ call_id' = call_id
    BY <1>7 DEF SendOne, callVars
  <2>3. h \in Own(x)
    BY <2>1, <2>2, ShapePop
  <2>4. h \in OperationType /\ h.to \in Nodes /\ h.from = x
    BY <2>3, MessageEnds DEF Own
  <2>5. SendCount(m, Q)' = SendCount(m, Q) - (IF m = x /\ h \in Q THEN 1 ELSE 0)
    BY ONLY ShapeInv, <2>1, SendCountTail, Zenon
  <2> HIDE DEF h
  <2>6. PICK op \in OperationType, d \in Nodes : op = h /\ d = h.to
    BY <2>4
  <2>7. Wires(x, d, op)
    BY <2>2, <2>6 DEF Wires
  <2>8. NetCount(m, n, Q)' = NetCount(m, n, Q) + (IF m = x /\ n = d /\ op \in Q THEN 1 ELSE 0)
    BY ONLY ShapeInv, n \in Nodes, <2>7, NetCountAppend
  <2>9. op \in Q => m = x /\ n = d
    BY <2>4, <2>6 DEF Quits
  <2> QED
    BY <1>2, <1>7, <2>5, <2>6, <2>8, <2>9
<1>8. ASSUME Todo(m, n)' = Todo(m, n), NEW x \in Nodes, SendReply(x)
      PROVE  Sum1 = Sum
  <2> DEFINE h == Head(pending_reply[x])
  <2>1. /\ pending_reply[x] # << >> /\ pending_reply' = [pending_reply EXCEPT ![x] = Tail(@)]
        /\ net' = [net EXCEPT ![x][h.from] = Append(@, h)] /\ call_id' = call_id
        /\ UNCHANGED pending_send
    BY <1>8 DEF SendReply, callVars
  <2>2. h \in Asked(x)
    BY <2>1, ShapePop
  <2>3. h \in OperationType /\ h.from \in Nodes /\ h.flag = "kNormal"
    BY <2>2, MessageEnds DEF Asked
  <2> HIDE DEF h
  <2>4. PICK op \in OperationType, d \in Nodes : op = h /\ d = h.from
    BY <2>3
  <2>5. Wires(x, d, op)
    BY <2>1, <2>4 DEF Wires
  <2>6. NetCount(m, n, Q)' = NetCount(m, n, Q) + (IF m = x /\ n = d /\ op \in Q THEN 1 ELSE 0)
    BY ONLY ShapeInv, n \in Nodes, <2>5, NetCountAppend
  <2>7. op \notin Q
    BY <2>3, <2>4 DEF Quits
  <2> QED
    BY <1>2, <1>3, <1>8, <2>1, <2>6, <2>7
<1>9. ASSUME Todo(m, n)' = Todo(m, n), NEW x \in Nodes, NEW y \in Peers(x),
             HandleReceivedMessage(x, y)
      PROVE  /\ Sum1 = Sum - (IF TakesQuit(x, y) /\ x = n /\ y = m THEN 1 ELSE 0)
             /\ TakesQuit(x, y) /\ x = n /\ y = m => Sum > 0 /\ Sum1 = Sum - 1
             /\ Sum1 \in Nat
  <2>1. PICK message : message = Head(net[y][x])
    OBVIOUS
  <2>2. /\ Unwires(y, x) /\ y \in Nodes /\ message \in Message
        /\ message.flag # "kNormal" => message.from = y /\ message.to = x
    BY <1>9, <2>1, ReceivedIs DEF Unwires
  <2>3. NetCount(m, n, Q)' = NetCount(m, n, Q) - (IF m = y /\ n = x /\ message \in Q THEN 1 ELSE 0)
    BY <2>1, <2>2, NetCountTail
  <2>4. /\ message \in Q => message.flag = "kQuit" /\ y = m /\ x = n
        /\ message.flag = "kQuit" /\ y = m /\ x = n => message \in Q
    BY <2>2, MessageEnds DEF Quits
  <2>5. UNCHANGED pending_send
    BY <1>9 DEF HandleReceivedMessage
  <2>6. TakesQuit(x, y) <=> message.flag = "kQuit"
    BY <1>9, <2>1 DEF TakesQuit
  <2>7. CASE message \in Q
    <3>1. NetCount(m, n, Q) > 0
      <4>1. /\ net[y][x] \in Seq(OperationType) /\ net[y][x] # << >>
        BY <2>2 DEF ShapeInv, NetShape, Unwires
      <4>2. 1 \in 1 .. Len(net[y][x]) /\ message = net[y][x][1]
        BY <2>1, <4>1, HeadTailProperties
      <4> QED
        BY <2>4, <2>7, <4>1, <4>2, CountPositive DEF NetCount
    <3> QED
      BY <1>2, <1>3, <1>9, <2>3, <2>4, <2>5, <2>6, <2>7, <3>1
  <2>8. CASE message \notin Q
    BY <1>2, <1>3, <1>9, <2>3, <2>4, <2>5, <2>6, <2>8
  <2> QED
    BY <2>7, <2>8
<1>10. ASSUME Todo(m, n)' = Todo(m, n), NEW x \in Nodes, Close(x)
       PROVE  Sum1 \in Nat /\ Sum1 <= Sum
  <2>1. NetCount(m, n, Q)' \in Nat /\ NetCount(m, n, Q)' <= NetCount(m, n, Q)
    BY <1>10, ShapeClose
  <2>2. UNCHANGED pending_send
    BY <1>10 DEF Close
  <2> QED
    BY <1>2, <1>3, <1>10, <2>1, <2>2
<1>11. Sum \in Nat
  BY <1>2
<1>12. Sum1 \in Nat /\ Sum1 <= Sum
  <2>1. CASE \E x \in Nodes : \E y \in Peers(x) : QuitsTo(x, y)
    BY <1>4, <2>1
  <2>2. CASE ~ \E x \in Nodes : \E y \in Peers(x) : QuitsTo(x, y)
    <3>1. Todo(m, n)' = Todo(m, n)
      BY <1>5, <2>2
    <3> HIDE DEF Sum, Sum1
    <3>2. ASSUME UNCHANGED <<pending_send, net>> PROVE Sum1 = Sum
      BY <1>2, <1>3, <3>1, <3>2 DEF Sum, Sum1
    <3>3. CASE \E k \in Calls : SendRequest(k) \/ PushOperationInsert(k)
      <4>1. UNCHANGED <<pending_send, net>>
        BY <3>3 DEF SendRequest, PushOperationInsert
      <4> QED
        BY <1>11, <3>2, <4>1
    <3>4. CASE \E k \in Calls : PushOperationPush(k)
      <4>1. PICK k \in Calls : PushOperationPush(k)
        BY <3>4
      <4>2. PICK x \in Nodes : x = CallFrom[k]
        BY CallsAssumption
      <4>3. PICK op \in Own(x) : op = CallOperation(k)
        BY <4>2, OwnOperations
      <4>4. pending_send' = [pending_send EXCEPT ![x] = Append(@, op)] /\ UNCHANGED net
        BY <4>1, <4>2, <4>3 DEF PushOperationPush
      <4>5. op \notin Q
        BY <4>3, CallOperationIs DEF Quits
      <4> QED
        <5>1. Sum1 = Sum
          BY ONLY <1>6, <3>1, <4>4, <4>5, Zenon
        <5> QED
          BY <1>11, <5>1
    <3>5. CASE \E x \in Nodes : SendOne(x) \/ SendReply(x) \/ Close(x)
      BY <1>7, <1>8, <1>10, <1>11, <3>1, <3>5
    <3>6. CASE \E x \in Nodes : ReplyRequest(x)
      <4>1. UNCHANGED <<pending_send, net>>
        BY <3>6 DEF ReplyRequest
      <4> QED
        BY <1>11, <3>2, <4>1
    <3>7. CASE \E x \in Nodes : \E y \in Peers(x) : HeartbeatsTo(x, y)
      <4>0. PICK x \in Nodes : \E y \in Peers(x) : HeartbeatsTo(x, y)
        BY <3>7
      <4>1. PICK y \in Peers(x) : HeartbeatsTo(x, y)
        BY <4>0
      <4>2. PICK i \in Nat : i = request_id_counter[x]
        BY DEF ShapeInv, CallShape
      <4>3. PICK op \in Own(x) : op = Operation(x, y, i, "kHeartbeat", None)
        BY OwnOperations
      <4>4. pending_send' = [pending_send EXCEPT ![x] = Append(@, op)] /\ UNCHANGED net
        BY <4>1, <4>2, <4>3 DEF HeartbeatsTo, Spawns, SpawnRequest
      <4>5. op \notin Q
        BY <4>3 DEF Quits, Operation
      <4> QED
        <5>1. Sum1 = Sum
          BY ONLY <1>6, <3>1, <4>4, <4>5, Zenon
        <5> QED
          BY <1>11, <5>1
    <3>8. CASE \E x \in Nodes : \E y \in Peers(x) : HandleReceivedMessage(x, y)
      BY <1>9, <1>11, <3>1, <3>8
    <3>9. CASE \E x \in Nodes : StopBegin(x) \/ StopCountDown(x) \/ StopLatch(x) \/ GoesOn(x)
      <4>1. UNCHANGED <<pending_send, net>>
        BY <3>9 DEF StopBegin, StopCountDown, StopLatch, MainStep, GoesOn, Quiet
      <4> QED
        BY <1>11, <3>2, <4>1
    <3>10. CASE Quiet
      <4>1. UNCHANGED <<pending_send, net>>
        BY <3>10 DEF Quiet
      <4> QED
        BY <1>11, <3>2, <4>1
    <3> QED
      BY <2>2, <3>3, <3>4, <3>5, <3>6, <3>7, <3>8, <3>9, <3>10, StopSteps DEF PushOperation
  <2> QED
    BY <2>1, <2>2
<1>13. ASSUME TakesQuit(n, m) PROVE Sum > 0 /\ Sum1 = Sum - 1
  <2>1. HandleReceivedMessage(n, m) /\ m \in Peers(n)
    BY <1>13 DEF TakesQuit, Peers
  <2>2. main_pc' = main_pc /\ quit_peers' = quit_peers
    BY <2>1, StopLeft
  <2>3. Todo(m, n)' = Todo(m, n)
    BY <2>2 DEF Todo
  <2> QED
    BY <1>9, <1>13, <2>1, <2>3
<1> HIDE DEF Sum, Sum1
<1> QED
  BY <1>1, <1>11, <1>12, <1>13

\* The nodes that owe n a quit message become fewer, and one fewer when n handles
\* one.
LEMMA OwingNext ==
  ASSUME ShapeInv, ControlInv, StopInv, [Next]_vars, NEW n \in Nodes
  PROVE  /\ Cardinality(Owing(n)) \in Nat /\ Cardinality(Owing(n)') \in Nat
         /\ Cardinality(Owing(n)') <= Cardinality(Owing(n))
         /\ \A m \in Peers(n) : TakesQuit(n, m) =>
              Cardinality(Owing(n)') <= Cardinality(Owing(n)) - 1
<1>1. /\ Owing(n) = {m \in Peers(n) : Owed(m, n) > 0}
      /\ Owing(n)' = {m \in Peers(n) : Owed(m, n)' > 0}
  BY DEF Owing, Peers
<1>2. \A m \in Peers(n) :
        /\ Owed(m, n) \in Nat /\ Owed(m, n)' \in Nat /\ Owed(m, n)' <= Owed(m, n)
        /\ TakesQuit(n, m) => Owed(m, n) > 0 /\ Owed(m, n)' = Owed(m, n) - 1
        /\ Owed(m, n) <= 1
  <2> SUFFICES ASSUME NEW m \in Peers(n)
               PROVE  /\ Owed(m, n) \in Nat /\ Owed(m, n)' \in Nat /\ Owed(m, n)' <= Owed(m, n)
                      /\ TakesQuit(n, m) => Owed(m, n) > 0 /\ Owed(m, n)' = Owed(m, n) - 1
                      /\ Owed(m, n) <= 1
    OBVIOUS
  <2>1. m \in Nodes /\ n \in Peers(m)
    BY DEF Peers
  <2>2. Owed(m, n) <= 1
    BY DEF StopInv
  <2> QED
    BY <2>1, <2>2, OwedNext
<1>3. IsFiniteSet(Owing(n))
  <2>1. Owing(n) \subseteq Nodes
    BY <1>1 DEF Peers
  <2> QED
    BY <2>1, NodesAssumption, FS_Subset
<1>4. Owing(n)' \subseteq Owing(n)
  BY <1>1, <1>2
<1>5. /\ IsFiniteSet(Owing(n)') /\ Cardinality(Owing(n)) \in Nat
      /\ Cardinality(Owing(n)') \in Nat /\ Cardinality(Owing(n)') <= Cardinality(Owing(n))
  BY <1>3, <1>4, FS_Subset, FS_CardinalityType
<1>6. ASSUME NEW m \in Peers(n), TakesQuit(n, m)
      PROVE  Cardinality(Owing(n)') <= Cardinality(Owing(n)) - 1
  <2>1. m \in Owing(n) /\ m \notin Owing(n)'
    BY <1>1, <1>2, <1>6
  <2>2. Owing(n)' \subseteq Owing(n) \ {m}
    BY <1>4, <2>1
  <2>3. IsFiniteSet(Owing(n) \ {m}) /\ Cardinality(Owing(n) \ {m}) = Cardinality(Owing(n)) - 1
    BY <1>3, <2>1, FS_RemoveElement
  <2>4. Cardinality(Owing(n)') <= Cardinality(Owing(n) \ {m})
    BY <2>2, <2>3, FS_Subset
  <2> QED
    BY <2>3, <2>4
<1> QED
  BY <1>5, <1>6

\* The parts of StopInv that are about the threads' places only.
PlacesInv ==
  /\ \A n \in Nodes : main_pc[n] # "quits" => quit_peers[n] = {}
  /\ \A k \in Calls : main_pc[CallFrom[k]] # "run" => call_pc[k] \in {"idle", "done"}

\* No call starts on a node that is stopping.
LEMMA PlacesNext ==
  ShapeInv /\ ControlInv /\ PlacesInv /\ [Next]_vars => PlacesInv'
<1> SUFFICES ASSUME ShapeInv, ControlInv, PlacesInv, [Next]_vars PROVE PlacesInv'
  OBVIOUS
<1> USE CallsAssumption
<1>1. ASSUME NEW k \in Calls, SendRequest(k) \/ PushOperation(k) PROVE PlacesInv'
  <2>1. UNCHANGED <<main_pc, quit_peers>>
    BY <1>1, StopLeft
  <2>2. /\ \A j \in Calls : j # k => call_pc'[j] = call_pc[j]
        /\ main_pc[CallFrom[k]] = "run"
    BY <1>1 DEF SendRequest, PushOperation, PushOperationInsert, PushOperationPush, ShapeInv,
       CallShape, PlacesInv
  <2> QED
    BY <2>1, <2>2 DEF PlacesInv
<1>2. ASSUME UNCHANGED <<main_pc, quit_peers, call_pc>> PROVE PlacesInv'
  BY <1>2 DEF PlacesInv
<1>3. ASSUME NEW n \in Nodes, NEW m \in Peers(n), HandleReceivedMessage(n, m) PROVE PlacesInv'
  <2>1. UNCHANGED <<main_pc, quit_peers>>
    BY <1>3, StopLeft
  <2>2. call_pc' = call_pc \/ \A k \in Calls : call_pc'[k] \in {call_pc[k], "done"}
    BY <1>3 DEF HandleReceivedMessage, HandleQuit, HandleRequest, HandleResponse, callVars
  <2> QED
    BY <2>1, <2>2 DEF PlacesInv
<1>4. ASSUME NEW n \in Nodes, SendOne(n) \/ SendReply(n) \/ ReplyRequest(n) PROVE PlacesInv'
  BY <1>2, <1>4, StopLeft, MovesLeave
<1>5. ASSUME NEW n \in Nodes, NEW m \in Peers(n), QuitsTo(n, m) PROVE PlacesInv'
  BY <1>5 DEF QuitsTo, Spawns, callVars, PlacesInv, ControlInv
<1>6. ASSUME NEW n \in Nodes, StopBegin(n) PROVE PlacesInv'
  BY <1>6 DEF StopBegin, MainStep, MainGoto, callVars, PlacesInv, ControlInv
<1>7. ASSUME NEW n \in Nodes, StopCountDown(n) \/ StopLatch(n) \/ GoesOn(n) \/ Close(n)
      PROVE  PlacesInv'
  <2>1. /\ UNCHANGED <<quit_peers, call_pc>> /\ main_pc[n] # "run"
        /\ main_pc[n] = "quits" => quit_peers[n] = {}
        /\ \A x \in Nodes : x # n => main_pc'[x] = main_pc[x]
    BY <1>7 DEF StopCountDown, StopLatch, GoesOn, Close, MainStep, MainGoto, Quiet, callVars,
       ControlInv
  <2> QED
    BY <2>1 DEF PlacesInv
<1>8. CASE \E n \in Nodes : \E m \in Peers(n) : HeartbeatsTo(n, m)
  BY <1>2, <1>8 DEF HeartbeatsTo, Spawns, callVars
<1>9. CASE Quiet /\ UNCHANGED <<main_pc, quit_peers, quit_latch>>
  BY <1>2, <1>9 DEF Quiet, callVars
<1> QED
  BY <1>1, <1>3, <1>4, <1>5, <1>6, <1>7, <1>8, <1>9, StopSteps

\* The latch falls only with what it counts, no node that is stopping runs again,
\* and only the latch's wait leads past it.
LEMMA LatchNext ==
  ASSUME ShapeInv, ControlInv, StopInv, [Next]_vars, NEW n \in Nodes
  PROVE  /\ quit_latch'[n] >= Cardinality(Owing(n)') + (IF BeforeLatch(n)' THEN 1 ELSE 0)
         /\ main_pc[n] # "run" => main_pc'[n] # "run"
         /\ PastLatch(n)' => PastLatch(n) \/ StopLatch(n)
<1> DEFINE Goal == /\ quit_latch'[n] >= Cardinality(Owing(n)') + (IF BeforeLatch(n)' THEN 1 ELSE 0)
                   /\ main_pc[n] # "run" => main_pc'[n] # "run"
                   /\ PastLatch(n)' => PastLatch(n) \/ StopLatch(n)
<1>1. /\ quit_latch[n] \in Int
      /\ quit_latch[n] >= Cardinality(Owing(n)) + (IF BeforeLatch(n) THEN 1 ELSE 0)
  BY DEF ControlInv, StopInv
<1>2. /\ Cardinality(Owing(n)) \in Nat /\ Cardinality(Owing(n)') \in Nat
      /\ Cardinality(Owing(n)') <= Cardinality(Owing(n))
      /\ \A m \in Peers(n) : TakesQuit(n, m) =>
           Cardinality(Owing(n)') <= Cardinality(Owing(n)) - 1
  BY OwingNext
<1>3. ASSUME quit_latch'[n] = quit_latch[n], main_pc'[n] = main_pc[n] PROVE Goal
  <2>1. (BeforeLatch(n)' <=> BeforeLatch(n)) /\ (PastLatch(n)' <=> PastLatch(n))
    BY <1>3 DEF BeforeLatch, PastLatch
  <2>2. CASE BeforeLatch(n)
    BY <1>1, <1>2, <1>3, <2>1, <2>2
  <2>3. CASE ~BeforeLatch(n)
    BY <1>1, <1>2, <1>3, <2>1, <2>3
  <2> QED
    BY <2>2, <2>3
<1>4. ASSUME quit_latch'[n] = quit_latch[n],
             \/ main_pc[n] = "run" /\ main_pc'[n] = "quits"
             \/ main_pc[n] = "quits" /\ main_pc'[n] = "count"
      PROVE  Goal
  BY <1>1, <1>2, <1>4 DEF BeforeLatch, PastLatch
<1>5. ASSUME quit_latch'[n] = quit_latch[n], ~BeforeLatch(n), PastLatch(n) \/ StopLatch(n),
             main_pc'[n] \in {"empty", "join", "done", "closed"}
      PROVE  Goal
  BY <1>1, <1>2, <1>5 DEF BeforeLatch
<1>6. ASSUME NEW x \in Nodes, NEW y \in Peers(x), HandleReceivedMessage(x, y) PROVE Goal
  <2>1. /\ main_pc' = main_pc
        /\ quit_latch' = IF Head(net[y][x]).flag = "kQuit"
                         THEN [quit_latch EXCEPT ![x] = @ - 1] ELSE quit_latch
    BY <1>6, StopLeft
  <2>2. CASE x = n /\ Head(net[y][x]).flag = "kQuit"
    <3>1. TakesQuit(n, y) /\ y \in Peers(n)
      BY <1>6, <2>2 DEF TakesQuit
    <3>2. Cardinality(Owing(n)') <= Cardinality(Owing(n)) - 1
      BY <1>2, <3>1
    <3>3. quit_latch'[n] = quit_latch[n] - 1
      BY <2>1, <2>2 DEF ControlInv
    <3>4. (BeforeLatch(n)' <=> BeforeLatch(n)) /\ (PastLatch(n)' <=> PastLatch(n))
      BY <2>1 DEF BeforeLatch, PastLatch
    <3>5. CASE BeforeLatch(n)
      BY <1>1, <1>2, <2>1, <3>2, <3>3, <3>4, <3>5
    <3>6. CASE ~BeforeLatch(n)
      BY <1>1, <1>2, <2>1, <3>2, <3>3, <3>4, <3>6
    <3> QED
      BY <3>5, <3>6
  <2>3. CASE ~ (x = n /\ Head(net[y][x]).flag = "kQuit")
    <3>1. quit_latch'[n] = quit_latch[n]
      BY <2>1, <2>3 DEF ControlInv
    <3> QED
      BY <1>3, <2>1, <3>1
  <2> QED
    BY <2>2, <2>3
<1>7. ASSUME NEW x \in Nodes, StopCountDown(x) PROVE Goal
  <2>1. CASE x = n
    <3>1. main_pc[n] = "count" /\ main_pc'[n] = "latch" /\ quit_latch'[n] = quit_latch[n] - 1
      BY <1>7, <2>1 DEF StopCountDown, MainStep, MainGoto, ControlInv
    <3> QED
      BY <1>1, <1>2, <3>1 DEF BeforeLatch, PastLatch
  <2>2. CASE x # n
    <3>1. quit_latch'[n] = quit_latch[n] /\ main_pc'[n] = main_pc[n]
      BY <1>7, <2>2 DEF StopCountDown, MainStep, MainGoto, ControlInv
    <3> QED
      BY <1>3, <3>1
  <2> QED
    BY <2>1, <2>2
<1>8. ASSUME NEW x \in Nodes, StopBegin(x) PROVE Goal
  <2>1. /\ quit_latch'[n] = quit_latch[n] /\ main_pc[x] = "run"
        /\ main_pc'[n] = IF n = x THEN "quits" ELSE main_pc[n]
    BY <1>8 DEF StopBegin, MainStep, MainGoto, ControlInv
  <2> QED
    BY <1>3, <1>4, <2>1
<1>9. ASSUME NEW x \in Nodes, StopLatch(x) PROVE Goal
  <2>1. /\ quit_latch'[n] = quit_latch[n] /\ main_pc[x] = "latch"
        /\ main_pc'[n] = IF n = x THEN "empty" ELSE main_pc[n]
    BY <1>9 DEF StopLatch, MainStep, MainGoto, ControlInv
  <2>2. CASE n = x
    <3>1. ~BeforeLatch(n) /\ StopLatch(n)
      BY <1>9, <2>1, <2>2 DEF BeforeLatch
    <3> QED
      BY <1>5, <2>1, <2>2, <3>1
  <2> QED
    BY <1>3, <2>1, <2>2
<1>10. ASSUME NEW x \in Nodes, GoesOn(x) \/ Close(x) PROVE Goal
  <2>1. /\ quit_latch'[n] = quit_latch[n] /\ (n # x => main_pc'[n] = main_pc[n])
        /\ \/ main_pc[x] = "quits" /\ main_pc'[x] = "count"
           \/ main_pc[x] \in {"empty", "join", "done"} /\ main_pc'[x] \in {"join", "done", "closed"}
    BY <1>10 DEF GoesOn, Close, MainGoto, stopVars, ControlInv
  <2>2. CASE n = x /\ main_pc[x] = "quits"
    BY <1>4, <2>1, <2>2
  <2>3. CASE n = x /\ main_pc[x] \in {"empty", "join", "done"}
    <3>1. PastLatch(n) /\ ~BeforeLatch(n)
      BY <2>3 DEF PastLatch, BeforeLatch
    <3> QED
      BY <1>5, <2>1, <2>3, <3>1
  <2> QED
    BY <1>3, <2>1, <2>2, <2>3
<1>11. ASSUME UNCHANGED <<main_pc, quit_latch>> PROVE Goal
  BY <1>3, <1>11
<1>12. CASE \E k \in Calls : SendRequest(k) \/ PushOperation(k)
  BY <1>11, <1>12, StopLeft
<1>13. CASE \E x \in Nodes : SendOne(x) \/ SendReply(x) \/ ReplyRequest(x) \/ Close(x)
  <2>1. CASE \E x \in Nodes : Close(x)
    BY <1>10, <2>1
  <2>2. CASE \E x \in Nodes : SendOne(x) \/ SendReply(x) \/ ReplyRequest(x)
    <3>1. UNCHANGED <<main_pc, quit_peers, quit_latch>>
      BY ONLY <2>2, StopLeft
    <3> QED
      BY <1>11, <3>1
  <2> QED
    BY <1>13, <2>1, <2>2
<1>14. CASE \E x \in Nodes : \E y \in Peers(x) : HeartbeatsTo(x, y) \/ QuitsTo(x, y)
  BY <1>11, <1>14 DEF HeartbeatsTo, QuitsTo
<1>15. CASE Quiet /\ UNCHANGED <<main_pc, quit_peers, quit_latch>>
  BY <1>11, <1>15
<1>16. CASE \E x \in Nodes : \E y \in Peers(x) : HandleReceivedMessage(x, y)
  BY <1>6, <1>16
<1>17. CASE \E x \in Nodes : StopBegin(x) \/ StopCountDown(x) \/ StopLatch(x) \/ GoesOn(x)
  BY <1>7, <1>8, <1>9, <1>10, <1>17
<1> QED
  BY <1>12, <1>13, <1>14, <1>15, <1>16, <1>17, StopSteps

\* A node past its latch knows that every node is stopping.
LEMMA LatchOpen ==
  ASSUME ShapeInv, ControlInv, StopInv, [Next]_vars, NEW n \in Nodes, StopLatch(n)
  PROVE  \A m \in Nodes : main_pc[m] # "run"
<1>1. quit_latch[n] = 0 /\ main_pc[n] = "latch"
  BY DEF StopLatch, MainStep
<1>2. Cardinality(Owing(n)) \in Nat
  BY OwingNext
<1>3. Cardinality(Owing(n)) = 0
  <2>1. quit_latch[n] >= Cardinality(Owing(n)) + (IF BeforeLatch(n) THEN 1 ELSE 0)
    BY DEF StopInv
  <2>2. ~BeforeLatch(n)
    BY <1>1 DEF BeforeLatch
  <2> QED
    BY <1>1, <1>2, <2>1, <2>2
<1>4. Owing(n) = {}
  <2>1. Owing(n) \subseteq Nodes
    BY DEF Owing, Peers
  <2>2. IsFiniteSet(Owing(n))
    BY <2>1, NodesAssumption, FS_Subset
  <2> QED
    BY <1>3, <2>2, FS_EmptySet
<1>5. ASSUME NEW m \in Nodes, m # n, main_pc[m] = "run" PROVE FALSE
  <2>1. m \in Peers(n) /\ n \in Peers(m)
    BY <1>5 DEF Peers
  <2>2. Owed(m, n) <= 0
    <3>1. Owed(m, n) \in Nat
      BY <2>1, OwedNext
    <3> QED
      BY <1>4, <2>1, <3>1 DEF Owing
  <2>3. PICK Q : Q = Quits(m, n)
    OBVIOUS
  <2>4. SendCount(m, Q) \in Nat /\ NetCount(m, n, Q) \in Nat
    BY CountsType
  <2>5. Todo(m, n) = 1
    BY <1>5 DEF Todo
  <2>6. Owed(m, n) = Todo(m, n) + SendCount(m, Q) + NetCount(m, n, Q)
    BY <2>3 DEF Owed
  <2> QED
    BY <2>2, <2>4, <2>5, <2>6
<1> QED
  BY <1>1, <1>5

\* Every step keeps the account of the latches.
LEMMA StopNext ==
  ShapeInv /\ ControlInv /\ StopInv /\ [Next]_vars => StopInv'
<1> SUFFICES ASSUME ShapeInv, ControlInv, StopInv, [Next]_vars PROVE StopInv'
  OBVIOUS
<1>1. PlacesInv'
  BY PlacesNext DEF StopInv, PlacesInv
<1>2. \A n \in Nodes : \A m \in Peers(n) : Owed(m, n)' <= 1
  <2> SUFFICES ASSUME NEW n \in Nodes, NEW m \in Peers(n) PROVE Owed(m, n)' <= 1
    OBVIOUS
  <2>1. m \in Nodes /\ n \in Peers(m)
    BY DEF Peers
  <2>2. Owed(m, n) \in Nat /\ Owed(m, n)' \in Nat /\ Owed(m, n)' <= Owed(m, n)
    BY <2>1, OwedNext
  <2>3. Owed(m, n) <= 1
    BY DEF StopInv
  <2> QED
    BY <2>2, <2>3
<1>3. \A n \in Nodes :
        quit_latch'[n] >= Cardinality(Owing(n)') + (IF BeforeLatch(n)' THEN 1 ELSE 0)
  BY LatchNext
<1>4. \A n \in Nodes : PastLatch(n)' => \A m \in Nodes : main_pc'[m] # "run"
  <2> SUFFICES ASSUME NEW n \in Nodes, PastLatch(n)', NEW m \in Nodes PROVE main_pc'[m] # "run"
    OBVIOUS
  <2>1. PastLatch(n) \/ StopLatch(n)
    BY LatchNext
  <2>2. main_pc[m] # "run"
    BY <2>1, LatchOpen DEF StopInv
  <2> QED
    BY <2>2, LatchNext
<1>5. \A n \in Nodes :
        quit_latch'[n] >= Cardinality(Owing(n))' + (IF BeforeLatch(n)' THEN 1 ELSE 0)
  BY <1>3
<1> QED
  BY <1>1, <1>2, <1>4, <1>5 DEF StopInv, PlacesInv, Peers

-----------------------------------------------------------------------------
(* The scope of the spawned requests.                                      *)

\* The steps as far as the scope is concerned.
LEMMA ScopeSteps ==
  ASSUME ControlInv, [Next]_vars
  PROVE  \/ \E k \in Calls : PushOperationPush(k)
         \/ \E n \in Nodes : SendOne(n) \/ SendFlag(n)
         \/ \E n \in Nodes : \E m \in Peers(n) : \E f \in {"kQuit", "kHeartbeat"} :
              /\ Spawns(n, m, f) /\ \A x \in Nodes : InHand(x)' = InHand(x)
              /\ f = "kQuit" => main_pc[n] = "quits" /\ main_pc' = main_pc
              /\ f = "kHeartbeat" => send_pc[n] = "spawn" /\ main_pc' = main_pc
         \/ UNCHANGED <<async_scope, pending_send>> /\ \A x \in Nodes : InHand(x)' = InHand(x)
<1> DEFINE Same == UNCHANGED <<async_scope, pending_send>> /\ \A x \in Nodes : InHand(x)' = InHand(x)
<1>1. ASSUME UNCHANGED <<send_pc, send_op>> PROVE \A x \in Nodes : InHand(x)' = InHand(x)
  BY <1>1 DEF InHand
<1>2. ASSUME NEW n \in Nodes, NEW l, SendGoto(n, l), send_pc[n] # "flag", l # "flag",
             UNCHANGED send_op
      PROVE  \A x \in Nodes : InHand(x)' = InHand(x)
  BY <1>2 DEF SendGoto, InHand, ControlInv
<1>3. ASSUME NEW k \in Calls, SendRequest(k) \/ PushOperationInsert(k) PROVE Same
  <2>1. UNCHANGED <<async_scope, pending_send, send_pc, send_op>>
    BY <1>3 DEF SendRequest, PushOperationInsert, sendVars, stopVars
  <2> QED
    BY <1>1, <2>1
<1>4. ASSUME NEW n \in Nodes, SendTop(n) \/ SendsEmpty(n) \/ RepliesEmpty(n) \/ HeartbeatTest(n)
      PROVE  Same
  <2>1. /\ UNCHANGED <<async_scope, pending_send, send_op>> /\ send_pc[n] # "flag"
        /\ \E l \in {"exited", "sends", "replies", "heartbeat", "spawn", "top"} : SendGoto(n, l)
    BY <1>4 DEF SendTop, SendsEmpty, RepliesEmpty, HeartbeatTest, SendMove, stopVars
  <2> QED
    BY <1>2, <2>1
<1>5. ASSUME NEW n \in Nodes, HeartbeatSpawn(n)
      PROVE  \/ Same
             \/ \E m \in Peers(n) : /\ Spawns(n, m, "kHeartbeat")
                                    /\ \A x \in Nodes : InHand(x)' = InHand(x)
                                    /\ send_pc[n] = "spawn" /\ main_pc' = main_pc
  <2>1. /\ send_pc[n] = "spawn" /\ UNCHANGED <<callVars, pending_reply, recvVars, net, failed>>
        /\ UNCHANGED <<send_op, main_pc>>
    BY <1>5 DEF HeartbeatSpawn, mainVars
  <2>2. ASSUME NEW m \in send_peers[n], SpawnRequest(n, m, "kHeartbeat"), UNCHANGED send_pc
        PROVE  /\ m \in Peers(n) /\ Spawns(n, m, "kHeartbeat")
               /\ \A x \in Nodes : InHand(x)' = InHand(x)
    BY <1>1, <2>1, <2>2 DEF Spawns, ControlInv
  <2>3. ASSUME SendGoto(n, "top"), UNCHANGED <<pending_send, async_scope>> PROVE Same
    BY <1>2, <2>1, <2>3
  <2> QED
    BY <1>5, <2>1, <2>2, <2>3 DEF HeartbeatSpawn
<1>6. ASSUME NEW n \in Nodes, StopQuit(n)
      PROVE  \/ Same
             \/ \E m \in Peers(n) : /\ Spawns(n, m, "kQuit")
                                    /\ \A x \in Nodes : InHand(x)' = InHand(x)
                                    /\ main_pc[n] = "quits" /\ main_pc' = main_pc
  <2>1. /\ main_pc[n] = "quits" /\ UNCHANGED <<callVars, pending_reply, recvVars, net, failed>>
        /\ UNCHANGED <<send_pc, send_op>>
    BY <1>6 DEF StopQuit, sendVars
  <2>2. ASSUME NEW m \in quit_peers[n], SpawnRequest(n, m, "kQuit")
        PROVE  m \in Peers(n) /\ Spawns(n, m, "kQuit")
    BY <2>1, <2>2 DEF Spawns, ControlInv
  <2> QED
    BY <1>1, <1>6, <2>1, <2>2 DEF StopQuit
<1>7. ASSUME NEW n \in Nodes, NEW m \in Peers(n), HandleReceivedMessage(n, m) PROVE Same
  <2>1. UNCHANGED <<async_scope, pending_send, send_pc, send_op>>
    BY <1>7 DEF HandleReceivedMessage, HandleQuit, HandleResponse, HandleRequest, sendVars, stopVars
  <2> QED
    BY <1>1, <2>1
<1>8. ASSUME NEW n \in Nodes,
             \/ SendReply(n) \/ ReceiveExit(n) \/ ReplyRequest(n) \/ StopBegin(n)
             \/ StopCountDown(n) \/ StopLatch(n) \/ StopEmpty(n) \/ StopJoin(n) \/ Close(n)
      PROVE  Same
  <2>1. /\ SendReply(n) => UNCHANGED <<async_scope, pending_send, send_pc, send_op>>
        /\ ReceiveExit(n) => UNCHANGED <<async_scope, pending_send, send_pc, send_op>>
        /\ ReplyRequest(n) => UNCHANGED <<async_scope, pending_send, send_pc, send_op>>
        /\ Close(n) => UNCHANGED <<async_scope, pending_send, send_pc, send_op>>
    BY DEF SendReply, ReceiveExit, ReplyRequest, Close, sendVars, stopVars
  <2>2. StopBegin(n) \/ StopCountDown(n) \/ StopLatch(n) \/ StopEmpty(n) \/ StopJoin(n) =>
          UNCHANGED <<async_scope, pending_send, send_pc, send_op>>
    BY DEF StopBegin, StopCountDown, StopLatch, StopEmpty, StopJoin, MainStep, sendVars
  <2> QED
    BY <1>1, <1>8, <2>1, <2>2
<1>9. CASE UNCHANGED vars
  <2>1. UNCHANGED <<async_scope, pending_send, send_pc, send_op>>
    BY <1>9 DEF vars, sendVars, stopVars
  <2> QED
    BY <1>1, <2>1
<1>10. CASE Next
  <2>1. CASE \E k \in Calls : SendRequest(k) \/ PushOperation(k)
    BY <2>1, <1>3 DEF PushOperation
  <2>2. CASE \E n \in Nodes : SendProcessLoop(n)
    <3>1. PICK n \in Nodes : SendProcessLoop(n)
      BY <2>2
    <3>2. CASE HeartbeatSpawn(n)
      BY <1>5, <3>2
    <3> QED
      BY <3>1, <3>2, <1>4, <1>8 DEF SendProcessLoop
  <2>3. CASE \E n \in Nodes : \E m \in Peers(n) : HandleReceivedMessage(n, m)
    BY <2>3, <1>7
  <2>4. CASE \E n \in Nodes : ReceiveExit(n) \/ ReplyRequest(n) \/ StopBegin(n)
    BY <2>4, <1>8
  <2>5. CASE \E n \in Nodes : ClusterAlignedStop(n)
    <3>1. PICK n \in Nodes : ClusterAlignedStop(n)
      BY <2>5
    <3>2. CASE StopQuit(n)
      BY <1>6, <3>2
    <3> QED
      BY <3>1, <3>2, <1>8 DEF ClusterAlignedStop
  <2> QED
    BY <1>10, <2>1, <2>2, <2>3, <2>4, <2>5 DEF Next
<1> QED
  BY <1>9, <1>10

\* What happens to the queued operations in C and to the scope.
LEMMA ScopeCounts ==
  ASSUME ShapeInv, NEW C, NEW x \in Nodes
  PROVE  /\ \A k \in Calls : PushOperationPush(k) /\ C \subseteq Spawned =>
              SendCount(x, C)' = SendCount(x, C)
         /\ \A n \in Nodes : SendOne(n) =>
              /\ Head(pending_send[n]) \in OperationType
              /\ SendCount(x, C)' = SendCount(x, C)
                   - (IF x = n /\ Head(pending_send[n]) \in C THEN 1 ELSE 0)
         /\ \A n \in Nodes : \A m \in Peers(n) : \A f \in {"kQuit", "kHeartbeat"} :
              Spawns(n, m, f) => \E op \in Spawned : op.flag = f /\
                SendCount(x, C)' = SendCount(x, C) + (IF x = n /\ op \in C THEN 1 ELSE 0)
<1>1. SendCount(x, C) \in Nat
  BY CountsType
<1>2. ASSUME NEW k \in Calls, PushOperationPush(k), C \subseteq Spawned
      PROVE  SendCount(x, C)' = SendCount(x, C)
  <2>1. PICK n \in Nodes : n = CallFrom[k]
    BY CallsAssumption
  <2>2. PICK op \in OperationType : op = CallOperation(k)
    <3>1. CallOperation(k) \in OperationType
      BY OwnOperations, KindsAreOperations
    <3> QED
      BY ONLY <3>1, Zenon
  <2>3. Queues(n, op)
    BY <1>2, <2>1, <2>2 DEF PushOperationPush, Queues
  <2>4. SendCount(x, C)' = SendCount(x, C) + (IF x = n /\ op \in C THEN 1 ELSE 0)
    BY <2>3, SendCountAppend
  <2>5. op \notin C
    BY <1>2, <2>2, CallOperationIs DEF Spawned
  <2> QED
    BY <1>1, <2>4, <2>5
<1>3. ASSUME NEW n \in Nodes, SendOne(n)
      PROVE  /\ Head(pending_send[n]) \in OperationType
             /\ SendCount(x, C)' = SendCount(x, C)
                  - (IF x = n /\ Head(pending_send[n]) \in C THEN 1 ELSE 0)
  <2>1. pending_send[n] # << >> /\ pending_send' = [pending_send EXCEPT ![n] = Tail(@)]
    BY <1>3 DEF SendOne
  <2>2. Head(pending_send[n]) \in OperationType
    BY <2>1, QueueKept DEF ShapeInv, SendShape
  <2>3. SendCount(x, C)' = SendCount(x, C)
          - (IF x = n /\ Head(pending_send[n]) \in C THEN 1 ELSE 0)
    BY ONLY ShapeInv, <2>1, SendCountTail, Zenon
  <2> QED
    BY <2>2, <2>3
<1>4. ASSUME NEW n \in Nodes, NEW m \in Peers(n), NEW f \in {"kQuit", "kHeartbeat"},
             Spawns(n, m, f)
      PROVE  \E op \in Spawned : op.flag = f /\
               SendCount(x, C)' = SendCount(x, C) + (IF x = n /\ op \in C THEN 1 ELSE 0)
  <2>1. PICK i \in Nat : i = request_id_counter[n]
    BY DEF ShapeInv, CallShape
  <2>2. Operation(n, m, i, f, None) \in Own(n)
    BY OwnOperations
  <2>3. PICK op \in OperationType : op = Operation(n, m, i, f, None)
    BY <2>2, KindsAreOperations
  <2>4. op.flag = f /\ op \in Spawned
    BY <2>3 DEF Operation, Spawned
  <2>5. Queues(n, op)
    BY <1>4, <2>1, <2>3 DEF Spawns, SpawnRequest, Queues
  <2>6. SendCount(x, C)' = SendCount(x, C) + (IF x = n /\ op \in C THEN 1 ELSE 0)
    BY <2>5, SendCountAppend
  <2> QED
    BY <2>4, <2>6
<1> QED
  BY <1>2, <1>3, <1>4

\* What SendFlag does to the scope.
LEMMA FlagStep ==
  ASSUME ControlInv, NEW n \in Nodes, SendFlag(n), NEW x \in Nodes
  PROVE  /\ async_scope'[x] = async_scope[x] - (IF x = n THEN InHand(n) ELSE 0)
         /\ InHand(x)' = (IF x = n THEN 0 ELSE InHand(x))
         /\ UNCHANGED <<pending_send, main_pc>>
<1>1. /\ send_pc[n] = "flag"
      /\ send_pc' = [send_pc EXCEPT ![n] = "sends"] /\ send_op' = [send_op EXCEPT ![n] = None]
      /\ async_scope' = IF send_op[n].flag = "kNormal" THEN async_scope
                        ELSE [async_scope EXCEPT ![n] = @ - 1]
      /\ UNCHANGED <<pending_send, main_pc>>
  BY DEF SendFlag, SendGoto, mainVars
<1>2. async_scope \in [Nodes -> Int] /\ async_scope[x] \in Int
  BY DEF ControlInv
<1>3. InHand(x)' = (IF x = n THEN 0 ELSE InHand(x))
  BY <1>1 DEF InHand, ControlInv
<1>4. CASE send_op[n].flag = "kNormal"
  <2>1. InHand(n) = 0 /\ async_scope' = async_scope
    BY <1>1, <1>4 DEF InHand
  <2> QED
    BY <1>1, <1>2, <1>3, <2>1
<1>5. CASE send_op[n].flag # "kNormal"
  <2>1. InHand(n) = 1 /\ async_scope' = [async_scope EXCEPT ![n] = @ - 1]
    BY <1>1, <1>5 DEF InHand
  <2> QED
    BY <1>1, <1>2, <1>3, <2>1
<1> QED
  BY <1>4, <1>5

\* Every step keeps the scope equal to the operations it waits for.
LEMMA ScopeNext ==
  ShapeInv /\ ControlInv /\ ScopeInv /\ [Next]_vars => ScopeInv'
<1> SUFFICES ASSUME ShapeInv, ControlInv, ScopeInv, [Next]_vars, NEW x \in Nodes
             PROVE  async_scope'[x] = SendCount(x, Spawned)' + InHand(x)'
  BY DEF ScopeInv
<1>0. PICK C : C = Spawned
  OBVIOUS
<1>1. /\ async_scope[x] = SendCount(x, C) + InHand(x) /\ async_scope[x] \in Int
      /\ SendCount(x, C) \in Nat /\ InHand(x) \in {0, 1}
  BY <1>0, CountsType DEF ScopeInv, ControlInv, InHand
<1>2. SUFFICES async_scope'[x] = SendCount(x, C)' + InHand(x)'
  BY <1>0 DEF Spawned, OperationType
<1>3. CASE \E k \in Calls : PushOperationPush(k)
  <2>1. PICK k \in Calls : PushOperationPush(k)
    BY <1>3
  <2>2. SendCount(x, C)' = SendCount(x, C)
    BY <1>0, <2>1, ScopeCounts
  <2>3. UNCHANGED <<async_scope, send_pc, send_op>>
    BY <2>1 DEF PushOperationPush, sendVars, stopVars
  <2> QED
    BY <1>1, <2>2, <2>3 DEF InHand
<1>4. CASE \E n \in Nodes : SendOne(n)
  <2>1. PICK n \in Nodes : SendOne(n)
    BY <1>4
  <2>2. /\ Head(pending_send[n]) \in OperationType
        /\ SendCount(x, C)' = SendCount(x, C)
             - (IF x = n /\ Head(pending_send[n]) \in C THEN 1 ELSE 0)
    BY <2>1, ScopeCounts
  <2>3. PICK op \in OperationType : op = Head(pending_send[n])
    BY <2>2
  <2>4. /\ send_pc[n] = "sends" /\ UNCHANGED async_scope
        /\ send_pc' = [send_pc EXCEPT ![n] = "flag"] /\ send_op' = [send_op EXCEPT ![n] = op]
    BY <2>1, <2>3 DEF SendOne, SendGoto, stopVars
  <2>5. op \in C <=> op.flag # "kNormal"
    BY <1>0 DEF Spawned
  <2>6. CASE x = n
    <3>1. InHand(x) = 0 /\ InHand(x)' = IF op.flag # "kNormal" THEN 1 ELSE 0
      BY <2>4, <2>6 DEF InHand, ControlInv
    <3>2. CASE op \in C
      BY <1>1, <2>2, <2>3, <2>4, <2>5, <2>6, <3>1, <3>2
    <3>3. CASE op \notin C
      BY <1>1, <2>2, <2>3, <2>4, <2>5, <2>6, <3>1, <3>3
    <3> QED
      BY <3>2, <3>3
  <2>7. CASE x # n
    <3>1. InHand(x)' = InHand(x)
      BY <2>4, <2>7 DEF InHand, ControlInv
    <3> QED
      BY <1>1, <2>2, <2>4, <2>7, <3>1
  <2> QED
    BY <2>6, <2>7
<1>5. CASE \E n \in Nodes : SendFlag(n)
  <2>1. PICK n \in Nodes : SendFlag(n)
    BY <1>5
  <2>2. /\ async_scope'[x] = async_scope[x] - (IF x = n THEN InHand(n) ELSE 0)
        /\ InHand(x)' = (IF x = n THEN 0 ELSE InHand(x))
        /\ UNCHANGED pending_send
    BY <2>1, FlagStep
  <2>3. SendCount(x, C)' = SendCount(x, C)
    BY <2>2 DEF SendCount
  <2>4. CASE x = n
    BY <1>1, <2>2, <2>3, <2>4
  <2>5. CASE x # n
    BY <1>1, <2>2, <2>3, <2>5
  <2> QED
    BY <2>4, <2>5
<1>6. ASSUME NEW n \in Nodes, NEW m \in Peers(n), NEW f \in {"kQuit", "kHeartbeat"},
             Spawns(n, m, f), \A y \in Nodes : InHand(y)' = InHand(y)
      PROVE  async_scope'[x] = SendCount(x, C)' + InHand(x)'
  <2>1. PICK op \in Spawned :
          SendCount(x, C)' = SendCount(x, C) + (IF x = n /\ op \in C THEN 1 ELSE 0)
    BY <1>6, ScopeCounts
  <2>2. async_scope' = [async_scope EXCEPT ![n] = @ + 1]
    BY <1>6 DEF Spawns, SpawnRequest
  <2>3. async_scope'[x] = async_scope[x] + (IF x = n THEN 1 ELSE 0)
    BY <1>1, <2>2 DEF ControlInv
  <2>4. op \in C
    BY <1>0
  <2>5. CASE x = n
    BY <1>1, <1>6, <2>1, <2>3, <2>4, <2>5
  <2>6. CASE x # n
    BY <1>1, <1>6, <2>1, <2>3, <2>4, <2>6
  <2> QED
    BY <2>5, <2>6
<1>7. CASE UNCHANGED <<async_scope, pending_send>> /\ \A y \in Nodes : InHand(y)' = InHand(y)
  <2>1. SendCount(x, C)' = SendCount(x, C)
    BY <1>7 DEF SendCount
  <2> QED
    BY <1>1, <1>7, <2>1
<1> QED
  BY <1>3, <1>4, <1>5, <1>6, <1>7, ScopeSteps

-----------------------------------------------------------------------------
(* The inductive invariant and the theorems.                               *)

\* When the broker is constructed every queue is empty and every latch counts
\* all the nodes.
LEMMA InitInv == Init => BrokerInv
<1> SUFFICES ASSUME Init PROVE BrokerInv
  OBVIOUS
<1> USE CallsAssumption DEF Init, EstablishConnections
<1>1. ShapeInv
  <2>1. \A S : << >> \in Seq(S)
    OBVIOUS
  <2>2. CallShape
    BY DEF CallShape
  <2>3. OperationsShape /\ ReceivedShape
    BY DEF OperationsShape, ReceivedShape
  <2>4. SendShape /\ ReplyShape /\ NetShape
    BY <2>1 DEF SendShape, ReplyShape, NetShape
  <2> QED
    BY <2>2, <2>3, <2>4 DEF ShapeInv
<1>2. LatchSize \in Nat
  BY NodesAssumption, FS_CardinalityType DEF LatchSize
<1>3. ControlInv
  BY <1>2 DEF ControlInv
<1>4. IdsInv
  BY DEF IdsInv
<1>5. /\ \A n \in Nodes : \A C : SendCount(n, C) = 0 /\ ReplyCount(n, C) = 0 /\ ReceivedCount(n, C) = 0
      /\ \A a, b \in Nodes : \A C : NetCount(a, b, C) = 0
  <2>1. \A n \in Nodes : \A C : ReceivedWith(n, C) = {}
    BY DEF ReceivedWith
  <2> QED
    BY <2>1, CountEmpty, FS_EmptySet DEF SendCount, ReplyCount, ReceivedCount, NetCount
<1>6. FlightInv
  <2>1. \A n \in Nodes : IsFiniteSet(received[n]) /\ received[n] = {}
    BY FS_EmptySet
  <2>2. \A k \in Calls : Flight(k) = 0
    BY <1>5 DEF Flight
  <2> QED
    BY <2>1, <2>2 DEF FlightInv
<1>7. ReplyInv
  BY DEF ReplyInv, ResponseFindsOperation, OwnReply
<1>8. StopInv
  <2>1. ASSUME NEW n \in Nodes, NEW m \in Peers(n) PROVE Owed(m, n) = 1
    <3>1. m \in Nodes /\ Todo(m, n) = 1
      BY DEF Peers, Todo
    <3> QED
      BY <1>5, <3>1 DEF Owed
  <2>2. ASSUME NEW n \in Nodes
        PROVE  quit_latch[n] >= Cardinality(Owing(n)) + (IF BeforeLatch(n) THEN 1 ELSE 0)
    <3>1. Owing(n) = Nodes \ {n}
      BY <2>1 DEF Owing, Peers
    <3>2. Cardinality(Nodes \ {n}) = Cardinality(Nodes) - 1 /\ Cardinality(Nodes) \in Nat
      BY NodesAssumption, FS_RemoveElement, FS_CardinalityType
    <3>3. quit_latch[n] = Cardinality(Nodes) /\ BeforeLatch(n)
      BY DEF LatchSize, BeforeLatch
    <3> QED
      BY <3>1, <3>2, <3>3
  <2> QED
    BY <2>1, <2>2 DEF StopInv, PastLatch
<1>9. ScopeInv
  BY <1>5 DEF ScopeInv, InHand
<1> QED
  BY <1>1, <1>3, <1>4, <1>6, <1>7, <1>8, <1>9 DEF BrokerInv

\* Every step keeps the invariant.
LEMMA BrokerStep == BrokerInv /\ [Next]_vars => BrokerInv'
<1> SUFFICES ASSUME ShapeInv, ControlInv, IdsInv, FlightInv, ReplyInv, StopInv, ScopeInv,
                    [Next]_vars
             PROVE  BrokerInv'
  BY DEF BrokerInv
<1>1. ShapeInv' /\ ControlInv' /\ IdsInv'
  BY ShapeNext, ControlNext, IdsNext
<1>2. FlightInv' /\ ReplyInv'
  BY FlightNext, RepliesNext
<1>3. StopInv' /\ ScopeInv'
  BY StopNext, ScopeNext
<1> QED
  BY <1>1, <1>2, <1>3 DEF BrokerInv

\* The invariant holds of every reachable state of the brokers.
LEMMA BrokerInvariant == Spec => []BrokerInv
BY InitInv, BrokerStep, PTL DEF Spec

\* What the counts say of the latch and the scope: neither is ever negative.
LEMMA CountersNatural ==
  ASSUME BrokerInv
  PROVE  quit_latch \in [Nodes -> Nat] /\ async_scope \in [Nodes -> Nat]
<1> USE DEF BrokerInv
<1>1. quit_latch \in [Nodes -> Int] /\ async_scope \in [Nodes -> Int]
  BY DEF ControlInv
<1>2. ASSUME NEW n \in Nodes PROVE quit_latch[n] >= 0
  <2>1. Owing(n) \subseteq Nodes
    BY DEF Owing, Peers
  <2>2. Cardinality(Owing(n)) \in Nat
    BY <2>1, NodesAssumption, FS_Subset, FS_CardinalityType
  <2>3. /\ quit_latch[n] \in Int
        /\ quit_latch[n] >= Cardinality(Owing(n)) + (IF BeforeLatch(n) THEN 1 ELSE 0)
    BY <1>1 DEF StopInv
  <2> QED
    BY <2>2, <2>3
<1>3. ASSUME NEW n \in Nodes PROVE async_scope[n] >= 0
  <2>1. SendCount(n, Spawned) \in Nat /\ InHand(n) \in {0, 1}
    BY CountsType DEF InHand
  <2>2. async_scope[n] = SendCount(n, Spawned) + InHand(n)
    BY DEF ScopeInv
  <2> QED
    BY <2>1, <2>2
<1>4. \A n \in Nodes : quit_latch[n] \in Nat /\ async_scope[n] \in Nat
  BY <1>1, <1>2, <1>3
<1> QED
  BY <1>1, <1>4

\* The flag of the model that records an exception is a truth value.
LEMMA FailedType == BrokerInv /\ failed \in BOOLEAN /\ [Next]_vars => failed' \in BOOLEAN
<1> SUFFICES ASSUME ControlInv, failed \in BOOLEAN, [Next]_vars PROVE failed' \in BOOLEAN
  BY DEF BrokerInv
<1>1. CASE \E k \in Calls : SendRequest(k) \/ PushOperation(k)
  BY <1>1 DEF SendRequest, PushOperation, PushOperationInsert, PushOperationPush
<1>2. CASE \E n \in Nodes : SendOne(n) \/ SendReply(n) \/ ReplyRequest(n) \/ Close(n)
  BY <1>2, MovesLeave
<1>3. CASE \E n \in Nodes : \E m \in Peers(n) : \E f \in {"kQuit", "kHeartbeat"} : Spawns(n, m, f)
  BY <1>3 DEF Spawns
<1>4. CASE \E n \in Nodes : \E m \in Peers(n) : HandleReceivedMessage(n, m)
  <2>1. failed' = failed \/ \E n \in Nodes : \E m \in Peers(n) : HandleResponse(n, Head(net[m][n]))
    BY <1>4 DEF HandleReceivedMessage, HandleQuit, HandleRequest
  <2>2. ASSUME NEW n, NEW message, HandleResponse(n, message) PROVE failed' \in BOOLEAN
    BY <2>2 DEF HandleResponse
  <2> QED
    BY <2>1, <2>2
<1>5. CASE Quiet
  BY <1>5 DEF Quiet
<1> QED
  BY <1>1, <1>2, <1>3, <1>4, <1>5, MessageSteps

\* Type correctness of the brokers.  Beyond the shape of the state it says that
\* quit_latch_ is never counted below zero, which std::latch::count_down forbids
\* (network.cc:58, 218), and that async_scope_ never completes more operations
\* than were spawned into it (network.cc:165), for any number of nodes, calls and
\* heartbeats.
THEOREM BrokerType == Spec => []TypeOK
<1>1. BrokerInv /\ failed \in BOOLEAN => TypeOK
  <2> SUFFICES ASSUME BrokerInv, failed \in BOOLEAN PROVE TypeOK
    OBVIOUS
  <2>1. quit_latch \in [Nodes -> Nat] /\ async_scope \in [Nodes -> Nat]
    BY CountersNatural
  <2> QED
    BY <2>1 DEF BrokerInv, ShapeInv, CallShape, OperationsShape, SendShape, ReplyShape,
       ReceivedShape, NetShape, ControlInv, TypeOK
<1>2. Init => failed \in BOOLEAN
  BY DEF Init
<1>3. BrokerInv /\ failed \in BOOLEAN /\ [Next]_vars => (BrokerInv /\ failed \in BOOLEAN)'
  BY BrokerStep, FailedType
<1> QED
  BY InitInv, <1>1, <1>2, <1>3, PTL DEF Spec

\* Every response finds its operation registered: At() never throws in the receive
\* thread, because a call registers its operation before it queues it
\* (network.cc:136-139), the ids of one node are never drawn twice, and only the
\* one response of a call erases its operation (network.cc:229).
THEOREM ResponseFound == Spec => []ResponseFindsOperation
<1>1. BrokerInv => ResponseFindsOperation
  BY DEF BrokerInv, ReplyInv
<1> QED
  BY BrokerInvariant, <1>1, PTL

\* A call is completed with the reply to its own request, however the calls of the
\* nodes overlap and the processor actors reorder their replies (network.cc:111,
\* 229-231).
THEOREM RepliesMatch == Spec => []OwnReply
<1>1. BrokerInv => OwnReply
  BY DEF BrokerInv, ReplyInv
<1> QED
  BY BrokerInvariant, <1>1, PTL

\* The aligned stop: a node gets past its latch only after every node has decided
\* to stop, and then no call that involves it waits for an answer
\* (network.cc:46-70).  The latch counts every node's quit message and the node
\* itself once each.
THEOREM StopAligned == Spec => []AlignedStop
<1>1. BrokerInv => AlignedStop
  <2> SUFFICES ASSUME BrokerInv, NEW n \in Nodes, PastLatch(n)
               PROVE  /\ \A m \in Nodes : main_pc[m] # "run"
                      /\ \A k \in Calls : call_pc[k] \in {"idle", "done"}
    BY DEF AlignedStop
  <2>1. \A m \in Nodes : main_pc[m] # "run"
    BY DEF BrokerInv, StopInv
  <2> QED
    BY <2>1, CallsAssumption DEF BrokerInv, StopInv
<1> QED
  BY BrokerInvariant, <1>1, PTL

QuitKind == {op \in OperationType : op.flag = "kQuit"}

Joining(n) == main_pc[n] \in {"join", "done", "closed"}

\* Once a node has asked its threads to stop (network.cc:65) none of its quit
\* messages is still queued: every peer's latch was served by the sockets of a
\* running send thread, even while a heartbeat round that began earlier goes on.
QuitsHandedOver ==
  \A n \in Nodes : Joining(n) =>
    \A i \in 1 .. Len(pending_send[n]) : pending_send[n][i].flag # "kQuit"

\* As a count, which is what the steps keep.
NoQuitQueued == \A n \in Nodes : Joining(n) => SendCount(n, QuitKind) = 0

\* Only StopEmpty starts the joining, and it waited for the scope.
LEMMA JoiningNext ==
  ASSUME ControlInv, [Next]_vars, NEW n \in Nodes, Joining(n)'
  PROVE  Joining(n) \/ (async_scope[n] = 0 /\ UNCHANGED <<pending_send, async_scope>>)
<1>1. ASSUME NEW x \in Nodes, StopEmpty(x)
      PROVE  Joining(n) \/ (async_scope[n] = 0 /\ UNCHANGED <<pending_send, async_scope>>)
  BY <1>1 DEF StopEmpty, MainStep, MainGoto, ControlInv, Joining
<1>2. ASSUME main_pc'[n] = main_pc[n] PROVE Joining(n)
  BY <1>2 DEF Joining
<1>3. ASSUME NEW x \in Nodes, StopJoin(x) \/ Close(x) \/ StopBegin(x) \/ StopCountDown(x)
                                \/ StopLatch(x) \/ StopQuit(x)
      PROVE  Joining(n)
  <2> DEFINE Early == {"quits", "count", "latch", "empty"}
  <2>0. main_pc \in [Nodes -> {"run", "quits", "count", "latch", "empty", "join", "done", "closed"}]
    BY DEF ControlInv
  <2>1. ASSUME NEW from, NEW to, MainStep(x, from, to),
               to \in Early \/ from \in {"join", "done"}
        PROVE  Joining(n)
    BY <2>0, <2>1 DEF MainStep, MainGoto, Joining
  <2>2. /\ StopJoin(x) => Joining(n)
        /\ StopBegin(x) => Joining(n)
        /\ StopCountDown(x) => Joining(n)
        /\ StopLatch(x) => Joining(n)
    BY <2>1 DEF StopJoin, StopBegin, StopCountDown, StopLatch
  <2>3. ASSUME Close(x) PROVE Joining(n)
    <3>1. main_pc[x] = "done" /\ main_pc' = [main_pc EXCEPT ![x] = "closed"]
      BY <2>3 DEF Close, MainGoto
    <3> QED
      BY <2>0, <3>1 DEF Joining
  <2>4. ASSUME StopQuit(x) PROVE Joining(n)
    <3>1. main_pc' = main_pc \/ main_pc' = [main_pc EXCEPT ![x] = "count"]
      BY <2>4 DEF StopQuit, MainGoto
    <3> QED
      BY <2>0, <3>1 DEF Joining
  <2> QED
    BY <1>3, <2>2, <2>3, <2>4
<1>4. CASE UNCHANGED main_pc
  BY <1>2, <1>4
<1>5. CASE \E k \in Calls : SendRequest(k) \/ PushOperation(k)
  BY <1>4, <1>5, StopLeft
<1>6. ASSUME NEW x \in Nodes, SendProcessLoop(x) PROVE UNCHANGED main_pc
  <2>1. \A from, to : SendMove(x, from, to) => UNCHANGED main_pc
    BY DEF SendMove, mainVars
  <2>2. SendTop(x) \/ SendsEmpty(x) \/ RepliesEmpty(x) => UNCHANGED main_pc
    BY <2>1 DEF SendTop, SendsEmpty, RepliesEmpty
  <2>3. SendOne(x) \/ SendReply(x) => UNCHANGED main_pc
    BY StopLeft
  <2>4. SendFlag(x) => UNCHANGED main_pc
    BY FlagStep
  <2>5. HeartbeatTest(x) => UNCHANGED main_pc
    BY DEF HeartbeatTest, mainVars
  <2>6. HeartbeatSpawn(x) => UNCHANGED main_pc
    BY DEF HeartbeatSpawn, mainVars
  <2> QED
    BY <1>6, <2>2, <2>3, <2>4, <2>5, <2>6 DEF SendProcessLoop
<1>7. CASE \E x \in Nodes : \E y \in Peers(x) : HandleReceivedMessage(x, y)
  BY <1>4, <1>7, StopLeft
<1>8. ASSUME NEW x \in Nodes, ReceiveExit(x) \/ ReplyRequest(x) PROVE UNCHANGED main_pc
  BY <1>8 DEF ReceiveExit, ReplyRequest, mainVars
<1>9. CASE \E x \in Nodes : ClusterAlignedStop(x) \/ StopBegin(x)
  BY <1>1, <1>3, <1>9 DEF ClusterAlignedStop
<1>10. CASE UNCHANGED vars
  BY <1>4, <1>10 DEF vars, mainVars
<1> QED
  BY <1>4, <1>5, <1>6, <1>7, <1>8, <1>9, <1>10 DEF Next

\* A node that starts to join its threads has no operation of its scope queued.
LEMMA QuitsNext == BrokerInv /\ NoQuitQueued /\ [Next]_vars => NoQuitQueued'
<1> SUFFICES ASSUME ShapeInv, ControlInv, ScopeInv, NoQuitQueued, [Next]_vars,
                    NEW x \in Nodes, Joining(x)'
             PROVE  SendCount(x, QuitKind)' = 0
  BY DEF NoQuitQueued, BrokerInv
<1>0. PICK C : C = QuitKind
  OBVIOUS
<1>1. SUFFICES SendCount(x, C)' = 0
  BY <1>0 DEF QuitKind, OperationType
<1>2. C \subseteq Spawned /\ SendCount(x, C) \in Nat
  BY <1>0, CountsType DEF QuitKind, Spawned
<1>3. CASE async_scope[x] = 0 /\ UNCHANGED pending_send
  <2>1. SendCount(x, Spawned) = 0
    <3>1. SendCount(x, Spawned) \in Nat /\ InHand(x) \in {0, 1}
      BY CountsType DEF InHand
    <3> QED
      BY <1>3, <3>1 DEF ScopeInv
  <2>2. /\ Hits(pending_send[x], C) \subseteq Hits(pending_send[x], Spawned)
        /\ IsFiniteSet(Hits(pending_send[x], Spawned))
    BY <1>2, CountType DEF Hits, ShapeInv, SendShape
  <2>3. SendCount(x, C) <= SendCount(x, Spawned)
    BY <2>2, FS_Subset DEF SendCount, Count
  <2>4. SendCount(x, C) = 0
    BY <1>2, <2>1, <2>3
  <2> QED
    BY <1>3, <2>4 DEF SendCount
<1>4. CASE Joining(x)
  <2>0. SendCount(x, C) = 0
    BY <1>0, <1>4 DEF NoQuitQueued
  <2>1. CASE \E k \in Calls : PushOperationPush(k)
    BY <1>2, <2>0, <2>1, ScopeCounts
  <2>2. CASE \E n \in Nodes : SendOne(n)
    <3>1. PICK n \in Nodes : SendOne(n)
      BY <2>2
    <3>2. SendCount(x, C)' = SendCount(x, C)
            - (IF x = n /\ Head(pending_send[n]) \in C THEN 1 ELSE 0)
      BY <3>1, ScopeCounts
    <3>3. ~(x = n /\ Head(pending_send[n]) \in C)
      <4> SUFFICES ASSUME x = n, Head(pending_send[n]) \in C PROVE FALSE
        OBVIOUS
      <4>1. pending_send[x] # << >> /\ pending_send[x] \in Seq(OperationType)
        BY <3>1 DEF SendOne, ShapeInv, SendShape
      <4>2. 1 \in 1 .. Len(pending_send[x]) /\ pending_send[x][1] \in C
        BY <4>1
      <4>3. SendCount(x, C) > 0
        BY <4>1, <4>2, CountPositive DEF SendCount
      <4> QED
        BY <2>0, <4>3
    <3>4. SendCount(x, C)' = SendCount(x, C) - 0
      BY ONLY <3>2, <3>3, Zenon
    <3> QED
      BY <2>0, <3>4
  <2>3. CASE \E n \in Nodes : SendFlag(n)
    <3>1. UNCHANGED pending_send
      BY <2>3, FlagStep
    <3> QED
      BY <2>0, <3>1 DEF SendCount
  <2>4. CASE \E n \in Nodes : \E m \in Peers(n) : \E f \in {"kQuit", "kHeartbeat"} :
               Spawns(n, m, f) /\ (f = "kQuit" => main_pc[n] = "quits")
    <3>1. PICK n \in Nodes : \E m \in Peers(n) : \E f \in {"kQuit", "kHeartbeat"} :
            Spawns(n, m, f) /\ (f = "kQuit" => main_pc[n] = "quits")
      BY <2>4
    <3>2. PICK m \in Peers(n) : \E f \in {"kQuit", "kHeartbeat"} :
            Spawns(n, m, f) /\ (f = "kQuit" => main_pc[n] = "quits")
      BY <3>1
    <3>3. PICK f \in {"kQuit", "kHeartbeat"} :
            Spawns(n, m, f) /\ (f = "kQuit" => main_pc[n] = "quits")
      BY <3>2
    <3>4. PICK op \in Spawned : op.flag = f /\
            SendCount(x, C)' = SendCount(x, C) + (IF x = n /\ op \in C THEN 1 ELSE 0)
      BY <3>3, ScopeCounts
    <3>5. ~(x = n /\ op \in C)
      BY <1>0, <1>4, <3>3, <3>4 DEF QuitKind, Joining
    <3> QED
      BY <2>0, <3>4, <3>5
  <2>5. CASE UNCHANGED pending_send
    BY <2>0, <2>5 DEF SendCount
  <2> QED
    BY <2>1, <2>2, <2>3, <2>4, <2>5, ScopeSteps
<1> QED
  BY <1>3, <1>4, JoiningNext

\* ClusterAlignedStop never leaves a quit message behind: when a node tells its
\* threads to stop (network.cc:65), each peer's quit message has been taken from
\* pending_send_operations_, although the heartbeats that a round in progress
\* spawns afterwards may stay there.  The scope is what makes it true
\* (network.cc:62).
THEOREM QuitsLeave == Spec => []QuitsHandedOver
<1>1. Init => NoQuitQueued
  BY DEF Init, NoQuitQueued, Joining
<1>2. BrokerInv /\ NoQuitQueued => QuitsHandedOver
  <2> SUFFICES ASSUME ShapeInv, NoQuitQueued, NEW n \in Nodes, Joining(n),
                      NEW i \in 1 .. Len(pending_send[n]), pending_send[n][i].flag = "kQuit"
               PROVE  FALSE
    BY DEF BrokerInv, QuitsHandedOver
  <2>1. pending_send[n] \in Seq(OperationType)
    BY DEF ShapeInv, SendShape
  <2>2. pending_send[n][i] \in QuitKind
    BY <2>1 DEF QuitKind
  <2>3. SendCount(n, QuitKind) > 0
    BY <2>1, <2>2, CountPositive DEF SendCount
  <2> QED
    BY <2>3 DEF NoQuitQueued
<1> QED
  BY InitInv, BrokerStep, QuitsNext, <1>1, <1>2, PTL DEF Spec

\* Without heartbeats the scope of a node that joins its threads stays empty.
DrainedInv ==
  \A n \in Nodes : send_pc[n] # "spawn" /\ (Joining(n) => async_scope[n] = 0)

\* Only a round of heartbeats could spawn into the scope of such a node.
LEMMA DrainedNext ==
  ASSUME MaxHeartbeats = 0, BrokerInv, DrainedInv, [Next]_vars
  PROVE  DrainedInv'
<1> USE DEF BrokerInv
<1>1. ASSUME NEW x \in Nodes PROVE send_pc'[x] # "spawn"
  <2>1. send_pc[x] # "spawn" /\ send_pc \in [Nodes -> {"top", "sends", "flag", "replies",
                                                        "heartbeat", "spawn", "exited"}]
    BY DEF DrainedInv, ControlInv
  <2>2. ASSUME NEW n \in Nodes, NEW l, SendGoto(n, l), l # "spawn" PROVE send_pc'[x] # "spawn"
    BY <2>1, <2>2 DEF SendGoto
  <2>3. CASE UNCHANGED send_pc
    BY <2>1, <2>3
  <2>4. \A n \in Nodes : heartbeats[n] \in Nat
    BY DEF ControlInv
  <2>5. ASSUME NEW n \in Nodes, SendProcessLoop(n) PROVE send_pc'[x] # "spawn"
    <3>1. ASSUME SendTop(n) \/ SendsEmpty(n) \/ RepliesEmpty(n) PROVE send_pc'[x] # "spawn"
      BY <2>2, <3>1 DEF SendTop, SendsEmpty, RepliesEmpty, SendMove
    <3>2. ASSUME SendOne(n) PROVE send_pc'[x] # "spawn"
      BY <2>2, <3>2 DEF SendOne
    <3>3. ASSUME SendFlag(n) PROVE send_pc'[x] # "spawn"
      BY <2>2, <3>3 DEF SendFlag
    <3>4. ASSUME SendReply(n) PROVE send_pc'[x] # "spawn"
      BY <2>3, <3>4 DEF SendReply, sendVars
    <3>5. ASSUME HeartbeatTest(n) PROVE send_pc'[x] # "spawn"
      <4>1. ~(heartbeats[n] < MaxHeartbeats)
        BY <2>4
      <4>2. SendGoto(n, "top")
        BY <3>5, <4>1 DEF HeartbeatTest
      <4> QED
        BY <2>2, <4>2
    <3>6. ~HeartbeatSpawn(n)
      BY DEF HeartbeatSpawn, DrainedInv
    <3> QED
      BY <2>5, <3>1, <3>2, <3>3, <3>4, <3>5, <3>6 DEF SendProcessLoop
  <2>6. ASSUME NEW k \in Calls, SendRequest(k) \/ PushOperation(k) PROVE UNCHANGED send_pc
    BY <2>6 DEF SendRequest, PushOperation, PushOperationInsert, PushOperationPush, sendVars
  <2>7. ASSUME NEW n \in Nodes, NEW m, HandleReceivedMessage(n, m) PROVE UNCHANGED send_pc
    BY <2>7 DEF HandleReceivedMessage, sendVars
  <2>8. ASSUME NEW n \in Nodes PROVE /\ ReceiveExit(n) => UNCHANGED send_pc
                                     /\ ReplyRequest(n) => UNCHANGED send_pc
    BY DEF ReceiveExit, ReplyRequest, sendVars
  <2>9. ASSUME NEW n \in Nodes, ClusterAlignedStop(n) \/ StopBegin(n) PROVE UNCHANGED send_pc
    <3>1. \A from, to : MainStep(n, from, to) => UNCHANGED send_pc
      BY DEF MainStep, sendVars
    <3>2. StopBegin(n) \/ StopCountDown(n) \/ StopLatch(n) \/ StopEmpty(n) \/ StopJoin(n) =>
            UNCHANGED send_pc
      BY <3>1 DEF StopBegin, StopCountDown, StopLatch, StopEmpty, StopJoin
    <3>3. StopQuit(n) => UNCHANGED send_pc
      BY DEF StopQuit, sendVars
    <3>4. Close(n) => UNCHANGED send_pc
      BY DEF Close, sendVars
    <3> QED
      BY <2>9, <3>2, <3>3, <3>4 DEF ClusterAlignedStop
  <2>10. CASE UNCHANGED vars
    BY <2>3, <2>10 DEF vars, sendVars
  <2> QED
    BY <2>3, <2>5, <2>6, <2>7, <2>8, <2>9, <2>10 DEF Next
<1>2. ASSUME NEW x \in Nodes, Joining(x)' PROVE async_scope'[x] = 0
  <2>1. CASE async_scope[x] = 0 /\ UNCHANGED async_scope
    BY <2>1
  <2>2. CASE Joining(x)
    <3>1. async_scope[x] = 0 /\ async_scope \in [Nodes -> Int]
      BY <2>2 DEF DrainedInv, ControlInv
    <3>2. CASE \E k \in Calls : PushOperationPush(k)
      BY <3>1, <3>2 DEF PushOperationPush, stopVars
    <3>3. CASE \E n \in Nodes : SendOne(n)
      BY <3>1, <3>3 DEF SendOne, stopVars
    <3>4. CASE \E n \in Nodes : SendFlag(n)
      <4>1. PICK n \in Nodes : SendFlag(n)
        BY <3>4
      <4>2. async_scope'[x] = async_scope[x] - (IF x = n THEN InHand(n) ELSE 0)
        BY <4>1, FlagStep
      <4>3. SendCount(x, Spawned) \in Nat /\ InHand(x) \in {0, 1}
        BY CountsType DEF InHand
      <4>4. InHand(x) = 0
        BY <3>1, <4>3 DEF ScopeInv
      <4> QED
        BY <3>1, <4>2, <4>4
    <3>5. ASSUME NEW n \in Nodes, NEW m, NEW f, Spawns(n, m, f),
                 main_pc[n] = "quits" \/ send_pc[n] = "spawn"
          PROVE  async_scope'[x] = 0
      <4>1. n # x
        BY <2>2, <3>5 DEF DrainedInv, Joining
      <4> QED
        BY <3>1, <3>5, <4>1 DEF Spawns, SpawnRequest
    <3>6. CASE UNCHANGED async_scope
      BY <3>1, <3>6
    <3> QED
      BY <3>2, <3>3, <3>4, <3>5, <3>6, ScopeSteps
  <2> QED
    BY <1>2, <2>1, <2>2, JoiningNext
<1> QED
  BY <1>1, <1>2 DEF DrainedInv

\* network.h:154: at the stop all asynchronous tasks have been waited for.  It is
\* true of a cluster that sends no heartbeats; a round of heartbeats that began
\* before stopped_ was set may still spawn after the wait (network.cc:62, 256).
THEOREM ScopeDrained ==
  ASSUME MaxHeartbeats = 0
  PROVE  Spec => []ScopeDrainedAtStop
<1>1. Init => DrainedInv
  BY DEF Init, DrainedInv, Joining
<1>2. BrokerInv /\ DrainedInv /\ [Next]_vars => DrainedInv'
  BY DrainedNext
<1>3. DrainedInv => ScopeDrainedAtStop
  BY DEF DrainedInv, ScopeDrainedAtStop, Joining
<1> QED
  BY InitInv, BrokerStep, <1>1, <1>2, <1>3, PTL DEF Spec
=============================================================================
