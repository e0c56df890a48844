---------------------------- MODULE MessageBroker ----------------------------
(***************************************************************************)
(* network::MessageBroker (src/ncaf/internal/network.cc, network.h): the    *)
(* brokers of a cluster, with the calls of SendRequest, the send and the    *)
(* receive thread of every node, the replies of the request handler and    *)
(* ClusterAlignedStop.  Time is abstracted here: a heartbeat may be due     *)
(* whenever SendHeartbeat looks (Heartbeat.tla has the clocks).            *)
(*                                                                         *)
(* A call is one normal SendRequest of a user thread, which waits for the   *)
(* response.  Each broker's queues are atomic here (Actor.tla has the      *)
(* window inside their push).  ZeroMQ is external: one FIFO channel per    *)
(* ordered pair of nodes, that loses nothing while its sender is open.     *)
(***************************************************************************)
EXTENDS Naturals, Sequences, FiniteSets

CONSTANTS
  Nodes,
  Calls,
  CallFrom, CallTo,   \* the node each call is made on, and its target
  MaxHeartbeats,      \* bound: rounds of heartbeats per node
  CloseDiscards,      \* ZMQ_LINGER 0: closing a socket drops unsent messages
  None

ASSUME NodesAssumption == IsFiniteSet(Nodes) /\ Nodes # {}
ASSUME CallsAssumption ==
  /\ CallFrom \in [Calls -> Nodes]
  /\ CallTo \in [Calls -> Nodes]
  /\ \A k \in Calls : CallFrom[k] # CallTo[k]   \* NCAF_THROW_CHECK_NE in SendRequest
ASSUME BoundsAssumption == MaxHeartbeats \in Nat /\ CloseDiscards \in BOOLEAN
ASSUME BrokerNoneAssumption == None \notin Calls

VARIABLES
  call_pc, call_id, call_reply,    \* the user threads inside SendRequest
  request_id_counter,              \* send_request_id_counter_
  operations,                      \* send_request_id_to_operation_
  pending_send, pending_reply,     \* pending_send_operations_, pending_reply_operations_
  received, received_id_counter,   \* received_request_id_to_identifier_ and its counter
  net,                             \* net[a][b]: from a's send socket to b's recv socket
  send_pc, send_op, send_peers,    \* the send thread
  recv_pc,                         \* the receive thread
  main_pc, quit_peers,             \* the thread in ClusterAlignedStop
  quit_latch, stopped, async_scope, stop_requested,
  heartbeats,                      \* rounds of heartbeats sent
  failed                           \* an exception left a thread: std::terminate

callVars == <<call_pc, call_id, call_reply>>
mapVars == <<request_id_counter, operations>>
recvVars == <<received, received_id_counter>>
sendVars == <<send_pc, send_op, send_peers>>
mainVars == <<main_pc, quit_peers>>
stopVars == <<quit_latch, stopped, async_scope, stop_requested>>
vars == <<callVars, mapVars, pending_send, pending_reply, recvVars, net, sendVars,
          recv_pc, mainVars, stopVars, heartbeats, failed>>

Peers(n) == Nodes \ {n}

\* An operation state: the Identifier and, for a normal request, its call.
Operation(n, m, i, f, k) == [from |-> n, to |-> m, id |-> i, flag |-> f, call |-> k]

\* The latch counts the other nodes only.
LatchSize_Others == Cardinality(Nodes) - 1

\* quit_latch_(node_list_.size())
LatchSize == Cardinality(Nodes)

\* EstablishConnections: a send socket to every peer, nothing sent yet.
EstablishConnections == net = [n \in Nodes |-> [m \in Nodes |-> << >>]]

\* The sockets are set up and the threads started by the constructor.
Init ==
  /\ call_pc = [k \in Calls |-> "idle"]
  /\ call_id = [k \in Calls |-> 0]
  /\ call_reply = [k \in Calls |-> None]
  /\ request_id_counter = [n \in Nodes |-> 0]
  /\ operations = [n \in Nodes |-> {}]
  /\ pending_send = [n \in Nodes |-> << >>]
  /\ pending_reply = [n \in Nodes |-> << >>]
  /\ received = [n \in Nodes |-> {}]
  /\ received_id_counter = [n \in Nodes |-> 0]
  /\ EstablishConnections
  /\ send_pc = [n \in Nodes |-> "top"]
  /\ send_op = [n \in Nodes |-> None]
  /\ send_peers = [n \in Nodes |-> {}]
  /\ recv_pc = [n \in Nodes |-> "loop"]
  /\ main_pc = [n \in Nodes |-> "run"]
  /\ quit_peers = [n \in Nodes |-> {}]
  /\ quit_latch = [n \in Nodes |-> LatchSize]
  /\ stopped = [n \in Nodes |-> FALSE]
  /\ async_scope = [n \in Nodes |-> 0]
  /\ stop_requested = [n \in Nodes |-> FALSE]
  /\ heartbeats = [n \in Nodes |-> 0]
  /\ failed = FALSE

-----------------------------------------------------------------------------
(* SendRequest and PushOperation on a user thread.                         *)

\* The counter is read but never advanced.
NextRequestId_Stuck(n) ==
  UNCHANGED request_id_counter

\* send_request_id_counter_.fetch_add(1)
NextRequestId(n) ==
  request_id_counter' = [request_id_counter EXCEPT ![n] = @ + 1]

\* SendRequest(to_node_id, data).  User code makes no call on a node that is
\* already stopping.
SendRequest(k) ==
  LET n == CallFrom[k] IN
  /\ call_pc[k] = "idle"
  /\ main_pc[n] = "run"
  /\ call_id' = [call_id EXCEPT ![k] = request_id_counter[n]]
  /\ NextRequestId(n)
  /\ call_pc' = [call_pc EXCEPT ![k] = "insert"]
  /\ UNCHANGED <<call_reply, operations, pending_send, pending_reply, recvVars, net,
                 sendVars, recv_pc, mainVars, stopVars, heartbeats, failed>>

CallOperation(k) == Operation(CallFrom[k], CallTo[k], call_id[k], "kNormal", k)

\* LockGuardedMap::Insert into send_request_id_to_operation_: a key that is there
\* keeps its value, and the callers do not read the result.
Insert(n, op) ==
  operations' = IF \E o \in operations[n] : o.id = op.id THEN operations
                ELSE [operations EXCEPT ![n] = @ \cup {op}]

\* LockGuardedMap::At: the operation of an id, none if it throws.
At(n, i) == {op \in operations[n] : op.id = i}

\* LockGuardedMap::Erase
Erase(n, ops) == operations' = [operations EXCEPT ![n] = @ \ ops]

\* start() -> PushOperation: register the operation ...
PushOperationInsert(k) ==
  LET n == CallFrom[k] IN
  /\ call_pc[k] = "insert"
  /\ Insert(n, CallOperation(k))
  /\ call_pc' = [call_pc EXCEPT ![k] = "push"]
  /\ UNCHANGED <<call_id, call_reply, request_id_counter, pending_send, pending_reply,
                 recvVars, net, sendVars, recv_pc, mainVars, stopVars, heartbeats, failed>>

\* ... then queue it.
PushOperationPush(k) ==
  LET n == CallFrom[k] IN
  /\ call_pc[k] = "push"
  /\ pending_send' = [pending_send EXCEPT ![n] = Append(@, CallOperation(k))]
  /\ call_pc' = [call_pc EXCEPT ![k] = "waiting"]
  /\ UNCHANGED <<call_id, call_reply, mapVars, pending_reply, recvVars, net,
                 sendVars, recv_pc, mainVars, stopVars, heartbeats, failed>>

\* The operation is queued before it is registered.
PushOperation_PushFirst(k) ==
  LET n == CallFrom[k] IN
  /\ \/ /\ call_pc[k] = "insert"
        /\ pending_send' = [pending_send EXCEPT ![n] = Append(@, CallOperation(k))]
        /\ call_pc' = [call_pc EXCEPT ![k] = "push"]
        /\ UNCHANGED operations
     \/ /\ call_pc[k] = "push"
        /\ Insert(n, CallOperation(k))
        /\ call_pc' = [call_pc EXCEPT ![k] = "waiting"]
        /\ UNCHANGED pending_send
  /\ UNCHANGED <<call_id, call_reply, request_id_counter, pending_reply, recvVars, net,
                 sendVars, recv_pc, mainVars, stopVars, heartbeats, failed>>

PushOperation(k) == PushOperationInsert(k) \/ PushOperationPush(k)

\* SendRequest of a quit or heartbeat message to m, spawned into async_scope_.
SpawnRequest(n, m, f) ==
  LET op == Operation(n, m, request_id_counter[n], f, None) IN
  /\ NextRequestId(n)
  /\ Insert(n, op)
  /\ pending_send' = [pending_send EXCEPT ![n] = Append(@, op)]
  /\ async_scope' = [async_scope EXCEPT ![n] = @ + 1]

-----------------------------------------------------------------------------
(* SendProcessLoop.                                                        *)

SendGoto(n, label) == send_pc' = [send_pc EXCEPT ![n] = label]

\* A step of the send thread that only reads.
SendMove(n, from, to) ==
  /\ send_pc[n] = from
  /\ SendGoto(n, to)
  /\ UNCHANGED <<callVars, mapVars, pending_send, pending_reply, recvVars, net, send_op,
                 send_peers, recv_pc, mainVars, stopVars, heartbeats, failed>>

\* while (!stop_token.stop_requested())
SendTop(n) == SendMove(n, "top", IF stop_requested[n] THEN "exited" ELSE "sends")

\* Pop an operation and send its message.
SendOne(n) ==
  /\ send_pc[n] = "sends"
  /\ pending_send[n] # << >>
  /\ LET op == Head(pending_send[n]) IN
       /\ net' = [net EXCEPT ![n][op.to] = Append(@, op)]
       /\ send_op' = [send_op EXCEPT ![n] = op]
  /\ pending_send' = [pending_send EXCEPT ![n] = Tail(@)]
  /\ SendGoto(n, "flag")
  /\ UNCHANGED <<callVars, mapVars, pending_reply, recvVars, send_peers, recv_pc,
                 mainVars, stopVars, heartbeats, failed>>

\* Read operation->identifier.flag; a quit or heartbeat is complete now.
SendFlag(n) ==
  /\ send_pc[n] = "flag"
  /\ async_scope' = IF send_op[n].flag = "kNormal" THEN async_scope
                    ELSE [async_scope EXCEPT ![n] = @ - 1]
  /\ send_op' = [send_op EXCEPT ![n] = None]
  /\ SendGoto(n, "sends")
  /\ UNCHANGED <<callVars, mapVars, pending_send, pending_reply, recvVars, net, send_peers,
                 recv_pc, mainVars, quit_latch, stopped, stop_requested, heartbeats, failed>>

SendsEmpty(n) == pending_send[n] = << >> /\ SendMove(n, "sends", "replies")

\* Pop a reply and send it to the requesting node.
SendReply(n) ==
  /\ send_pc[n] = "replies"
  /\ pending_reply[n] # << >>
  /\ LET reply == Head(pending_reply[n]) IN
       net' = [net EXCEPT ![n][reply.from] = Append(@, reply)]
  /\ pending_reply' = [pending_reply EXCEPT ![n] = Tail(@)]
  /\ UNCHANGED <<callVars, mapVars, pending_send, recvVars, sendVars, recv_pc,
                 mainVars, stopVars, heartbeats, failed>>

RepliesEmpty(n) == pending_reply[n] = << >> /\ SendMove(n, "replies", "heartbeat")

\* SendHeartbeat: if (!stopped_.load() && the interval has passed) ...
HeartbeatTest(n) ==
  /\ send_pc[n] = "heartbeat"
  /\ \/ /\ ~stopped[n]
        /\ heartbeats[n] < MaxHeartbeats
        /\ heartbeats' = [heartbeats EXCEPT ![n] = @ + 1]
        /\ send_peers' = [send_peers EXCEPT ![n] = Peers(n)]
        /\ SendGoto(n, "spawn")
     \/ /\ SendGoto(n, "top")
        /\ UNCHANGED <<heartbeats, send_peers>>
  /\ UNCHANGED <<callVars, mapVars, pending_send, pending_reply, recvVars, net, send_op,
                 recv_pc, mainVars, stopVars, failed>>

\* ... spawn one heartbeat per peer.
HeartbeatSpawn(n) ==
  /\ send_pc[n] = "spawn"
  /\ \/ \E m \in send_peers[n] :
          /\ SpawnRequest(n, m, "kHeartbeat")
          /\ send_peers' = [send_peers EXCEPT ![n] = @ \ {m}]
          /\ UNCHANGED send_pc
     \/ /\ send_peers[n] = {}
        /\ SendGoto(n, "top")
        /\ UNCHANGED <<send_peers, mapVars, pending_send, async_scope>>
  /\ UNCHANGED <<callVars, pending_reply, recvVars, net, send_op, recv_pc, mainVars,
                 quit_latch, stopped, stop_requested, heartbeats, failed>>

SendProcessLoop(n) ==
  \/ SendTop(n) \/ SendOne(n) \/ SendFlag(n) \/ SendsEmpty(n)
  \/ SendReply(n) \/ RepliesEmpty(n) \/ HeartbeatTest(n) \/ HeartbeatSpawn(n)

-----------------------------------------------------------------------------
(* ReceiveProcessLoop and HandleReceivedMessage.                           *)

Receive(n, m) == net' = [net EXCEPT ![m][n] = Tail(@)]

\* A quit message counts the latch down.
HandleQuit(n) ==
  /\ quit_latch' = [quit_latch EXCEPT ![n] = @ - 1]
  /\ UNCHANGED <<callVars, operations, recvVars, stopped, async_scope, stop_requested, failed>>

\* A response: At(id) throws if there is no such operation; erase it and
\* complete the waiting call.
HandleResponse(n, message) ==
  LET found == At(n, message.id) IN
  /\ failed' = (failed \/ found = {})
  /\ Erase(n, found)
  /\ LET done == {op.call : op \in found} IN
       /\ call_pc' = [k \in Calls |-> IF k \in done THEN "done" ELSE call_pc[k]]
       /\ call_reply' = [k \in Calls |-> IF k \in done THEN message.call ELSE call_reply[k]]
  /\ UNCHANGED <<call_id, recvVars, stopVars>>

\* A request: remember its identifier under a fresh id and hand it to the
\* processor actor.
HandleRequest(n, message) ==
  /\ received' = [received EXCEPT ![n] =
                    @ \cup {[rid |-> received_id_counter[n], identifier |-> message]}]
  /\ received_id_counter' = [received_id_counter EXCEPT ![n] = @ + 1]
  /\ UNCHANGED <<callVars, operations, stopVars, failed>>

HandleReceivedMessage(n, m) ==
  /\ recv_pc[n] = "loop"
  /\ net[m][n] # << >>
  /\ Receive(n, m)
  /\ LET message == Head(net[m][n]) IN
       \/ /\ message.flag = "kQuit"
          /\ HandleQuit(n)
       \/ /\ message.flag = "kHeartbeat"
          /\ UNCHANGED <<callVars, operations, recvVars, stopVars, failed>>
       \/ /\ message.flag = "kNormal"
          /\ message.from = n
          /\ HandleResponse(n, message)
       \/ /\ message.flag = "kNormal"
          /\ message.from # n
          /\ HandleRequest(n, message)
  /\ UNCHANGED <<request_id_counter, pending_send, pending_reply, sendVars, recv_pc,
                 mainVars, heartbeats>>

\* The loop ends between two messages once the stop is requested.
ReceiveExit(n) ==
  /\ recv_pc[n] = "loop"
  /\ stop_requested[n]
  /\ recv_pc' = [recv_pc EXCEPT ![n] = "exited"]
  /\ UNCHANGED <<callVars, mapVars, pending_send, pending_reply, recvVars, net, sendVars,
                 mainVars, stopVars, heartbeats, failed>>

\* The reply is dropped.
ReplyRequest_NoPush(n) ==
  /\ \E r \in received[n] : received' = [received EXCEPT ![n] = @ \ {r}]
  /\ UNCHANGED <<callVars, mapVars, pending_send, pending_reply, received_id_counter, net,
                 sendVars, recv_pc, mainVars, stopVars, heartbeats, failed>>

\* ReplyRequest: the processor actor answers a request it was handed; the
\* reply's data is what it computed for that request's call.
ReplyRequest(n) ==
  /\ \E r \in received[n] :
       /\ received' = [received EXCEPT ![n] = @ \ {r}]
       /\ pending_reply' = [pending_reply EXCEPT ![n] = Append(@, r.identifier)]
  /\ UNCHANGED <<callVars, mapVars, pending_send, received_id_counter, net, sendVars,
                 recv_pc, mainVars, stopVars, heartbeats, failed>>

-----------------------------------------------------------------------------
(* ClusterAlignedStop.                                                     *)

MainGoto(n, label) == main_pc' = [main_pc EXCEPT ![n] = label]

\* A step of the stopping thread that touches none of the broker's queues.
MainStep(n, from, to) ==
  /\ main_pc[n] = from
  /\ MainGoto(n, to)
  /\ UNCHANGED <<callVars, mapVars, pending_send, pending_reply, recvVars, net, sendVars,
                 recv_pc, async_scope, heartbeats, failed>>

\* User code shuts a node down once its own calls have returned.
StopBegin(n) ==
  /\ MainStep(n, "run", "quits")
  /\ \A k \in Calls : CallFrom[k] = n => call_pc[k] \in {"idle", "done"}
  /\ quit_peers' = [quit_peers EXCEPT ![n] = Peers(n)]
  /\ UNCHANGED <<quit_latch, stopped, stop_requested>>

\* Spawn a quit message to every other node.
StopQuit(n) ==
  /\ main_pc[n] = "quits"
  /\ \/ \E m \in quit_peers[n] :
          /\ SpawnRequest(n, m, "kQuit")
          /\ quit_peers' = [quit_peers EXCEPT ![n] = @ \ {m}]
          /\ UNCHANGED main_pc
     \/ /\ quit_peers[n] = {}
        /\ MainGoto(n, "count")
        /\ UNCHANGED <<quit_peers, mapVars, pending_send, async_scope>>
  /\ UNCHANGED <<callVars, pending_reply, recvVars, net, sendVars, recv_pc, quit_latch,
                 stopped, stop_requested, heartbeats, failed>>

\* The node does not count itself.
StopCountDown_Missing(n) ==
  /\ MainStep(n, "count", "latch")
  /\ UNCHANGED <<quit_peers, quit_latch, stopped, stop_requested>>

\* quit_latch_.count_down()
StopCountDown(n) ==
  /\ MainStep(n, "count", "latch")
  /\ quit_latch' = [quit_latch EXCEPT ![n] = @ - 1]
  /\ UNCHANGED <<quit_peers, stopped, stop_requested>>

\* The wait for the latch is left out.
StopLatch_NoWait(n) ==
  /\ MainStep(n, "latch", "empty")
  /\ stopped' = [stopped EXCEPT ![n] = TRUE]
  /\ UNCHANGED <<quit_peers, quit_latch, stop_requested>>

\* quit_latch_.wait(); stopped_.store(true)
StopLatch(n) ==
  /\ quit_latch[n] = 0
  /\ MainStep(n, "latch", "empty")
  /\ stopped' = [stopped EXCEPT ![n] = TRUE]
  /\ UNCHANGED <<quit_peers, quit_latch, stop_requested>>

\* The wait for the scope is left out.
StopEmpty_NoWait(n) ==
  /\ MainStep(n, "empty", "join")
  /\ stop_requested' = [stop_requested EXCEPT ![n] = TRUE]
  /\ UNCHANGED <<quit_peers, quit_latch, stopped>>

\* sync_wait(async_scope_.on_empty()); request_stop() on both threads
StopEmpty(n) ==
  /\ async_scope[n] = 0
  /\ MainStep(n, "empty", "join")
  /\ stop_requested' = [stop_requested EXCEPT ![n] = TRUE]
  /\ UNCHANGED <<quit_peers, quit_latch, stopped>>

\* join() both threads and return.
StopJoin(n) ==
  /\ send_pc[n] = "exited"
  /\ recv_pc[n] = "exited"
  /\ MainStep(n, "join", "done")
  /\ UNCHANGED <<quit_peers, quit_latch, stopped, stop_requested>>

\* The destructor closes the sockets; with ZMQ_LINGER 0 what ZeroMQ has not
\* yet handed to the transport is discarded.
Close(n) ==
  /\ main_pc[n] = "done"
  /\ \/ UNCHANGED net
     \/ /\ CloseDiscards
        /\ \E keep \in [Nodes -> UNION {0 .. Len(net[n][m]) : m \in Nodes}] :
             /\ \A m \in Nodes : keep[m] <= Len(net[n][m])
             /\ net' = [net EXCEPT ![n] = [m \in Nodes |-> SubSeq(@[m], 1, keep[m])]]
  /\ MainGoto(n, "closed")
  /\ UNCHANGED <<callVars, mapVars, pending_send, pending_reply, recvVars, sendVars,
                 recv_pc, quit_peers, stopVars, heartbeats, failed>>

ClusterAlignedStop(n) ==
  \/ StopQuit(n) \/ StopCountDown(n) \/ StopLatch(n) \/ StopEmpty(n)
  \/ StopJoin(n) \/ Close(n)

-----------------------------------------------------------------------------
Next ==
  \/ \E k \in Calls : SendRequest(k) \/ PushOperation(k)
  \/ \E n \in Nodes :
       \/ SendProcessLoop(n)
       \/ \E m \in Peers(n) : HandleReceivedMessage(n, m)
       \/ ReceiveExit(n)
       \/ ReplyRequest(n)
       \/ StopBegin(n)
       \/ ClusterAlignedStop(n)

Spec == Init /\ [][Next]_vars

\* The broker's threads run, the processor actor answers what it is handed, a
\* started call and a started stop go on; ZeroMQ delivers.  Nobody has to
\* make a call or to stop.
Fairness ==
  /\ \A k \in Calls : WF_vars(PushOperation(k))
  /\ \A n \in Nodes :
       /\ WF_vars(SendProcessLoop(n))
       /\ \A m \in Peers(n) : WF_vars(HandleReceivedMessage(n, m))
       /\ WF_vars(ReceiveExit(n))
       /\ WF_vars(ReplyRequest(n))
       /\ WF_vars(ClusterAlignedStop(n))

FairSpec == Spec /\ Fairness

-----------------------------------------------------------------------------
(* Properties.                                                             *)

OperationType ==
  [from : Nodes, to : Nodes, id : Nat, flag : {"kNormal", "kQuit", "kHeartbeat"},
   call : Calls \cup {None}]

\* Type invariant of the brokers; the latch never goes below zero, which
\* std::latch::count_down forbids (network.cc:58, 218).
TypeOK ==
  /\ call_pc \in [Calls -> {"idle", "insert", "push", "waiting", "done"}]
  /\ call_id \in [Calls -> Nat]
  /\ call_reply \in [Calls -> Calls \cup {None}]
  /\ request_id_counter \in [Nodes -> Nat]
  /\ operations \in [Nodes -> SUBSET OperationType]
  /\ pending_send \in [Nodes -> Seq(OperationType)]
  /\ pending_reply \in [Nodes -> Seq(OperationType)]
  /\ received \in [Nodes -> SUBSET [rid : Nat, identifier : OperationType]]
  /\ received_id_counter \in [Nodes -> Nat]
  /\ net \in [Nodes -> [Nodes -> Seq(OperationType)]]
  /\ send_pc \in [Nodes -> {"top", "sends", "flag", "replies", "heartbeat", "spawn", "exited"}]
  /\ send_op \in [Nodes -> OperationType \cup {None}]
  /\ send_peers \in [Nodes -> SUBSET Nodes]
  /\ recv_pc \in [Nodes -> {"loop", "exited"}]
  /\ main_pc \in [Nodes -> {"run", "quits", "count", "latch", "empty", "join", "done", "closed"}]
  /\ quit_peers \in [Nodes -> SUBSET Nodes]
  /\ quit_latch \in [Nodes -> Nat]
  /\ stopped \in [Nodes -> BOOLEAN]
  /\ async_scope \in [Nodes -> Nat]
  /\ stop_requested \in [Nodes -> BOOLEAN]
  /\ heartbeats \in [Nodes -> Nat]
  /\ failed \in BOOLEAN

\* Every response finds its operation registered: At() never throws in the
\* receive thread (network.cc:136-139 against 229).
ResponseFindsOperation == ~failed

\* A call is completed with the reply to its own request, even when calls of
\* one node overlap and replies are reordered by the handlers (network.cc:111,
\* 229-231).
OwnReply == \A k \in Calls : call_pc[k] = "done" => call_reply[k] = k

PastLatch(n) == main_pc[n] \in {"empty", "join", "done", "closed"}

\* The aligned stop: a node stops only after every node has decided to, and
\* no call that involves it is left without an answer (network.cc:46-70).
AlignedStop ==
  \A n \in Nodes : PastLatch(n) =>
    /\ \A m \in Nodes : main_pc[m] # "run"
    /\ \A k \in Calls : n \in {CallFrom[k], CallTo[k]} => call_pc[k] \in {"idle", "done"}

\* network.h:154: at the stop all asynchronous tasks have been waited for.
ScopeDrainedAtStop ==
  \A n \in Nodes : main_pc[n] \in {"done", "closed"} => async_scope[n] = 0

\* Every call that is started returns.
CallReturns == \A k \in Calls : (call_pc[k] = "insert") ~> (call_pc[k] = "done")

\* When every node has called ClusterAlignedStop, every node's call returns
\* (network.cc:46: wait for all nodes to quit, reclaim all threads).
StopCompletes ==
  (\A n \in Nodes : main_pc[n] # "run") ~> (\A n \in Nodes : main_pc[n] = "closed")
=============================================================================
