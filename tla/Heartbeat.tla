------------------------------ MODULE Heartbeat ------------------------------
(***************************************************************************)
(* Failure detection in network::MessageBroker (network.cc:141-266): every  *)
(* message a node sends postpones its next heartbeat, every message it      *)
(* receives refreshes last_seen_ of the message's requesting node, and a    *)
(* node that has not seen a peer for heartbeat_timeout ends its process.   *)
(*                                                                         *)
(* Time is discrete and clocks are ages (ticks since the time point the     *)
(* code keeps).  A tick passes only when no thread has anything due: the    *)
(* send loop wakes up every millisecond and the receive loop every 100 ms   *)
(* at most, far below a tick.                                              *)
(***************************************************************************)
EXTENDS Naturals, Sequences, FiniteSets

CONSTANTS
  Hosts,
  Requesting,   \* <<n, m>>: user code on n sends normal requests to m
  Interval,     \* heartbeat_interval, in ticks
  Timeout,      \* heartbeat_timeout, in ticks
  MaxDelay,     \* bound on the delivery of a message, in ticks
  RequestGap,   \* least number of ticks between two requests of a node
  Crashes       \* nodes that may crash

ASSUME TimesAssumption ==
  {Interval, Timeout, MaxDelay, RequestGap} \subseteq Nat \ {0}
ASSUME TopologyAssumption ==
  /\ IsFiniteSet(Hosts)
  /\ Requesting \subseteq {p \in Hosts \X Hosts : p[1] # p[2]}
  /\ Crashes \subseteq Hosts

VARIABLES
  up,        \* the node's process runs
  crashed,   \* the node failed
  hb_age,    \* now - last_heartbeat_
  seen_age,  \* seen_age[n][m]: now - last_seen_[m] on node n
  req_age,   \* ticks since the last request of the node
  net        \* net[n][m]: messages in flight from n to m, with their ages

heartbeatVars == <<up, crashed, hb_age, seen_age, req_age, net>>

Peers(n) == Hosts \ {n}

\* A message with its kind and the request_node_id of its Identifier, which
\* for a reply is the node that receives it.
Message(k, requester) == [kind |-> k, request_node_id |-> requester, age |-> 0]

\* The channels after n has sent the message to every node of targets; what
\* is sent to a node that is down is lost.
Post(channels, n, targets, message) ==
  [channels EXCEPT ![n] =
     [m \in Hosts |-> IF m \in targets /\ up[m] THEN Append(@[m], message) ELSE @[m]]]

HeartbeatInit ==
  /\ up = [n \in Hosts |-> TRUE]
  /\ crashed = [n \in Hosts |-> FALSE]
  /\ hb_age = [n \in Hosts |-> 0]
  /\ seen_age = [n \in Hosts |-> [m \in Hosts |-> 0]]
  /\ req_age = [n \in Hosts |-> RequestGap]
  /\ net = [n \in Hosts |-> [m \in Hosts |-> << >>]]

-----------------------------------------------------------------------------
\* now() - last_heartbeat_ >= heartbeat_interval
HeartbeatDue(n) == up[n] /\ hb_age[n] >= Interval

\* The loop over the peers stops after the first one.
SendHeartbeat_OnePeer(n) ==
  /\ HeartbeatDue(n)
  /\ \E m \in Peers(n) : net' = Post(net, n, {m}, Message("heartbeat", n))
  /\ hb_age' = [hb_age EXCEPT ![n] = 0]
  /\ UNCHANGED <<up, crashed, seen_age, req_age>>

\* SendHeartbeat, with the sends of the heartbeats it spawns.
SendHeartbeat(n) ==
  /\ HeartbeatDue(n)
  /\ net' = Post(net, n, Peers(n), Message("heartbeat", n))
  /\ hb_age' = [hb_age EXCEPT ![n] = 0]
  /\ UNCHANGED <<up, crashed, seen_age, req_age>>

\* The send loop sends a user's request: last_heartbeat_ = now().
SendNormal(n, m) ==
  /\ up[n]
  /\ <<n, m>> \in Requesting
  /\ req_age[n] >= RequestGap
  /\ net' = Post(net, n, {m}, Message("request", n))
  /\ req_age' = [req_age EXCEPT ![n] = 0]
  /\ hb_age' = [hb_age EXCEPT ![n] = 0]
  /\ UNCHANGED <<up, crashed, seen_age>>

\* HandleReceivedMessage: last_seen_[identifier.request_node_id] = now(); a
\* request is answered, and the send loop's send of the reply is another
\* last_heartbeat_ = now().
HandleReceivedMessage(n, m) ==
  /\ up[n]
  /\ net[m][n] # << >>
  /\ LET message == Head(net[m][n])
         rest == [net EXCEPT ![m][n] = Tail(@)]
     IN
     /\ seen_age' = [seen_age EXCEPT ![n][message.request_node_id] = 0]
     /\ \/ /\ message.kind = "request"
           /\ net' = Post(rest, n, {m}, Message("reply", m))
           /\ hb_age' = [hb_age EXCEPT ![n] = 0]
        \/ /\ message.kind \in {"heartbeat", "reply"}
           /\ net' = rest
           /\ UNCHANGED hb_age
  /\ UNCHANGED <<up, crashed, req_age>>

\* now() - last_seen_[m] >= heartbeat_timeout
Silent(n, m) == seen_age[n][m] >= Timeout

\* The process ends only when all peers are silent.
CheckHeartbeat_AllSilent(n) ==
  /\ up[n]
  /\ \A m \in Peers(n) : Silent(n, m)
  /\ up' = [up EXCEPT ![n] = FALSE]
  /\ net' = [m \in Hosts |-> [net[m] EXCEPT ![n] = << >>]]
  /\ UNCHANGED <<crashed, hb_age, seen_age, req_age>>

\* CheckHeartbeat: some peer has been silent for too long: quick_exit.
CheckHeartbeat(n) ==
  /\ up[n]
  /\ \E m \in Peers(n) : Silent(n, m)
  /\ up' = [up EXCEPT ![n] = FALSE]
  /\ net' = [m \in Hosts |-> [net[m] EXCEPT ![n] = << >>]]
  /\ UNCHANGED <<crashed, hb_age, seen_age, req_age>>

\* The process of a node fails.
Crash(n) ==
  /\ up[n]
  /\ n \in Crashes
  /\ up' = [up EXCEPT ![n] = FALSE]
  /\ crashed' = [crashed EXCEPT ![n] = TRUE]
  /\ net' = [m \in Hosts |-> [net[m] EXCEPT ![n] = << >>]]
  /\ UNCHANGED <<hb_age, seen_age, req_age>>

\* Nothing is due on any running node.
NothingDue ==
  /\ \A n \in Hosts : ~HeartbeatDue(n)
  /\ \A n \in Hosts : up[n] => \A m \in Peers(n) : ~Silent(n, m)
  /\ \A n, m \in Hosts : net[n][m] # << >> => Head(net[n][m]).age < MaxDelay

Tick ==
  /\ NothingDue
  /\ \E n \in Hosts : up[n]
  /\ hb_age' = [n \in Hosts |-> IF up[n] THEN hb_age[n] + 1 ELSE hb_age[n]]
  /\ seen_age' = [n \in Hosts |-> [m \in Hosts |->
                    IF up[n] /\ m # n THEN seen_age[n][m] + 1 ELSE seen_age[n][m]]]
  /\ req_age' = [n \in Hosts |-> IF req_age[n] < RequestGap THEN req_age[n] + 1 ELSE req_age[n]]
  /\ net' = [n \in Hosts |-> [m \in Hosts |->
               [i \in DOMAIN net[n][m] |-> [net[n][m][i] EXCEPT !.age = @ + 1]]]]
  /\ UNCHANGED <<up, crashed>>

HeartbeatNext ==
  \/ Tick
  \/ \E n \in Hosts :
       \/ SendHeartbeat(n)
       \/ CheckHeartbeat(n)
       \/ Crash(n)
       \/ \E m \in Peers(n) : SendNormal(n, m) \/ HandleReceivedMessage(n, m)

HeartbeatSpec == HeartbeatInit /\ [][HeartbeatNext]_heartbeatVars

\* Time passes, the two loops of a running node run and messages arrive;
\* no node has to crash and user code has to send nothing.
HeartbeatFairness ==
  /\ WF_heartbeatVars(Tick)
  /\ \A n \in Hosts :
       /\ WF_heartbeatVars(SendHeartbeat(n))
       /\ WF_heartbeatVars(CheckHeartbeat(n))
       /\ \A m \in Peers(n) : WF_heartbeatVars(HandleReceivedMessage(n, m))

HeartbeatFairSpec == HeartbeatSpec /\ HeartbeatFairness

-----------------------------------------------------------------------------
\* Whose requests postpone the heartbeats of n: its own, and those it answers.
Sources(n) ==
  {s \in Hosts : <<s, n>> \in Requesting \/ (s = n /\ \E m \in Hosts : <<n, m>> \in Requesting)}

\* User code leaves room for the heartbeats: between two requests of one node
\* every source of another may have postponed its heartbeat once, and the
\* timeout allows for that.
SparseRequests ==
  \A n \in Hosts :
    /\ RequestGap > Cardinality(Sources(n)) * Interval + MaxDelay
    /\ Timeout > (Cardinality(Sources(n)) + 1) * Interval + MaxDelay

\* network.h:158: last_seen_ is for detecting that a node is lost.  While no
\* node has failed no node gives up a peer and ends its process.
NoFalseDeath == (\A n \in Hosts : ~crashed[n]) => \A n \in Hosts : up[n]

\* A crash is detected: every other node ends its process (network.cc:243-252).
CrashDetected == (\E n \in Hosts : crashed[n]) ~> (\A n \in Hosts : ~up[n])
=============================================================================
