---------------------------- MODULE ActorRegistry ----------------------------
(***************************************************************************)
(* The ActorRegistry of every node of a cluster and its request processor   *)
(* (include/ncaf/internal/actor_registry.h, src/ncaf/internal/              *)
(* actor_registry.cc): the tables of actor ids and names, local and remote  *)
(* creation, lookup, method call and destruction, and the shutdown.        *)
(*                                                                         *)
(* The processor is an Actor, so what one of its methods does between two   *)
(* suspensions is one step (Actor.tla: SingleConsumer, RefinesSerialActor). *)
(* An actor is the SerialActor it implements: it executes what is in its    *)
(* mailbox until it has been destroyed and drops the rest.  The broker      *)
(* delivers every request and reply once (MessageBroker.tla: CallReturns,   *)
(* OwnReply) and stops all nodes together (AlignedStop).                   *)
(*                                                                         *)
(* A task is a user coroutine on its home node with one operation at a time *)
(* under way; an object is one Actor instance, made once.                  *)
(***************************************************************************)
EXTENDS Naturals, FiniteSets

CONSTANTS
  Nodes, Ids, Names, Objects, Tasks,   \* Objects bounds the actors ever made
  Home,        \* the node each task runs on
  UniqueIds,   \* TRUE: no id is ever drawn twice in the cluster
  None

ASSUME FiniteRegistryAssumption ==
  /\ IsFiniteSet(Objects) /\ IsFiniteSet(Ids)
  /\ Cardinality(Objects) <= Cardinality(Ids)
ASSUME HomeAssumption == Home \in [Tasks -> Nodes]
ASSUME UniqueIdsAssumption == UniqueIds \in BOOLEAN

\* The ActorRefs: node_id_ and actor_id_; `of` is the object a reference was
\* made for (type_erased_actor_ on the object's own node, unknown elsewhere).
Refs == [node : Nodes, id : Ids, of : Objects]

ASSUME RegistryNoneAssumption ==
  None \notin Nodes \cup Ids \cup Names \cup Objects \cup Refs

VARIABLES
  actor_id_to_actor,   \* per node: the object under each id, None: no entry
  actor_name_to_id,    \* per node: the id under each name, None: no entry
  node_id, actor_name, \* per object: its ActorConfig
  life,                \* per object: unmade, live, destroying or destroyed
  drawn,               \* the ids drawn so far in the cluster
  refs,                \* per node: the ActorRefs its user code holds
  pc,                  \* per task: where its operation is
  req,                 \* per task: the operation
  hit,                 \* per task: the object its operation reached
  reply,               \* per task: what its operation returned
  main_pc              \* per node: the progress of ~ActorRegistry

config == <<node_id, actor_name>>
tables == <<actor_id_to_actor, actor_name_to_id, config, life, drawn>>
tasks == <<pc, req, hit, reply>>
vars == <<tables, refs, tasks, main_pc>>

Ref(n, i, o) == [node |-> n, id |-> i, of |-> o]

\* The contents of a reply: a new reference, a value, or an error.
Reply(status, ref) == [status |-> status, ref |-> ref]

NoReply == Reply("none", None)

NoRequest == [kind |-> "none", to |-> None, name |-> None, ref |-> None, known |-> FALSE]

Init ==
  /\ actor_id_to_actor = [n \in Nodes |-> [i \in Ids |-> None]]
  /\ actor_name_to_id = [n \in Nodes |-> [x \in Names |-> None]]
  /\ node_id = [o \in Objects |-> None]
  /\ actor_name = [o \in Objects |-> None]
  /\ life = [o \in Objects |-> "unmade"]
  /\ drawn = {}
  /\ refs = [n \in Nodes |-> {}]
  /\ pc = [t \in Tasks |-> "idle"]
  /\ req = [t \in Tasks |-> NoRequest]
  /\ hit = [t \in Tasks |-> None]
  /\ reply = [t \in Tasks |-> NoReply]
  /\ main_pc = [n \in Nodes |-> "running"]

-----------------------------------------------------------------------------
(* The tables of one node.                                                 *)

\* The table is not consulted.
GenerateRandomActorId_Any(n) == Ids

\* GenerateRandomActorId: any id without an entry in this node's table.
GenerateRandomActorId(n) ==
  {i \in Ids : actor_id_to_actor[n][i] = None /\ (UniqueIds => i \notin drawn)}

NameFree(n, name) == name # None => actor_name_to_id[n][name] = None

\* Enter the new object o into the tables of n under a drawn id.
Register(n, i, o, name) ==
  /\ life[o] = "unmade"
  /\ life' = [life EXCEPT ![o] = "live"]
  /\ node_id' = [node_id EXCEPT ![o] = n]
  /\ actor_name' = [actor_name EXCEPT ![o] = name]
  /\ drawn' = drawn \cup {i}
  /\ actor_id_to_actor' = [actor_id_to_actor EXCEPT ![n][i] = o]
  /\ actor_name_to_id' = IF name = None THEN actor_name_to_id
                         ELSE [actor_name_to_id EXCEPT ![n][name] = i]

\* The name of the destroyed actor keeps its entry.
Unregister_KeepsName(n, i) ==
  LET o == actor_id_to_actor[n][i] IN
  /\ actor_id_to_actor' = [actor_id_to_actor EXCEPT ![n][i] = None]
  /\ life' = [life EXCEPT ![o] = "destroying"]
  /\ UNCHANGED <<actor_name_to_id, config, drawn>>

\* Take the object under id i out of both tables and ask it to be destroyed.
Unregister(n, i) ==
  LET o == actor_id_to_actor[n][i]
      name == actor_name[o]
  IN
  /\ actor_id_to_actor' = [actor_id_to_actor EXCEPT ![n][i] = None]
  /\ actor_name_to_id' = IF name = None THEN actor_name_to_id
                         ELSE [actor_name_to_id EXCEPT ![n][name] = None]
  /\ life' = [life EXCEPT ![o] = "destroying"]
  /\ UNCHANGED <<config, drawn>>

-----------------------------------------------------------------------------
(* Operations of user code.  A local one runs on the node's processor       *)
(* without a request; one that throws leaves everything as it was.         *)

\* The front end: a task without an operation under way sends to the processor
\* of its own node, which is not being shut down.
Start(t) == pc[t] = "idle" /\ main_pc[Home[t]] = "running"

\* Bound: an object is left for this creation and for those under way.
Room ==
  Cardinality({t \in Tasks : pc[t] = "sent" /\ req[t].kind = "create"})
    < Cardinality({o \in Objects : life[o] = "unmade"})

\* CreateActor on the caller's own node.  A duplicate name throws before
\* anything is entered.
CreateLocal(t, name) ==
  LET n == Home[t] IN
  /\ Start(t)
  /\ Room
  /\ NameFree(n, name)
  /\ \E o \in Objects, i \in GenerateRandomActorId(n) :
       /\ Register(n, i, o, name)
       /\ refs' = [refs EXCEPT ![n] = @ \cup {Ref(n, i, o)}]
  /\ UNCHANGED <<tasks, main_pc>>

\* GetActorRefByName on the caller's own node.
LookUpLocal(t, name) ==
  LET n == Home[t]
      i == actor_name_to_id[n][name]
  IN
  /\ Start(t)
  /\ i # None
  /\ refs' = [refs EXCEPT ![n] = @ \cup {Ref(n, i, actor_id_to_actor[n][i])}]
  /\ UNCHANGED <<tables, tasks, main_pc>>

\* Send a request to another node and wait for its reply.
SendRequest(t, kind, m, name, ref, known) ==
  /\ Start(t)
  /\ m # Home[t]
  /\ req' = [req EXCEPT ![t] =
              [kind |-> kind, to |-> m, name |-> name, ref |-> ref, known |-> known]]
  /\ pc' = [pc EXCEPT ![t] = "sent"]
  /\ UNCHANGED <<tables, refs, hit, reply, main_pc>>

\* CreateActor on another node; `known`: the create function is registered there.
CreateRemote(t, m, name, known) == Room /\ SendRequest(t, "create", m, name, None, known)

\* GetActorRefByName on another node.
LookUpRemote(t, m, name) == SendRequest(t, "lookup", m, name, None, TRUE)

\* ActorRef::Send to an actor of another node.
CallRemote(t, ref, known) == SendRequest(t, "call", ref.node, None, ref, known)

\* DestroyActor(actor_ref): the id is looked up on the caller's node, whatever
\* the node of the reference; an unknown id throws.
DestroyActor(t, ref) ==
  LET n == Home[t] IN
  /\ Start(t)
  /\ actor_id_to_actor[n][ref.id] # None
  /\ Unregister(n, ref.id)
  /\ hit' = [hit EXCEPT ![t] = actor_id_to_actor[n][ref.id]]
  /\ req' = [req EXCEPT ![t] = [kind |-> "destroy", to |-> None, name |-> None, ref |-> ref, known |-> TRUE]]
  /\ pc' = [pc EXCEPT ![t] = "destroying"]
  /\ UNCHANGED <<refs, reply, main_pc>>

\* The task's operation is over.
Finish(t) ==
  /\ pc' = [pc EXCEPT ![t] = "idle"]
  /\ req' = [req EXCEPT ![t] = NoRequest]
  /\ hit' = [hit EXCEPT ![t] = None]
  /\ reply' = [reply EXCEPT ![t] = NoReply]

\* co_await actor->AsyncDestroy() returns, and so does DestroyActor.
DestroyReturn(t) ==
  /\ pc[t] = "destroying"
  /\ life[hit[t]] = "destroyed"
  /\ Finish(t)
  /\ UNCHANGED <<tables, refs, main_pc>>

\* The reply arrives: a new reference, a value, or an error that is thrown.
Return(t) ==
  LET n == Home[t] IN
  /\ pc[t] = "replied"
  /\ Finish(t)
  /\ refs' = IF reply[t].status = "ref" THEN [refs EXCEPT ![n] = @ \cup {reply[t].ref}]
             ELSE refs
  /\ UNCHANGED <<tables, main_pc>>

-----------------------------------------------------------------------------
(* HandleNetworkRequest on the processor of the node the request went to.   *)

\* ReplyRequest with the given contents.
ReplyWith(t, contents) ==
  /\ reply' = [reply EXCEPT ![t] = contents]
  /\ pc' = [pc EXCEPT ![t] = "replied"]
  /\ UNCHANGED <<req, refs, main_pc>>

\* The processor takes the request.
Handling(t, kind) ==
  /\ pc[t] = "sent"
  /\ req[t].kind = kind
  /\ main_pc[req[t].to] # "done"

\* HandleActorCreationRequest: an unknown handler and a duplicate name reply
\* an error.
HandleActorCreationRequest(t) ==
  LET m == req[t].to
      name == req[t].name
      possible == req[t].known /\ NameFree(m, name)
  IN
  /\ Handling(t, "create")
  /\ \/ /\ possible
        /\ \E o \in Objects, i \in GenerateRandomActorId(m) :
             /\ Register(m, i, o, name)
             /\ ReplyWith(t, Reply("ref", Ref(m, i, o)))
     \/ /\ ~possible
        /\ ReplyWith(t, Reply("error", None))
        /\ UNCHANGED tables
  /\ UNCHANGED hit

\* The look-up branch of HandleNetworkRequest.
HandleActorLookUpRequest(t) ==
  LET m == req[t].to
      i == actor_name_to_id[m][req[t].name]
  IN
  /\ Handling(t, "lookup")
  /\ ReplyWith(t, IF i = None THEN Reply("error", None)
                  ELSE Reply("ref", Ref(m, i, actor_id_to_actor[m][i])))
  /\ UNCHANGED <<tables, hit>>

\* A request for an actor that is gone is dropped without a reply.
HandleActorMethodCallRequest_NoError(t) ==
  LET m == req[t].to
      o == actor_id_to_actor[m][req[t].ref.id]
  IN
  /\ Handling(t, "call")
  /\ o # None
  /\ hit' = [hit EXCEPT ![t] = o]
  /\ pc' = [pc EXCEPT ![t] = "queued"]
  /\ UNCHANGED <<tables, refs, req, reply, main_pc>>

\* HandleActorMethodCallRequest up to its co_await: no such actor and no such
\* handler reply an error, otherwise the message is in the actor's mailbox.
HandleActorMethodCallRequest(t) ==
  LET m == req[t].to
      o == actor_id_to_actor[m][req[t].ref.id]
      possible == o # None /\ req[t].known
  IN
  /\ Handling(t, "call")
  /\ \/ /\ possible
        /\ hit' = [hit EXCEPT ![t] = o]
        /\ pc' = [pc EXCEPT ![t] = "queued"]
        /\ UNCHANGED <<refs, req, reply, main_pc>>
     \/ /\ ~possible
        /\ ReplyWith(t, Reply("error", None))
        /\ UNCHANGED hit
  /\ UNCHANGED tables

\* The actor executes the method, unless it has been destroyed before.
Execute(t) ==
  /\ pc[t] = "queued"
  /\ life[hit[t]] \in {"live", "destroying"}
  /\ pc' = [pc EXCEPT ![t] = "executed"]
  /\ UNCHANGED <<tables, refs, req, hit, reply, main_pc>>

\* Back on the processor: reply the return value, or the exception.
HandleActorMethodCallReturn(t) ==
  /\ pc[t] = "executed"
  /\ main_pc[req[t].to] # "done"
  /\ \E status \in {"value", "error"} : ReplyWith(t, Reply(status, None))
  /\ UNCHANGED <<tables, hit>>

HandleNetworkRequest(t) ==
  \/ HandleActorCreationRequest(t)
  \/ HandleActorLookUpRequest(t)
  \/ HandleActorMethodCallRequest(t)
  \/ HandleActorMethodCallReturn(t)

\* AsyncDestroy of an actor takes effect.
Destroyed(o) ==
  /\ life[o] = "destroying"
  /\ life' = [life EXCEPT ![o] = "destroyed"]
  /\ UNCHANGED <<actor_id_to_actor, actor_name_to_id, config, drawn, refs, tasks, main_pc>>

-----------------------------------------------------------------------------
(* ~ActorRegistry.                                                         *)

Registered(n) == {o \in Objects : \E i \in Ids : actor_id_to_actor[n][i] = o}

MainGoto(n, from, to) ==
  /\ main_pc[n] = from
  /\ main_pc' = [main_pc EXCEPT ![n] = to]
  /\ UNCHANGED <<actor_id_to_actor, actor_name_to_id, config, drawn, refs, tasks>>

\* Shutdown(), called once the node's own tasks have returned; it enters
\* ClusterAlignedStop.
ShutdownBegin(n) ==
  /\ \A t \in Tasks : Home[t] = n => pc[t] = "idle"
  /\ MainGoto(n, "running", "stopping")
  /\ UNCHANGED life

\* The broker is not stopped first.
AsyncDestroyAllActors_NotAligned(n) ==
  /\ MainGoto(n, "stopping", "destroying")
  /\ life' = [o \in Objects |-> IF o \in Registered(n) THEN "destroying" ELSE life[o]]

\* ClusterAlignedStop returns when every node is stopping; then
\* AsyncDestroyAllActors asks every registered actor to be destroyed.
AsyncDestroyAllActors(n) ==
  /\ \A m \in Nodes : main_pc[m] # "running"
  /\ MainGoto(n, "stopping", "destroying")
  /\ life' = [o \in Objects |-> IF o \in Registered(n) THEN "destroying" ELSE life[o]]

\* The wait for the scope of AsyncDestroyAllActors is left out.
AllActorsDestroyed_NoWait(n) ==
  /\ MainGoto(n, "destroying", "draining")
  /\ UNCHANGED life

\* All of them have been; the processor is destroyed in its turn.
AllActorsDestroyed(n) ==
  /\ \A o \in Registered(n) : life[o] = "destroyed"
  /\ MainGoto(n, "destroying", "draining")
  /\ UNCHANGED life

\* sync_wait(async_scope_.on_empty()): no request is being handled.
ShutdownReturn(n) ==
  /\ \A t \in Tasks : req[t].to = n => pc[t] \notin {"sent", "queued", "executed"}
  /\ MainGoto(n, "draining", "done")
  /\ UNCHANGED life

Shutdown(n) == AsyncDestroyAllActors(n) \/ AllActorsDestroyed(n) \/ ShutdownReturn(n)

-----------------------------------------------------------------------------
Next ==
  \/ \E t \in Tasks :
       \/ \E name \in Names \cup {None} : CreateLocal(t, name)
       \/ \E name \in Names : LookUpLocal(t, name)
       \/ \E m \in Nodes, name \in Names \cup {None}, known \in BOOLEAN :
            CreateRemote(t, m, name, known)
       \/ \E m \in Nodes, name \in Names : LookUpRemote(t, m, name)
       \/ \E ref \in refs[Home[t]], known \in BOOLEAN : CallRemote(t, ref, known)
       \/ \E ref \in refs[Home[t]] : DestroyActor(t, ref)
       \/ DestroyReturn(t)
       \/ HandleNetworkRequest(t)
       \/ Execute(t)
       \/ Return(t)
  \/ \E o \in Objects : Destroyed(o)
  \/ \E n \in Nodes : ShutdownBegin(n) \/ Shutdown(n)

Spec == Init /\ [][Next]_vars

\* The broker delivers, processors and actors run, a shutdown that has begun
\* goes on.  User code does not have to begin anything.
Fairness ==
  /\ \A t \in Tasks :
       /\ WF_vars(DestroyReturn(t))
       /\ WF_vars(HandleNetworkRequest(t))
       /\ WF_vars(Execute(t))
       /\ WF_vars(Return(t))
  /\ \A o \in Objects : WF_vars(Destroyed(o))
  /\ \A n \in Nodes : WF_vars(Shutdown(n))

FairSpec == Spec /\ Fairness

-----------------------------------------------------------------------------
(* Properties.                                                             *)

Requests ==
  [kind : {"none", "create", "lookup", "call", "destroy"}, to : Nodes \cup {None},
   name : Names \cup {None}, ref : Refs \cup {None}, known : BOOLEAN]

\* Type invariant of the registries.  That a reference always has an object
\* says that the at() of GetActorRefByName never throws.
TypeOK ==
  /\ actor_id_to_actor \in [Nodes -> [Ids -> Objects \cup {None}]]
  /\ actor_name_to_id \in [Nodes -> [Names -> Ids \cup {None}]]
  /\ node_id \in [Objects -> Nodes \cup {None}]
  /\ actor_name \in [Objects -> Names \cup {None}]
  /\ life \in [Objects -> {"unmade", "live", "destroying", "destroyed"}]
  /\ drawn \subseteq Ids
  /\ refs \in [Nodes -> SUBSET Refs]
  /\ pc \in [Tasks -> {"idle", "sent", "queued", "executed", "replied", "destroying"}]
  /\ req \in [Tasks -> Requests]
  /\ hit \in [Tasks -> Objects \cup {None}]
  /\ reply \in [Tasks -> [status : {"none", "ref", "value", "error"}, ref : Refs \cup {None}]]
  /\ main_pc \in [Nodes -> {"running", "stopping", "destroying", "draining", "done"}]

\* Both tables of a node agree: a name leads to the one registered actor that
\* bears it, and a registered actor with a name is found under it
\* (actor_registry.h:55-61, 118-124, 131-134, actor_registry.cc:131-139).
NamesConsistent ==
  \A n \in Nodes :
    /\ \A x \in Names : actor_name_to_id[n][x] # None =>
         /\ actor_id_to_actor[n][actor_name_to_id[n][x]] # None
         /\ actor_name[actor_id_to_actor[n][actor_name_to_id[n][x]]] = x
    /\ \A i \in Ids : 
         LET o == actor_id_to_actor[n][i] IN
         o # None /\ actor_name[o] # None => actor_name_to_id[n][actor_name[o]] = i

\* actor_ref.h:74 calls actor_id_ globally unique.  A method call or a
\* destruction through a reference reaches the actor the reference was made
\* for, or none (actor_registry.h:116-118, actor_registry.cc:158, 186).
ReachesItsActor ==
  \A t \in Tasks : hit[t] # None => hit[t] = req[t].ref.of

\* Once a node goes beyond the aligned stop no request for it is under way, so
\* that none can reach an actor or a processor that is being destroyed
\* (actor_registry.cc:198-203).
NoRequestAfterStop ==
  \A n \in Nodes, t \in Tasks :
    main_pc[n] \in {"destroying", "draining", "done"} /\ req[t].to = n => pc[t] = "replied"

\* When Shutdown returns every actor that was made on the node has been
\* destroyed (README.md:106 of the repository).
AllDestroyedAtShutdown ==
  \A n \in Nodes, o \in Objects :
    main_pc[n] = "done" /\ node_id[o] = n => life[o] = "destroyed"

\* Every request is answered, with an error if its actor is gone, unless the
\* actor was destroyed with the message in its mailbox.
RequestAnswered ==
  \A t \in Tasks : (pc[t] = "sent") ~>
    (pc[t] = "idle" \/ (pc[t] = "queued" /\ life[hit[t]] = "destroyed"))

-----------------------------------------------------------------------------
(* The inductive invariant behind NamesConsistent and ReachesItsActor.      *)

\* What is registered has been made.
Made ==
  \A n \in Nodes, i \in Ids :
    actor_id_to_actor[n][i] # None => life[actor_id_to_actor[n][i]] # "unmade"

\* A request names what its handler reads from it.
RequestShape ==
  \A t \in Tasks :
    /\ req[t].kind \in {"create", "lookup", "call"} => req[t].to # None
    /\ req[t].kind = "lookup" => req[t].name # None
    /\ req[t].kind = "call" => req[t].ref # None
    /\ reply[t].status = "ref" => reply[t].ref # None

\* An operation has reached nothing before it is handled.
HitShape ==
  \A t \in Tasks :
    /\ pc[t] \in {"idle", "sent"} => hit[t] = None
    /\ hit[t] # None => req[t].ref # None

\* The id of a reference is registered for its object or not at all.
RefOK(r) ==
  /\ r.id \in drawn
  /\ \A n \in Nodes : actor_id_to_actor[n][r.id] \in {None, r.of}

RefsSound ==
  /\ \A n \in Nodes : \A r \in refs[n] : RefOK(r)
  /\ \A t \in Tasks : req[t].ref # None => RefOK(req[t].ref)
  /\ \A t \in Tasks : reply[t].ref # None => RefOK(reply[t].ref)

\* An id is registered on one node only, after it was drawn.
IdsUnique ==
  /\ \A n \in Nodes, i \in Ids : actor_id_to_actor[n][i] # None => i \in drawn
  /\ \A m, n \in Nodes, i \in Ids :
       actor_id_to_actor[m][i] # None /\ actor_id_to_actor[n][i] # None => m = n

TablesInv == TypeOK /\ NamesConsistent /\ Made /\ RequestShape

RoutingInv == HitShape /\ RefsSound /\ IdsUnique /\ ReachesItsActor

-----------------------------------------------------------------------------
(* The inductive invariant behind the shutdown properties.                  *)

\* A node that shuts down has no operation of its own under way.
StoppedIsIdle ==
  \A t \in Tasks :
    /\ main_pc[Home[t]] # "running" => pc[t] = "idle"
    /\ pc[t] = "idle" => req[t].to = None

\* Nobody goes beyond the aligned stop while a node is running.
StopAligned ==
  \A m, n \in Nodes : main_pc[n] \in {"destroying", "draining", "done"} => main_pc[m] # "running"

\* What a node has registered it made itself.
RegisteredAtHome ==
  \A n \in Nodes, i \in Ids :
    actor_id_to_actor[n][i] # None => node_id[actor_id_to_actor[n][i]] = n

\* An actor is registered, destroyed, or in the hands of a task in DestroyActor.
Accounted ==
  \A o \in Objects : node_id[o] # None =>
    \/ \E i \in Ids : actor_id_to_actor[node_id[o]][i] = o
    \/ life[o] = "destroyed"
    \/ \E t \in Tasks : pc[t] = "destroying" /\ hit[t] = o

\* The wait for AsyncDestroyAllActors leaves none behind.
DrainedIsDestroyed ==
  \A n \in Nodes, o \in Objects :
    main_pc[n] \in {"draining", "done"} /\ node_id[o] = n => life[o] = "destroyed"

ShutdownInv ==
  StoppedIsIdle /\ StopAligned /\ RegisteredAtHome /\ Accounted /\ DrainedIsDestroyed
=============================================================================
