------------------------------- MODULE Remote -------------------------------
(***************************************************************************)
(* A remote method call from the ActorRef to the user's method and back:    *)
(* the handler registry and its keys (remote_handler_registry.h,            *)
(* reflect.h), the layout of a request (actor_ref.h, serialization.h), and  *)
(* the references that travel as arguments and as return values             *)
(* (actor_ref_serialization).  The transport is MessageBroker's and the     *)
(* tables of the nodes are ActorRegistry's: here a request is handled in    *)
(* one step, and only what is in it and what becomes of it matters.         *)
(***************************************************************************)
EXTENDS Integers, FiniteSets, Functions

CONSTANTS
  Nodes,         \* node ids
  Ids,           \* actor ids; 0 is the id of a default-constructed reference
  Methods,       \* the actor class's methods
  Creators,      \* functions that create an actor of the class
  Signature,     \* the type of the pointer to each of these
  Programs,      \* what ncaf_remote(...) lists, one value per program
  Slots,         \* calls under way at a time
  MaxCalls,      \* bound on the requests sent, for model checking
  KeyLen, ArgLen \* bytes of a handler key and of serialized arguments

ASSUME RemoteAssumption ==
  /\ Nodes \subseteq Nat /\ Ids \subseteq Nat \ {0}
  /\ Programs \subseteq [create : Creators, methods : SUBSET Methods]
  /\ MaxCalls \in Nat /\ KeyLen \in Nat /\ ArgLen \in Nat

Keys == Range(Signature)

\* What an ActorRef holds.  actor is the id whose Actor object
\* type_erased_actor_ points to, 0 for nullptr; broker tells whether
\* message_broker_ is set.  via records where the reference came from.
Refs ==
  [is_empty : BOOLEAN, this_node : Nodes, node : Nodes, id : Ids \cup {0},
   actor : Ids \cup {0}, broker : BOOLEAN, via : {"made", "argument", "return"}]

\* Reflector::ReflType, what is sent of a reference.
Wire == [is_valid : BOOLEAN, node : Nodes, id : Ids \cup {0}]

VARIABLES
  exported,  \* the list of the program that runs, the same on every node
  pending,   \* the part of it that ncaf_remote has not registered yet
  handlers,  \* remote_actor_method_call_handler_ and _creation_handler_: one
             \* function from keys, for no function pointer has a method's type
  program,   \* "static" while ncaf_remote registers, then "main" or "aborted"
  actors,    \* actor_id_to_actor_ of each node: the ids in it
  refs,      \* the references that the code running on each node holds
  call,      \* each slot's call: its request, what ran, its reply
  sent       \* requests sent so far

vars == <<exported, pending, handlers, program, actors, refs, call, sent>>

NoCall == [state |-> "free"]

\* ActorRef::ActorRef(): the members keep their default initializers.
EmptyRef ==
  [is_empty |-> TRUE, this_node |-> 0, node |-> 0, id |-> 0, actor |-> 0,
   broker |-> FALSE, via |-> "made"]

Init ==
  /\ exported \in Programs
  /\ pending = {exported.create} \cup exported.methods
  /\ handlers = [k \in {} |-> k]
  /\ program = "static"
  /\ actors = [n \in Nodes |-> {}]
  /\ refs = [n \in Nodes |-> {EmptyRef}]
  /\ call = [s \in Slots |-> NoCall]
  /\ sent = 0

-----------------------------------------------------------------------------
(* Keys, wire format and the conversions of a reference.                    *)

\* reflect::GetUniqueNameForFunction: typeid(kFunc).name() is the name of the
\* pointer's type, not of the function.
GetUniqueNameForFunction(f) == Signature[f]

\* BufferWriter: the bytes of the buffer that SendInternal reserves ...
Reserved == 1 + 8 + 8 + KeyLen + 8 + ArgLen
\* ... and the offset after [request_type][key_len][key][actor_id][args].
Written == 1 + 8 + KeyLen + 8 + ArgLen

\* The reader's offset where the arguments start, after NextPrimitive (type),
\* NextPrimitive (length), PullString (key) and NextPrimitive (actor id).
ArgsOffset == 1 + 8 + KeyLen + 8

\* Reflector::from: the flag called is_valid is a copy of is_empty_.
From(r) == [is_valid |-> r.is_empty, node |-> r.node, id |-> r.id]

\* Reflector::to: the flag is not read.
To(w) ==
  [is_empty |-> FALSE, this_node |-> 0, node |-> w.node, id |-> w.id,
   actor |-> 0, broker |-> FALSE, via |-> "return"]

SetLocalRuntimeInfo(r, n, a, b) ==
  [r EXCEPT !.this_node = n, !.actor = a, !.broker = b]

\* ActorRefDeserializationInfo as the request handlers of node n fill it.  The
\* actors are those that actor_look_up_fn finds when it is called.
Info(n) == [this_node |-> n, actors |-> actors[n], broker |-> TRUE]

\* SetLocalRuntimeInfo is forgotten.
ReadArgument_NoRuntimeInfo(w, info) == [To(w) EXCEPT !.via = "argument"]

\* Parser<ActorRefReader, ...>::read: Reflector::to, then SetLocalRuntimeInfo
\* with the node, the actor found (by its id alone, whatever the node of the
\* reference) and the broker.
ReadArgument(w, info) ==
  SetLocalRuntimeInfo([To(w) EXCEPT !.via = "argument"], info.this_node,
                      IF w.id \in info.actors THEN w.id ELSE 0, info.broker)

-----------------------------------------------------------------------------
(* The handler registry, filled before main().                              *)

\* The creation function is registered first, then the methods.
MayRegister(f) ==
  /\ program = "static"
  /\ f \in pending /\ pending' = pending \ {f}
  /\ f # exported.create => exported.create \notin pending
  /\ UNCHANGED <<exported, actors, refs, call, sent>>

AddHandler(k, f) ==
  handlers' = [x \in DOMAIN handlers \cup {k} |-> IF x = k THEN f ELSE handlers[x]]

\* A second registration replaces the first.
RegisterHandler_Overwrites(f) ==
  LET k == GetUniqueNameForFunction(f) IN
  /\ MayRegister(f)
  /\ AddHandler(k, f)
  /\ UNCHANGED program

\* RemoteFuncHandlerRegistrar: register_handler for one function of the list.  A
\* key that is taken throws, during static initialization: the process ends.
RegisterHandler(f) ==
  LET k == GetUniqueNameForFunction(f) IN
  /\ MayRegister(f)
  /\ \/ /\ k \notin DOMAIN handlers
        /\ AddHandler(k, f)
        /\ UNCHANGED program
     \/ /\ k \in DOMAIN handlers
        /\ program' = "aborted"
        /\ UNCHANGED handlers

\* GetRemoteActorMethodCallHandler and GetRemoteActorCreationHandler throw for a
\* key that is not registered.
Registered(k) == k \in DOMAIN handlers

\* Every registrar has run; main() begins.
EnterMain ==
  /\ program = "static"
  /\ pending = {}
  /\ program' = "main"
  /\ UNCHANGED <<exported, pending, handlers, actors, refs, call, sent>>

-----------------------------------------------------------------------------
(* The user's code: create, destroy, call.                                  *)

\* GenerateRandomActorId: an id that node n does not use; that a number drawn
\* before comes again is left out (ActorRegistry), that two nodes draw the same
\* is not.
Unused(n, i) ==
  /\ i \notin actors[n]
  /\ \A x \in Nodes : \A r \in refs[x] : ~ (r.node = n /\ r.id = i)
  /\ \A s \in Slots : call[s].state = "created" =>
       ~ (call[s].to = n /\ call[s].id = i)

\* CreateActor on node n: the new actor's reference has every field set.
CreateActor(n, i) ==
  /\ program = "main"
  /\ Unused(n, i)
  /\ actors' = [actors EXCEPT ![n] = @ \cup {i}]
  /\ refs' = [refs EXCEPT ![n] = @ \cup
       {[is_empty |-> FALSE, this_node |-> n, node |-> n, id |-> i, actor |-> i,
         broker |-> TRUE, via |-> "made"]}]
  /\ UNCHANGED <<exported, pending, handlers, program, call, sent>>

\* The reference CreateActor and GetActorRefByName make on node n for an actor
\* of node m: no pointer, but the broker.
RemoteRef(n, m, i) ==
  [is_empty |-> FALSE, this_node |-> n, node |-> m, id |-> i, actor |-> 0,
   broker |-> TRUE, via |-> "made"]

\* GetActorRefByName(m, name) on another node.
LookUp(n, m, i) ==
  /\ program = "main" /\ n # m
  /\ i \in actors[m]
  /\ refs' = [refs EXCEPT ![n] = @ \cup {RemoteRef(n, m, i)}]
  /\ UNCHANGED <<exported, pending, handlers, program, actors, call, sent>>

\* DestroyActor: the actor leaves the table; references to it stay.
DestroyActor(n, i) ==
  /\ program = "main"
  /\ i \in actors[n]
  /\ actors' = [actors EXCEPT ![n] = @ \ {i}]
  /\ UNCHANGED <<exported, pending, handlers, program, refs, call, sent>>

\* ActorRef::SendLocal: the checks, then the pointer is dereferenced unseen.
SendLocal(r) ==
  IF r.is_empty \/ r.node # r.this_node THEN "throws"
  ELSE IF r.actor = 0 THEN "null" ELSE "local"

\* What ActorRef::Send does with a reference, before anything is sent.
Dispatch(r) ==
  IF r.is_empty THEN "throws"
  ELSE IF r.node = r.this_node THEN SendLocal(r)
  ELSE IF ~r.broker THEN "throws" ELSE "remote"

\* SendInternal to another node: code on node n calls method m through r with
\* the reference a as argument.
Send(s, n, r, m, a) ==
  /\ program = "main"
  /\ call[s] = NoCall
  /\ Dispatch(r) = "remote"
  /\ Written <= Reserved
  /\ call' = [call EXCEPT ![s] =
       [state |-> "request", from |-> n, to |-> r.node, asked |-> m,
        key |-> GetUniqueNameForFunction(m), id |-> r.id, arg |-> From(a),
        size |-> Reserved]]
  /\ sent < MaxCalls /\ sent' = sent + 1
  /\ UNCHANGED <<exported, pending, handlers, program, actors, refs>>

\* HandleActorMethodCallRequest up to the end of the handler: the arguments
\* are deserialized on the actor's node, the handler of the key is run and its
\* result, one of the references the method can reach, is serialized.
HandleActorMethodCallRequest(s) ==
  LET q == call[s] IN
  /\ q.state = "request"
  /\ \/ /\ q.id \in actors[q.to] /\ Registered(q.key)
        /\ ArgsOffset + ArgLen <= q.size
        /\ LET got == ReadArgument(q.arg, Info(q.to)) IN
           /\ refs' = [refs EXCEPT ![q.to] = @ \cup {got}]
           /\ \E r \in refs[q.to] \cup {got} :
                call' = [call EXCEPT ![s] =
                  [state |-> "return", from |-> q.from, asked |-> q.asked,
                   ran |-> handlers[q.key], value |-> From(r)]]
     \/ /\ ~ (q.id \in actors[q.to] /\ Registered(q.key))
        /\ call' = [call EXCEPT ![s] = [state |-> "error", from |-> q.from]]
        /\ UNCHANGED refs
  /\ UNCHANGED <<exported, pending, handlers, program, actors, sent>>

\* CreateActor<UserClass, f> for another node: the arguments hold a.
SendCreation(s, n, m, f, a) ==
  /\ program = "main" /\ n # m
  /\ call[s] = NoCall
  /\ call' = [call EXCEPT ![s] =
       [state |-> "creation", from |-> n, to |-> m,
        key |-> GetUniqueNameForFunction(f), arg |-> From(a)]]
  /\ sent < MaxCalls /\ sent' = sent + 1
  /\ UNCHANGED <<exported, pending, handlers, program, actors, refs>>

\* DeserializeAndCreateActor on node n: the new actor holds the reference it got.
DeserializeAndCreateActor(n, w) ==
  refs' = [refs EXCEPT ![n] = @ \cup {ReadArgument(w, Info(n))}]

\* HandleActorCreationRequest: the arguments are deserialized and the actor made
\* before it has its id.
HandleActorCreationRequest(s, i) ==
  LET q == call[s] IN
  /\ q.state = "creation"
  /\ \/ /\ Registered(q.key)
        /\ DeserializeAndCreateActor(q.to, q.arg)
        /\ Unused(q.to, i)
        /\ actors' = [actors EXCEPT ![q.to] = @ \cup {i}]
        /\ call' = [call EXCEPT ![s] =
             [state |-> "created", from |-> q.from, to |-> q.to, id |-> i]]
     \/ /\ ~ Registered(q.key)
        /\ call' = [call EXCEPT ![s] = [state |-> "error", from |-> q.from]]
        /\ UNCHANGED <<actors, refs>>
  /\ UNCHANGED <<exported, pending, handlers, program, sent>>

\* SendInternal and CreateActor after the reply: an error throws; a returned
\* value is deserialized without ActorRefDeserializationInfo; the reference to a
\* new actor is made here.
Return(s) ==
  LET q == call[s] IN
  /\ q.state \in {"return", "error", "created"}
  /\ refs' = [refs EXCEPT ![q.from] = @ \cup
       CASE q.state = "error" -> {}
         [] q.state = "return" -> {To(q.value)}
         [] q.state = "created" -> {RemoteRef(q.from, q.to, q.id)}]
  /\ call' = [call EXCEPT ![s] = NoCall]
  /\ UNCHANGED <<exported, pending, handlers, program, actors, sent>>

Next ==
  \/ \E f \in pending : RegisterHandler(f)
  \/ EnterMain
  \/ \E n \in Nodes, i \in Ids :
       \/ CreateActor(n, i) \/ DestroyActor(n, i)
       \/ \E m \in Nodes : LookUp(n, m, i)
  \/ \E s \in Slots, n \in Nodes : \E a \in refs[n] :
       \/ \E r \in refs[n], m \in Methods : Send(s, n, r, m, a)
       \/ \E m \in Nodes, f \in Creators : SendCreation(s, n, m, f, a)
  \/ \E s \in Slots :
       \/ HandleActorMethodCallRequest(s) \/ Return(s)
       \/ \E i \in Ids : HandleActorCreationRequest(s, i)

Spec == Init /\ [][Next]_vars

-----------------------------------------------------------------------------
\* A call of a method that the program exports runs that method, although
\* methods of one signature share a key: the registry refuses a key that is
\* taken (remote_handler_registry.h:49).  A call of a method that is not exported
\* runs the exported method of the same signature, if there is one.
RunsTheNamedMethod ==
  \A s \in Slots :
    call[s].state = "return" /\ call[s].asked \in exported.methods =>
      call[s].ran = call[s].asked

\* A reference sent as an argument denotes the same actor where it arrives and
\* can be called there: it knows its node and its broker, and it points to the
\* Actor object if that lives on this node.  The look-up goes by the id alone,
\* and another node may have given the same id: a send through the reference
\* never reaches a local actor in its place.
ArgumentUsable ==
  \A n \in Nodes : \A r \in refs[n] :
    r.via = "argument" /\ r.id # 0 =>
      /\ r.this_node = n /\ r.broker
      /\ r.node = n /\ r.id \in actors[n] => r.actor = r.id
      /\ Dispatch(r) = "local" => r.node = n /\ r.actor = r.id

\* Whoever holds a reference to a living actor can call it (README.md:21: the
\* caller needs only the ActorRef and Send).
ReferenceUsable ==
  \A n \in Nodes : \A r \in refs[n] :
    r.id \in actors[r.node] =>
      Dispatch(r) = IF r.node = n THEN "local" ELSE "remote"
=============================================================================
