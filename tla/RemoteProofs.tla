---------------------------- MODULE RemoteProofs ----------------------------
(***************************************************************************)
(* Proofs about Remote, for any number of nodes, ids, methods and calls:    *)
(* the handler that a key finds is the method the caller named, and a      *)
(* reference that arrives as an argument can be used where it arrives.     *)
(*                                                                         *)
(* Then about two components that share no state with it: Semaphore, and    *)
(* Heartbeat, where a healthy cluster never ends one of its processes when  *)
(* requests are sparse enough, for any number of nodes and any pattern of   *)
(* requests between them.                                                  *)
(***************************************************************************)
EXTENDS Remote, Semaphore, Heartbeat, FiniteSetTheorems, SequenceTheorems, TLAPS

\* The functions that the running program registers.
Exported == {exported.create} \cup exported.methods

\* What has been registered is found again under its own key.
RegisteredUnderKey ==
  program # "aborted" =>
    \A f \in Exported \ pending :
      Signature[f] \in DOMAIN handlers /\ handlers[Signature[f]] = f

\* main() runs only when everything has been registered.
MainIsComplete == program = "main" => pending = {}

\* Nothing is sent before main(); a request carries the key of the method asked
\* for; what ran was found under that key.
CallsCarryKeys ==
  /\ call = [s \in Slots |-> call[s]]
  /\ \A s \in Slots :
       /\ call[s].state # "free" => program = "main"
       /\ call[s].state = "request" => call[s].key = Signature[call[s].asked]

HandlersInv == RegisteredUnderKey /\ MainIsComplete /\ CallsCarryKeys /\ RunsTheNamedMethod

\* A function that the program exports is found in main().
ExportedAreFound == program = "main" => \A f \in Exported : Registered(GetUniqueNameForFunction(f))

\* Before main() nothing is registered and nothing called.
LEMMA HandlersInit == Init => HandlersInv
BY DEF Init, HandlersInv, RegisteredUnderKey, Exported, MainIsComplete, CallsCarryKeys,
       NoCall, RunsTheNamedMethod

\* Registering one function leaves the others where they are: a key that is
\* taken ends the program instead.
LEMMA HandlersRegister ==
  ASSUME HandlersInv, NEW f \in pending, RegisterHandler(f)
  PROVE  HandlersInv'
<1> USE DEF HandlersInv, RegisterHandler, MayRegister, AddHandler, GetUniqueNameForFunction
<1>1. RegisteredUnderKey'
  BY DEF RegisteredUnderKey, Exported
<1>2. MainIsComplete'
  BY DEF MainIsComplete
<1>3. CallsCarryKeys' /\ RunsTheNamedMethod'
  BY DEF CallsCarryKeys, RunsTheNamedMethod
<1> QED
  BY <1>1, <1>2, <1>3

\* A step that leaves the registry alone and changes one call at most keeps the
\* handlers, if the new state of that call is one it may be in.
LEMMA HandlersCall ==
  ASSUME HandlersInv, UNCHANGED <<exported, pending, handlers, program>>,
         NEW s \in Slots, NEW q, call' = [call EXCEPT ![s] = q],
         q.state # "free" => program = "main",
         q.state = "request" => q.key = Signature[q.asked],
         q.state = "return" /\ q.asked \in exported.methods => q.ran = q.asked
  PROVE  HandlersInv'
<1> USE DEF HandlersInv
<1>1. RegisteredUnderKey' /\ MainIsComplete'
  BY DEF RegisteredUnderKey, Exported, MainIsComplete
<1>2. /\ call' = [x \in Slots |-> call'[x]] /\ call'[s] = q
      /\ \A x \in Slots : x # s => call'[x] = call[x]
  BY DEF CallsCarryKeys
<1>3. CallsCarryKeys' /\ RunsTheNamedMethod'
  BY <1>2 DEF CallsCarryKeys, RunsTheNamedMethod
<1> QED
  BY <1>1, <1>3

\* Every step keeps the handlers where their keys find them.
LEMMA HandlersNext == HandlersInv /\ [Next]_vars => HandlersInv'
<1> SUFFICES ASSUME HandlersInv, [Next]_vars PROVE HandlersInv'
  OBVIOUS
<1>1. ASSUME NEW f \in pending, RegisterHandler(f) PROVE HandlersInv'
  BY <1>1, HandlersRegister
<1>2. CASE EnterMain
  BY <1>2 DEF EnterMain, HandlersInv, RegisteredUnderKey, Exported, MainIsComplete,
              CallsCarryKeys, RunsTheNamedMethod
<1>3. CASE UNCHANGED <<exported, pending, handlers, program, call>>
  BY <1>3 DEF HandlersInv, RegisteredUnderKey, Exported, MainIsComplete,
              CallsCarryKeys, RunsTheNamedMethod
<1>4. ASSUME NEW s \in Slots, NEW n \in Nodes, NEW a \in refs[n], NEW r \in refs[n],
             NEW m \in Methods, Send(s, n, r, m, a)
      PROVE  HandlersInv'
  <2> DEFINE q == [state |-> "request", from |-> n, to |-> r.node, asked |-> m,
                   key |-> GetUniqueNameForFunction(m), id |-> r.id, arg |-> From(a),
                   size |-> Reserved]
  <2>1. /\ UNCHANGED <<exported, pending, handlers, program>> /\ program = "main"
        /\ call' = [call EXCEPT ![s] = q]
    BY <1>4 DEF Send
  <2>2. q.state = "request" /\ q.key = Signature[q.asked]
    BY DEF GetUniqueNameForFunction
  <2> HIDE DEF q
  <2> QED
    BY <2>1, <2>2, HandlersCall
<1>5. ASSUME NEW s \in Slots, NEW n \in Nodes, NEW a \in refs[n], NEW m \in Nodes,
             NEW f \in Creators, SendCreation(s, n, m, f, a)
      PROVE  HandlersInv'
  <2> DEFINE q == [state |-> "creation", from |-> n, to |-> m,
                   key |-> GetUniqueNameForFunction(f), arg |-> From(a)]
  <2>1. /\ UNCHANGED <<exported, pending, handlers, program>> /\ program = "main"
        /\ call' = [call EXCEPT ![s] = q]
    BY <1>5 DEF SendCreation
  <2>2. q.state = "creation"
    OBVIOUS
  <2> HIDE DEF q
  <2> QED
    BY <2>1, <2>2, HandlersCall
<1>6. ASSUME NEW s \in Slots, HandleActorMethodCallRequest(s) PROVE HandlersInv'
  <2>1. /\ UNCHANGED <<exported, pending, handlers, program>>
        /\ call[s].state = "request" /\ program = "main"
        /\ call[s].key = Signature[call[s].asked]
    BY <1>6 DEF HandleActorMethodCallRequest, HandlersInv, CallsCarryKeys
  <2>2. ASSUME NEW v, call' = [call EXCEPT ![s] =
                  [state |-> "return", from |-> call[s].from, asked |-> call[s].asked,
                   ran |-> handlers[call[s].key], value |-> v]]
        PROVE  HandlersInv'
    <3> DEFINE q == [state |-> "return", from |-> call[s].from, asked |-> call[s].asked,
                     ran |-> handlers[call[s].key], value |-> v]
    <3>1. q.state = "return" /\ q.asked = call[s].asked /\ q.ran = handlers[call[s].key]
      OBVIOUS
    <3>2. call[s].asked \in exported.methods => handlers[call[s].key] = call[s].asked
      BY <2>1 DEF HandlersInv, MainIsComplete, RegisteredUnderKey, Exported
    <3> HIDE DEF q
    <3> QED
      BY <2>1, <2>2, <3>1, <3>2, HandlersCall DEF q
  <2>3. ASSUME call' = [call EXCEPT ![s] = [state |-> "error", from |-> call[s].from]]
        PROVE  HandlersInv'
    BY <2>1, <2>3, HandlersCall
  <2> QED
    BY <1>6, <2>2, <2>3 DEF HandleActorMethodCallRequest
<1>7. ASSUME NEW s \in Slots, NEW i \in Ids, HandleActorCreationRequest(s, i)
      PROVE  HandlersInv'
  <2>1. /\ UNCHANGED <<exported, pending, handlers, program>>
        /\ call[s].state = "creation" /\ program = "main"
    BY <1>7 DEF HandleActorCreationRequest, HandlersInv, CallsCarryKeys
  <2>2. CASE call' = [call EXCEPT ![s] =
               [state |-> "created", from |-> call[s].from, to |-> call[s].to, id |-> i]]
    BY <2>1, <2>2, HandlersCall
  <2>3. CASE call' = [call EXCEPT ![s] = [state |-> "error", from |-> call[s].from]]
    BY <2>1, <2>3, HandlersCall
  <2> QED
    BY <1>7, <2>2, <2>3 DEF HandleActorCreationRequest
<1>8. ASSUME NEW s \in Slots, Return(s) PROVE HandlersInv'
  BY <1>8, HandlersCall DEF Return, NoCall
<1> QED
  BY <1>1, <1>2, <1>3, <1>4, <1>5, <1>6, <1>7, <1>8
  DEF Next, vars, CreateActor, DestroyActor, LookUp

\* A call of an exported method runs that method, although methods of one
\* signature share a key (remote_handler_registry.h:49), for every program and
\* every assignment of signatures.
THEOREM RunsNamed == Spec => []RunsTheNamedMethod
<1>1. HandlersInv => RunsTheNamedMethod
  BY DEF HandlersInv
<1> QED
  BY <1>1, HandlersInit, HandlersNext, PTL DEF Spec

\* GetRemoteActorMethodCallHandler and GetRemoteActorCreationHandler never throw
\* for a function that the program exports (remote_handler_registry.h).
THEOREM ExportedFound == Spec => []ExportedAreFound
<1>1. HandlersInv => ExportedAreFound
  BY DEF HandlersInv, ExportedAreFound, MainIsComplete, RegisteredUnderKey, Registered,
         GetUniqueNameForFunction
<1> QED
  BY <1>1, HandlersInit, HandlersNext, PTL DEF Spec
-----------------------------------------------------------------------------
(* References that arrive as arguments.                                     *)

\* A reference with the node and the id of w is held somewhere: references are
\* copied, never taken back.
Held(w) == \E x \in Nodes : \E a \in refs[x] : a.node = w.node /\ a.id = w.id

\* The reference in a request is a copy of one that its sender holds.
ArgumentsAreHeld ==
  \A s \in Slots : call[s].state \in {"request", "creation"} => Held(call[s].arg)

\* What the reader has put into the references that arrived on node n.
ArgumentSet(n) ==
  \A r \in refs[n] : r.via = "argument" =>
    /\ r.this_node = n /\ r.broker
    /\ r.actor \in {0, r.id}
    /\ r.node = n /\ r.id # 0 /\ r.id \in actors[n] => r.actor = r.id

ArgumentsInv ==
  /\ call = [s \in Slots |-> call[s]]
  /\ refs = [n \in Nodes |-> refs[n]]
  /\ actors = [n \in Nodes |-> actors[n]]
  /\ ArgumentsAreHeld
  /\ \A n \in Nodes : ArgumentSet(n)

\* The reader's reference, field by field.
LEMMA ReadArgumentIs ==
  ASSUME NEW w, NEW n, NEW r, r = ReadArgument(w, Info(n))
  PROVE  /\ r.via = "argument" /\ r.this_node = n /\ r.broker
         /\ r.node = w.node /\ r.id = w.id
         /\ r.actor = IF w.id \in actors[n] THEN w.id ELSE 0
<1> DEFINE t == [To(w) EXCEPT !.via = "argument"]
           a == IF w.id \in actors[n] THEN w.id ELSE 0
<1>1. /\ DOMAIN t = {"is_empty", "this_node", "node", "id", "actor", "broker", "via"}
      /\ t.node = w.node /\ t.id = w.id /\ t.via = "argument"
  BY DEF To
<1>2. Info(n).this_node = n /\ Info(n).actors = actors[n] /\ Info(n).broker = TRUE
  BY DEF Info
<1>3. r = SetLocalRuntimeInfo(t, n, a, TRUE)
  BY <1>2 DEF ReadArgument
<1> HIDE DEF t, a
<1>4. r = [t EXCEPT !.this_node = n, !.actor = a, !.broker = TRUE]
  BY <1>3 DEF SetLocalRuntimeInfo
<1>5. /\ r.via = "argument" /\ r.this_node = n /\ r.broker
      /\ r.node = w.node /\ r.id = w.id /\ r.actor = a
  BY <1>1, <1>4
<1> QED
  BY <1>5 DEF a

\* Before main() there are only empty references.
LEMMA ArgumentsInit == Init => ArgumentsInv
BY DEF Init, ArgumentsInv, ArgumentsAreHeld, ArgumentSet, EmptyRef, NoCall

\* References are only added, so what was held is held.
LEMMA HeldStays ==
  ASSUME \A n \in Nodes : refs[n] \subseteq refs'[n], NEW w, Held(w)
  PROVE  Held(w)'
BY DEF Held

\* A new actor's id is not that of a reference that somebody holds, so a reference
\* without a pointer stays one to an actor that is not there.
LEMMA NewActor ==
  ASSUME ArgumentsInv, NEW n \in Nodes, NEW i, Unused(n, i),
         actors' = [actors EXCEPT ![n] = @ \cup {i}],
         NEW x \in Nodes, NEW r \in refs[x], r.via = "argument"
  PROVE  /\ r.this_node = x /\ r.broker
         /\ r.actor \in {0, r.id}
         /\ r.node = x /\ r.id # 0 /\ r.id \in actors'[x] => r.actor = r.id
BY DEF ArgumentsInv, ArgumentSet, Unused

\* CreateActor and LookUp add references that are no arguments.
LEMMA ArgumentsUser ==
  ASSUME ArgumentsInv, NEW n \in Nodes, NEW i \in Ids,
         \/ CreateActor(n, i) \/ DestroyActor(n, i) \/ \E m \in Nodes : LookUp(n, m, i)
  PROVE  ArgumentsInv'
<1>1. CASE CreateActor(n, i)
  <2> DEFINE new == [is_empty |-> FALSE, this_node |-> n, node |-> n, id |-> i,
                     actor |-> i, broker |-> TRUE, via |-> "made"]
  <2>1. /\ Unused(n, i) /\ actors' = [actors EXCEPT ![n] = @ \cup {i}]
        /\ refs' = [refs EXCEPT ![n] = @ \cup {new}] /\ call' = call
    BY <1>1 DEF CreateActor
  <2>2. new.via # "argument"
    OBVIOUS
  <2> HIDE DEF new
  <2>3. /\ \A x \in Nodes : refs[x] \subseteq refs'[x]
        /\ \A x \in Nodes : \A r \in refs'[x] : r.via = "argument" => r \in refs[x]
    BY <2>1, <2>2 DEF ArgumentsInv
  <2>4. \A x \in Nodes : ArgumentSet(x)'
    BY <2>1, <2>3, NewActor DEF ArgumentSet
  <2> QED
    BY <2>1, <2>3, <2>4, HeldStays DEF ArgumentsInv, ArgumentsAreHeld
<1>2. CASE DestroyActor(n, i)
  <2>1. /\ call' = call /\ refs' = refs
        /\ actors' = [x \in Nodes |-> actors'[x]]
        /\ \A x \in Nodes : actors'[x] \subseteq actors[x]
    BY <1>2 DEF DestroyActor, ArgumentsInv
  <2>2. ArgumentsAreHeld'
    BY <2>1 DEF ArgumentsInv, ArgumentsAreHeld, Held
  <2> QED
    BY <2>1, <2>2 DEF ArgumentsInv, ArgumentSet
<1>3. ASSUME NEW m \in Nodes, LookUp(n, m, i) PROVE ArgumentsInv'
  <2>1. /\ refs' = [refs EXCEPT ![n] = @ \cup {RemoteRef(n, m, i)}]
        /\ call' = call /\ actors' = actors
    BY <1>3 DEF LookUp
  <2>2. RemoteRef(n, m, i).via # "argument"
    BY DEF RemoteRef
  <2>3. /\ \A x \in Nodes : refs[x] \subseteq refs'[x]
        /\ \A x \in Nodes : \A r \in refs'[x] : r.via = "argument" => r \in refs[x]
    BY <2>1, <2>2 DEF ArgumentsInv
  <2>4. ArgumentsAreHeld'
    BY <2>1, <2>3, HeldStays DEF ArgumentsInv, ArgumentsAreHeld
  <2>5. refs' = [x \in Nodes |-> refs'[x]]
    BY <2>1 DEF ArgumentsInv
  <2> QED
    BY <2>1, <2>3, <2>4, <2>5 DEF ArgumentsInv, ArgumentSet
<1> QED
  BY <1>1, <1>2, <1>3

\* A request is made of a reference that its sender holds.
LEMMA ArgumentsSend ==
  ASSUME ArgumentsInv, NEW s \in Slots, NEW n \in Nodes, NEW a \in refs[n],
         \/ \E r \in refs[n], m \in Methods : Send(s, n, r, m, a)
         \/ \E m \in Nodes, f \in Creators : SendCreation(s, n, m, f, a)
  PROVE  ArgumentsInv'
<1>1. PICK q : /\ call' = [call EXCEPT ![s] = q] /\ q.arg = From(a)
               /\ UNCHANGED <<refs, actors>>
  BY DEF Send, SendCreation
<1>2. Held(From(a))
  BY DEF Held, From
<1>3. ArgumentsAreHeld'
  <2>1. Held(q.arg)'
    BY <1>1, <1>2 DEF Held
  <2>2. \A x \in Slots : x # s => call'[x] = call[x]
    BY <1>1 DEF ArgumentsInv
  <2>3. call'[s] = q
    BY <1>1 DEF ArgumentsInv
  <2> QED
    BY <1>1, <2>1, <2>2, <2>3, HeldStays DEF ArgumentsInv, ArgumentsAreHeld
<1> QED
  BY <1>1, <1>3 DEF ArgumentsInv, ArgumentSet

\* The reply to a call leaves no argument behind.
LEMMA NoArgumentLeft ==
  ASSUME ArgumentsInv, NEW s \in Slots,
         call' = [x \in Slots |-> IF x = s THEN call'[s] ELSE call[x]],
         call'[s].state \notin {"request", "creation"},
         \A n \in Nodes : refs[n] \subseteq refs'[n]
  PROVE  ArgumentsAreHeld' /\ call' = [x \in Slots |-> call'[x]]
<1>1. \A x \in Slots : x # s => call'[x] = call[x]
  OBVIOUS
<1> QED
  BY <1>1, HeldStays DEF ArgumentsInv, ArgumentsAreHeld

\* The request handlers give every reference they read the node, the broker and
\* the actor, if it is there.
LEMMA ArgumentsHandle ==
  ASSUME ArgumentsInv, NEW s \in Slots,
         HandleActorMethodCallRequest(s) \/ \E i \in Ids : HandleActorCreationRequest(s, i)
  PROVE  ArgumentsInv'
<1> DEFINE to == call[s].to
           got == ReadArgument(call[s].arg, Info(to))
<1>1. /\ got.via = "argument" /\ got.this_node = to /\ got.broker
      /\ got.node = call[s].arg.node /\ got.id = call[s].arg.id
      /\ got.actor = IF got.id \in actors[to] THEN got.id ELSE 0
  BY ReadArgumentIs
<1>2. Held(call[s].arg)
  BY DEF HandleActorMethodCallRequest, HandleActorCreationRequest, ArgumentsInv,
         ArgumentsAreHeld
<1> HIDE DEF to, got
<1>3. /\ call' = [x \in Slots |-> IF x = s THEN call'[s] ELSE call[x]]
      /\ call'[s].state \notin {"request", "creation"}
  BY DEF HandleActorMethodCallRequest, HandleActorCreationRequest, ArgumentsInv
<1>4. CASE UNCHANGED <<refs, actors>>
  BY <1>3, <1>4, NoArgumentLeft DEF ArgumentsInv, ArgumentSet
<1>5. CASE refs' = [refs EXCEPT ![to] = @ \cup {got}] /\ actors' = actors
  <2>1. /\ \A x \in Nodes : refs[x] \subseteq refs'[x]
        /\ \A x \in Nodes : \A r \in refs'[x] : r \in refs[x] \/ (r = got /\ x = to)
        /\ refs' = [x \in Nodes |-> refs'[x]]
    BY <1>5 DEF ArgumentsInv
  <2>2. \A x \in Nodes : ArgumentSet(x)'
    BY <1>1, <1>5, <2>1 DEF ArgumentsInv, ArgumentSet
  <2> QED
    BY <1>3, <1>5, <2>1, <2>2, NoArgumentLeft DEF ArgumentsInv
<1>6. ASSUME NEW i \in Ids, Unused(to, i), actors' = [actors EXCEPT ![to] = @ \cup {i}],
             refs' = [refs EXCEPT ![to] = @ \cup {got}]
      PROVE  ArgumentsInv'
  <2>1. /\ \A x \in Nodes : refs[x] \subseteq refs'[x]
        /\ \A x \in Nodes : \A r \in refs'[x] : r \in refs[x] \/ (r = got /\ x = to)
        /\ refs' = [x \in Nodes |-> refs'[x]] /\ actors' = [x \in Nodes |-> actors'[x]]
    BY <1>6 DEF ArgumentsInv
  <2>2. \A x \in Nodes : ArgumentSet(x)'
    <3> SUFFICES ASSUME NEW x \in Nodes, NEW r \in refs'[x], r.via = "argument"
                 PROVE  /\ r.this_node = x /\ r.broker
                        /\ r.actor \in {0, r.id}
                        /\ r.node = x /\ r.id # 0 /\ r.id \in actors'[x] => r.actor = r.id
      BY DEF ArgumentSet
    <3>1. CASE r \in refs[x] /\ to \in Nodes
      BY <3>1, <1>6, NewActor
    <3>2. CASE r \in refs[x] /\ to \notin Nodes
      BY <3>2, <1>6 DEF ArgumentsInv, ArgumentSet
    <3>3. CASE r = got /\ x = to
      <4>1. ~ (got.node = to /\ got.id = i)
        BY <1>1, <1>2, <1>6 DEF Unused, Held
      <4> QED
        BY <1>1, <1>6, <3>3, <4>1 DEF ArgumentsInv
    <3> QED
      BY <2>1, <3>1, <3>2, <3>3
  <2> QED
    BY <1>3, <2>1, <2>2, NoArgumentLeft DEF ArgumentsInv
<1> QED
  BY <1>4, <1>5, <1>6 DEF HandleActorMethodCallRequest, HandleActorCreationRequest,
     DeserializeAndCreateActor, to, got

\* What the caller makes of a reply is no argument.
LEMMA ArgumentsReturn ==
  ASSUME ArgumentsInv, NEW s \in Slots, Return(s)
  PROVE  ArgumentsInv'
<1> DEFINE R == CASE call[s].state = "error" -> {}
                  [] call[s].state = "return" -> {To(call[s].value)}
                  [] call[s].state = "created" ->
                       {RemoteRef(call[s].from, call[s].to, call[s].id)}
<1>1. /\ refs' = [refs EXCEPT ![call[s].from] = @ \cup R]
      /\ \A r \in R : r.via # "argument"
  <2>1. /\ refs' = [refs EXCEPT ![call[s].from] = @ \cup R]
        /\ call[s].state \in {"return", "error", "created"}
    BY DEF Return
  <2>2. CASE call[s].state = "error"
    BY <2>1, <2>2
  <2>3. CASE call[s].state = "return"
    BY <2>1, <2>3 DEF To
  <2>4. CASE call[s].state = "created"
    BY <2>1, <2>4 DEF RemoteRef
  <2> QED
    BY <2>1, <2>2, <2>3, <2>4
<1> HIDE DEF R
<1>2. /\ \A x \in Nodes : refs[x] \subseteq refs'[x]
      /\ \A x \in Nodes : \A r \in refs'[x] : r.via = "argument" => r \in refs[x]
      /\ refs' = [x \in Nodes |-> refs'[x]]
  BY <1>1 DEF ArgumentsInv
<1>3. /\ call' = [x \in Slots |-> IF x = s THEN call'[s] ELSE call[x]]
      /\ call'[s].state \notin {"request", "creation"}
      /\ actors' = actors
  BY DEF Return, NoCall, ArgumentsInv
<1>4. ArgumentsAreHeld' /\ call' = [x \in Slots |-> call'[x]]
  BY <1>2, <1>3, NoArgumentLeft
<1> QED
  BY <1>2, <1>3, <1>4 DEF ArgumentsInv, ArgumentSet

\* A reference sent as an argument denotes the same actor where it arrives and can
\* be called there, whichever actors are created and destroyed meanwhile and
\* whatever ids other nodes have drawn (actor_ref_serialization, actor_ref.h).
THEOREM ArgumentsUsable == Spec => []ArgumentUsable
<1>1. ArgumentsInv /\ [Next]_vars => ArgumentsInv'
  <2> SUFFICES ASSUME ArgumentsInv, [Next]_vars PROVE ArgumentsInv'
    OBVIOUS
  <2>1. CASE UNCHANGED <<actors, refs, call>>
    BY <2>1 DEF ArgumentsInv, ArgumentsAreHeld, Held, ArgumentSet
  <2> QED
    BY <2>1, ArgumentsUser, ArgumentsSend, ArgumentsHandle, ArgumentsReturn
    DEF Next, vars, RegisterHandler, MayRegister, EnterMain
<1>2. ArgumentsInv => ArgumentUsable
  BY DEF ArgumentsInv, ArgumentSet, ArgumentUsable, Dispatch, SendLocal
<1> QED
  BY <1>1, <1>2, ArgumentsInit, PTL DEF Spec
-----------------------------------------------------------------------------
(* util::Semaphore: no waiter is lost and none is completed twice, for every *)
(* set of callers, operations and amounts.                                 *)

(* The steps of the semaphore, one disjunct per atomic access.              *)
LEMMA SemaphoreCases ==
  ASSUME SemaphoreNext
  PROVE \/ \E c \in Callers, n \in Amounts : Acquire(c, n)
        \/ \E c \in Callers, n \in Amounts : Release(c, n)
        \/ \E c \in Callers : AcquireTake(c)
        \/ \E c \in Callers : AcquireComplete(c)
        \/ \E w \in Waiters : StartLock(w)
        \/ \E w \in Waiters : StartLoad(w)
        \/ \E w \in Waiters : StartPush(w)
  BY DEF SemaphoreNext

(* The types are an invariant of the semaphore.                             *)
THEOREM SemaphoreType == SemaphoreSpec => []TypeOK
<1>1. SemaphoreInit => TypeOK
  BY AmountsAssumption, CountAssumption, DisjointAssumption DEF SemaphoreInit, TypeOK
<1>2. TypeOK /\ [SemaphoreNext]_semaphoreVars => TypeOK'
  <2> SUFFICES ASSUME TypeOK, [SemaphoreNext]_semaphoreVars PROVE TypeOK'
    OBVIOUS
  <2> USE AmountsAssumption, CountAssumption, DisjointAssumption DEF TypeOK, Goto, Complete
  <2>1. ASSUME NEW c \in Callers, NEW n \in Amounts, Acquire(c, n) PROVE TypeOK'
    BY <2>1 DEF Acquire
  <2>2. ASSUME NEW c \in Callers, NEW n \in Amounts, Release(c, n) PROVE TypeOK'
    BY <2>2 DEF Release
  <2>3. ASSUME NEW c \in Callers, AcquireTake(c) PROVE TypeOK'
    BY <2>3 DEF AcquireTake
  <2>4. ASSUME NEW c \in Callers, AcquireComplete(c) PROVE TypeOK'
    BY <2>4 DEF AcquireComplete
  <2>5. ASSUME NEW w \in Waiters, StartLock(w) PROVE TypeOK'
    BY <2>5 DEF StartLock
  <2>6. ASSUME NEW w \in Waiters, StartLoad(w) PROVE TypeOK'
    BY <2>6 DEF StartLoad
  <2>7. ASSUME NEW w \in Waiters, StartPush(w) PROVE TypeOK'
    BY <2>7 DEF StartPush
  <2>8. CASE UNCHANGED semaphoreVars
    BY <2>8 DEF semaphoreVars
  <2> QED BY <2>1, <2>2, <2>3, <2>4, <2>5, <2>6, <2>7, <2>8, SemaphoreCases
<1> QED BY <1>1, <1>2, PTL DEF SemaphoreSpec

(* Every operation is in at most one list, and in none once completed.       *)
LEMMA OwnershipStep ==
  TypeOK /\ Handover /\ Ownership /\ [SemaphoreNext]_semaphoreVars => Ownership'
<1> SUFFICES ASSUME TypeOK, Handover, Ownership, [SemaphoreNext]_semaphoreVars
             PROVE  Ownership'
  OBVIOUS
<1> USE AmountsAssumption, CountAssumption, DisjointAssumption DEF TypeOK, Ownership, Goto, Complete
<1>1. ASSUME NEW c \in Callers, NEW n \in Amounts, Acquire(c, n) \/ Release(c, n)
      PROVE  Ownership'
  BY <1>1 DEF Acquire, Release
<1>2. ASSUME NEW c \in Callers, AcquireTake(c) PROVE Ownership'
  BY <1>2 DEF AcquireTake
<1>3. ASSUME NEW c \in Callers, AcquireComplete(c) PROVE Ownership'
  BY <1>3 DEF AcquireComplete
<1>4. ASSUME NEW w \in Waiters, StartLock(w) PROVE Ownership'
  BY <1>4 DEF StartLock
<1>5. ASSUME NEW w \in Waiters, StartLoad(w) PROVE Ownership'
  BY <1>5 DEF StartLoad
<1>6. ASSUME NEW w \in Waiters, StartPush(w) PROVE Ownership'
  BY <1>6 DEF StartPush
<1>7. CASE UNCHANGED semaphoreVars
  BY <1>7 DEF semaphoreVars
<1> QED BY <1>1, <1>2, <1>3, <1>4, <1>5, <1>6, <1>7, SemaphoreCases

(* The hand-over from a start() that holds the mutex to the Acquire that     *)
(* waits for it is never broken.                                           *)
LEMMA HandoverStep ==
  TypeOK /\ Handover /\ Ownership /\ [SemaphoreNext]_semaphoreVars => Handover'
<1> SUFFICES ASSUME TypeOK, Handover, Ownership, [SemaphoreNext]_semaphoreVars
             PROVE  Handover'
  OBVIOUS
<1> USE AmountsAssumption, CountAssumption, DisjointAssumption DEF TypeOK, Handover, Goto, Complete
<1>1. ASSUME NEW c \in Callers, NEW n \in Amounts, Acquire(c, n) PROVE Handover'
  <2>1. CASE count <= n
    BY <1>1, <2>1 DEF Acquire
  <2>2. CASE count > n
    BY <1>1, <2>2 DEF Acquire
  <2> QED BY <2>1, <2>2
<1>2. ASSUME NEW c \in Callers, NEW n \in Amounts, Release(c, n) PROVE Handover'
  BY <1>2 DEF Release
<1>3. ASSUME NEW c \in Callers, AcquireTake(c) PROVE Handover'
  BY <1>3 DEF AcquireTake
<1>4. ASSUME NEW c \in Callers, AcquireComplete(c) PROVE Handover'
  BY <1>4 DEF AcquireComplete, Ownership
<1>5. ASSUME NEW w \in Waiters, StartLock(w) PROVE Handover'
  BY <1>5 DEF StartLock
<1>6. ASSUME NEW w \in Waiters, StartLoad(w) PROVE Handover'
  BY <1>6 DEF StartLoad
<1>7. ASSUME NEW w \in Waiters, StartPush(w) PROVE Handover'
  BY <1>7 DEF StartPush
<1>8. CASE UNCHANGED semaphoreVars
  BY <1>8 DEF semaphoreVars
<1> QED BY <1>1, <1>2, <1>3, <1>4, <1>5, <1>6, <1>7, <1>8, SemaphoreCases

(* Both invariants hold of the semaphore.                                   *)
LEMMA SemaphoreInvariant ==
  SemaphoreSpec => [](TypeOK /\ Handover /\ Ownership)
<1>1. SemaphoreInit => Handover /\ Ownership
  BY AmountsAssumption, CountAssumption, DisjointAssumption DEF SemaphoreInit, Handover, Ownership
<1> QED BY <1>1, HandoverStep, OwnershipStep, SemaphoreType, PTL DEF SemaphoreSpec

(* No operation is left on the list of a drained semaphore without an        *)
(* Acquire that is about to take it (util.h:26-37, 78-85).                 *)
THEOREM NoWaiterLost == SemaphoreSpec => []NoLostWaiter
<1>1. Handover => NoLostWaiter
  BY DEF Handover, NoLostWaiter
<1> QED BY <1>1, SemaphoreInvariant, PTL

(* No receiver is completed twice (util.h:26-37).                            *)
THEOREM CompletesOnce == SemaphoreSpec => []CompletedOnce
<1>1. Ownership => CompletedOnce
  BY DEF Ownership, CompletedOnce
<1> QED BY <1>1, SemaphoreInvariant, PTL

-----------------------------------------------------------------------------
(* The invariant.                                                          *)

MessageType ==
  [kind : {"heartbeat", "request", "reply"}, request_node_id : Hosts, age : Nat]

\* A message says truly whose request it belongs to, and a request is between
\* nodes that request.
Between(a, b) ==
  {msg \in MessageType :
     /\ msg.kind \in {"heartbeat", "request"} => msg.request_node_id = a
     /\ msg.kind = "request" => <<a, b>> \in Requesting}

ShapeInv ==
  /\ up \in [Hosts -> BOOLEAN]
  /\ crashed \in [Hosts -> BOOLEAN]
  /\ hb_age \in [Hosts -> Nat]
  /\ seen_age \in [Hosts -> [Hosts -> Nat]]
  /\ req_age \in [Hosts -> Nat]
  /\ net \in [Hosts -> [Hosts -> Seq(MessageType)]]
  /\ \A a, b \in Hosts : net[a][b] \in Seq(Between(a, b))

\* The messages of a channel arrive in order and in time.
InTime(q) ==
  /\ \A i \in 1 .. Len(q) : q[i].age <= MaxDelay
  /\ \A i, j \in 1 .. Len(q) : i <= j => q[j].age <= q[i].age

NoRequest(q) == \A i \in 1 .. Len(q) : q[i].kind # "request"

\* A request is on its way alone and no older request was made r ticks ago.
OneRequest(q, r) ==
  /\ \A i \in 1 .. Len(q) : q[i].kind = "request" => r <= q[i].age
  /\ \A i, j \in 1 .. Len(q) : q[i].kind = "request" /\ q[j].kind = "request" => i = j

\* A sign of life of the sender is on its way, at most x - y ticks old.
Sign(q, x, y) ==
  \E i \in 1 .. Len(q) : q[i].kind \in {"heartbeat", "request"} /\ x <= y + q[i].age

\* The heartbeats that c sources postpone in turn last this long.
Rounds(c) == c * Interval

\* A sign of life of n is on its way to m in time, ...
Coming(n, m) == Sign(net[n][m], seen_age[m][n], Rounds(Cardinality(Sources(n)) + 1))

\* ... or the sources in D, and no others, have postponed the heartbeat of n since
\* m last saw n.  None of them can do so again before the heartbeat is due.
Postponed(n, m, D) ==
  /\ seen_age[m][n] <= hb_age[n] + Rounds(Cardinality(D))
  /\ \A s \in D :
       /\ req_age[s] + Interval <= hb_age[n] + Rounds(Cardinality(D)) + MaxDelay
       /\ NoRequest(net[s][n])

Heard(n, m) == Coming(n, m) \/ \E D \in SUBSET Sources(n) : Postponed(n, m, D)

Calm == \A n \in Hosts : ~crashed[n]

ChannelsInv ==
  \A a, b \in Hosts : InTime(net[a][b]) /\ OneRequest(net[a][b], req_age[a])

HealthyInv ==
  /\ \A n \in Hosts : up[n] /\ hb_age[n] <= Interval
  /\ ChannelsInv
  /\ \A n \in Hosts : \A m \in Peers(n) : Heard(n, m)

HeartbeatInv == ShapeInv /\ (Calm => HealthyInv)

-----------------------------------------------------------------------------
(* Arithmetic and channels.                                                *)

\* One more source postpones by one more interval.
LEMMA RoundsStep ==
  ASSUME NEW c \in Nat
  PROVE  Rounds(c) \in Nat /\ Rounds(c + 1) = Rounds(c) + Interval
BY TimesAssumption DEF Rounds

\* More sources postpone longer.
LEMMA RoundsMonotone ==
  ASSUME NEW c \in Nat, NEW d \in Nat, c <= d
  PROVE  Rounds(c) <= Rounds(d)
BY TimesAssumption DEF Rounds

\* What follows from the requests being sparse, for the sources D of n.
LEMMA SourcesBound ==
  ASSUME SparseRequests, NEW n \in Hosts, NEW D \in SUBSET Sources(n)
  PROVE  /\ IsFiniteSet(D) /\ Cardinality(D) \in Nat
         /\ Rounds(Cardinality(D)) \in Nat
         /\ Rounds(Cardinality(D)) + MaxDelay < RequestGap
         /\ Rounds(Cardinality(D)) + Interval <= Rounds(Cardinality(Sources(n)) + 1)
         /\ Rounds(Cardinality(Sources(n)) + 1) \in Nat
         /\ Rounds(Cardinality(Sources(n)) + 1) + MaxDelay < Timeout
<1> DEFINE c == Cardinality(D)
           k == Cardinality(Sources(n))
<1>1. Sources(n) \subseteq Hosts
  BY DEF Sources
<1>2. IsFiniteSet(Sources(n)) /\ k \in Nat
  BY <1>1, TopologyAssumption, FS_Subset, FS_CardinalityType
<1>3. IsFiniteSet(D) /\ c \in Nat /\ c <= k
  BY <1>2, FS_Subset, FS_CardinalityType
<1>4. RequestGap > Rounds(k) + MaxDelay /\ Timeout > Rounds(k + 1) + MaxDelay
  BY DEF SparseRequests, Rounds
<1> HIDE DEF c, k
<1>5. /\ Rounds(c) \in Nat /\ Rounds(k) \in Nat /\ Rounds(c) <= Rounds(k)
      /\ Rounds(k + 1) = Rounds(k) + Interval
  BY <1>2, <1>3, RoundsStep, RoundsMonotone
<1>6. {Interval, Timeout, MaxDelay, RequestGap} \subseteq Nat
  BY TimesAssumption
<1> QED
  BY <1>3, <1>4, <1>5, <1>6 DEF c, k

\* The elements of a channel are messages.
LEMMA MessagesOf ==
  ASSUME NEW q \in Seq(MessageType)
  PROVE  Len(q) \in Nat /\ \A i \in 1 .. Len(q) : q[i] \in MessageType /\ q[i].age \in Nat
<1>1. Len(q) \in Nat /\ \A i \in 1 .. Len(q) : q[i] \in MessageType
  OBVIOUS
<1>2. \A msg \in MessageType : msg.age \in Nat
  BY DEF MessageType
<1> QED
  BY <1>1, <1>2

\* The send socket takes a message.
LEMMA AppendMessage ==
  ASSUME NEW q \in Seq(MessageType), NEW msg \in MessageType, msg.age = 0,
         NEW r \in Nat, InTime(q), OneRequest(q, r)
  PROVE  /\ InTime(Append(q, msg))
         /\ msg.kind # "request" => OneRequest(Append(q, msg), r)
         /\ NoRequest(q) => OneRequest(Append(q, msg), 0)
         /\ NoRequest(q) /\ msg.kind # "request" => NoRequest(Append(q, msg))
         /\ \A x, y : Sign(q, x, y) => Sign(Append(q, msg), x, y)
         /\ \A x, y \in Nat :
              msg.kind \in {"heartbeat", "request"} /\ x <= y => Sign(Append(q, msg), x, y)
<1> DEFINE t == Append(q, msg)
<1>1. /\ Len(q) \in Nat /\ Len(t) = Len(q) + 1 /\ t[Len(q) + 1] = msg
      /\ \A i \in 1 .. Len(q) : t[i] = q[i] /\ q[i].age \in Nat
  BY MessagesOf, AppendProperties
<1> HIDE DEF t
<1>2. \A i \in 1 .. Len(t) : i = Len(q) + 1 \/ i \in 1 .. Len(q)
  <2>1. Len(q) \in Nat /\ Len(t) = Len(q) + 1
    BY <1>1
  <2> QED
    BY ONLY <2>1
<1>3. MaxDelay \in Nat
  BY TimesAssumption
<1>4. InTime(t)
  <2>1. \A i \in 1 .. Len(t) : t[i].age <= MaxDelay
    BY <1>1, <1>2, <1>3 DEF InTime
  <2>2. \A i, j \in 1 .. Len(t) : i <= j => t[j].age <= t[i].age
    <3> SUFFICES ASSUME NEW i \in 1 .. Len(t), NEW j \in 1 .. Len(t), i <= j
                 PROVE  t[j].age <= t[i].age
      OBVIOUS
    <3>1. CASE j = Len(q) + 1
      BY <1>1, <1>2, <3>1
    <3>2. CASE j # Len(q) + 1
      BY <1>1, <1>2, <3>2 DEF InTime
    <3> QED
      BY <3>1, <3>2
  <2> QED
    BY <2>1, <2>2 DEF InTime
<1>5. msg.kind # "request" => OneRequest(t, r)
  BY <1>1, <1>2 DEF OneRequest
<1>6. NoRequest(q) => OneRequest(t, 0)
  BY <1>1, <1>2 DEF OneRequest, NoRequest
<1>7. NoRequest(q) /\ msg.kind # "request" => NoRequest(t)
  BY <1>1, <1>2 DEF NoRequest
<1>8. \A x, y : Sign(q, x, y) => Sign(t, x, y)
  BY <1>1 DEF Sign
<1>9. \A x, y \in Nat : msg.kind \in {"heartbeat", "request"} /\ x <= y => Sign(t, x, y)
  <2>1. Len(q) + 1 \in 1 .. Len(t)
    BY <1>1
  <2> QED
    BY <1>1, <2>1 DEF Sign
<1> QED
  BY <1>4, <1>5, <1>6, <1>7, <1>8, <1>9 DEF t

\* The receive socket gives its first message.
LEMMA TailMessage ==
  ASSUME NEW q \in Seq(MessageType), q # << >>, NEW r \in Nat, InTime(q), OneRequest(q, r)
  PROVE  /\ Head(q) \in MessageType /\ Tail(q) \in Seq(MessageType)
         /\ InTime(Tail(q)) /\ OneRequest(Tail(q), r)
         /\ Head(q).age <= MaxDelay
         /\ NoRequest(q) => NoRequest(Tail(q)) /\ Head(q).kind # "request"
         /\ Head(q).kind = "request" => NoRequest(Tail(q)) /\ r <= Head(q).age
         /\ \A x, y : Sign(q, x, y) =>
              Sign(Tail(q), x, y) \/ Head(q).kind \in {"heartbeat", "request"}
<1> DEFINE t == Tail(q)
<1>1. /\ Len(q) \in Nat /\ Len(q) > 0 /\ Len(t) = Len(q) - 1 /\ Head(q) = q[1]
      /\ \A i \in 1 .. Len(t) : t[i] = q[i + 1]
      /\ Tail(q) \in Seq(MessageType) /\ Head(q) \in MessageType
  BY HeadTailProperties, EmptySeq
<1> HIDE DEF t
<1>2. \A i \in 1 .. Len(t) : i + 1 \in 1 .. Len(q) /\ i + 1 # 1
  BY <1>1
<1>3. /\ 1 \in 1 .. Len(q)
      /\ \A i \in 1 .. Len(q) : i = 1 \/ (i - 1 \in 1 .. Len(t) /\ t[i - 1] = q[i])
  BY <1>1
<1>4. InTime(t) /\ Head(q).age <= MaxDelay
  BY <1>1, <1>2, <1>3 DEF InTime
<1>5. OneRequest(t, r)
  <2>1. \A i \in 1 .. Len(t) : t[i].kind = "request" => r <= t[i].age
    BY <1>1, <1>2 DEF OneRequest
  <2>2. ASSUME NEW i \in 1 .. Len(t), NEW j \in 1 .. Len(t),
               t[i].kind = "request", t[j].kind = "request"
        PROVE  i = j
    <3>1. i + 1 = j + 1
      BY <1>1, <1>2, <2>2 DEF OneRequest
    <3> QED
      BY <1>1, <3>1
  <2> QED
    BY <2>1, <2>2 DEF OneRequest
<1>6. NoRequest(q) => NoRequest(t) /\ Head(q).kind # "request"
  BY <1>1, <1>2, <1>3 DEF NoRequest
<1>7. Head(q).kind = "request" => NoRequest(t) /\ r <= Head(q).age
  BY <1>1, <1>2, <1>3 DEF NoRequest, OneRequest
<1>8. \A x, y : Sign(q, x, y) => Sign(t, x, y) \/ Head(q).kind \in {"heartbeat", "request"}
  BY <1>1, <1>3 DEF Sign
<1> QED
  BY <1>1, <1>4, <1>5, <1>6, <1>7, <1>8 DEF t

\* A tick of the clock: every message is older.
Aged(q) == [i \in DOMAIN q |-> [q[i] EXCEPT !.age = @ + 1]]

\* No message is late if the first is not.
LEMMA AgedMessages ==
  ASSUME NEW S, S \subseteq MessageType, NEW q \in Seq(S),
         \A msg \in S : [msg EXCEPT !.age = @ + 1] \in S
  PROVE  /\ Aged(q) \in Seq(S) /\ Len(Aged(q)) = Len(q)
         /\ \A i \in 1 .. Len(q) : Aged(q)[i].age = q[i].age + 1 /\ Aged(q)[i].kind = q[i].kind
<1>1. Len(q) \in Nat /\ DOMAIN q = 1 .. Len(q) /\ \A i \in 1 .. Len(q) : q[i] \in S
  OBVIOUS
<1>2. Aged(q) \in [1 .. Len(q) -> S]
  BY <1>1 DEF Aged
<1>3. Aged(q) \in Seq(S) /\ Len(Aged(q)) = Len(q)
  BY <1>1, <1>2
<1>4. \A i \in 1 .. Len(q) : Aged(q)[i].age = q[i].age + 1 /\ Aged(q)[i].kind = q[i].kind
  BY <1>1 DEF Aged, MessageType
<1> QED
  BY <1>3, <1>4

\* A tick keeps what is known of a channel whose first message is not late.
LEMMA AgedChannel ==
  ASSUME NEW q \in Seq(MessageType), NEW r \in Nat, NEW r1 \in Nat, r1 <= r + 1,
         InTime(q), OneRequest(q, r), q # << >> => Head(q).age < MaxDelay
  PROVE  /\ InTime(Aged(q)) /\ OneRequest(Aged(q), r1)
         /\ NoRequest(q) => NoRequest(Aged(q))
         /\ \A x, y \in Nat : Sign(q, x, y) => Sign(Aged(q), x + 1, y)
<1>0. \A msg \in MessageType : [msg EXCEPT !.age = @ + 1] \in MessageType
  BY DEF MessageType
<1> DEFINE t == Aged(q)
<1>1. /\ Len(t) = Len(q)
      /\ \A i \in 1 .. Len(q) : t[i].age = q[i].age + 1 /\ t[i].kind = q[i].kind
  BY <1>0, AgedMessages
<1> HIDE DEF t
<1>2. Len(q) \in Nat /\ MaxDelay \in Nat /\ \A i \in 1 .. Len(q) : q[i].age \in Nat
  BY TimesAssumption, MessagesOf
<1>3. \A i \in 1 .. Len(q) : q[i].age < MaxDelay
  <2> SUFFICES ASSUME NEW i \in 1 .. Len(q) PROVE q[i].age < MaxDelay
    OBVIOUS
  <2>1. q # << >> /\ 1 \in 1 .. Len(q) /\ Head(q) = q[1] /\ 1 <= i
    BY <1>2
  <2> QED
    BY <1>2, <2>1 DEF InTime
<1>4. InTime(t)
  <2>1. ASSUME NEW i \in 1 .. Len(t) PROVE t[i].age <= MaxDelay
    <3>1. t[i].age = q[i].age + 1 /\ q[i].age < MaxDelay /\ q[i].age \in Nat
      BY <1>1, <1>2, <1>3
    <3> QED
      BY <1>2, <3>1
  <2>2. ASSUME NEW i \in 1 .. Len(t), NEW j \in 1 .. Len(t), i <= j PROVE t[j].age <= t[i].age
    <3>1. /\ t[i].age = q[i].age + 1 /\ t[j].age = q[j].age + 1
          /\ q[i].age \in Nat /\ q[j].age \in Nat
      BY <1>1, <1>2
    <3>2. q[j].age <= q[i].age
      BY <1>1, <2>2 DEF InTime
    <3>3. \A a, b \in Nat : a <= b => a + 1 <= b + 1
      OBVIOUS
    <3> QED
      BY ONLY <3>1, <3>2, <3>3
  <2> QED
    BY <2>1, <2>2 DEF InTime
<1>5. OneRequest(t, r1)
  <2>1. ASSUME NEW i \in 1 .. Len(t), t[i].kind = "request" PROVE r1 <= t[i].age
    <3>1. t[i].age = q[i].age + 1 /\ q[i].age \in Nat
      BY <1>1, <1>2
    <3>2. r <= q[i].age
      BY <1>1, <2>1 DEF OneRequest
    <3> QED
      BY <3>1, <3>2
  <2>2. \A i, j \in 1 .. Len(t) : t[i].kind = "request" /\ t[j].kind = "request" => i = j
    BY <1>1 DEF OneRequest
  <2> QED
    BY <2>1, <2>2 DEF OneRequest
<1>6. NoRequest(q) => NoRequest(t)
  BY <1>1 DEF NoRequest
<1>7. ASSUME NEW x \in Nat, NEW y \in Nat, Sign(q, x, y) PROVE Sign(t, x + 1, y)
  <2>1. PICK i \in 1 .. Len(q) : q[i].kind \in {"heartbeat", "request"} /\ x <= y + q[i].age
    BY <1>7 DEF Sign
  <2>2. /\ i \in 1 .. Len(t) /\ t[i].kind \in {"heartbeat", "request"}
        /\ t[i].age = q[i].age + 1 /\ q[i].age \in Nat
    BY <1>1, <1>2, <2>1
  <2>3. \A a \in Nat : x <= y + a => x + 1 <= y + (a + 1)
    OBVIOUS
  <2>4. x + 1 <= y + t[i].age
    BY ONLY <2>1, <2>2, <2>3
  <2> QED
    BY <2>2, <2>4 DEF Sign
<1> QED
  BY <1>4, <1>5, <1>6, <1>7 DEF t

-----------------------------------------------------------------------------
(* What each step does to the channels.                                    *)

Channels == [Hosts -> [Hosts -> Seq(MessageType)]]

\* What a step may do to the channel from a to b.
Kept(a, b) == net'[a][b] = net[a][b]
Sent(a, b, msg) == net'[a][b] = Append(net[a][b], msg)
Taken(a, b) == net[a][b] # << >> /\ net'[a][b] = Tail(net[a][b])

\* Post appends to the channels of the targets that are up.
LEMMA PostIs ==
  ASSUME NEW c \in Channels, NEW n \in Hosts, NEW T, NEW msg \in MessageType
  PROVE  /\ Post(c, n, T, msg) \in Channels
         /\ \A a, b \in Hosts :
              Post(c, n, T, msg)[a][b] = IF a = n /\ b \in T /\ up[b]
                                         THEN Append(c[a][b], msg) ELSE c[a][b]
<1>1. Post(c, n, T, msg) = [c EXCEPT ![n] =
        [m \in Hosts |-> IF m \in T /\ up[m] THEN Append(c[n][m], msg) ELSE c[n][m]]]
  BY DEF Post
<1>2. \A m \in Hosts : c[n][m] \in Seq(MessageType) /\ Append(c[n][m], msg) \in Seq(MessageType)
  BY DEF Channels
<1>3. [m \in Hosts |-> IF m \in T /\ up[m] THEN Append(c[n][m], msg) ELSE c[n][m]]
        \in [Hosts -> Seq(MessageType)]
  BY <1>2
<1> QED
  BY <1>1, <1>3 DEF Channels

\* The messages the code makes.
LEMMA MessageIs ==
  ASSUME NEW k \in {"heartbeat", "request", "reply"}, NEW n \in Hosts
  PROVE  /\ Message(k, n) \in MessageType
         /\ Message(k, n).kind = k /\ Message(k, n).request_node_id = n /\ Message(k, n).age = 0
BY DEF Message, MessageType

\* SendHeartbeat puts a heartbeat into every channel of the node.
LEMMA HeartbeatIs ==
  ASSUME net \in Channels, NEW n \in Hosts, SendHeartbeat(n)
  PROVE  /\ net' \in Channels
         /\ \A a, b \in Hosts :
              IF a = n /\ b \in Peers(n) /\ up[b]
              THEN Sent(a, b, Message("heartbeat", n)) ELSE Kept(a, b)
<1>1. net' = Post(net, n, Peers(n), Message("heartbeat", n))
  BY DEF SendHeartbeat
<1>2. Message("heartbeat", n) \in MessageType
  BY MessageIs
<1>3. /\ net' \in Channels
      /\ \A a, b \in Hosts :
           net'[a][b] = IF a = n /\ b \in Peers(n) /\ up[b]
                        THEN Append(net[a][b], Message("heartbeat", n)) ELSE net[a][b]
  BY <1>1, <1>2, PostIs
<1> QED
  BY ONLY <1>3 DEF Sent, Kept

\* The send loop puts a request into one channel.
LEMMA NormalIs ==
  ASSUME net \in Channels, NEW n \in Hosts, NEW m \in Hosts, SendNormal(n, m)
  PROVE  /\ net' \in Channels
         /\ \A a, b \in Hosts :
              IF a = n /\ b = m /\ up[b]
              THEN Sent(a, b, Message("request", n)) ELSE Kept(a, b)
<1>1. net' = Post(net, n, {m}, Message("request", n))
  BY DEF SendNormal
<1>2. Message("request", n) \in MessageType
  BY MessageIs
<1>3. /\ net' \in Channels
      /\ \A a, b \in Hosts :
           net'[a][b] = IF a = n /\ b = m /\ up[b]
                        THEN Append(net[a][b], Message("request", n)) ELSE net[a][b]
  BY <1>1, <1>2, PostIs
<1> QED
  BY ONLY <1>3 DEF Sent, Kept

\* The receive loop takes the first message of a channel and may answer it.
LEMMA HandleIs ==
  ASSUME net \in Channels, NEW n \in Hosts, NEW m \in Peers(n), HandleReceivedMessage(n, m)
  PROVE  /\ net' \in Channels
         /\ Taken(m, n)
         /\ IF Head(net[m][n]).kind = "request" /\ up[m]
            THEN Sent(n, m, Message("reply", m)) ELSE Kept(n, m)
         /\ \A a, b \in Hosts : (a = m /\ b = n) \/ (a = n /\ b = m) \/ Kept(a, b)
<1> DEFINE rest == [net EXCEPT ![m][n] = Tail(@)]
<1>0. m \in Hosts /\ m # n /\ net[m][n] # << >> /\ net[m][n] \in Seq(MessageType)
  BY DEF HandleReceivedMessage, Peers, Channels
<1>1. Tail(net[m][n]) \in Seq(MessageType)
  BY <1>0
<1>2. /\ rest \in Channels /\ rest[m][n] = Tail(net[m][n])
      /\ \A a, b \in Hosts : (a = m /\ b = n) \/ rest[a][b] = net[a][b]
  BY <1>0, <1>1 DEF Channels
<1>3. \/ Head(net[m][n]).kind = "request" /\ net' = Post(rest, n, {m}, Message("reply", m))
      \/ Head(net[m][n]).kind # "request" /\ net' = rest
  BY DEF HandleReceivedMessage
<1>4. Message("reply", m) \in MessageType
  BY <1>0, MessageIs
<1> HIDE DEF rest
<1>5. CASE Head(net[m][n]).kind = "request"
  <2>1. PICK msg \in MessageType : msg = Message("reply", m)
    BY <1>4
  <2>2. /\ net' \in Channels
        /\ \A a, b \in Hosts : net'[a][b] = IF a = n /\ b \in {m} /\ up[b]
                                            THEN Append(rest[a][b], msg) ELSE rest[a][b]
    BY <1>2, <1>3, <1>5, <2>1, PostIs
  <2>3. Taken(m, n)
    BY <1>0, <1>2, <2>2 DEF Taken
  <2>4. IF up[m] THEN Sent(n, m, msg) ELSE Kept(n, m)
    BY <1>0, <1>2, <2>2 DEF Sent, Kept
  <2>5. \A a, b \in Hosts : (a = m /\ b = n) \/ (a = n /\ b = m) \/ Kept(a, b)
    BY <1>0, <1>2, <2>2 DEF Kept
  <2> QED
    BY <1>5, <2>1, <2>2, <2>3, <2>4, <2>5
<1>6. CASE Head(net[m][n]).kind # "request"
  BY <1>0, <1>2, <1>3, <1>6 DEF Sent, Kept, Taken
<1> QED
  BY <1>5, <1>6

\* A process that ends loses what is on its way to it.
LEMMA DownIs ==
  ASSUME net \in Channels, NEW n \in Hosts,
         net' = [m \in Hosts |-> [net[m] EXCEPT ![n] = << >>]]
  PROVE  /\ net' \in Channels
         /\ \A a, b \in Hosts : net'[a][b] = IF b = n THEN << >> ELSE net[a][b]
<1>1. << >> \in Seq(MessageType)
  OBVIOUS
<1> QED
  BY <1>1 DEF Channels

\* A tick makes every message older.
LEMMA TickIs ==
  ASSUME net \in Channels, Tick
  PROVE  /\ net' \in Channels
         /\ \A a, b \in Hosts : net'[a][b] = Aged(net[a][b])
<1>1. net' = [a \in Hosts |-> [b \in Hosts |-> Aged(net[a][b])]]
  BY DEF Tick, Aged
<1>2. \A msg \in MessageType : [msg EXCEPT !.age = @ + 1] \in MessageType
  BY DEF MessageType
<1>3. \A a, b \in Hosts : Aged(net[a][b]) \in Seq(MessageType)
  BY <1>2, AgedMessages DEF Channels
<1> QED
  BY <1>1, <1>3 DEF Channels

-----------------------------------------------------------------------------
(* Every step keeps the shape.                                             *)

\* Each channel keeps its kind of message.
LEMMA BetweenIs ==
  ASSUME NEW a \in Hosts, NEW b \in Hosts
  PROVE  /\ Message("heartbeat", a) \in Between(a, b)
         /\ Message("reply", b) \in Between(a, b)
         /\ <<a, b>> \in Requesting => Message("request", a) \in Between(a, b)
         /\ \A msg \in Between(a, b) : [msg EXCEPT !.age = @ + 1] \in Between(a, b)
         /\ Between(a, b) \subseteq MessageType
<1>1. /\ Message("heartbeat", a) \in Between(a, b)
      /\ Message("reply", b) \in Between(a, b)
      /\ <<a, b>> \in Requesting => Message("request", a) \in Between(a, b)
  BY MessageIs DEF Between
<1>2. ASSUME NEW msg \in Between(a, b) PROVE [msg EXCEPT !.age = @ + 1] \in Between(a, b)
  BY DEF Between, MessageType
<1> QED
  BY <1>1, <1>2 DEF Between

\* Sending and taking keep the kind of a channel.
LEMMA BetweenKept ==
  ASSUME NEW a \in Hosts, NEW b \in Hosts, net[a][b] \in Seq(Between(a, b))
  PROVE  /\ Kept(a, b) => net'[a][b] \in Seq(Between(a, b))
         /\ Taken(a, b) => net'[a][b] \in Seq(Between(a, b))
         /\ \A msg \in Between(a, b) : Sent(a, b, msg) => net'[a][b] \in Seq(Between(a, b))
<1>1. Kept(a, b) => net'[a][b] \in Seq(Between(a, b))
  BY DEF Kept
<1>2. Taken(a, b) => net'[a][b] \in Seq(Between(a, b))
  BY HeadTailProperties DEF Taken
<1>3. \A msg \in Between(a, b) : Sent(a, b, msg) => net'[a][b] \in Seq(Between(a, b))
  BY DEF Sent
<1> QED
  BY <1>1, <1>2, <1>3

\* The clocks and the flags have their type.
ClocksShape ==
  /\ up \in [Hosts -> BOOLEAN] /\ crashed \in [Hosts -> BOOLEAN]
  /\ hb_age \in [Hosts -> Nat] /\ seen_age \in [Hosts -> [Hosts -> Nat]]
  /\ req_age \in [Hosts -> Nat]

\* A received message is of the kind its channel carries.
LEMMA HeadIs ==
  ASSUME ShapeInv, NEW a \in Hosts, NEW b \in Hosts, net[a][b] # << >>
  PROVE  /\ Head(net[a][b]) \in Between(a, b) /\ Head(net[a][b]).request_node_id \in Hosts
         /\ Head(net[a][b]).age \in Nat
<1>1. Head(net[a][b]) \in Between(a, b)
  BY HeadTailProperties DEF ShapeInv
<1> QED
  BY <1>1 DEF Between, MessageType

\* Every step keeps them.
LEMMA ClocksNext == ShapeInv /\ [HeartbeatNext]_heartbeatVars => ClocksShape'
<1> SUFFICES ASSUME ShapeInv, ClocksShape, [HeartbeatNext]_heartbeatVars PROVE ClocksShape'
  BY DEF ShapeInv, ClocksShape
<1>1. CASE Tick
  BY <1>1 DEF Tick, ClocksShape
<1>2. ASSUME NEW n \in Hosts
      PROVE  /\ SendHeartbeat(n) => ClocksShape'
             /\ CheckHeartbeat(n) => ClocksShape'
             /\ Crash(n) => ClocksShape'
  <2>1. SendHeartbeat(n) => ClocksShape'
    BY DEF SendHeartbeat, ClocksShape
  <2>2. CheckHeartbeat(n) => ClocksShape'
    BY DEF CheckHeartbeat, ClocksShape
  <2>3. Crash(n) => ClocksShape'
    BY DEF Crash, ClocksShape
  <2> QED
    BY <2>1, <2>2, <2>3
<1>3. ASSUME NEW n \in Hosts, NEW m \in Peers(n), SendNormal(n, m) PROVE ClocksShape'
  <2>1. /\ req_age' = [req_age EXCEPT ![n] = 0] /\ hb_age' = [hb_age EXCEPT ![n] = 0]
        /\ UNCHANGED <<up, crashed, seen_age>>
    BY <1>3 DEF SendNormal
  <2> QED
    BY <2>1 DEF ClocksShape
<1>4. ASSUME NEW n \in Hosts, NEW m \in Peers(n), HandleReceivedMessage(n, m) PROVE ClocksShape'
  <2>1. /\ UNCHANGED <<up, crashed, req_age>> /\ net[m][n] # << >> /\ m \in Hosts
        /\ hb_age' = hb_age \/ hb_age' = [hb_age EXCEPT ![n] = 0]
        /\ seen_age' = [seen_age EXCEPT ![n][Head(net[m][n]).request_node_id] = 0]
    BY <1>4 DEF HandleReceivedMessage, Peers
  <2>2. PICK r \in Hosts : r = Head(net[m][n]).request_node_id
    BY <2>1, HeadIs
  <2>3. seen_age' = [seen_age EXCEPT ![n] = [seen_age[n] EXCEPT ![r] = 0]]
    BY <2>1, <2>2
  <2>4. seen_age' \in [Hosts -> [Hosts -> Nat]]
    <3>1. [seen_age[n] EXCEPT ![r] = 0] \in [Hosts -> Nat]
      BY DEF ClocksShape
    <3> QED
      BY <2>3, <3>1 DEF ClocksShape
  <2>5. hb_age' \in [Hosts -> Nat]
    <3>1. hb_age \in [Hosts -> Nat] /\ [hb_age EXCEPT ![n] = 0] \in [Hosts -> Nat]
      BY DEF ClocksShape
    <3>2. hb_age' = hb_age \/ hb_age' = [hb_age EXCEPT ![n] = 0]
      BY <2>1
    <3> QED
      BY ONLY <3>1, <3>2
  <2> QED
    BY ONLY <2>1, <2>4, <2>5, ClocksShape DEF ClocksShape
<1>5. CASE UNCHANGED heartbeatVars
  BY <1>5 DEF heartbeatVars, ClocksShape
<1> QED
  BY <1>1, <1>2, <1>3, <1>4, <1>5 DEF HeartbeatNext

\* Every step keeps the shape of the state.
LEMMA ShapeNext == ShapeInv /\ [HeartbeatNext]_heartbeatVars => ShapeInv'
<1> SUFFICES ASSUME ShapeInv, [HeartbeatNext]_heartbeatVars
             PROVE  net' \in Channels /\ \A a, b \in Hosts : net'[a][b] \in Seq(Between(a, b))
  BY ClocksNext DEF ShapeInv, ClocksShape, Channels
<1>0. net \in Channels /\ \A a, b \in Hosts : net[a][b] \in Seq(Between(a, b))
  BY DEF ShapeInv, Channels
<1>1. CASE Tick
  <2>1. net' \in Channels /\ \A a, b \in Hosts : net'[a][b] = Aged(net[a][b])
    BY <1>0, <1>1, TickIs
  <2>2. ASSUME NEW a \in Hosts, NEW b \in Hosts PROVE net'[a][b] \in Seq(Between(a, b))
    <3>1. Aged(net[a][b]) \in Seq(Between(a, b))
      BY <1>0, BetweenIs, AgedMessages
    <3> QED
      BY <2>1, <3>1
  <2> QED
    BY <2>1, <2>2
<1>2. ASSUME NEW n \in Hosts, SendHeartbeat(n)
      PROVE  net' \in Channels /\ \A a, b \in Hosts : net'[a][b] \in Seq(Between(a, b))
  <2>1. /\ net' \in Channels
        /\ \A a, b \in Hosts : Kept(a, b) \/ (a = n /\ Sent(a, b, Message("heartbeat", n)))
    BY <1>0, <1>2, HeartbeatIs
  <2> QED
    BY <1>0, <2>1, BetweenIs, BetweenKept
<1>3. ASSUME NEW n \in Hosts, CheckHeartbeat(n) \/ Crash(n)
      PROVE  net' \in Channels /\ \A a, b \in Hosts : net'[a][b] \in Seq(Between(a, b))
  <2>1. net' = [m \in Hosts |-> [net[m] EXCEPT ![n] = << >>]]
    BY <1>3 DEF CheckHeartbeat, Crash
  <2>2. /\ net' \in Channels
        /\ \A a, b \in Hosts : net'[a][b] = IF b = n THEN << >> ELSE net[a][b]
    BY <1>0, <2>1, DownIs
  <2>3. \A S : << >> \in Seq(S)
    OBVIOUS
  <2> QED
    BY ONLY <1>0, <2>2, <2>3
<1>4. ASSUME NEW n \in Hosts, NEW m \in Peers(n), SendNormal(n, m)
      PROVE  net' \in Channels /\ \A a, b \in Hosts : net'[a][b] \in Seq(Between(a, b))
  <2>1. m \in Hosts /\ <<n, m>> \in Requesting
    BY <1>4 DEF Peers, SendNormal
  <2>2. /\ net' \in Channels
        /\ \A a, b \in Hosts :
             Kept(a, b) \/ (a = n /\ b = m /\ Sent(a, b, Message("request", n)))
    BY <1>0, <1>4, <2>1, NormalIs
  <2> QED
    BY <1>0, <2>1, <2>2, BetweenIs, BetweenKept
<1>5. ASSUME NEW n \in Hosts, NEW m \in Peers(n), HandleReceivedMessage(n, m)
      PROVE  net' \in Channels /\ \A a, b \in Hosts : net'[a][b] \in Seq(Between(a, b))
  <2>1. /\ m \in Hosts /\ net' \in Channels /\ Taken(m, n)
        /\ Sent(n, m, Message("reply", m)) \/ Kept(n, m)
        /\ \A a, b \in Hosts : (a = m /\ b = n) \/ (a = n /\ b = m) \/ Kept(a, b)
    BY <1>0, <1>5, HandleIs DEF Peers
  <2> QED
    BY <1>0, <2>1, BetweenIs, BetweenKept
<1>6. CASE UNCHANGED heartbeatVars
  BY <1>0, <1>6 DEF heartbeatVars
<1> QED
  BY <1>1, <1>2, <1>3, <1>4, <1>5, <1>6 DEF HeartbeatNext

-----------------------------------------------------------------------------
(* Every step keeps a calm cluster healthy.                                *)

\* What is known of the clocks and channels of a healthy cluster.
LEMMA HealthyFacts ==
  ASSUME ShapeInv, HealthyInv
  PROVE  /\ net \in Channels
         /\ \A a, b \in Hosts : /\ net[a][b] \in Seq(MessageType) /\ seen_age[a][b] \in Nat
                                /\ InTime(net[a][b]) /\ OneRequest(net[a][b], req_age[a])
         /\ \A n \in Hosts : /\ up[n] /\ hb_age[n] \in Nat /\ hb_age[n] <= Interval
                             /\ req_age[n] \in Nat
         /\ \A n \in Hosts : \A m \in Peers(n) : Heard(n, m)
         /\ Interval \in Nat /\ MaxDelay \in Nat /\ Timeout \in Nat /\ RequestGap \in Nat
BY TimesAssumption DEF ShapeInv, HealthyInv, ChannelsInv, Channels

\* A message resets the age of the sender's heartbeat.
LEMMA AgeReset ==
  ASSUME ShapeInv, HealthyInv, NEW a \in Hosts,
         hb_age' = hb_age \/ hb_age' = [hb_age EXCEPT ![a] = 0]
  PROVE  \A n \in Hosts : hb_age'[n] \in Nat /\ hb_age'[n] <= Interval
<1>1. hb_age \in [Hosts -> Nat] /\ Interval \in Nat /\ \A n \in Hosts : hb_age[n] <= Interval
  BY HealthyFacts DEF ShapeInv
<1>2. CASE hb_age' = hb_age
  BY ONLY <1>1, <1>2
<1>3. CASE hb_age' = [hb_age EXCEPT ![a] = 0]
  <2>1. ASSUME NEW n \in Hosts PROVE hb_age'[n] = 0 \/ hb_age'[n] = hb_age[n]
    BY ONLY <1>1, <1>3
  <2>2. 0 <= Interval
    BY ONLY <1>1
  <2> QED
    BY ONLY <1>1, <2>1, <2>2
<1> QED
  BY <1>2, <1>3

\* A node that is heard is not silent for too long: CheckHeartbeat finds nothing.
LEMMA HeardInTime ==
  ASSUME SparseRequests, ShapeInv, HealthyInv, NEW n \in Hosts, NEW m \in Peers(n)
  PROVE  seen_age[m][n] < Timeout
<1>0. m \in Hosts
  BY DEF Peers
<1>1. PICK x \in Nat : x = seen_age[m][n]
  BY <1>0, HealthyFacts
<1>2. PICK B \in Nat : B = Rounds(Cardinality(Sources(n)) + 1) /\ B + MaxDelay < Timeout
  BY SourcesBound
<1>3. CASE Coming(n, m)
  <2>1. PICK i \in 1 .. Len(net[n][m]) : x <= B + net[n][m][i].age
    BY <1>1, <1>2, <1>3 DEF Coming, Sign
  <2>2. net[n][m][i].age \in Nat /\ net[n][m][i].age <= MaxDelay
    BY <1>0, HealthyFacts, MessagesOf DEF InTime
  <2>3. \A y \in Nat : y <= MaxDelay /\ x <= B + y => x < Timeout
    BY ONLY <1>1, <1>2, TimesAssumption
  <2>4. PICK y \in Nat : y = net[n][m][i].age
    BY <2>2
  <2>5. y <= MaxDelay /\ x <= B + y
    BY ONLY <2>1, <2>2, <2>4
  <2>6. x < Timeout
    BY ONLY <2>3, <2>5, y \in Nat
  <2> QED
    BY ONLY <1>1, <2>6
<1>4. ASSUME NEW D \in SUBSET Sources(n), Postponed(n, m, D) PROVE seen_age[m][n] < Timeout
  <2>1. PICK R \in Nat : R = Rounds(Cardinality(D)) /\ R + Interval <= B
    BY <1>2, SourcesBound
  <2>2. PICK y \in Nat : y = hb_age[n] /\ y <= Interval
    BY HealthyFacts
  <2>3. x <= y + R
    BY <1>1, <1>4, <2>1, <2>2 DEF Postponed
  <2> QED
    BY ONLY <1>1, <1>2, <2>1, <2>2, <2>3, TimesAssumption
<1> QED
  BY <1>3, <1>4, HealthyFacts DEF Heard

\* A source that has postponed the heartbeat of n makes no request for a while.
LEMMA PostponedOnce ==
  ASSUME SparseRequests, ShapeInv, HealthyInv, NEW n \in Hosts, NEW m \in Peers(n),
         NEW D \in SUBSET Sources(n), Postponed(n, m, D), NEW s \in D
  PROVE  s \in Hosts /\ req_age[s] < RequestGap /\ NoRequest(net[s][n])
<1>1. s \in Hosts
  BY DEF Sources
<1>2. PICK R \in Nat : R = Rounds(Cardinality(D)) /\ R + MaxDelay < RequestGap
  BY SourcesBound
<1>3. PICK y \in Nat : y = hb_age[n] /\ y <= Interval
  BY HealthyFacts
<1>4. PICK z \in Nat : z = req_age[s]
  BY <1>1, HealthyFacts
<1>5. z + Interval <= y + R + MaxDelay /\ NoRequest(net[s][n])
  BY <1>2, <1>3, <1>4 DEF Postponed
<1>6. z < RequestGap
  BY ONLY <1>2, <1>3, <1>4, <1>5, TimesAssumption
<1> QED
  BY <1>1, <1>4, <1>5, <1>6

\* The step of another source postpones the heartbeat of n once more.
LEMMA PostponedMore ==
  ASSUME SparseRequests, ShapeInv, HealthyInv, ShapeInv', NEW n \in Hosts, NEW m \in Peers(n),
         NEW D \in SUBSET Sources(n), Postponed(n, m, D), NEW s \in Sources(n), s \notin D,
         hb_age'[n] = 0, seen_age'[m][n] <= seen_age[m][n],
         \A u \in D : req_age'[u] <= req_age[u] /\ (NoRequest(net[u][n]) => NoRequest(net'[u][n])),
         req_age'[s] <= MaxDelay, NoRequest(net'[s][n])
  PROVE  \E E \in SUBSET Sources(n) : Postponed(n, m, E)'
<1> DEFINE E == D \cup {s}
<1>0. m \in Hosts /\ s \in Hosts /\ D \subseteq Hosts
  BY DEF Peers, Sources
<1>1. E \in SUBSET Sources(n) /\ IsFiniteSet(D) /\ Cardinality(D) \in Nat
  BY SourcesBound
<1>2. Cardinality(E) = Cardinality(D) + 1
  BY <1>1, FS_AddElement
<1>3. PICK R \in Nat : R = Rounds(Cardinality(D))
  BY SourcesBound
<1>4. Rounds(Cardinality(E)) = R + Interval
  BY <1>1, <1>2, <1>3, RoundsStep
<1> HIDE DEF E
<1>5. /\ seen_age[m][n] \in Nat /\ hb_age[n] \in Nat /\ hb_age[n] <= Interval
      /\ Interval \in Nat /\ MaxDelay \in Nat /\ \A u \in Hosts : req_age[u] \in Nat
  BY <1>0, HealthyFacts
<1>6. /\ seen_age'[m][n] \in Nat /\ \A u \in Hosts : req_age'[u] \in Nat
  BY <1>0 DEF ShapeInv
<1>7. seen_age'[m][n] <= hb_age'[n] + (R + Interval)
  BY <1>3, <1>5, <1>6 DEF Postponed
<1>8. ASSUME NEW u \in E
      PROVE  /\ req_age'[u] + Interval <= hb_age'[n] + (R + Interval) + MaxDelay
             /\ NoRequest(net'[u][n])
  <2>1. CASE u \in D
    <3>1. /\ req_age[u] + Interval <= hb_age[n] + R + MaxDelay /\ NoRequest(net[u][n])
          /\ u \in Hosts
      BY <1>0, <1>3, <2>1 DEF Postponed
    <3> QED
      BY <1>5, <1>6, <2>1, <3>1
  <2>2. CASE u = s
    BY <1>0, <1>5, <1>6, <2>2
  <2> QED
    BY <1>8, <2>1, <2>2 DEF E
<1>9. Postponed(n, m, E)'
  BY <1>4, <1>7, <1>8 DEF Postponed
<1> QED
  BY <1>1, <1>9

\* Time passes: a source's last request and the last sign of life of n get older
\* together with the heartbeat of n.
LEMMA HealthyTick ==
  ASSUME SparseRequests, ShapeInv, HealthyInv, ShapeInv', Tick
  PROVE  HealthyInv'
<1>0. /\ \A n \in Hosts : hb_age'[n] = hb_age[n] + 1 /\ hb_age[n] < Interval
      /\ \A n \in Hosts : up'[n]
      /\ \A n \in Hosts : \A m \in Peers(n) : seen_age'[m][n] = seen_age[m][n] + 1
      /\ \A n \in Hosts : req_age'[n] <= req_age[n] + 1
  <2>1. ASSUME NEW n \in Hosts PROVE hb_age'[n] = hb_age[n] + 1 /\ hb_age[n] < Interval /\ up'[n]
    <3>1. hb_age'[n] = hb_age[n] + 1 /\ up'[n]
      BY HealthyFacts DEF Tick
    <3>2. ~(hb_age[n] >= Interval)
      BY HealthyFacts DEF Tick, NothingDue, HeartbeatDue
    <3> QED
      BY <3>1, <3>2, HealthyFacts
  <2>2. ASSUME NEW n \in Hosts, NEW m \in Peers(n) PROVE seen_age'[m][n] = seen_age[m][n] + 1
    BY HealthyFacts DEF Tick, Peers
  <2>3. ASSUME NEW n \in Hosts PROVE req_age'[n] <= req_age[n] + 1
    BY HealthyFacts DEF Tick
  <2> QED
    BY <2>1, <2>2, <2>3
<1>1. \A a, b \in Hosts : net'[a][b] = Aged(net[a][b])
  BY HealthyFacts, TickIs
<1>2. ASSUME NEW a \in Hosts, NEW b \in Hosts
      PROVE  /\ InTime(net'[a][b]) /\ OneRequest(net'[a][b], req_age'[a])
             /\ NoRequest(net[a][b]) => NoRequest(net'[a][b])
             /\ \A x, y \in Nat : Sign(net[a][b], x, y) => Sign(net'[a][b], x + 1, y)
  <2>1. PICK q \in Seq(MessageType) : q = net[a][b]
    BY HealthyFacts
  <2>2. PICK r \in Nat : r = req_age[a]
    BY HealthyFacts
  <2>3. PICK r1 \in Nat : r1 = req_age'[a] /\ r1 <= r + 1
    BY <1>0, <2>2 DEF ShapeInv
  <2>4. InTime(q) /\ OneRequest(q, r) /\ (q # << >> => Head(q).age < MaxDelay)
    BY <2>1, <2>2, HealthyFacts DEF Tick, NothingDue
  <2>5. /\ InTime(Aged(q)) /\ OneRequest(Aged(q), r1)
        /\ NoRequest(q) => NoRequest(Aged(q))
        /\ \A x, y \in Nat : Sign(q, x, y) => Sign(Aged(q), x + 1, y)
    BY ONLY <2>3, <2>4, AgedChannel
  <2> QED
    BY ONLY <1>1, <2>1, <2>3, <2>5, a \in Hosts, b \in Hosts
<1>3. ASSUME NEW n \in Hosts, NEW m \in Peers(n) PROVE Heard(n, m)'
  <2>0. PICK x \in Nat : x = seen_age[m][n]
    BY HealthyFacts DEF Peers
  <2>1. m \in Hosts /\ seen_age'[m][n] = x + 1
    BY <1>0, <2>0 DEF Peers
  <2>2. PICK B \in Nat : B = Rounds(Cardinality(Sources(n)) + 1)
    BY SourcesBound
  <2>3. CASE Coming(n, m)
    <3>1. Sign(net[n][m], x, B)
      BY <2>0, <2>2, <2>3 DEF Coming
    <3>2. Sign(net'[n][m], x + 1, B)
      BY <1>2, <2>1, <3>1
    <3>3. Coming(n, m)'
      BY <2>1, <2>2, <3>2 DEF Coming, Sources
    <3> QED
      BY <3>3 DEF Heard
  <2>4. ASSUME NEW D \in SUBSET Sources(n), Postponed(n, m, D) PROVE Heard(n, m)'
    <3>1. PICK R \in Nat : R = Rounds(Cardinality(D))
      BY SourcesBound
    <3>2. PICK h \in Nat : h = hb_age[n] /\ hb_age'[n] = h + 1
      BY <1>0, HealthyFacts
    <3>3. x + 1 <= h + 1 + R
      <4>1. x <= h + R
        BY <2>0, <2>4, <3>1, <3>2 DEF Postponed
      <4> QED
        BY <4>1
    <3>4. ASSUME NEW s \in D
          PROVE  req_age'[s] + Interval <= h + 1 + R + MaxDelay /\ NoRequest(net'[s][n])
      <4>1. s \in Hosts
        BY DEF Sources
      <4>2. PICK r \in Nat : r = req_age[s]
        BY <4>1, HealthyFacts
      <4>3. PICK r1 \in Nat : r1 = req_age'[s] /\ r1 <= r + 1
        BY <1>0, <4>1, <4>2 DEF ShapeInv
      <4>4. r + Interval <= h + R + MaxDelay /\ NoRequest(net[s][n])
        BY <2>4, <3>1, <3>2, <4>2 DEF Postponed
      <4>5. r1 + Interval <= h + 1 + R + MaxDelay
        BY ONLY <3>1, <3>2, <4>2, <4>3, <4>4, TimesAssumption
      <4>6. NoRequest(net'[s][n])
        BY <1>2, <4>1, <4>4
      <4> QED
        BY <4>3, <4>5, <4>6
    <3>5. Postponed(n, m, D)'
      BY <2>1, <3>1, <3>2, <3>3, <3>4 DEF Postponed
    <3> QED
      BY <2>4, <3>5 DEF Heard, Sources
  <2> QED
    BY <2>3, <2>4, HealthyFacts DEF Heard
<1>4. \A n \in Hosts : up'[n] /\ hb_age'[n] <= Interval
  BY <1>0, HealthyFacts
<1> QED
  BY <1>2, <1>3, <1>4 DEF HealthyInv, ChannelsInv

\* A heartbeat is a sign of life for every peer.
LEMMA HealthySendHeartbeat ==
  ASSUME SparseRequests, ShapeInv, HealthyInv, ShapeInv', NEW a \in Hosts, SendHeartbeat(a)
  PROVE  HealthyInv'
<1>0. /\ hb_age' = [hb_age EXCEPT ![a] = 0] /\ UNCHANGED <<up, seen_age, req_age>>
  BY DEF SendHeartbeat
<1>1. \A x, b \in Hosts : IF x = a /\ b # a THEN Sent(x, b, Message("heartbeat", a)) ELSE Kept(x, b)
  BY HealthyFacts, HeartbeatIs DEF Peers
<1>2. ASSUME NEW x \in Hosts, NEW b \in Hosts
      PROVE  /\ InTime(net'[x][b]) /\ OneRequest(net'[x][b], req_age'[x])
             /\ NoRequest(net[x][b]) => NoRequest(net'[x][b])
             /\ \A i, j : Sign(net[x][b], i, j) => Sign(net'[x][b], i, j)
             /\ \A i, j \in Nat : x = a /\ b # a /\ i <= j => Sign(net'[x][b], i, j)
  <2>1. PICK q \in Seq(MessageType) : q = net[x][b]
    BY HealthyFacts
  <2>2. PICK r \in Nat : r = req_age[x] /\ r = req_age'[x] /\ InTime(q) /\ OneRequest(q, r)
    BY <1>0, <2>1, HealthyFacts
  <2>3. PICK msg \in MessageType : /\ msg = Message("heartbeat", a)
                                   /\ msg.kind = "heartbeat" /\ msg.age = 0
    BY MessageIs
  <2>4. CASE x = a /\ b # a
    <3>1. net'[x][b] = Append(q, msg)
      BY <1>1, <2>1, <2>3, <2>4 DEF Sent
    <3>2. /\ InTime(Append(q, msg)) /\ OneRequest(Append(q, msg), r)
          /\ NoRequest(q) => NoRequest(Append(q, msg))
          /\ \A i, j : Sign(q, i, j) => Sign(Append(q, msg), i, j)
          /\ \A i, j \in Nat : i <= j => Sign(Append(q, msg), i, j)
      BY ONLY <2>2, <2>3, AppendMessage
    <3> QED
      BY ONLY <2>1, <2>2, <3>1, <3>2
  <2>5. CASE ~(x = a /\ b # a)
    <3>1. net'[x][b] = q
      BY <1>1, <2>1, <2>5 DEF Kept
    <3> QED
      BY ONLY <2>1, <2>2, <2>5, <3>1
  <2> QED
    BY <2>4, <2>5
<1>3. ASSUME NEW n \in Hosts, NEW m \in Peers(n) PROVE Heard(n, m)'
  <2>0. PICK x \in Nat : x = seen_age[m][n] /\ seen_age'[m][n] = x
    BY <1>0, HealthyFacts DEF Peers
  <2>1. m \in Hosts /\ m # n
    BY DEF Peers
  <2>2. PICK B \in Nat : B = Rounds(Cardinality(Sources(n)) + 1)
    BY SourcesBound
  <2>3. CASE Coming(n, m)
    <3>1. Sign(net[n][m], x, B)
      BY <2>0, <2>2, <2>3 DEF Coming
    <3>2. Sign(net'[n][m], x, B)
      BY <1>2, <2>1, <3>1
    <3>3. Coming(n, m)'
      BY <2>0, <2>2, <3>2 DEF Coming, Sources
    <3> QED
      BY <3>3 DEF Heard
  <2>4. ASSUME NEW D \in SUBSET Sources(n), Postponed(n, m, D) PROVE Heard(n, m)'
    <3>1. PICK R \in Nat : R = Rounds(Cardinality(D)) /\ R + Interval <= B
      BY <2>2, SourcesBound
    <3>2. PICK h \in Nat : h = hb_age[n] /\ h <= Interval
      BY HealthyFacts
    <3>3. x <= h + R
      BY <2>0, <2>4, <3>1, <3>2 DEF Postponed
    <3>4. CASE n = a
      <4>1. x <= B
        BY ONLY <2>0, <2>2, <3>1, <3>2, <3>3, TimesAssumption
      <4>2. Sign(net'[n][m], x, B)
        BY <1>2, <2>1, <3>4, <4>1
      <4>3. Coming(n, m)'
        BY <2>0, <2>2, <4>2 DEF Coming, Sources
      <4> QED
        BY <4>3 DEF Heard
    <3>5. CASE n # a
      <4>1. hb_age'[n] = h
        BY <1>0, <3>2, <3>5 DEF ShapeInv
      <4>2. ASSUME NEW s \in D
            PROVE  req_age'[s] + Interval <= h + R + MaxDelay /\ NoRequest(net'[s][n])
        <5>1. s \in Hosts
          BY DEF Sources
        <5>2. req_age[s] + Interval <= h + R + MaxDelay /\ NoRequest(net[s][n])
          BY <2>4, <3>1, <3>2 DEF Postponed
        <5> QED
          BY <1>0, <1>2, <5>1, <5>2
      <4>3. Postponed(n, m, D)'
        BY <2>0, <3>1, <3>3, <4>1, <4>2 DEF Postponed
      <4> QED
        BY <2>4, <4>3 DEF Heard, Sources
    <3> QED
      BY <3>4, <3>5
  <2> QED
    BY <2>3, <2>4, HealthyFacts DEF Heard
<1>4. ASSUME NEW n \in Hosts PROVE up'[n] /\ hb_age'[n] <= Interval
  BY <1>0, AgeReset, HealthyFacts
<1> QED
  BY <1>2, <1>3, <1>4 DEF HealthyInv, ChannelsInv

\* A step that leaves the clocks of n alone, and lets no source of D act, keeps the
\* heartbeat of n postponed by D.
LEMMA PostponedKept ==
  ASSUME SparseRequests, ShapeInv, HealthyInv, ShapeInv', NEW n \in Hosts, NEW m \in Peers(n),
         NEW D \in SUBSET Sources(n), Postponed(n, m, D),
         hb_age'[n] = hb_age[n], seen_age'[m][n] = seen_age[m][n],
         \A u \in D : req_age'[u] = req_age[u] /\ (NoRequest(net[u][n]) => NoRequest(net'[u][n]))
  PROVE  Postponed(n, m, D)'
BY DEF Postponed

\* A sign of life that stays on its way keeps n heard, and so does whatever keeps
\* its heartbeat postponed.
LEMMA HeardKept ==
  ASSUME SparseRequests, ShapeInv, HealthyInv, ShapeInv', NEW n \in Hosts, NEW m \in Peers(n),
         seen_age'[m][n] = seen_age[m][n],
         \A i, j : Sign(net[n][m], i, j) => Sign(net'[n][m], i, j),
         \A D \in SUBSET Sources(n) :
           Postponed(n, m, D) => \E E \in SUBSET Sources(n) : Postponed(n, m, E)'
  PROVE  Heard(n, m)'
<1>1. CASE Coming(n, m)
  <2>1. Coming(n, m)'
    BY <1>1 DEF Coming, Sources
  <2> QED
    BY <2>1 DEF Heard
<1>2. ASSUME NEW E \in SUBSET Sources(n), Postponed(n, m, E)' PROVE Heard(n, m)'
  BY <1>2 DEF Heard, Sources
<1> QED
  BY <1>1, <1>2, HealthyFacts DEF Heard

\* A request postpones the heartbeat of its node, which has made none for long
\* enough to be no source of any postponement.
LEMMA HealthyNormal ==
  ASSUME SparseRequests, ShapeInv, HealthyInv, ShapeInv',
         NEW a \in Hosts, NEW b \in Peers(a), SendNormal(a, b)
  PROVE  HealthyInv'
<1>0. /\ b \in Hosts /\ b # a /\ <<a, b>> \in Requesting /\ req_age[a] >= RequestGap
      /\ hb_age' = [hb_age EXCEPT ![a] = 0] /\ req_age' = [req_age EXCEPT ![a] = 0]
      /\ UNCHANGED <<up, seen_age>>
  BY DEF SendNormal, Peers
<1>1. \A x, y \in Hosts : IF x = a /\ y = b THEN Sent(x, y, Message("request", a)) ELSE Kept(x, y)
  BY <1>0, HealthyFacts, NormalIs
<1>2. /\ hb_age'[a] = 0 /\ req_age'[a] = 0 /\ a \in Sources(a)
      /\ \A n \in Hosts : n # a => hb_age'[n] = hb_age[n] /\ req_age'[n] = req_age[n]
  BY <1>0 DEF ShapeInv, Sources
<1>3. ASSUME NEW c \in Hosts PROVE NoRequest(net[a][c])
  <2>1. MaxDelay < RequestGap
    <3>1. Rounds(Cardinality({})) \in Nat /\ Rounds(Cardinality({})) + MaxDelay < RequestGap
      BY SourcesBound
    <3> QED
      BY <3>1, TimesAssumption
  <2> SUFFICES ASSUME NEW i \in 1 .. Len(net[a][c]), net[a][c][i].kind = "request" PROVE FALSE
    BY DEF NoRequest
  <2>2. PICK y \in Nat : y = net[a][c][i].age
    BY HealthyFacts, MessagesOf
  <2>3. y <= MaxDelay /\ req_age[a] <= y
    BY <2>2, HealthyFacts DEF InTime, OneRequest
  <2>4. PICK z \in Nat : z = req_age[a] /\ z >= RequestGap
    BY <1>0, HealthyFacts
  <2>5. z <= y /\ y <= MaxDelay
    BY ONLY <2>3, <2>4
  <2>6. MaxDelay \in Nat /\ RequestGap \in Nat
    BY TimesAssumption
  <2> QED
    BY ONLY <2>1, <2>4, <2>5, <2>6, y \in Nat
<1>4. ASSUME NEW x \in Hosts, NEW y \in Hosts
      PROVE  /\ InTime(net'[x][y]) /\ OneRequest(net'[x][y], req_age'[x])
             /\ ~(x = a /\ y = b) /\ NoRequest(net[x][y]) => NoRequest(net'[x][y])
             /\ \A i, j : Sign(net[x][y], i, j) => Sign(net'[x][y], i, j)
  <2>1. PICK q \in Seq(MessageType) : q = net[x][y]
    BY HealthyFacts
  <2>2. PICK r \in Nat : r = req_age[x] /\ InTime(q) /\ OneRequest(q, r)
    BY <2>1, HealthyFacts
  <2>3. PICK msg \in MessageType : /\ msg = Message("request", a)
                                   /\ msg.kind = "request" /\ msg.age = 0
    BY MessageIs
  <2>4. CASE x = a /\ y = b
    <3>1. net'[x][y] = Append(q, msg) /\ NoRequest(q) /\ req_age'[x] = 0
      BY <1>1, <1>2, <1>3, <2>1, <2>3, <2>4 DEF Sent
    <3>2. /\ InTime(Append(q, msg)) /\ OneRequest(Append(q, msg), 0)
          /\ \A i, j : Sign(q, i, j) => Sign(Append(q, msg), i, j)
      BY ONLY <2>2, <2>3, <3>1, AppendMessage
    <3> QED
      BY ONLY <2>1, <2>4, <3>1, <3>2
  <2>5. CASE ~(x = a /\ y = b)
    <3>1. net'[x][y] = q
      BY <1>1, <2>1, <2>5 DEF Kept
    <3>2. OneRequest(q, req_age'[x])
      <4>1. CASE x = a
        <5>1. NoRequest(q) /\ req_age'[x] = 0
          BY <1>2, <1>3, <2>1, <4>1
        <5> QED
          BY ONLY <5>1 DEF NoRequest, OneRequest
      <4>2. CASE x # a
        BY <1>2, <2>2, <4>2
      <4> QED
        BY <4>1, <4>2
    <3> QED
      BY ONLY <2>1, <2>2, <2>5, <3>1, <3>2
  <2> QED
    BY <2>4, <2>5
<1>5. ASSUME NEW n \in Hosts, NEW m \in Peers(n) PROVE Heard(n, m)'
  <2>1. m \in Hosts /\ seen_age'[m][n] = seen_age[m][n] /\ seen_age[m][n] \in Nat
    BY <1>0, HealthyFacts DEF Peers
  <2>2. ASSUME NEW D \in SUBSET Sources(n), Postponed(n, m, D)
        PROVE  \E E \in SUBSET Sources(n) : Postponed(n, m, E)'
    <3>1. a \notin D
      <4>1. a \in D => req_age[a] < RequestGap
        BY <2>2, PostponedOnce
      <4> QED
        BY <1>0, <4>1, HealthyFacts
    <3>2. ASSUME NEW u \in D
          PROVE  req_age'[u] = req_age[u] /\ (NoRequest(net[u][n]) => NoRequest(net'[u][n]))
      <4>1. u \in Hosts /\ u # a
        BY <3>1 DEF Sources
      <4> QED
        BY <1>2, <1>4, <4>1
    <3>3. CASE n = a
      <4>1. NoRequest(net'[a][n])
        BY <1>0, <1>3, <1>4, <3>3
      <4>2. a \in Sources(n) /\ hb_age'[n] = 0 /\ req_age'[a] <= MaxDelay
        BY <1>2, <3>3, TimesAssumption
      <4>3. seen_age'[m][n] <= seen_age[m][n]
        BY <2>1
      <4>4. \A u \in D : req_age'[u] <= req_age[u]
        <5>1. \A u \in D : u \in Hosts
          BY DEF Sources
        <5> QED
          BY <3>2, <5>1, HealthyFacts
      <4> QED
        BY <2>2, <3>1, <3>2, <4>1, <4>2, <4>3, <4>4, PostponedMore
    <3>4. CASE n # a
      <4>1. hb_age'[n] = hb_age[n]
        BY <1>2, <3>4
      <4>2. Postponed(n, m, D)'
        BY <2>1, <2>2, <3>2, <4>1, PostponedKept
      <4> QED
        BY <4>2
    <3> QED
      BY <3>3, <3>4
  <2>3. \A i, j : Sign(net[n][m], i, j) => Sign(net'[n][m], i, j)
    BY <1>4, <2>1
  <2> QED
    BY <2>1, <2>2, <2>3, HeardKept
<1>6. ASSUME NEW n \in Hosts PROVE up'[n] /\ hb_age'[n] <= Interval
  BY <1>0, AgeReset, HealthyFacts
<1> QED
  BY <1>4, <1>5, <1>6 DEF HealthyInv, ChannelsInv

\* A received message is a sign of life of its requesting node.  The reply to a
\* request postpones the heartbeat of the node that answers.
LEMMA HealthyHandle ==
  ASSUME SparseRequests, ShapeInv, HealthyInv, ShapeInv',
         NEW a \in Hosts, NEW b \in Peers(a), HandleReceivedMessage(a, b)
  PROVE  HealthyInv'
<1> DEFINE head == Head(net[b][a])
<1>0. /\ b \in Hosts /\ b # a /\ net[b][a] # << >>
      /\ seen_age' = [seen_age EXCEPT ![a][head.request_node_id] = 0]
      /\ \/ head.kind = "request" /\ hb_age' = [hb_age EXCEPT ![a] = 0]
         \/ head.kind # "request" /\ hb_age' = hb_age
      /\ UNCHANGED <<up, req_age>>
  BY DEF HandleReceivedMessage, Peers
<1>1. /\ Taken(b, a)
      /\ IF head.kind = "request" THEN Sent(a, b, Message("reply", b)) ELSE Kept(a, b)
      /\ \A x, y \in Hosts : (x = b /\ y = a) \/ (x = a /\ y = b) \/ Kept(x, y)
  BY <1>0, HealthyFacts, HandleIs
<1>2. PICK q \in Seq(MessageType) : q = net[b][a] /\ q # << >> /\ net'[b][a] = Tail(q)
  BY <1>0, <1>1, HealthyFacts DEF Taken
<1>3. PICK r \in Nat : r = req_age[b] /\ r = req_age'[b] /\ InTime(q) /\ OneRequest(q, r)
  BY <1>0, <1>2, HealthyFacts
<1>4. /\ InTime(Tail(q)) /\ OneRequest(Tail(q), r) /\ Head(q).age <= MaxDelay
      /\ NoRequest(q) => NoRequest(Tail(q)) /\ Head(q).kind # "request"
      /\ Head(q).kind = "request" => NoRequest(Tail(q)) /\ r <= Head(q).age
      /\ \A i, j : Sign(q, i, j) =>
           Sign(Tail(q), i, j) \/ Head(q).kind \in {"heartbeat", "request"}
  BY ONLY <1>2, <1>3, TailMessage
<1>5. /\ head.request_node_id \in Hosts /\ head.age \in Nat
      /\ head.kind \in {"heartbeat", "request"} => head.request_node_id = b
      /\ head.kind = "request" => <<b, a>> \in Requesting
  <2>1. head \in Between(b, a) /\ head.request_node_id \in Hosts /\ head.age \in Nat
    BY <1>0, HeadIs
  <2> QED
    BY <2>1 DEF Between
<1>6. PICK id \in Hosts : id = head.request_node_id
  BY <1>5
<1>7. \A m, n \in Hosts : seen_age'[m][n] = IF m = a /\ n = id THEN 0 ELSE seen_age[m][n]
  <2>1. seen_age' = [seen_age EXCEPT ![a] = [seen_age[a] EXCEPT ![id] = 0]]
    BY <1>0, <1>6
  <2> QED
    BY <2>1 DEF ShapeInv
<1>8. \A n \in Hosts : \/ hb_age'[n] = hb_age[n]
                       \/ n = a /\ hb_age'[n] = 0 /\ head.kind = "request"
  BY <1>0 DEF ShapeInv
<1>9. ASSUME NEW x \in Hosts, NEW y \in Hosts
      PROVE  /\ InTime(net'[x][y]) /\ OneRequest(net'[x][y], req_age'[x])
             /\ NoRequest(net[x][y]) => NoRequest(net'[x][y])
             /\ \A i, j : Sign(net[x][y], i, j) =>
                  Sign(net'[x][y], i, j) \/ (x = b /\ y = a /\ id = b)
  <2>1. PICK p \in Seq(MessageType) : p = net[x][y]
    BY HealthyFacts
  <2>2. PICK k \in Nat : k = req_age[x] /\ k = req_age'[x] /\ InTime(p) /\ OneRequest(p, k)
    BY <1>0, <2>1, HealthyFacts
  <2>3. CASE x = b /\ y = a
    BY <1>2, <1>3, <1>4, <1>5, <1>6, <2>3
  <2>4. CASE Sent(x, y, Message("reply", b))
    <3>1. PICK msg \in MessageType : /\ msg = Message("reply", b)
                                     /\ msg.kind = "reply" /\ msg.age = 0
      BY <1>0, MessageIs
    <3>2. net'[x][y] = Append(p, msg)
      BY <2>1, <2>4, <3>1 DEF Sent
    <3>3. /\ InTime(Append(p, msg)) /\ OneRequest(Append(p, msg), k)
          /\ NoRequest(p) => NoRequest(Append(p, msg))
          /\ \A i, j : Sign(p, i, j) => Sign(Append(p, msg), i, j)
      BY ONLY <2>2, <3>1, AppendMessage
    <3> QED
      BY ONLY <2>1, <2>2, <3>2, <3>3
  <2>5. CASE Kept(x, y)
    <3>1. net'[x][y] = p
      BY <2>1, <2>5 DEF Kept
    <3> QED
      BY ONLY <2>1, <2>2, <3>1
  <2> QED
    BY <1>1, <2>3, <2>4, <2>5
<1>10. ASSUME NEW n \in Hosts, NEW m \in Peers(n) PROVE Heard(n, m)'
  <2>0. m \in Hosts /\ m # n
    BY DEF Peers
  <2>1. CASE m = a /\ n = id
    <3>1. seen_age'[m][n] = 0
      BY <1>7, <2>0, <2>1
    <3>2. PICK R \in Nat : R = Rounds(Cardinality({}))
      BY SourcesBound
    <3>3. hb_age'[n] \in Nat
      BY DEF ShapeInv
    <3>4. seen_age'[m][n] <= hb_age'[n] + R
      BY ONLY <3>1, <3>2, <3>3
    <3>5. Postponed(n, m, {})'
      BY <3>2, <3>4 DEF Postponed
    <3> QED
      BY <3>5 DEF Heard
  <2>2. CASE ~(m = a /\ n = id)
    <3>1. seen_age'[m][n] = seen_age[m][n] /\ seen_age[m][n] \in Nat
      BY <1>7, <2>0, <2>2, HealthyFacts
    <3>2. \A i, j : Sign(net[n][m], i, j) => Sign(net'[n][m], i, j)
      BY <1>9, <2>0, <2>2
    <3>3. ASSUME NEW D \in SUBSET Sources(n), Postponed(n, m, D)
          PROVE  \E E \in SUBSET Sources(n) : Postponed(n, m, E)'
      <4>0. \A u \in D : u \in Hosts
        BY DEF Sources
      <4>1. \A u \in D : req_age'[u] = req_age[u] /\ (NoRequest(net[u][n]) => NoRequest(net'[u][n]))
        BY <1>0, <1>9, <4>0
      <4>2. CASE hb_age'[n] = hb_age[n]
        <5>1. Postponed(n, m, D)'
          BY <3>1, <3>3, <4>1, <4>2, PostponedKept
        <5> QED
          BY <5>1
      <4>3. CASE n = a /\ hb_age'[n] = 0 /\ head.kind = "request"
        <5>1. b \in Sources(n)
          BY <1>0, <1>5, <4>3 DEF Sources
        <5>2. b \notin D
          <6>1. ~NoRequest(net[b][n])
            BY <1>2, <1>4, <4>3
          <6> QED
            BY <3>3, <6>1, PostponedOnce
        <5>3. NoRequest(net'[b][n])
          BY <1>2, <1>4, <4>3
        <5>4. req_age'[b] <= MaxDelay
          <6>1. PICK y \in Nat : y = head.age
            BY <1>5
          <6>2. r <= y /\ y <= MaxDelay
            BY <1>2, <1>4, <4>3, <6>1
          <6> QED
            BY <1>3, <6>2, TimesAssumption
        <5>5. seen_age'[m][n] <= seen_age[m][n] /\ \A u \in D : req_age'[u] <= req_age[u]
          BY <3>1, <4>0, <4>1, HealthyFacts
        <5> QED
          BY <3>3, <4>1, <4>3, <5>1, <5>2, <5>3, <5>4, <5>5, PostponedMore
      <4> QED
        BY <1>8, <4>2, <4>3
    <3> QED
      BY <3>1, <3>2, <3>3, HeardKept
  <2> QED
    BY <2>1, <2>2
<1>11. ASSUME NEW n \in Hosts PROVE up'[n] /\ hb_age'[n] <= Interval
  <2>1. hb_age' = hb_age \/ hb_age' = [hb_age EXCEPT ![a] = 0]
    BY <1>0
  <2> QED
    BY <1>0, <2>1, AgeReset, HealthyFacts
<1> QED
  BY <1>9, <1>10, <1>11 DEF HealthyInv, ChannelsInv

-----------------------------------------------------------------------------
(* The theorem.                                                            *)

\* All nodes start healthy.
LEMMA HeartbeatInvStarts == SparseRequests /\ HeartbeatInit => HeartbeatInv
<1> SUFFICES ASSUME SparseRequests, HeartbeatInit PROVE HeartbeatInv
  OBVIOUS
<1>1. /\ \A a, b \in Hosts : net[a][b] = << >> /\ seen_age[a][b] = 0
      /\ \A n \in Hosts : up[n] /\ hb_age[n] = 0
  BY DEF HeartbeatInit
<1>2. ShapeInv
  <2>1. \A S : << >> \in Seq(S)
    OBVIOUS
  <2>2. net \in [Hosts -> [Hosts -> Seq(MessageType)]]
    BY <2>1 DEF HeartbeatInit
  <2>3. \A a, b \in Hosts : net[a][b] \in Seq(Between(a, b))
    BY <1>1, <2>1
  <2>4. up \in [Hosts -> BOOLEAN] /\ crashed \in [Hosts -> BOOLEAN] /\ hb_age \in [Hosts -> Nat]
    BY DEF HeartbeatInit
  <2>5. seen_age \in [Hosts -> [Hosts -> Nat]] /\ req_age \in [Hosts -> Nat]
    BY TimesAssumption DEF HeartbeatInit
  <2> QED
    BY <2>2, <2>3, <2>4, <2>5 DEF ShapeInv
<1>3. ChannelsInv
  BY <1>1 DEF ChannelsInv, InTime, OneRequest
<1>4. ASSUME NEW n \in Hosts, NEW m \in Peers(n) PROVE Heard(n, m)
  <2>1. PICK R \in Nat : R = Rounds(Cardinality({}))
    BY SourcesBound
  <2>2. Postponed(n, m, {})
    BY <1>1, <2>1 DEF Postponed, Peers
  <2> QED
    BY <2>2 DEF Heard
<1>5. \A n \in Hosts : up[n] /\ hb_age[n] <= Interval
  BY <1>1, TimesAssumption
<1> QED
  BY <1>2, <1>3, <1>4, <1>5 DEF HeartbeatInv, HealthyInv

\* A crash is not forgotten: a cluster that is calm was calm before.
LEMMA CalmBefore == ShapeInv /\ [HeartbeatNext]_heartbeatVars /\ Calm' => Calm
<1> SUFFICES ASSUME ShapeInv, [HeartbeatNext]_heartbeatVars, NEW n \in Hosts, crashed[n]
             PROVE  crashed'[n]
  BY DEF Calm
<1>1. ASSUME NEW a \in Hosts, Crash(a) PROVE crashed'[n]
  <2>1. crashed' = [crashed EXCEPT ![a] = TRUE] /\ crashed \in [Hosts -> BOOLEAN]
    BY <1>1 DEF Crash, ShapeInv
  <2> QED
    BY <2>1
<1>2. ASSUME ~ \E a \in Hosts : Crash(a) PROVE crashed' = crashed
  BY <1>2 DEF HeartbeatNext, heartbeatVars, Tick, SendHeartbeat, CheckHeartbeat, SendNormal,
              HandleReceivedMessage
<1> QED
  BY <1>1, <1>2

\* Every step keeps the invariant.
LEMMA HeartbeatInvNext ==
  SparseRequests /\ HeartbeatInv /\ [HeartbeatNext]_heartbeatVars => HeartbeatInv'
<1> SUFFICES ASSUME SparseRequests, HeartbeatInv, [HeartbeatNext]_heartbeatVars PROVE HeartbeatInv'
  OBVIOUS
<1>1. ShapeInv /\ ShapeInv'
  BY ShapeNext DEF HeartbeatInv
<1> SUFFICES ASSUME Calm' PROVE HealthyInv'
  BY <1>1 DEF HeartbeatInv
<1>2. Calm /\ HealthyInv
  BY <1>1, CalmBefore DEF HeartbeatInv
<1>3. CASE Tick
  BY <1>1, <1>2, <1>3, HealthyTick
<1>4. ASSUME NEW n \in Hosts, SendHeartbeat(n) PROVE HealthyInv'
  BY <1>1, <1>2, <1>4, HealthySendHeartbeat
<1>5. ASSUME NEW n \in Hosts, CheckHeartbeat(n) PROVE FALSE
  <2>1. PICK m \in Peers(n) : seen_age[n][m] >= Timeout
    BY <1>5 DEF CheckHeartbeat, Silent
  <2>2. m \in Hosts /\ n \in Peers(m)
    BY DEF Peers
  <2>3. seen_age[n][m] < Timeout
    BY <1>1, <1>2, <2>2, HeardInTime
  <2> QED
    BY <1>1, <1>2, <2>1, <2>2, <2>3, HealthyFacts
<1>6. ASSUME NEW n \in Hosts, Crash(n) PROVE FALSE
  <2>1. crashed'[n]
    BY <1>1, <1>6 DEF Crash, ShapeInv
  <2> QED
    BY <2>1 DEF Calm
<1>7. ASSUME NEW n \in Hosts, NEW m \in Peers(n), SendNormal(n, m) PROVE HealthyInv'
  BY <1>1, <1>2, <1>7, HealthyNormal
<1>8. ASSUME NEW n \in Hosts, NEW m \in Peers(n), HandleReceivedMessage(n, m) PROVE HealthyInv'
  BY <1>1, <1>2, <1>8, HealthyHandle
<1>9. CASE UNCHANGED heartbeatVars
  <2>1. /\ up' = up /\ hb_age' = hb_age /\ seen_age' = seen_age /\ req_age' = req_age /\ net' = net
    BY <1>9 DEF heartbeatVars
  <2> QED
    BY <1>2, <2>1 DEF HealthyInv, ChannelsInv, Heard, Coming, Postponed, Sources
<1> QED
  BY <1>3, <1>4, <1>5, <1>6, <1>7, <1>8, <1>9 DEF HeartbeatNext

\* MessageBroker::CheckHeartbeat (network.cc:243-252): as long as no node has failed no
\* node ends its process, whatever the number of nodes, who sends requests to whom
\* and the order in which heartbeats, requests and replies are sent and received, when
\* requests are sparse enough for the heartbeats they postpone.
THEOREM NoFalseDeaths ==
  ASSUME SparseRequests
  PROVE  HeartbeatSpec => []NoFalseDeath
<1>1. HeartbeatInit => HeartbeatInv
  BY HeartbeatInvStarts
<1>2. HeartbeatInv /\ [HeartbeatNext]_heartbeatVars => HeartbeatInv'
  BY HeartbeatInvNext
<1>3. HeartbeatInv => NoFalseDeath
  BY DEF HeartbeatInv, HealthyInv, Calm, NoFalseDeath
<1> QED
  BY <1>1, <1>2, <1>3, PTL DEF HeartbeatSpec
=============================================================================
