------------------------- MODULE ActorRegistryProofs -------------------------
(***************************************************************************)
(* Proofs about ActorRegistry: the two tables of every node agree, and with *)
(* globally unique ids a reference leads to its own actor; a shutdown is    *)
(* complete.                                                               *)
(***************************************************************************)
EXTENDS ActorRegistry, TLAPS

(* The steps of the registries, one disjunct per operation or handler.      *)
LEMMA RegistryCases ==
  ASSUME Next
  PROVE  \/ \E t \in Tasks, name \in Names \cup {None} : CreateLocal(t, name)
         \/ \E t \in Tasks, name \in Names : LookUpLocal(t, name)
         \/ \E t \in Tasks, m \in Nodes, name \in Names \cup {None}, known \in BOOLEAN :
              CreateRemote(t, m, name, known)
         \/ \E t \in Tasks, m \in Nodes, name \in Names : LookUpRemote(t, m, name)
         \/ \E t \in Tasks : \E ref \in refs[Home[t]], known \in BOOLEAN : CallRemote(t, ref, known)
         \/ \E t \in Tasks : \E ref \in refs[Home[t]] : DestroyActor(t, ref)
         \/ \E t \in Tasks : DestroyReturn(t)
         \/ \E t \in Tasks : HandleActorCreationRequest(t)
         \/ \E t \in Tasks : HandleActorLookUpRequest(t)
         \/ \E t \in Tasks : HandleActorMethodCallRequest(t)
         \/ \E t \in Tasks : HandleActorMethodCallReturn(t)
         \/ \E t \in Tasks : Execute(t)
         \/ \E t \in Tasks : Return(t)
         \/ \E o \in Objects : Destroyed(o)
         \/ \E n \in Nodes : ShutdownBegin(n)
         \/ \E n \in Nodes : AsyncDestroyAllActors(n)
         \/ \E n \in Nodes : AllActorsDestroyed(n)
         \/ \E n \in Nodes : ShutdownReturn(n)
  BY DEF Next, HandleNetworkRequest, Shutdown

(* Entering a fresh object under a free id and a free name, or under no     *)
(* name, keeps the tables well formed (actor_registry.h:55-61).            *)
LEMMA RegisterStep ==
  ASSUME TablesInv, NEW n \in Nodes, NEW i \in GenerateRandomActorId(n), NEW o \in Objects,
         NEW name \in Names \cup {None}, NameFree(n, name), Register(n, i, o, name)
  PROVE  /\ actor_id_to_actor' \in [Nodes -> [Ids -> Objects \cup {None}]]
         /\ actor_name_to_id' \in [Nodes -> [Names -> Ids \cup {None}]]
         /\ node_id' \in [Objects -> Nodes \cup {None}]
         /\ actor_name' \in [Objects -> Names \cup {None}]
         /\ life' \in [Objects -> {"unmade", "live", "destroying", "destroyed"}]
         /\ drawn' \subseteq Ids
         /\ Made'
         /\ NamesConsistent'
<1> USE RegistryNoneAssumption
<1>1. i \in Ids /\ actor_id_to_actor[n][i] = None
  BY DEF GenerateRandomActorId
<1>2. actor_id_to_actor' \in [Nodes -> [Ids -> Objects \cup {None}]]
  BY <1>1 DEF Register, TablesInv, TypeOK
<1>3. actor_name_to_id' \in [Nodes -> [Names -> Ids \cup {None}]]
  BY <1>1 DEF Register, TablesInv, TypeOK
<1>4. /\ node_id' \in [Objects -> Nodes \cup {None}]
      /\ actor_name' \in [Objects -> Names \cup {None}]
      /\ life' \in [Objects -> {"unmade", "live", "destroying", "destroyed"}]
  BY DEF Register, TablesInv, TypeOK
<1>5. drawn' \subseteq Ids
  BY <1>1 DEF Register, TablesInv, TypeOK
<1>6. Made'
  BY <1>1 DEF Register, TablesInv, TypeOK, Made
<1>7. \A m \in Nodes, j \in Ids : actor_id_to_actor[m][j] # o
  <2>1. life[o] = "unmade" /\ o # None
    BY DEF Register
  <2>2. Made
    BY DEF TablesInv
  <2> QED
    BY <2>1, <2>2 DEF Made
<1>8. \A m \in Nodes, x \in Names : actor_name_to_id'[m][x] # None =>
         /\ actor_id_to_actor'[m][actor_name_to_id'[m][x]] # None
         /\ actor_name'[actor_id_to_actor'[m][actor_name_to_id'[m][x]]] = x
  <2> SUFFICES ASSUME NEW m \in Nodes, NEW x \in Names, actor_name_to_id'[m][x] # None
               PROVE  /\ actor_id_to_actor'[m][actor_name_to_id'[m][x]] # None
                      /\ actor_name'[actor_id_to_actor'[m][actor_name_to_id'[m][x]]] = x
    OBVIOUS
  <2>1. CASE m = n /\ x = name
    BY <2>1, <1>1 DEF Register, TablesInv, TypeOK
  <2>2. CASE ~(m = n /\ x = name)
    <3>1. actor_name_to_id'[m][x] = actor_name_to_id[m][x]
      BY <2>2 DEF Register, TablesInv, TypeOK
    <3>2. /\ actor_name_to_id[m][x] \in Ids
          /\ actor_id_to_actor[m][actor_name_to_id[m][x]] # None
          /\ actor_name[actor_id_to_actor[m][actor_name_to_id[m][x]]] = x
      BY <3>1 DEF TablesInv, TypeOK, NamesConsistent
    <3>3. actor_id_to_actor'[m][actor_name_to_id[m][x]] = actor_id_to_actor[m][actor_name_to_id[m][x]]
      BY <3>2, <1>1 DEF Register, TablesInv, TypeOK
    <3> QED
      BY <3>1, <3>2, <3>3, <1>7 DEF Register, TablesInv, TypeOK
  <2> QED
    BY <2>1, <2>2
<1>9. \A m \in Nodes, j \in Ids :
        actor_id_to_actor'[m][j] # None /\ actor_name'[actor_id_to_actor'[m][j]] # None
          => actor_name_to_id'[m][actor_name'[actor_id_to_actor'[m][j]]] = j
  <2> SUFFICES ASSUME NEW m \in Nodes, NEW j \in Ids, actor_id_to_actor'[m][j] # None,
                      actor_name'[actor_id_to_actor'[m][j]] # None
               PROVE  actor_name_to_id'[m][actor_name'[actor_id_to_actor'[m][j]]] = j
    OBVIOUS
  <2>1. CASE m = n /\ j = i
    <3>1. actor_id_to_actor'[m][j] = o /\ actor_name'[o] = name
      BY <2>1, <1>1 DEF Register, TablesInv, TypeOK
    <3> QED
      BY <2>1, <3>1, <1>1 DEF Register, TablesInv, TypeOK
  <2>2. CASE ~(m = n /\ j = i)
    <3>1. actor_id_to_actor'[m][j] = actor_id_to_actor[m][j]
      BY <2>2 DEF Register, TablesInv, TypeOK
    <3> DEFINE p == actor_id_to_actor[m][j]
    <3>2. p \in Objects /\ p # o /\ actor_name'[p] = actor_name[p]
      BY <3>1, <1>7 DEF Register, TablesInv, TypeOK
    <3>3. actor_name[p] \in Names /\ actor_name_to_id[m][actor_name[p]] = j
      BY <3>1, <3>2 DEF TablesInv, TypeOK, NamesConsistent
    <3>4. ~(m = n /\ actor_name[p] = name)
      BY <3>3 DEF NameFree
    <3>5. actor_name_to_id'[m][actor_name[p]] = actor_name_to_id[m][actor_name[p]]
      BY <3>3, <3>4 DEF Register, TablesInv, TypeOK
    <3> QED
      BY <3>1, <3>2, <3>3, <3>5
  <2> QED
    BY <2>1, <2>2
<1> QED
  BY <1>2, <1>3, <1>4, <1>5, <1>6, <1>8, <1>9 DEF NamesConsistent

(* Taking an actor out of both tables keeps them well formed                *)
(* (actor_registry.h:118-124).                                             *)
LEMMA UnregisterStep ==
  ASSUME TablesInv, NEW n \in Nodes, NEW i \in Ids, actor_id_to_actor[n][i] # None,
         Unregister(n, i)
  PROVE  /\ actor_id_to_actor' \in [Nodes -> [Ids -> Objects \cup {None}]]
         /\ actor_name_to_id' \in [Nodes -> [Names -> Ids \cup {None}]]
         /\ node_id' \in [Objects -> Nodes \cup {None}]
         /\ actor_name' \in [Objects -> Names \cup {None}]
         /\ life' \in [Objects -> {"unmade", "live", "destroying", "destroyed"}]
         /\ drawn' \subseteq Ids
         /\ Made'
         /\ NamesConsistent'
<1> DEFINE o == actor_id_to_actor[n][i]
<1> USE RegistryNoneAssumption
<1>1. o \in Objects
  BY DEF TablesInv, TypeOK
<1>2. actor_id_to_actor' \in [Nodes -> [Ids -> Objects \cup {None}]]
  BY DEF Unregister, TablesInv, TypeOK
<1>3. actor_name_to_id' \in [Nodes -> [Names -> Ids \cup {None}]]
  BY DEF Unregister, TablesInv, TypeOK
<1>4. /\ node_id' \in [Objects -> Nodes \cup {None}]
      /\ actor_name' \in [Objects -> Names \cup {None}]
      /\ life' \in [Objects -> {"unmade", "live", "destroying", "destroyed"}]
  BY <1>1 DEF Unregister, config, TablesInv, TypeOK
<1>5. drawn' \subseteq Ids
  BY DEF Unregister, TablesInv, TypeOK
<1>6. \A p \in Objects : actor_name'[p] = actor_name[p]
  BY <1>1 DEF Unregister, config, TablesInv, TypeOK
<1>7. Made'
  BY <1>1 DEF Unregister, TablesInv, TypeOK, Made
<1>8. \A m \in Nodes, x \in Names : actor_name_to_id'[m][x] # None =>
         /\ actor_id_to_actor'[m][actor_name_to_id'[m][x]] # None
         /\ actor_name'[actor_id_to_actor'[m][actor_name_to_id'[m][x]]] = x
  <2> SUFFICES ASSUME NEW m \in Nodes, NEW x \in Names, actor_name_to_id'[m][x] # None
               PROVE  /\ actor_id_to_actor'[m][actor_name_to_id'[m][x]] # None
                      /\ actor_name'[actor_id_to_actor'[m][actor_name_to_id'[m][x]]] = x
    OBVIOUS
  <2>1. ~(m = n /\ x = actor_name[o]) /\ actor_name_to_id'[m][x] = actor_name_to_id[m][x]
    BY <1>1 DEF Unregister, TablesInv, TypeOK
  <2> DEFINE j == actor_name_to_id[m][x]
  <2>2. j \in Ids /\ actor_id_to_actor[m][j] \in Objects /\ actor_name[actor_id_to_actor[m][j]] = x
    BY <2>1 DEF TablesInv, TypeOK, NamesConsistent
  <2>3. ~(m = n /\ j = i)
    BY <2>1, <2>2
  <2>4. actor_id_to_actor'[m][j] = actor_id_to_actor[m][j]
    BY <2>2, <2>3 DEF Unregister, TablesInv, TypeOK
  <2> QED
    BY <2>1, <2>2, <2>4, <1>6
<1>9. \A m \in Nodes, j \in Ids :
        actor_id_to_actor'[m][j] # None /\ actor_name'[actor_id_to_actor'[m][j]] # None
          => actor_name_to_id'[m][actor_name'[actor_id_to_actor'[m][j]]] = j
  <2> SUFFICES ASSUME NEW m \in Nodes, NEW j \in Ids, actor_id_to_actor'[m][j] # None,
                      actor_name'[actor_id_to_actor'[m][j]] # None
               PROVE  actor_name_to_id'[m][actor_name'[actor_id_to_actor'[m][j]]] = j
    OBVIOUS
  <2> DEFINE p == actor_id_to_actor[m][j]
  <2>1. ~(m = n /\ j = i) /\ actor_id_to_actor'[m][j] = p /\ p \in Objects
    BY DEF Unregister, TablesInv, TypeOK
  <2>2. actor_name'[p] = actor_name[p] /\ actor_name[p] \in Names
    BY <2>1, <1>6 DEF TablesInv, TypeOK
  <2>3. actor_name_to_id[m][actor_name[p]] = j
    BY <2>1, <2>2 DEF TablesInv, NamesConsistent
  <2>4. ~(m = n /\ actor_name[p] = actor_name[o])
    BY <2>1, <2>2, <2>3, <1>1 DEF TablesInv, NamesConsistent
  <2>5. actor_name_to_id'[m][actor_name[p]] = actor_name_to_id[m][actor_name[p]]
    BY <2>2, <2>4 DEF Unregister, TablesInv, TypeOK
  <2> QED
    BY <2>1, <2>2, <2>3, <2>5
<1> QED
  BY <1>2, <1>3, <1>4, <1>5, <1>7, <1>8, <1>9 DEF NamesConsistent

(* The registered object under a name, as a lookup finds it                 *)
(* (actor_registry.h:131-134, actor_registry.cc:56-61).                    *)
LEMMA LookUpFinds ==
  ASSUME TablesInv, NEW n \in Nodes, NEW x \in Names, actor_name_to_id[n][x] # None
  PROVE  /\ actor_name_to_id[n][x] \in Ids
         /\ actor_id_to_actor[n][actor_name_to_id[n][x]] \in Objects
  BY RegistryNoneAssumption DEF TablesInv, TypeOK, NamesConsistent

(* Sending a request keeps the tables (network requests of user code).      *)
LEMMA SendStep ==
  ASSUME TablesInv, NEW t \in Tasks, NEW m \in Nodes, NEW name \in Names \cup {None},
         NEW ref \in Refs \cup {None}, NEW known \in BOOLEAN,
         NEW kind \in {"create", "lookup", "call"},
         kind = "lookup" => name # None, kind = "call" => ref # None,
         SendRequest(t, kind, m, name, ref, known)
  PROVE  TablesInv'
<1> USE RegistryNoneAssumption
<1>1. TypeOK'
  BY DEF SendRequest, TablesInv, TypeOK, tables, config, Requests
<1>2. NamesConsistent' /\ Made'
  BY DEF SendRequest, TablesInv, NamesConsistent, Made, tables, config
<1>3. RequestShape'
  BY DEF SendRequest, TablesInv, TypeOK, RequestShape
<1> QED
  BY <1>1, <1>2, <1>3 DEF TablesInv

(* Replying keeps the types of the tasks (actor_registry.cc:99-106).        *)
LEMMA ReplyStep ==
  ASSUME TablesInv, NEW t \in Tasks, NEW status \in {"ref", "value", "error"},
         NEW ref \in Refs \cup {None}, status = "ref" => ref # None,
         ReplyWith(t, Reply(status, ref))
  PROVE  /\ refs' \in [Nodes -> SUBSET Refs]
         /\ pc' \in [Tasks -> {"idle", "sent", "queued", "executed", "replied", "destroying"}]
         /\ req' \in [Tasks -> Requests]
         /\ reply' \in [Tasks -> [status : {"none", "ref", "value", "error"}, ref : Refs \cup {None}]]
         /\ main_pc' \in [Nodes -> {"running", "stopping", "destroying", "draining", "done"}]
         /\ RequestShape'
  BY DEF RequestShape, ReplyWith, Reply, TablesInv, TypeOK

(* A step that leaves the tables alone keeps what is said of them.          *)
LEMMA TablesKept ==
  ASSUME TablesInv, UNCHANGED tables
  PROVE  /\ actor_id_to_actor' \in [Nodes -> [Ids -> Objects \cup {None}]]
         /\ actor_name_to_id' \in [Nodes -> [Names -> Ids \cup {None}]]
         /\ node_id' \in [Objects -> Nodes \cup {None}]
         /\ actor_name' \in [Objects -> Names \cup {None}]
         /\ life' \in [Objects -> {"unmade", "live", "destroying", "destroyed"}]
         /\ drawn' \subseteq Ids
         /\ NamesConsistent'
         /\ Made'
<1>1. /\ actor_id_to_actor' = actor_id_to_actor /\ actor_name_to_id' = actor_name_to_id
      /\ node_id' = node_id /\ actor_name' = actor_name /\ life' = life /\ drawn' = drawn
  BY DEF tables, config
<1>2. NamesConsistent'
  BY <1>1 DEF TablesInv, NamesConsistent
<1>3. Made'
  BY <1>1 DEF TablesInv, Made
<1> QED
  BY <1>1, <1>2, <1>3 DEF TablesInv, TypeOK

(* Replying from tables that stay as they are keeps everything.             *)
LEMMA ReplyOnly ==
  ASSUME TablesInv, NEW t \in Tasks, NEW status \in {"ref", "value", "error"},
         NEW ref \in Refs \cup {None}, status = "ref" => ref # None,
         ReplyWith(t, Reply(status, ref)), UNCHANGED <<tables, hit>>
  PROVE  TablesInv'
<1>1. hit' \in [Tasks -> Objects \cup {None}]
  BY DEF TablesInv, TypeOK
<1>2. TypeOK'
  BY <1>1, TablesKept, ReplyStep DEF TypeOK
<1> QED
  BY <1>2, TablesKept, ReplyStep DEF TablesInv

(* The tables of a node are well formed and agree, step by step.            *)
LEMMA TablesStep == TablesInv /\ [Next]_vars => TablesInv'
<1> SUFFICES ASSUME TablesInv, [Next]_vars
             PROVE  TablesInv'
  OBVIOUS
<1> USE RegistryNoneAssumption, HomeAssumption
<1>1. CASE UNCHANGED vars
  BY <1>1 DEF TablesInv, TypeOK, NamesConsistent, Made, RequestShape, vars, tables, config, tasks
<1>2. ASSUME NEW t \in Tasks, NEW name \in Names \cup {None}, CreateLocal(t, name)
      PROVE  TablesInv'
  <2>1. PICK o \in Objects, i \in GenerateRandomActorId(Home[t]) :
          /\ Register(Home[t], i, o, name)
          /\ refs' = [refs EXCEPT ![Home[t]] = @ \cup {Ref(Home[t], i, o)}]
    BY <1>2 DEF CreateLocal
  <2>2. i \in Ids /\ Ref(Home[t], i, o) \in Refs
    BY DEF GenerateRandomActorId, Ref, Refs
  <2>3. refs' \in [Nodes -> SUBSET Refs]
    BY <2>1, <2>2 DEF TablesInv, TypeOK
  <2> QED
    BY <1>2, <2>1, <2>3, RegisterStep DEF CreateLocal, TablesInv, TypeOK, RequestShape, tasks
<1>3. ASSUME NEW t \in Tasks, NEW name \in Names, LookUpLocal(t, name)
      PROVE  TablesInv'
  <2> DEFINE i == actor_name_to_id[Home[t]][name]
  <2>1. Ref(Home[t], i, actor_id_to_actor[Home[t]][i]) \in Refs
    BY <1>3, LookUpFinds DEF LookUpLocal, Ref, Refs
  <2>2. refs' \in [Nodes -> SUBSET Refs]
    BY <1>3, <2>1 DEF LookUpLocal, TablesInv, TypeOK
  <2> QED
    BY <1>3, <2>2 DEF LookUpLocal, TablesInv, TypeOK, NamesConsistent, Made, RequestShape, tables, config, tasks
<1>4. ASSUME NEW t \in Tasks, NEW m \in Nodes, NEW name \in Names \cup {None},
             NEW known \in BOOLEAN, CreateRemote(t, m, name, known)
      PROVE  TablesInv'
  BY <1>4, SendStep DEF CreateRemote
<1>5. ASSUME NEW t \in Tasks, NEW m \in Nodes, NEW name \in Names, LookUpRemote(t, m, name)
      PROVE  TablesInv'
  BY <1>5, SendStep DEF LookUpRemote
<1>6. ASSUME NEW t \in Tasks, NEW ref \in refs[Home[t]], NEW known \in BOOLEAN,
             CallRemote(t, ref, known)
      PROVE  TablesInv'
  <2>1. ref \in Refs /\ ref.node \in Nodes
    BY DEF TablesInv, TypeOK, Refs
  <2>2. ref # None
    BY <2>1
  <2> QED
    BY <1>6, <2>1, <2>2, SendStep DEF CallRemote
<1>7. ASSUME NEW t \in Tasks, NEW ref \in refs[Home[t]], DestroyActor(t, ref)
      PROVE  TablesInv'
  <2>1. ref \in Refs /\ ref.id \in Ids
    BY DEF TablesInv, TypeOK, Refs
  <2>2. /\ req' \in [Tasks -> Requests]
        /\ hit' \in [Tasks -> Objects \cup {None}]
        /\ pc' \in [Tasks -> {"idle", "sent", "queued", "executed", "replied", "destroying"}]
    BY <1>7, <2>1 DEF DestroyActor, TablesInv, TypeOK, Requests
  <2> QED
    BY <1>7, <2>1, <2>2, UnregisterStep DEF DestroyActor, TablesInv, TypeOK, RequestShape
<1>8. ASSUME NEW t \in Tasks, DestroyReturn(t)
      PROVE  TablesInv'
  BY <1>8 DEF DestroyReturn, Finish, NoRequest, NoReply, Reply, Requests, TablesInv, TypeOK,
              NamesConsistent, Made, RequestShape, tables, config
<1>9. ASSUME NEW t \in Tasks, HandleActorCreationRequest(t)
      PROVE  TablesInv'
  <2> DEFINE m == req[t].to
             name == req[t].name
  <2>1. CASE req[t].known /\ NameFree(m, name)
    <3>1. PICK o \in Objects, i \in GenerateRandomActorId(m) :
            Register(m, i, o, name) /\ ReplyWith(t, Reply("ref", Ref(m, i, o)))
      BY <1>9, <2>1 DEF HandleActorCreationRequest
    <3>2. name \in Names \cup {None}
      BY DEF TablesInv, TypeOK, Requests
    <3>3. m \in Nodes
      BY <1>9 DEF HandleActorCreationRequest, Handling, TablesInv, TypeOK, Requests, RequestShape
    <3>4. Ref(m, i, o) \in Refs
      BY <3>3 DEF Ref, Refs, GenerateRandomActorId
    <3> QED
      BY <1>9, <2>1, <3>1, <3>2, <3>3, <3>4, RegisterStep, ReplyStep
         DEF HandleActorCreationRequest, TablesInv, TypeOK
  <2>2. CASE ~(req[t].known /\ NameFree(m, name))
    BY <1>9, <2>2, ReplyOnly DEF HandleActorCreationRequest
  <2> QED
    BY <2>1, <2>2
<1>10. ASSUME NEW t \in Tasks, HandleActorLookUpRequest(t)
       PROVE  TablesInv'
  <2> DEFINE m == req[t].to
             i == actor_name_to_id[m][req[t].name]
  <2>1. m \in Nodes /\ req[t].name \in Names
    BY <1>10 DEF HandleActorLookUpRequest, Handling, TablesInv, TypeOK, Requests, RequestShape
  <2>2. CASE i = None
    <3>1. ReplyWith(t, Reply("error", None))
      BY <1>10, <2>2 DEF HandleActorLookUpRequest
    <3> QED
      BY <1>10, <3>1, ReplyOnly DEF HandleActorLookUpRequest
  <2>3. CASE i # None
    <3>1. Ref(m, i, actor_id_to_actor[m][i]) \in Refs
      BY <2>1, <2>3, LookUpFinds DEF Ref, Refs
    <3>2. ReplyWith(t, Reply("ref", Ref(m, i, actor_id_to_actor[m][i])))
      BY <1>10, <2>3 DEF HandleActorLookUpRequest
    <3>3. Ref(m, i, actor_id_to_actor[m][i]) # None
      BY <3>1
    <3> HIDE DEF m, i
    <3> QED
      BY <1>10, <3>1, <3>2, <3>3, ReplyOnly DEF HandleActorLookUpRequest
  <2> QED
    BY <2>2, <2>3
<1>11. ASSUME NEW t \in Tasks, HandleActorMethodCallRequest(t)
       PROVE  TablesInv'
  <2> DEFINE o == actor_id_to_actor[req[t].to][req[t].ref.id]
  <2>1. o \in Objects \cup {None}
    <3>1. req[t].to \in Nodes /\ req[t].ref \in Refs
      BY <1>11 DEF HandleActorMethodCallRequest, Handling, TablesInv, TypeOK, Requests, RequestShape
    <3>2. req[t].ref.id \in Ids
      BY <3>1 DEF Refs
    <3> QED
      BY <3>1, <3>2 DEF TablesInv, TypeOK
  <2>2. CASE o # None /\ req[t].known
    <3>1. /\ hit' = [hit EXCEPT ![t] = o]
          /\ pc' = [pc EXCEPT ![t] = "queued"]
          /\ UNCHANGED <<refs, req, reply, main_pc, tables>>
      BY <1>11, <2>2 DEF HandleActorMethodCallRequest
    <3> HIDE DEF o
    <3>2. /\ hit' \in [Tasks -> Objects \cup {None}]
          /\ pc' \in [Tasks -> {"idle", "sent", "queued", "executed", "replied", "destroying"}]
          /\ refs' = refs /\ req' = req /\ reply' = reply /\ main_pc' = main_pc
      BY <2>1, <3>1 DEF TablesInv, TypeOK
    <3>3. RequestShape'
      BY <3>2 DEF TablesInv, RequestShape
    <3>4. TypeOK'
      BY <3>1, <3>2, TablesKept DEF TablesInv, TypeOK
    <3> QED
      BY <3>1, <3>3, <3>4, TablesKept DEF TablesInv
  <2>3. CASE ~(o # None /\ req[t].known)
    BY <1>11, <2>3, ReplyOnly DEF HandleActorMethodCallRequest
  <2> QED
    BY <2>2, <2>3
<1>12. ASSUME NEW t \in Tasks, HandleActorMethodCallReturn(t)
       PROVE  TablesInv'
  BY <1>12, ReplyOnly DEF HandleActorMethodCallReturn
<1>13. ASSUME NEW t \in Tasks, Execute(t)
       PROVE  TablesInv'
  BY <1>13 DEF Execute, TablesInv, TypeOK, NamesConsistent, Made, RequestShape, tables, config
<1>14. ASSUME NEW t \in Tasks, Return(t)
       PROVE  TablesInv'
  <2>1. refs' \in [Nodes -> SUBSET Refs]
    <3>1. CASE reply[t].ref \in Refs
      BY <1>14, <3>1 DEF Return, TablesInv, TypeOK
    <3>2. CASE reply[t].status # "ref"
      BY <1>14, <3>2 DEF Return, TablesInv, TypeOK
    <3> QED
      BY <3>1, <3>2 DEF TablesInv, TypeOK, RequestShape
  <2> QED
    BY <1>14, <2>1 DEF Return, Finish, NoRequest, NoReply, Reply, Requests, TablesInv, TypeOK,
                       NamesConsistent, Made, RequestShape, tables, config
<1>15. ASSUME NEW o \in Objects, Destroyed(o)
       PROVE  TablesInv'
  BY <1>15 DEF Destroyed, TablesInv, TypeOK, NamesConsistent, Made, RequestShape, config, tasks
<1>16. ASSUME NEW n \in Nodes, ShutdownBegin(n)
       PROVE  TablesInv'
  BY <1>16 DEF ShutdownBegin, MainGoto, TablesInv, TypeOK, NamesConsistent, Made, RequestShape,
               config, tasks
<1>17. ASSUME NEW n \in Nodes, AsyncDestroyAllActors(n)
       PROVE  TablesInv'
  BY <1>17 DEF AsyncDestroyAllActors, MainGoto, TablesInv, TypeOK, NamesConsistent, Made,
               RequestShape, config, tasks
<1>18. ASSUME NEW n \in Nodes, AllActorsDestroyed(n)
       PROVE  TablesInv'
  BY <1>18 DEF AllActorsDestroyed, MainGoto, TablesInv, TypeOK, NamesConsistent, Made,
               RequestShape, config, tasks
<1>19. ASSUME NEW n \in Nodes, ShutdownReturn(n)
       PROVE  TablesInv'
  BY <1>19 DEF ShutdownReturn, MainGoto, TablesInv, TypeOK, NamesConsistent, Made,
               RequestShape, config, tasks
<1> QED
  BY <1>1, <1>2, <1>3, <1>4, <1>5, <1>6, <1>7, <1>8, <1>9, <1>10, <1>11, <1>12, <1>13, <1>14,
     <1>15, <1>16, <1>17, <1>18, <1>19, RegistryCases

(* The empty tables agree (actor_registry.h:172-180).                       *)
LEMMA TablesInit == Init => TablesInv
  BY RegistryNoneAssumption
     DEF Init, TablesInv, TypeOK, NamesConsistent, Made, RequestShape, Requests, NoRequest, NoReply, Reply

(* On every node a name leads to the registered actor that bears it, and    *)
(* every reference is one of an actor that was made, whatever creations,    *)
(* lookups, calls and destructions arrive from the cluster.                *)
THEOREM TablesAgree == Spec => [](TypeOK /\ NamesConsistent)
<1>1. TablesInv => TypeOK /\ NamesConsistent
  BY DEF TablesInv
<1> QED
  BY <1>1, TablesInit, TablesStep, PTL DEF Spec

(* The tables, references and requests of every node stay well formed; a    *)
(* reference always has an object, so that the at() of GetActorRefByName    *)
(* never throws (actor_registry.h:131-134).                                *)
THEOREM RegistryType == Spec => []TypeOK
  BY TablesAgree, PTL

-----------------------------------------------------------------------------
(* With ids that are never drawn twice, RoutingInv is kept as well.  Three  *)
(* kinds of step matter: an object is registered, one is taken out, or only *)
(* the tasks and the user's references change.                             *)

(* A reference to what is registered under its id is sound.                 *)
LEMMA RegisteredRef ==
  ASSUME TypeOK, IdsUnique, NEW n \in Nodes, NEW i \in Ids, NEW o \in Objects,
         actor_id_to_actor[n][i] = o
  PROVE  RefOK(Ref(n, i, o))
<1>1. o # None
  BY RegistryNoneAssumption
<1>2. i \in drawn
  BY <1>1 DEF IdsUnique
<1>3. \A m \in Nodes : actor_id_to_actor[m][i] \in {None, o}
  BY <1>1 DEF IdsUnique
<1> QED
  BY <1>2, <1>3 DEF RefOK, Ref

(* A step that registers nothing keeps what a sound reference says.         *)
LEMMA RefKept ==
  ASSUME TablesInv, NEW r \in Refs, RefOK(r), drawn \subseteq drawn',
         \A n \in Nodes, i \in Ids : actor_id_to_actor'[n][i] \in {None, actor_id_to_actor[n][i]}
  PROVE  RefOK(r)'
  BY DEF RefOK, Refs

(* Registering an object under an id never drawn before keeps every sound   *)
(* reference, and makes the new one sound (actor_registry.cc:78-85).       *)
LEMMA RegisterRouting ==
  ASSUME UniqueIds, TablesInv, IdsUnique, NEW n \in Nodes, NEW i \in GenerateRandomActorId(n),
         NEW o \in Objects, NEW name \in Names \cup {None}, Register(n, i, o, name)
  PROVE  /\ IdsUnique'
         /\ RefOK(Ref(n, i, o))'
         /\ \A r \in Refs : RefOK(r) => RefOK(r)'
<1> USE RegistryNoneAssumption
<1>1. i \in Ids /\ i \notin drawn
  BY DEF GenerateRandomActorId
<1>2. \A m \in Nodes : actor_id_to_actor[m][i] = None
  BY <1>1 DEF IdsUnique
<1>3. \A m \in Nodes, j \in Ids :
        actor_id_to_actor'[m][j] = IF m = n /\ j = i THEN o ELSE actor_id_to_actor[m][j]
  BY <1>1 DEF Register, TablesInv, TypeOK
<1>4. drawn' = drawn \cup {i}
  BY DEF Register
<1>5. IdsUnique'
  BY <1>1, <1>2, <1>3, <1>4 DEF IdsUnique
<1>6. RefOK(Ref(n, i, o))'
  BY <1>1, <1>2, <1>3, <1>4 DEF RefOK, Ref
<1>7. ASSUME NEW r \in Refs, RefOK(r)
      PROVE  RefOK(r)'
  <2>1. r.id \in Ids /\ r.id \in drawn /\ r.id # i
    BY <1>1, <1>7 DEF RefOK, Refs
  <2> QED
    BY <1>3, <1>4, <1>7, <2>1 DEF RefOK
<1> QED
  BY <1>5, <1>6, <1>7

(* A step that leaves the tables of ids alone keeps the ids unique and the  *)
(* references sound.                                                       *)
LEMMA SameTables ==
  ASSUME TablesInv, IdsUnique, UNCHANGED <<actor_id_to_actor, drawn>>
  PROVE  IdsUnique' /\ \A r \in Refs : RefOK(r) => RefOK(r)'
  BY DEF IdsUnique, RefOK

(* A task that sends a request holds a sound reference and has reached      *)
(* nothing yet.                                                            *)
LEMMA SendRouting ==
  ASSUME TablesInv, RoutingInv, NEW t \in Tasks, NEW m, NEW name, NEW ref \in Refs \cup {None},
         NEW known, NEW kind, ref # None => RefOK(ref), SendRequest(t, kind, m, name, ref, known)
  PROVE  RoutingInv'
<1> USE RegistryNoneAssumption
<1>1. IdsUnique' /\ \A r \in Refs : RefOK(r) => RefOK(r)'
  BY SameTables DEF SendRequest, tables, RoutingInv
<1>2. /\ pc[t] = "idle" /\ hit' = hit /\ refs' = refs /\ reply' = reply
      /\ pc' = [pc EXCEPT ![t] = "sent"]
      /\ req'[t].ref = ref
      /\ \A s \in Tasks : s # t => req'[s] = req[s]
  BY DEF SendRequest, Start, TablesInv, TypeOK
<1>3. HitShape' /\ ReachesItsActor'
  BY <1>2 DEF RoutingInv, HitShape, ReachesItsActor, TablesInv, TypeOK
<1>4. RefsSound'
  <2>1. \A n \in Nodes : \A r \in refs'[n] : RefOK(r)'
    BY <1>1, <1>2 DEF RoutingInv, RefsSound, TablesInv, TypeOK
  <2>2. \A s \in Tasks : reply'[s].ref # None => RefOK(reply[s].ref)'
    BY <1>1, <1>2 DEF RoutingInv, RefsSound, TablesInv, TypeOK
  <2>3. \A s \in Tasks : req'[s].ref # None => req'[s].ref \in Refs /\ RefOK(req'[s].ref)
    BY <1>2 DEF RoutingInv, RefsSound, TablesInv, TypeOK, Requests
  <2> QED
    BY <1>1, <1>2, <2>1, <2>2, <2>3 DEF RefsSound
<1> QED
  BY <1>1, <1>3, <1>4 DEF RoutingInv

(* If sound references stay sound and every new one is sound, then all are. *)
LEMMA RefsKept ==
  ASSUME TablesInv, RefsSound,
         \A r \in Refs : RefOK(r) => RefOK(r)',
         \A n \in Nodes : \A r \in refs'[n] : r \in refs[n] \/ RefOK(r)',
         \A t \in Tasks : req'[t].ref \in {None, req[t].ref},
         \A t \in Tasks : reply'[t].ref \in {None, reply[t].ref} \/ RefOK(reply[t].ref)'
  PROVE  RefsSound'
<1>1. \A n \in Nodes : \A r \in refs'[n] : RefOK(r)'
  BY DEF RefsSound, TablesInv, TypeOK
<1>2. \A t \in Tasks : req'[t].ref # None => RefOK(req[t].ref)'
  BY DEF RefsSound, TablesInv, TypeOK, Requests
<1>3. \A t \in Tasks : reply'[t].ref # None => RefOK(reply[t].ref)'
  BY DEF RefsSound, TablesInv, TypeOK
<1> QED
  BY <1>1, <1>2, <1>3 DEF RefsSound

(* The end of an operation forgets what it reached.                         *)
LEMMA FinishRouting ==
  ASSUME TablesInv, RoutingInv, NEW t \in Tasks, Finish(t),
         UNCHANGED <<actor_id_to_actor, drawn>>,
         \A n \in Nodes : \A r \in refs'[n] : r \in refs[n] \/ RefOK(r)'
  PROVE  RoutingInv'
<1>1. IdsUnique' /\ \A r \in Refs : RefOK(r) => RefOK(r)'
  BY SameTables DEF RoutingInv
<1>2. \A s \in Tasks : s # t =>
         pc'[s] = pc[s] /\ req'[s] = req[s] /\ hit'[s] = hit[s] /\ reply'[s] = reply[s]
  BY DEF Finish, TablesInv, TypeOK
<1>3. req'[t].ref = None /\ hit'[t] = None /\ reply'[t].ref = None
  BY DEF Finish, NoRequest, NoReply, Reply, TablesInv, TypeOK
<1>4. HitShape' /\ ReachesItsActor'
  BY <1>2, <1>3 DEF RoutingInv, HitShape, ReachesItsActor
<1>5. RefsSound'
  BY <1>1, <1>2, <1>3, RefsKept DEF RoutingInv
<1> QED
  BY <1>1, <1>4, <1>5 DEF RoutingInv

(* A reply changes neither what an operation reached nor what it asked for. *)
LEMMA ReplyRouting ==
  ASSUME TablesInv, RoutingInv, NEW t \in Tasks, NEW status, NEW ref \in Refs \cup {None},
         ReplyWith(t, Reply(status, ref)), UNCHANGED hit, IdsUnique',
         \A r \in Refs : RefOK(r) => RefOK(r)',
         ref # None => RefOK(ref)'
  PROVE  RoutingInv'
<1>1. /\ refs' = refs /\ req' = req /\ hit' = hit
      /\ pc' = [pc EXCEPT ![t] = "replied"]
      /\ reply'[t].ref = ref
      /\ \A s \in Tasks : s # t => reply'[s] = reply[s]
  BY DEF ReplyWith, Reply, TablesInv, TypeOK
<1>2. HitShape' /\ ReachesItsActor'
  BY <1>1 DEF RoutingInv, HitShape, ReachesItsActor, TablesInv, TypeOK
<1>3. ref # None => RefOK(reply[t].ref)'
  BY <1>1 DEF RefOK
<1>4. RefsSound'
  BY <1>1, <1>3, RefsKept DEF RoutingInv
<1> QED
  BY <1>2, <1>4 DEF RoutingInv

(* A step of the shutdown or of an actor touches no table of ids and no     *)
(* task's request.                                                         *)
LEMMA QuietRouting ==
  ASSUME TablesInv, RoutingInv, UNCHANGED <<actor_id_to_actor, drawn, refs, tasks>>
  PROVE  RoutingInv'
  BY DEF RoutingInv, HitShape, RefsSound, RefOK, IdsUnique, ReachesItsActor, tasks

(* Method calls and destructions keep reaching the actors their references  *)
(* were made for.                                                          *)
LEMMA RoutingStep ==
  ASSUME UniqueIds, TablesInv, RoutingInv, [Next]_vars
  PROVE  RoutingInv'
<1> USE RegistryNoneAssumption, HomeAssumption
<1>1. CASE UNCHANGED vars
  BY <1>1, QuietRouting DEF vars, tables
<1>2. ASSUME NEW t \in Tasks, NEW name \in Names \cup {None}, CreateLocal(t, name)
      PROVE  RoutingInv'
  <2>1. PICK o \in Objects, i \in GenerateRandomActorId(Home[t]) :
          /\ Register(Home[t], i, o, name)
          /\ refs' = [refs EXCEPT ![Home[t]] = @ \cup {Ref(Home[t], i, o)}]
    BY <1>2 DEF CreateLocal
  <2>2. /\ IdsUnique'
        /\ RefOK(Ref(Home[t], i, o))'
        /\ \A r \in Refs : RefOK(r) => RefOK(r)'
    BY <2>1, RegisterRouting DEF RoutingInv
  <2>3. \A n \in Nodes : \A r \in refs'[n] : r \in refs[n] \/ RefOK(r)'
    BY <2>1, <2>2 DEF TablesInv, TypeOK
  <2>4. UNCHANGED tasks
    BY <1>2 DEF CreateLocal
  <2>5. RefsSound'
    BY <2>2, <2>3, <2>4, RefsKept DEF RoutingInv, tasks
  <2> QED
    BY <2>2, <2>4, <2>5 DEF RoutingInv, HitShape, ReachesItsActor, tasks
<1>3. ASSUME NEW t \in Tasks, NEW name \in Names, LookUpLocal(t, name)
      PROVE  RoutingInv'
  <2> DEFINE i == actor_name_to_id[Home[t]][name]
             ref == Ref(Home[t], i, actor_id_to_actor[Home[t]][i])
  <2>1. /\ i \in Ids /\ actor_id_to_actor[Home[t]][i] \in Objects
        /\ refs' = [refs EXCEPT ![Home[t]] = @ \cup {ref}]
        /\ UNCHANGED <<tables, tasks>>
    BY <1>3, LookUpFinds DEF LookUpLocal
  <2>2. RefOK(ref)
    BY <2>1, RegisteredRef DEF RoutingInv, TablesInv
  <2>3. ref \in Refs
    BY <2>1 DEF Ref, Refs
  <2>4. IdsUnique' /\ \A r \in Refs : RefOK(r) => RefOK(r)'
    BY <2>1, SameTables DEF RoutingInv, tables
  <2>5. \A n \in Nodes : \A r \in refs'[n] : r \in refs[n] \/ RefOK(r)'
    <3> HIDE DEF ref
    <3> QED
      BY <2>1, <2>2, <2>3, <2>4 DEF TablesInv, TypeOK
  <2>6. RefsSound'
    BY <2>1, <2>4, <2>5, RefsKept DEF RoutingInv, tasks
  <2> QED
    BY <2>1, <2>4, <2>6 DEF RoutingInv, HitShape, ReachesItsActor, tasks
<1>4. ASSUME NEW t \in Tasks, NEW m \in Nodes, NEW name \in Names \cup {None},
             NEW known \in BOOLEAN, CreateRemote(t, m, name, known)
      PROVE  RoutingInv'
  BY <1>4, SendRouting DEF CreateRemote
<1>5. ASSUME NEW t \in Tasks, NEW m \in Nodes, NEW name \in Names, LookUpRemote(t, m, name)
      PROVE  RoutingInv'
  BY <1>5, SendRouting DEF LookUpRemote
<1>6. ASSUME NEW t \in Tasks, NEW ref \in refs[Home[t]], NEW known \in BOOLEAN,
             CallRemote(t, ref, known)
      PROVE  RoutingInv'
  <2>1. ref \in Refs /\ RefOK(ref)
    BY DEF RoutingInv, RefsSound, TablesInv, TypeOK
  <2> QED
    BY <1>6, <2>1, SendRouting DEF CallRemote
<1>7. ASSUME NEW t \in Tasks, NEW ref \in refs[Home[t]], DestroyActor(t, ref)
      PROVE  RoutingInv'
  <2> DEFINE n == Home[t]
  <2>1. ref \in Refs /\ ref.id \in Ids /\ RefOK(ref) /\ ref # None
    BY DEF RoutingInv, RefsSound, TablesInv, TypeOK, Refs
  <2>2. actor_id_to_actor[n][ref.id] = ref.of
    BY <1>7, <2>1 DEF DestroyActor, RefOK
  <2>3. /\ \A m \in Nodes, i \in Ids :
             actor_id_to_actor'[m][i] \in {None, actor_id_to_actor[m][i]}
        /\ drawn' = drawn
    BY <1>7, <2>1 DEF DestroyActor, Unregister, TablesInv, TypeOK
  <2>4. IdsUnique'
    BY <2>3 DEF RoutingInv, IdsUnique
  <2>5. \A r \in Refs : RefOK(r) => RefOK(r)'
    BY <2>3, RefKept
  <2>6. /\ refs' = refs /\ reply' = reply
        /\ pc'[t] = "destroying" /\ hit'[t] = ref.of /\ req'[t].ref = ref
        /\ \A s \in Tasks : s # t => pc'[s] = pc[s] /\ hit'[s] = hit[s] /\ req'[s] = req[s]
    BY <1>7, <2>2 DEF DestroyActor, TablesInv, TypeOK
  <2>7. HitShape' /\ ReachesItsActor'
    BY <2>1, <2>6 DEF RoutingInv, HitShape, ReachesItsActor
  <2>8. RefsSound'
    <3>1. RefOK(ref)' /\ req'[t].ref = ref
      BY <2>1, <2>5, <2>6
    <3>2. \A s \in Tasks : req'[s].ref # None => RefOK(req[s].ref)'
      <4> SUFFICES ASSUME NEW s \in Tasks, req'[s].ref # None
                   PROVE  RefOK(req[s].ref)'
        OBVIOUS
      <4>1. CASE s = t
        BY <3>1, <4>1
      <4>2. CASE s # t
        <5>1. req'[s] = req[s] /\ req[s].ref \in Refs
          BY <2>6, <4>2 DEF TablesInv, TypeOK, Requests
        <5>2. RefOK(req[s].ref)
          BY <5>1 DEF RoutingInv, RefsSound
        <5>3. \A r \in Refs : r = req[s].ref => RefOK(r)'
          BY <2>5, <5>2
        <5> QED
          BY <5>1, <5>3
      <4> QED
        BY <4>1, <4>2
    <3>3. \A s \in Tasks : reply'[s].ref # None => RefOK(reply[s].ref)'
      BY <2>5, <2>6 DEF RoutingInv, RefsSound, TablesInv, TypeOK
    <3>4. \A m \in Nodes : \A r \in refs'[m] : RefOK(r)'
      BY <2>5, <2>6 DEF RoutingInv, RefsSound, TablesInv, TypeOK
    <3> QED
      BY <3>2, <3>3, <3>4 DEF RefsSound
  <2> QED
    BY <2>4, <2>7, <2>8 DEF RoutingInv
<1>8. ASSUME NEW t \in Tasks, DestroyReturn(t)
      PROVE  RoutingInv'
  BY <1>8, FinishRouting DEF DestroyReturn, tables
<1>9. ASSUME NEW t \in Tasks, HandleActorCreationRequest(t)
      PROVE  RoutingInv'
  <2> DEFINE m == req[t].to
             name == req[t].name
  <2>1. CASE req[t].known /\ NameFree(m, name)
    <3>1. PICK o \in Objects, i \in GenerateRandomActorId(m) :
            Register(m, i, o, name) /\ ReplyWith(t, Reply("ref", Ref(m, i, o)))
      BY <1>9, <2>1 DEF HandleActorCreationRequest
    <3>2. name \in Names \cup {None}
      BY DEF TablesInv, TypeOK, Requests
    <3>3. m \in Nodes
      BY <1>9 DEF HandleActorCreationRequest, Handling, TablesInv, TypeOK, Requests, RequestShape
    <3>4. Ref(m, i, o) \in Refs
      BY <3>3 DEF Ref, Refs, GenerateRandomActorId
    <3>5. hit' = hit /\ m' = m
      BY <1>9, <3>1 DEF HandleActorCreationRequest, ReplyWith
    <3>6. /\ IdsUnique'
          /\ RefOK(Ref(m, i, o))'
          /\ \A r \in Refs : RefOK(r) => RefOK(r)'
      <4> HIDE DEF m, name
      <4>1. \A n \in Nodes : n = m => RefOK(Ref(n, i, o))'
        BY <3>1, <3>2, <3>3, RegisterRouting DEF RoutingInv
      <4> QED
        BY <3>1, <3>2, <3>3, <3>5, <4>1, RegisterRouting DEF RoutingInv
    <3> QED
      BY <3>1, <3>4, <3>5, <3>6, ReplyRouting
  <2>2. CASE ~(req[t].known /\ NameFree(m, name))
    <3>1. ReplyWith(t, Reply("error", None)) /\ UNCHANGED <<tables, hit>>
      BY <1>9, <2>2 DEF HandleActorCreationRequest
    <3>2. IdsUnique' /\ \A r \in Refs : RefOK(r) => RefOK(r)'
      BY <3>1, SameTables DEF RoutingInv, tables
    <3> QED
      BY <3>1, <3>2, ReplyRouting
  <2> QED
    BY <2>1, <2>2
<1>10. ASSUME NEW t \in Tasks, HandleActorLookUpRequest(t)
       PROVE  RoutingInv'
  <2> DEFINE m == req[t].to
             i == actor_name_to_id[m][req[t].name]
             ref == Ref(m, i, actor_id_to_actor[m][i])
  <2>1. m \in Nodes /\ req[t].name \in Names
    BY <1>10 DEF HandleActorLookUpRequest, Handling, TablesInv, TypeOK, Requests, RequestShape
  <2>2. UNCHANGED <<tables, hit>>
    BY <1>10 DEF HandleActorLookUpRequest
  <2>3. IdsUnique' /\ \A r \in Refs : RefOK(r) => RefOK(r)'
    BY <2>2, SameTables DEF RoutingInv, tables
  <2>4. CASE i = None
    BY <1>10, <2>2, <2>3, <2>4, ReplyRouting DEF HandleActorLookUpRequest
  <2>5. CASE i # None
    <3>1. i \in Ids /\ actor_id_to_actor[m][i] \in Objects
      BY <2>1, <2>5, LookUpFinds
    <3>2. ref \in Refs
      BY <2>1, <3>1 DEF Ref, Refs
    <3>3. RefOK(ref)
      BY <2>1, <3>1, RegisteredRef DEF RoutingInv, TablesInv
    <3>4. ReplyWith(t, Reply("ref", ref))
      BY <1>10, <2>5 DEF HandleActorLookUpRequest
    <3>5. PICK r \in Refs : r = ref
      BY <3>2
    <3>6. RefOK(r)' /\ ReplyWith(t, Reply("ref", r))
      <4>1. RefOK(r)
        BY <3>3, <3>5
      <4> HIDE DEF ref
      <4>2. RefOK(r)'
        BY <2>3, <4>1
      <4> QED
        BY <3>4, <3>5, <4>2
    <3> QED
      BY <2>2, <2>3, <3>6, ReplyRouting
  <2> QED
    BY <2>4, <2>5
<1>11. ASSUME NEW t \in Tasks, HandleActorMethodCallRequest(t)
       PROVE  RoutingInv'
  <2> DEFINE o == actor_id_to_actor[req[t].to][req[t].ref.id]
  <2>1. UNCHANGED tables
    BY <1>11 DEF HandleActorMethodCallRequest
  <2>2. IdsUnique' /\ \A r \in Refs : RefOK(r) => RefOK(r)'
    BY <2>1, SameTables DEF RoutingInv, tables
  <2>3. CASE o # None /\ req[t].known
    <3>1. /\ hit' = [hit EXCEPT ![t] = o]
          /\ pc' = [pc EXCEPT ![t] = "queued"]
          /\ UNCHANGED <<refs, req, reply, main_pc>>
      BY <1>11, <2>3 DEF HandleActorMethodCallRequest
    <3>2. req[t].to \in Nodes /\ req[t].ref \in Refs /\ req[t].ref # None
      BY <1>11 DEF HandleActorMethodCallRequest, Handling, TablesInv, TypeOK, Requests, RequestShape
    <3>3. o = req[t].ref.of
      BY <2>3, <3>2 DEF RoutingInv, RefsSound, RefOK
    <3>4. HitShape' /\ ReachesItsActor'
      BY <3>1, <3>2, <3>3 DEF RoutingInv, HitShape, ReachesItsActor, TablesInv, TypeOK
    <3>5. RefsSound'
      BY <2>2, <3>1, RefsKept DEF RoutingInv
    <3> QED
      BY <2>2, <3>4, <3>5 DEF RoutingInv
  <2>4. CASE ~(o # None /\ req[t].known)
    BY <1>11, <2>2, <2>4, ReplyRouting DEF HandleActorMethodCallRequest
  <2> QED
    BY <2>3, <2>4
<1>12. ASSUME NEW t \in Tasks, HandleActorMethodCallReturn(t)
       PROVE  RoutingInv'
  <2>1. UNCHANGED <<tables, hit>>
    BY <1>12 DEF HandleActorMethodCallReturn
  <2>2. IdsUnique' /\ \A r \in Refs : RefOK(r) => RefOK(r)'
    BY <2>1, SameTables DEF RoutingInv, tables
  <2> QED
    BY <1>12, <2>1, <2>2, ReplyRouting DEF HandleActorMethodCallReturn
<1>13. ASSUME NEW t \in Tasks, Execute(t)
       PROVE  RoutingInv'
  <2>1. IdsUnique' /\ \A r \in Refs : RefOK(r) => RefOK(r)'
    BY <1>13, SameTables DEF Execute, RoutingInv, tables
  <2>2. RefsSound'
    BY <1>13, <2>1, RefsKept DEF Execute, RoutingInv
  <2>3. HitShape' /\ ReachesItsActor'
    BY <1>13 DEF Execute, RoutingInv, HitShape, ReachesItsActor, TablesInv, TypeOK
  <2> QED
    BY <2>1, <2>2, <2>3 DEF RoutingInv
<1>14. ASSUME NEW t \in Tasks, Return(t)
       PROVE  RoutingInv'
  <2>1. UNCHANGED tables /\ Finish(t)
    BY <1>14 DEF Return
  <2>2. \A r \in Refs : RefOK(r) => RefOK(r)'
    BY <2>1, SameTables DEF RoutingInv, tables
  <2>3. reply[t].status = "ref" => reply[t].ref \in Refs /\ RefOK(reply[t].ref)
    BY DEF RoutingInv, RefsSound, TablesInv, TypeOK, RequestShape
  <2>4. \A n \in Nodes : \A r \in refs'[n] : r \in refs[n] \/ (reply[t].status = "ref" /\ r = reply[t].ref)
    BY <1>14 DEF Return, TablesInv, TypeOK
  <2>5. \A n \in Nodes : \A r \in refs'[n] : r \in refs[n] \/ RefOK(r)'
    BY <2>2, <2>3, <2>4
  <2> QED
    BY <2>1, <2>5, FinishRouting DEF tables
<1>15. ASSUME NEW o \in Objects, Destroyed(o)
       PROVE  RoutingInv'
  BY <1>15, QuietRouting DEF Destroyed
<1>16. ASSUME NEW n \in Nodes, ShutdownBegin(n)
       PROVE  RoutingInv'
  BY <1>16, QuietRouting DEF ShutdownBegin, MainGoto
<1>17. ASSUME NEW n \in Nodes, AsyncDestroyAllActors(n)
       PROVE  RoutingInv'
  BY <1>17, QuietRouting DEF AsyncDestroyAllActors, MainGoto
<1>18. ASSUME NEW n \in Nodes, AllActorsDestroyed(n)
       PROVE  RoutingInv'
  BY <1>18, QuietRouting DEF AllActorsDestroyed, MainGoto
<1>19. ASSUME NEW n \in Nodes, ShutdownReturn(n)
       PROVE  RoutingInv'
  BY <1>19, QuietRouting DEF ShutdownReturn, MainGoto
<1> QED
  BY <1>1, <1>2, <1>3, <1>4, <1>5, <1>6, <1>7, <1>8, <1>9, <1>10, <1>11, <1>12, <1>13, <1>14,
     <1>15, <1>16, <1>17, <1>18, <1>19, RegistryCases

(* If no id is ever drawn twice in the cluster, a method call and a         *)
(* DestroyActor reach the actor their reference was made for or none, for   *)
(* any number of nodes, actors, names and concurrent operations            *)
(* (actor_registry.h:116, actor_registry.cc:158).                          *)
THEOREM RoutingSound == ASSUME UniqueIds PROVE Spec => []ReachesItsActor
<1>1. Init => TablesInv /\ RoutingInv
  <2>1. Init => RoutingInv
    BY DEF Init, RoutingInv, HitShape, RefsSound, IdsUnique, ReachesItsActor, NoRequest, NoReply, Reply
  <2> QED
    BY <2>1, TablesInit
<1>2. TablesInv /\ RoutingInv /\ [Next]_vars => (TablesInv /\ RoutingInv)'
  BY TablesStep, RoutingStep
<1>3. RoutingInv => ReachesItsActor
  BY DEF RoutingInv
<1> QED
  BY <1>1, <1>2, <1>3, PTL DEF Spec

-----------------------------------------------------------------------------
(* The shutdown.  What has to be ruled out is an operation under way when   *)
(* the actors are being destroyed: it could register another one.          *)

(* While a task has an operation under way, or may begin one, its node is   *)
(* running, and so no node is beyond the aligned stop                      *)
(* (actor_registry.cc:198-203).                                            *)
LEMMA BusyMeansAligned ==
  ASSUME TablesInv, ShutdownInv, NEW t \in Tasks, pc[t] # "idle" \/ Start(t)
  PROVE  /\ main_pc[Home[t]] = "running"
         /\ \A n \in Nodes : main_pc[n] \in {"running", "stopping"}
<1>1. main_pc[Home[t]] = "running"
  BY DEF ShutdownInv, StoppedIsIdle, Start
<1> QED
  BY <1>1, HomeAssumption DEF ShutdownInv, StopAligned, TablesInv, TypeOK

(* A task that goes on with its operation and touches no table.             *)
LEMMA TaskShutdown ==
  ASSUME TablesInv, ShutdownInv, NEW t \in Tasks, NEW next,
         pc[t] # "idle" \/ Start(t),
         pc' = [pc EXCEPT ![t] = next],
         next = "idle" => req'[t].to = None,
         \A s \in Tasks \ {t} : req'[s] = req[s] /\ hit'[s] = hit[s],
         pc[t] = "destroying" => life[hit[t]] = "destroyed",
         UNCHANGED <<tables, main_pc>>
  PROVE  ShutdownInv'
<1>1. /\ actor_id_to_actor' = actor_id_to_actor /\ node_id' = node_id
      /\ life' = life /\ main_pc' = main_pc
  BY DEF tables, config
<1>2. /\ pc'[t] = next
      /\ \A s \in Tasks \ {t} : pc'[s] = pc[s]
  BY DEF TablesInv, TypeOK
<1>3. StoppedIsIdle'
  BY <1>1, <1>2, BusyMeansAligned DEF ShutdownInv, StoppedIsIdle
<1>4. StopAligned' /\ RegisteredAtHome' /\ DrainedIsDestroyed'
  BY <1>1 DEF ShutdownInv, StopAligned, RegisteredAtHome, DrainedIsDestroyed
<1>5. Accounted'
  BY <1>1, <1>2 DEF ShutdownInv, Accounted
<1> QED
  BY <1>3, <1>4, <1>5 DEF ShutdownInv

(* A new actor is registered on the node it belongs to                      *)
(* (actor_registry.h:45-61).                                               *)
LEMMA RegisterShutdown ==
  ASSUME TablesInv, ShutdownInv, NEW n \in Nodes, NEW i \in GenerateRandomActorId(n),
         NEW o \in Objects, NEW name, Register(n, i, o, name),
         NEW t \in Tasks, pc[t] # "idle" \/ Start(t), UNCHANGED <<hit, main_pc>>,
         \A s \in Tasks : pc[s] = "destroying" => pc'[s] = "destroying"
  PROVE  StopAligned' /\ RegisteredAtHome' /\ Accounted' /\ DrainedIsDestroyed'
<1> USE RegistryNoneAssumption
<1>1. i \in Ids /\ actor_id_to_actor[n][i] = None
  BY DEF GenerateRandomActorId
<1>2. \A m \in Nodes, j \in Ids :
        actor_id_to_actor'[m][j] = IF m = n /\ j = i THEN o ELSE actor_id_to_actor[m][j]
  BY <1>1 DEF Register, TablesInv, TypeOK
<1>3. \A p \in Objects :
        /\ node_id'[p] = IF p = o THEN n ELSE node_id[p]
        /\ life'[p] = IF p = o THEN "live" ELSE life[p]
  BY DEF Register, TablesInv, TypeOK
<1>4. \A m \in Nodes, j \in Ids : actor_id_to_actor[m][j] # o
  BY DEF Register, TablesInv, Made
<1>5. StopAligned' /\ DrainedIsDestroyed'
  BY BusyMeansAligned DEF StopAligned, DrainedIsDestroyed
<1>6. RegisteredAtHome'
  BY <1>2, <1>3, <1>4 DEF ShutdownInv, RegisteredAtHome, TablesInv, TypeOK
<1>7. Accounted'
  <2> SUFFICES ASSUME NEW p \in Objects, node_id'[p] # None
               PROVE  \/ \E j \in Ids : actor_id_to_actor'[node_id'[p]][j] = p
                      \/ life'[p] = "destroyed"
                      \/ \E s \in Tasks : pc'[s] = "destroying" /\ hit'[s] = p
    BY DEF Accounted
  <2>1. CASE p = o
    BY <2>1, <1>1, <1>2, <1>3
  <2>2. CASE p # o
    <3>1. node_id'[p] = node_id[p] /\ node_id[p] \in Nodes /\ life'[p] = life[p]
      BY <2>2, <1>3 DEF TablesInv, TypeOK
    <3>2. \A j \in Ids : actor_id_to_actor[node_id[p]][j] = p
            => actor_id_to_actor'[node_id[p]][j] = p
      BY <3>1, <1>1, <1>2
    <3> QED
      BY <3>1, <3>2 DEF ShutdownInv, Accounted
  <2> QED
    BY <2>1, <2>2
<1> QED
  BY <1>5, <1>6, <1>7

(* A destroyed actor leaves the tables in the hands of its task             *)
(* (actor_registry.h:114-126).                                             *)
LEMMA UnregisterShutdown ==
  ASSUME TablesInv, ShutdownInv, NEW t \in Tasks, NEW ref \in Refs, DestroyActor(t, ref)
  PROVE  ShutdownInv'
<1> USE RegistryNoneAssumption, HomeAssumption
<1> DEFINE n == Home[t]
           o == actor_id_to_actor[n][ref.id]
<1>1. n \in Nodes /\ ref.id \in Ids /\ o \in Objects /\ Start(t)
  <2>1. n \in Nodes /\ ref.id \in Ids
    BY DEF Refs
  <2>2. o # None /\ Start(t)
    BY DEF DestroyActor
  <2> QED
    BY <2>1, <2>2 DEF TablesInv, TypeOK
<1>2. \A m \in Nodes, j \in Ids :
        actor_id_to_actor'[m][j] = IF m = n /\ j = ref.id THEN None ELSE actor_id_to_actor[m][j]
  BY <1>1 DEF DestroyActor, Unregister, TablesInv, TypeOK
<1>3. /\ node_id' = node_id /\ main_pc' = main_pc
      /\ \A p \in Objects : p # o => life'[p] = life[p]
  BY <1>1 DEF DestroyActor, Unregister, config, TablesInv, TypeOK
<1>4. /\ pc'[t] = "destroying" /\ hit'[t] = o
      /\ \A s \in Tasks \ {t} : pc'[s] = pc[s] /\ hit'[s] = hit[s] /\ req'[s] = req[s]
      /\ pc[t] = "idle"
  BY DEF DestroyActor, Start, TablesInv, TypeOK
<1>5. StopAligned' /\ DrainedIsDestroyed'
  BY <1>1, <1>3, BusyMeansAligned DEF StopAligned, DrainedIsDestroyed
<1>6. StoppedIsIdle'
  BY <1>1, <1>3, <1>4, BusyMeansAligned DEF ShutdownInv, StoppedIsIdle
<1>7. RegisteredAtHome'
  BY <1>2, <1>3 DEF ShutdownInv, RegisteredAtHome
<1>8. Accounted'
  <2> SUFFICES ASSUME NEW p \in Objects, node_id[p] # None
               PROVE  \/ \E j \in Ids : actor_id_to_actor'[node_id[p]][j] = p
                      \/ life'[p] = "destroyed"
                      \/ \E s \in Tasks : pc'[s] = "destroying" /\ hit'[s] = p
    BY <1>3 DEF Accounted
  <2>1. CASE p = o
    BY <2>1, <1>4
  <2>2. CASE p # o
    <3>1. node_id[p] \in Nodes /\ life'[p] = life[p]
      BY <2>2, <1>3 DEF TablesInv, TypeOK
    <3>2. \A j \in Ids : actor_id_to_actor[node_id[p]][j] = p
            => actor_id_to_actor'[node_id[p]][j] = p
      BY <2>2, <3>1, <1>2
    <3> QED
      BY <3>1, <3>2, <1>4 DEF ShutdownInv, Accounted
  <2> QED
    BY <2>1, <2>2
<1> QED
  BY <1>5, <1>6, <1>7, <1>8 DEF ShutdownInv

(* Every step of the cluster keeps account of the actors and of who is      *)
(* running.                                                                *)
LEMMA ShutdownStep ==
  ASSUME TablesInv, ShutdownInv, [Next]_vars
  PROVE  ShutdownInv'
<1> USE RegistryNoneAssumption, HomeAssumption
<1>1. CASE UNCHANGED vars
  BY <1>1 DEF vars, tables, config, tasks, ShutdownInv, StoppedIsIdle, StopAligned,
              RegisteredAtHome, Accounted, DrainedIsDestroyed
<1>2. ASSUME NEW t \in Tasks, NEW name \in Names \cup {None}, CreateLocal(t, name)
      PROVE  ShutdownInv'
  <2>1. PICK o \in Objects, i \in GenerateRandomActorId(Home[t]) : Register(Home[t], i, o, name)
    BY <1>2 DEF CreateLocal
  <2>2. Start(t) /\ UNCHANGED <<pc, req, hit, main_pc>>
    BY <1>2 DEF CreateLocal, tasks
  <2>3. StopAligned' /\ RegisteredAtHome' /\ Accounted' /\ DrainedIsDestroyed'
    BY <2>1, <2>2, RegisterShutdown
  <2> QED
    BY <2>2, <2>3 DEF ShutdownInv, StoppedIsIdle
<1>3. ASSUME NEW t \in Tasks, NEW name \in Names, LookUpLocal(t, name)
      PROVE  ShutdownInv'
  BY <1>3 DEF LookUpLocal, tables, config, tasks, ShutdownInv, StoppedIsIdle, StopAligned,
              RegisteredAtHome, Accounted, DrainedIsDestroyed
<1>4. ASSUME NEW t \in Tasks, NEW kind, NEW m, NEW name, NEW ref, NEW known,
             SendRequest(t, kind, m, name, ref, known)
      PROVE  ShutdownInv'
  <2>1. /\ Start(t) /\ pc[t] # "destroying" /\ pc' = [pc EXCEPT ![t] = "sent"]
        /\ \A s \in Tasks \ {t} : req'[s] = req[s] /\ hit'[s] = hit[s]
        /\ UNCHANGED <<tables, main_pc>>
    BY <1>4 DEF SendRequest, Start, TablesInv, TypeOK
  <2> QED
    BY <2>1, TaskShutdown
<1>5. ASSUME NEW t \in Tasks, NEW ref \in refs[Home[t]], DestroyActor(t, ref)
      PROVE  ShutdownInv'
  BY <1>5, UnregisterShutdown DEF TablesInv, TypeOK
<1>6. ASSUME NEW t \in Tasks, DestroyReturn(t) \/ Return(t)
      PROVE  ShutdownInv'
  <2>1. /\ pc[t] # "idle" /\ pc' = [pc EXCEPT ![t] = "idle"]
        /\ pc[t] = "destroying" => life[hit[t]] = "destroyed"
        /\ UNCHANGED <<tables, main_pc>> /\ Finish(t)
    BY <1>6 DEF DestroyReturn, Return, Finish
  <2>2. /\ req'[t].to = None
        /\ \A s \in Tasks \ {t} : req'[s] = req[s] /\ hit'[s] = hit[s]
    BY <2>1 DEF Finish, NoRequest, TablesInv, TypeOK
  <2> QED
    BY <2>1, <2>2, TaskShutdown
<1>7. ASSUME NEW t \in Tasks, HandleActorCreationRequest(t)
      PROVE  ShutdownInv'
  <2>1. /\ pc[t] = "sent" /\ pc' = [pc EXCEPT ![t] = "replied"]
        /\ UNCHANGED <<req, hit, main_pc>> /\ req[t].kind = "create"
    BY <1>7 DEF HandleActorCreationRequest, Handling, ReplyWith
  <2>2. CASE UNCHANGED tables
    BY <2>1, <2>2, TaskShutdown
  <2>3. CASE \E o \in Objects, i \in GenerateRandomActorId(req[t].to) :
               Register(req[t].to, i, o, req[t].name)
    <3>1. req[t].to \in Nodes
      BY <2>1 DEF TablesInv, TypeOK, Requests, RequestShape
    <3>2. \A s \in Tasks : pc'[s] = IF s = t THEN "replied" ELSE pc[s]
      BY <2>1 DEF TablesInv, TypeOK
    <3>3. StopAligned' /\ RegisteredAtHome' /\ Accounted' /\ DrainedIsDestroyed'
      BY <2>1, <2>3, <3>1, <3>2, RegisterShutdown
    <3>4. StoppedIsIdle'
      BY <2>1, <3>2, BusyMeansAligned DEF ShutdownInv, StoppedIsIdle
    <3> QED
      BY <3>3, <3>4 DEF ShutdownInv
  <2> QED
    BY <1>7, <2>2, <2>3 DEF HandleActorCreationRequest
<1>8. ASSUME NEW t \in Tasks,
             \/ HandleActorLookUpRequest(t) \/ HandleActorMethodCallRequest(t)
             \/ HandleActorMethodCallReturn(t) \/ Execute(t)
      PROVE  ShutdownInv'
  <2>1. /\ pc[t] \in {"sent", "queued", "executed"}
        /\ \E next \in {"queued", "executed", "replied"} : pc' = [pc EXCEPT ![t] = next]
        /\ UNCHANGED <<tables, req, main_pc>>
        /\ \A s \in Tasks \ {t} : hit'[s] = hit[s]
    BY <1>8 DEF HandleActorLookUpRequest, HandleActorMethodCallRequest, HandleActorMethodCallReturn,
                Execute, Handling, ReplyWith, TablesInv, TypeOK
  <2>2. PICK next \in {"queued", "executed", "replied"} : pc' = [pc EXCEPT ![t] = next]
    BY <2>1
  <2> QED
    BY <2>1, <2>2, TaskShutdown
<1>9. ASSUME NEW o \in Objects, Destroyed(o)
      PROVE  ShutdownInv'
  <2>1. /\ UNCHANGED <<actor_id_to_actor, node_id, pc, req, hit, main_pc>>
        /\ \A p \in Objects : life[p] = "destroyed" => life'[p] = "destroyed"
    BY <1>9 DEF Destroyed, config, tasks, TablesInv, TypeOK
  <2> QED
    BY <2>1 DEF ShutdownInv, StoppedIsIdle, StopAligned, RegisteredAtHome, Accounted, DrainedIsDestroyed
<1>10. ASSUME NEW n \in Nodes, ShutdownBegin(n)
       PROVE  ShutdownInv'
  <2>1. /\ UNCHANGED <<actor_id_to_actor, node_id, pc, req, hit, life>>
        /\ \A m \in Nodes : main_pc'[m] = IF m = n THEN "stopping" ELSE main_pc[m]
        /\ \A t \in Tasks : Home[t] = n => pc[t] = "idle"
    BY <1>10 DEF ShutdownBegin, MainGoto, config, tasks, TablesInv, TypeOK
  <2> QED
    BY <2>1 DEF ShutdownInv, StoppedIsIdle, StopAligned, RegisteredAtHome, Accounted, DrainedIsDestroyed
<1>11. ASSUME NEW n \in Nodes, AsyncDestroyAllActors(n)
       PROVE  ShutdownInv'
  <2>1. /\ UNCHANGED <<actor_id_to_actor, node_id, pc, req, hit>>
        /\ main_pc[n] = "stopping"
        /\ \A m \in Nodes : main_pc'[m] = IF m = n THEN "destroying" ELSE main_pc[m]
        /\ \A m \in Nodes : main_pc[m] # "running"
        /\ \A p \in Objects : life'[p] = IF p \in Registered(n) THEN "destroying" ELSE life[p]
    BY <1>11 DEF AsyncDestroyAllActors, MainGoto, config, tasks, TablesInv, TypeOK
  <2>2. \A p \in Objects : p \in Registered(n) <=> \E i \in Ids : actor_id_to_actor[n][i] = p
    BY DEF Registered
  <2>3. \A p \in Registered(n) : node_id[p] = n
    BY <2>2 DEF ShutdownInv, RegisteredAtHome, Registered
  <2>4. StoppedIsIdle' /\ StopAligned' /\ RegisteredAtHome'
    BY <2>1 DEF ShutdownInv, StoppedIsIdle, StopAligned, RegisteredAtHome
  <2>5. Accounted'
    BY <2>1, <2>2, <2>3 DEF ShutdownInv, Accounted
  <2>6. DrainedIsDestroyed'
    BY <2>1, <2>3 DEF ShutdownInv, DrainedIsDestroyed
  <2> QED
    BY <2>4, <2>5, <2>6 DEF ShutdownInv
<1>12. ASSUME NEW n \in Nodes, AllActorsDestroyed(n)
       PROVE  ShutdownInv'
  <2>1. /\ UNCHANGED <<actor_id_to_actor, node_id, pc, req, hit, life>>
        /\ main_pc[n] = "destroying"
        /\ \A m \in Nodes : main_pc'[m] = IF m = n THEN "draining" ELSE main_pc[m]
        /\ \A o \in Registered(n) : life[o] = "destroyed"
    BY <1>12 DEF AllActorsDestroyed, MainGoto, config, tasks, TablesInv, TypeOK
  <2>2. \A t \in Tasks : pc[t] = "idle"
    BY <2>1, BusyMeansAligned
  <2>3. \A o \in Objects : node_id[o] = n => life[o] = "destroyed"
    BY <2>1, <2>2 DEF ShutdownInv, Accounted, Registered
  <2>4. StoppedIsIdle' /\ StopAligned' /\ RegisteredAtHome' /\ Accounted'
    BY <2>1 DEF ShutdownInv, StoppedIsIdle, StopAligned, RegisteredAtHome, Accounted
  <2> QED
    BY <2>1, <2>3, <2>4 DEF ShutdownInv, DrainedIsDestroyed
<1>13. ASSUME NEW n \in Nodes, ShutdownReturn(n)
       PROVE  ShutdownInv'
  <2>1. /\ UNCHANGED <<actor_id_to_actor, node_id, pc, req, hit, life>>
        /\ main_pc[n] = "draining"
        /\ \A m \in Nodes : main_pc'[m] = IF m = n THEN "done" ELSE main_pc[m]
    BY <1>13 DEF ShutdownReturn, MainGoto, config, tasks, TablesInv, TypeOK
  <2> QED
    BY <2>1 DEF ShutdownInv, StoppedIsIdle, StopAligned, RegisteredAtHome, Accounted, DrainedIsDestroyed
<1> QED
  BY <1>1, <1>2, <1>3, <1>4, <1>5, <1>6, <1>7, <1>8, <1>9, <1>10, <1>11, <1>12, <1>13, RegistryCases
     DEF CreateRemote, LookUpRemote, CallRemote

(* ShutdownInv is kept along every behaviour and gives both properties of   *)
(* the shutdown.                                                           *)
LEMMA ShutdownHolds == Spec => [](NoRequestAfterStop /\ AllDestroyedAtShutdown)
<1>1. Init => TablesInv /\ ShutdownInv
  <2>1. Init => ShutdownInv
    BY RegistryNoneAssumption, HomeAssumption
       DEF Init, ShutdownInv, StoppedIsIdle, StopAligned, RegisteredAtHome, Accounted,
           DrainedIsDestroyed, NoRequest
  <2> QED
    BY <2>1, TablesInit
<1>2. TablesInv /\ ShutdownInv /\ [Next]_vars => (TablesInv /\ ShutdownInv)'
  BY TablesStep, ShutdownStep
<1>3. TablesInv /\ ShutdownInv => NoRequestAfterStop /\ AllDestroyedAtShutdown
  <2> SUFFICES ASSUME TablesInv, ShutdownInv
               PROVE  NoRequestAfterStop /\ AllDestroyedAtShutdown
    OBVIOUS
  <2>1. \A n \in Nodes, t \in Tasks :
          main_pc[n] \in {"destroying", "draining", "done"} => req[t].to = None
    BY BusyMeansAligned DEF ShutdownInv, StoppedIsIdle
  <2>2. NoRequestAfterStop
    BY <2>1, RegistryNoneAssumption DEF NoRequestAfterStop
  <2> QED
    BY <2>2 DEF ShutdownInv, DrainedIsDestroyed, AllDestroyedAtShutdown
<1> QED
  BY <1>1, <1>2, <1>3, PTL DEF Spec

(* Beyond the aligned stop no request for a node is under way, so that none *)
(* reaches an actor or a processor that is being destroyed, for any number  *)
(* of nodes, actors and tasks (actor_registry.cc:198-203).                 *)
THEOREM NoLateRequest == Spec => []NoRequestAfterStop
  BY ShutdownHolds, PTL

(* When Shutdown returns every actor ever made on the node has been         *)
(* destroyed, whether it is still registered or DestroyActor took it out    *)
(* before, and whatever ids it shares (actor_registry.cc:196-205).         *)
THEOREM ShutdownComplete == Spec => []AllDestroyedAtShutdown
  BY ShutdownHolds, PTL
=============================================================================
