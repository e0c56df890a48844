-------------------------- MODULE ThreadPoolProofs --------------------------
(***************************************************************************)
(* Proofs about ThreadPool: the account between the elements of a blocking  *)
(* queue and the units of its LightweightSemaphore, for any number of      *)
(* pools, workers and operations, and that no operation is executed twice. *)
(***************************************************************************)
EXTENDS ThreadPool, FiniteSetTheorems, TLAPS

OpSteps == {"new", "rejected", "signal", "post", "started"}
WorkerSteps ==
  {"loop", "exited", "spin", "wait", "load", "adjust", "dequeue", "execute",
   "pop", "cv", "woken"}

PoolType ==
  /\ kind \in {"sharing", "priority"}
  /\ queue \in [Pools -> SUBSET Ops]
  /\ count \in [Pools -> Int]
  /\ sema \in [Pools -> Nat]
  /\ pc \in [Ops \cup Workers -> OpSteps \cup WorkerSteps]
  /\ \A o \in Ops : pc[o] \in OpSteps
  /\ \A w \in Workers : pc[w] \in WorkerSteps
  /\ old \in [Workers -> Int]
  /\ held \in [Workers -> SUBSET Ops]
  /\ runs \in [Ops -> Nat]

\* A starter past connect() has a pool.
StarterHasPool == \A o \in Ops : pc[o] \in {"signal", "post"} => Index[o] \in Pools

\* An operation that nobody has started is in no queue.
NewNotQueued == \A o \in Ops : pc[o] = "new" => \A p \in Pools : o \notin queue[p]

\* The workers of a work-sharing pool never wait on the condition variable.
SharingHasNoCv ==
  kind = "sharing" => \A w \in Workers : pc[w] \notin {"pop", "cv", "woken"}

PlacesInv == PoolType /\ StarterHasPool /\ NewNotQueued /\ SharingHasNoCv

SignalsInv == PlacesInv /\ SignalsMatchElements

-----------------------------------------------------------------------------
(* Counting the threads at a step.                                         *)

Placed(f, S, steps) == {t \in S : f[t] \in steps}

\* Of the threads of S only t may have gone to another step, from f to g.
OnlyMoves(f, g, S, t) == \A x \in S : x # t => g[x] = f[x]

\* One thread's step changes the number of threads at given steps by the one
\* that moves: every action of the pool moves one thread (Goto), except the
\* notification of a condition variable.
LEMMA PlacedMoves ==
  ASSUME NEW S, IsFiniteSet(S), NEW f, NEW g, NEW t, NEW steps,
         OnlyMoves(f, g, S, t)
  PROVE  Cardinality(Placed(g, S, steps))
           = Cardinality(Placed(f, S, steps))
             + (IF t \in S /\ g[t] \in steps THEN 1 ELSE 0)
             - (IF t \in S /\ f[t] \in steps THEN 1 ELSE 0)
<1> DEFINE A == Placed(f, S, steps)
           B == Placed(g, S, steps)
<1>1. /\ IsFiniteSet(A) /\ Cardinality(A) \in Nat
      /\ IsFiniteSet(B) /\ Cardinality(B) \in Nat
  <2>1. A \subseteq S /\ B \subseteq S
    BY DEF Placed
  <2> QED
    BY <2>1, FS_Subset, FS_CardinalityType
<1>4. CASE t \in S /\ g[t] \in steps /\ f[t] \notin steps
  <2>1. B = A \cup {t} /\ t \notin A
    BY <1>4 DEF Placed, OnlyMoves
  <2>2. Cardinality(B) = Cardinality(A) + 1
    BY <2>1, <1>1, FS_AddElement
  <2> QED
    BY <2>2, <1>1, <1>4
<1>5. CASE t \in S /\ g[t] \notin steps /\ f[t] \in steps
  <2>1. B = A \ {t} /\ t \in A
    BY <1>5 DEF Placed, OnlyMoves
  <2>2. Cardinality(B) = Cardinality(A) - 1
    BY <2>1, <1>1, FS_RemoveElement
  <2> QED
    BY <2>2, <1>1, <1>5
<1>6. CASE ~(t \in S) \/ (g[t] \in steps <=> f[t] \in steps)
  <2>1. B = A
    BY <1>6 DEF Placed, OnlyMoves
  <2> QED
    BY <2>1, <1>1, <1>6
<1> QED
  BY <1>4, <1>5, <1>6

\* The threads of a pool are finitely many.
LEMMA PoolsFinite ==
  ASSUME NEW p
  PROVE  /\ IsFiniteSet(WorkersOf(p)) /\ WorkersOf(p) \subseteq Workers
         /\ IsFiniteSet({o \in Ops : Index[o] = p})
<1>1. WorkersOf(p) \subseteq Workers /\ {o \in Ops : Index[o] = p} \subseteq Ops
  BY DEF WorkersOf
<1> QED
  BY <1>1, PoolsAssumption, FS_Subset

\* At and StartersAt count threads with Placed.
LEMMA AtIsPlaced ==
  ASSUME NEW p, NEW steps
  PROVE  /\ At(p, steps) = Placed(pc, WorkersOf(p), steps)
         /\ At(p, steps)' = Placed(pc', WorkersOf(p), steps)
         /\ StartersAt(p, steps) = Placed(pc, {o \in Ops : Index[o] = p}, steps)
         /\ StartersAt(p, steps)' = Placed(pc', {o \in Ops : Index[o] = p}, steps)
BY DEF At, StartersAt, Placed

\* What the account of a pool counts.
LEMMA CountsAreNat ==
  ASSUME NEW p, NEW steps
  PROVE  Cardinality(At(p, steps)) \in Nat /\ Cardinality(StartersAt(p, steps)) \in Nat
<1>1. At(p, steps) \subseteq WorkersOf(p) /\ StartersAt(p, steps) \subseteq {o \in Ops : Index[o] = p}
  BY DEF At, StartersAt
<1> QED
  BY <1>1, PoolsFinite, FS_Subset, FS_CardinalityType

\* A step of worker w moves no starter, and changes the counts of its own pool.
LEMMA WorkerMoves ==
  ASSUME PoolType, NEW w \in Workers, NEW step, Goto(w, step), NEW p, NEW steps
  PROVE  /\ Cardinality(At(p, steps))' = Cardinality(At(p, steps))
               + (IF PoolOf[w] = p /\ step \in steps THEN 1 ELSE 0)
               - (IF PoolOf[w] = p /\ pc[w] \in steps THEN 1 ELSE 0)
         /\ StartersAt(p, steps)' = StartersAt(p, steps)
<1>1. /\ pc'[w] = step
      /\ \A x \in Ops \cup Workers : x # w => pc'[x] = pc[x]
  BY DEF PoolType, Goto
<1>2. w \in WorkersOf(p) <=> PoolOf[w] = p
  BY DEF WorkersOf
<1>3. Cardinality(Placed(pc', WorkersOf(p), steps))
        = Cardinality(Placed(pc, WorkersOf(p), steps))
          + (IF w \in WorkersOf(p) /\ pc'[w] \in steps THEN 1 ELSE 0)
          - (IF w \in WorkersOf(p) /\ pc[w] \in steps THEN 1 ELSE 0)
  <2>1. OnlyMoves(pc, pc', WorkersOf(p), w)
    BY <1>1, PoolsFinite DEF OnlyMoves
  <2>2. IsFiniteSet(WorkersOf(p))
    BY PoolsFinite
  <2> QED
    BY ONLY <2>1, <2>2, PlacedMoves, SMT
<1>4. StartersAt(p, steps)' = StartersAt(p, steps)
  <2>1. \A o \in Ops : pc'[o] = pc[o]
    BY <1>1, PoolsAssumption
  <2> QED
    BY <2>1 DEF StartersAt
<1> QED
  BY <1>1, <1>2, <1>3, <1>4, AtIsPlaced

\* A step of the starter of o moves no worker, and changes the counts of the
\* pool it starts o on.
LEMMA StarterMoves ==
  ASSUME PoolType, NEW o \in Ops, NEW step, Goto(o, step), NEW p, NEW steps
  PROVE  /\ Cardinality(StartersAt(p, steps))' = Cardinality(StartersAt(p, steps))
               + (IF Index[o] = p /\ step \in steps THEN 1 ELSE 0)
               - (IF Index[o] = p /\ pc[o] \in steps THEN 1 ELSE 0)
         /\ At(p, steps)' = At(p, steps)
<1> DEFINE S == {x \in Ops : Index[x] = p}
<1>1. /\ pc'[o] = step
      /\ \A x \in Ops \cup Workers : x # o => pc'[x] = pc[x]
  BY DEF PoolType, Goto
<1>3. Cardinality(Placed(pc', S, steps))
        = Cardinality(Placed(pc, S, steps))
          + (IF o \in S /\ pc'[o] \in steps THEN 1 ELSE 0)
          - (IF o \in S /\ pc[o] \in steps THEN 1 ELSE 0)
  <2>1. OnlyMoves(pc, pc', S, o)
    BY <1>1 DEF OnlyMoves
  <2>2. IsFiniteSet(S)
    BY PoolsFinite
  <2> HIDE DEF S
  <2> QED
    BY ONLY <2>1, <2>2, PlacedMoves, SMT
<1>4. At(p, steps)' = At(p, steps)
  <2>1. \A w \in Workers : pc'[w] = pc[w]
    BY <1>1, PoolsAssumption
  <2> QED
    BY <2>1 DEF At, WorkersOf
<1>5. o \in S <=> Index[o] = p
  OBVIOUS
<1> QED
  BY <1>1, <1>3, <1>4, <1>5, AtIsPlaced
-----------------------------------------------------------------------------
(* Where threads and operations are.                                       *)

\* The constructor's state: every operation is new and every queue is empty.
LEMMA PlacesInit == Init => PlacesInv
<1> SUFFICES ASSUME Init PROVE PlacesInv
  OBVIOUS
<1> USE PoolsAssumption, OpsAssumption DEF Init
<1>1. PoolType
  BY DEF PoolType, OpSteps, WorkerSteps
<1>2. StarterHasPool /\ NewNotQueued /\ SharingHasNoCv
  BY DEF StarterHasPool, NewNotQueued, SharingHasNoCv
<1> QED
  BY <1>1, <1>2 DEF PlacesInv

\* Every step of a starter keeps threads and operations where they may be.
LEMMA PlacesOp ==
  ASSUME PlacesInv, NEW o \in Ops, OpStep(o)
  PROVE  PlacesInv'
<1> USE PoolsAssumption, OpsAssumption
    DEF PlacesInv, StarterHasPool, NewNotQueued, SharingHasNoCv, PoolType, OpSteps,
        WorkerSteps, lifetime, semaphore, Goto
<1>1. CASE Reject(o)
  BY <1>1 DEF Reject
<1>2. CASE StartSharing(o)
  BY <1>2 DEF StartSharing, EnqueueOperation
<1>3. CASE Signal(o)
  BY <1>3 DEF Signal
<1>4. CASE Post(o)
  BY <1>4 DEF Post
<1>5. CASE StartPriority(o)
  BY <1>5 DEF StartPriority, EnqueueOperation, At, WorkersOf
<1> QED
  BY <1>1, <1>2, <1>3, <1>4, <1>5 DEF OpStep

\* Every step of a worker keeps threads and operations where they may be.
LEMMA PlacesWorker ==
  ASSUME PlacesInv, NEW w \in Workers, WorkerStep(w)
  PROVE  PlacesInv'
<1> USE PoolsAssumption, OpsAssumption
    DEF PlacesInv, StarterHasPool, NewNotQueued, SharingHasNoCv, PoolType, OpSteps,
        WorkerSteps, lifetime, semaphore, Goto
<1>1. CASE Loop(w)
  BY <1>1 DEF Loop
<1>2. CASE TryWait(w)
  BY <1>2 DEF TryWait
<1>3. CASE FetchSub(w)
  BY <1>3 DEF FetchSub
<1>4. CASE TimedWait(w)
  BY <1>4 DEF TimedWait
<1>5. CASE Timeout(w)
  BY <1>5 DEF Timeout
<1>6. CASE Load(w)
  BY <1>6 DEF Load
<1>7. CASE Adjust(w)
  BY <1>7 DEF Adjust
<1>8. CASE AdjustRetry(w)
  BY <1>8 DEF AdjustRetry
<1>9. CASE Dequeue(w)
  BY <1>9 DEF Dequeue, Take
<1>10. CASE Pop(w)
  BY <1>10 DEF Pop, Urgent, Take
<1>11. CASE PopTimeout(w)
  BY <1>11 DEF PopTimeout, Urgent, Take
<1>12. CASE Execute(w)
  BY <1>12 DEF Execute
<1> QED
  BY <1>1, <1>2, <1>3, <1>4, <1>5, <1>6, <1>7, <1>8, <1>9, <1>10, <1>11, <1>12
  DEF WorkerStep

\* Every step keeps threads and operations where they may be.
LEMMA PlacesNext == PlacesInv /\ [Next]_vars => PlacesInv'
<1> SUFFICES ASSUME PlacesInv, [Next]_vars PROVE PlacesInv'
  OBVIOUS
<1>1. CASE \E o \in Ops : OpStep(o)
  BY <1>1, PlacesOp
<1>2. CASE \E w \in Workers : WorkerStep(w)
  BY <1>2, PlacesWorker
<1>3. CASE \/ \E w \in Workers : RequestStop(w)
           \/ \E p \in Pools : BeginDestroy(p)
           \/ UNCHANGED vars
  BY <1>3 DEF RequestStop, BeginDestroy, vars, semaphore, PlacesInv, StarterHasPool,
              NewNotQueued, SharingHasNoCv, PoolType
<1> QED
  BY <1>1, <1>2, <1>3 DEF Next
-----------------------------------------------------------------------------
(* The account of a work-sharing pool.                                     *)

\* SignalsMatchElements for one pool.
Account(p) ==
  /\ Cardinality(queue[p]) - Cardinality(StartersAt(p, {"signal"}))
       = count[p] + Cardinality(At(p, Unsignalled)) + Cardinality(At(p, {"dequeue"}))
  /\ sema[p] + Cardinality(StartersAt(p, {"post"}))
       = Cardinality(At(p, Unsignalled)) + (IF count[p] < 0 THEN count[p] ELSE 0)

\* The account is kept pool by pool.
LEMMA AccountsArePools ==
  /\ SignalsMatchElements <=> (kind = "sharing" => \A p \in Pools : Account(p))
  /\ SignalsMatchElements' <=> (kind' = "sharing" => \A p \in Pools : Account(p)')
BY DEF SignalsMatchElements, Account

\* The numbers of an account.
LEMMA AccountTypes ==
  ASSUME PoolType, NEW p \in Pools
  PROVE  /\ IsFiniteSet(queue[p]) /\ Cardinality(queue[p]) \in Nat
         /\ count[p] \in Int /\ sema[p] \in Nat
         /\ Cardinality(StartersAt(p, {"signal"})) \in Nat
         /\ Cardinality(StartersAt(p, {"post"})) \in Nat
         /\ Cardinality(At(p, Unsignalled)) \in Nat
         /\ Cardinality(At(p, {"dequeue"})) \in Nat
<1>1. IsFiniteSet(queue[p]) /\ Cardinality(queue[p]) \in Nat
  <2>1. queue[p] \subseteq Ops
    BY DEF PoolType
  <2> QED
    BY <2>1, PoolsAssumption, FS_Subset, FS_CardinalityType
<1>2. count[p] \in Int /\ sema[p] \in Nat
  BY DEF PoolType
<1> QED
  BY <1>1, <1>2, CountsAreNat

\* The first element in and its signal not yet given, or the signal given and a
\* post owed: every step of a starter keeps the account.
LEMMA AccountOp ==
  ASSUME PlacesInv, NEW o \in Ops, OpStep(o), kind = "sharing",
         NEW p \in Pools, Account(p)
  PROVE  Account(p)'
<1> USE DEF PlacesInv
<1>0. /\ Cardinality(StartersAt(p, {"signal"}))' = Cardinality(StartersAt(p, {"signal"})')
      /\ Cardinality(StartersAt(p, {"post"}))' = Cardinality(StartersAt(p, {"post"})')
  OBVIOUS
<1>1. CASE Reject(o)
  <2>1. Goto(o, "rejected") /\ queue' = queue /\ count' = count /\ sema' = sema /\ pc[o] = "new"
    BY <1>1 DEF Reject, semaphore
  <2> QED
    BY <2>1, StarterMoves, AccountTypes DEF Account
<1>2. CASE StartSharing(o)
  <2>1. /\ Goto(o, "signal") /\ pc[o] = "new" /\ count' = count /\ sema' = sema
        /\ Index[o] \in Pools /\ o \notin queue[Index[o]]
        /\ queue' = [queue EXCEPT ![Index[o]] = @ \cup {o}]
    BY <1>2 DEF StartSharing, semaphore, EnqueueOperation, NewNotQueued
  <2>2. Cardinality(queue'[p]) = Cardinality(queue[p]) + (IF Index[o] = p THEN 1 ELSE 0)
    <3>1. queue'[p] = IF Index[o] = p THEN queue[p] \cup {o} ELSE queue[p]
      BY <2>1 DEF PoolType
    <3>2. IsFiniteSet(queue[p]) /\ Cardinality(queue[p]) \in Nat
      BY AccountTypes
    <3>3. Index[o] = p => Cardinality(queue[p] \cup {o}) = Cardinality(queue[p]) + 1
      BY <2>1, <3>2, FS_AddElement
    <3> QED
      BY <3>1, <3>2, <3>3
  <2> QED
    BY <2>1, <2>2, StarterMoves, AccountTypes DEF Account
<1>3. CASE Signal(o)
  <2> DEFINE step == IF count[Index[o]] < 0 THEN "post" ELSE "started"
  <2>1. /\ Goto(o, step)
        /\ pc[o] = "signal" /\ queue' = queue /\ sema' = sema
        /\ count'[p] = IF Index[o] = p THEN count[p] + 1 ELSE count[p]
    BY <1>3 DEF Signal, PoolType
  <2>2. Index[o] = p => step = IF count[p] < 0 THEN "post" ELSE "started"
    OBVIOUS
  <2> HIDE DEF step
  <2>3. /\ Cardinality(StartersAt(p, {"signal"}))' = Cardinality(StartersAt(p, {"signal"}))
               + (IF Index[o] = p /\ step \in {"signal"} THEN 1 ELSE 0)
               - (IF Index[o] = p /\ pc[o] \in {"signal"} THEN 1 ELSE 0)
        /\ Cardinality(StartersAt(p, {"post"}))' = Cardinality(StartersAt(p, {"post"}))
               + (IF Index[o] = p /\ step \in {"post"} THEN 1 ELSE 0)
               - (IF Index[o] = p /\ pc[o] \in {"post"} THEN 1 ELSE 0)
        /\ At(p, Unsignalled)' = At(p, Unsignalled)
        /\ At(p, {"dequeue"})' = At(p, {"dequeue"})
    BY <2>1, StarterMoves
  <2> QED
    BY <2>1, <2>2, <2>3, AccountTypes DEF Account
<1>4. CASE Post(o)
  <2>1. /\ Goto(o, "started")
        /\ pc[o] = "post" /\ queue' = queue /\ count' = count
        /\ sema'[p] = IF Index[o] = p THEN sema[p] + 1 ELSE sema[p]
    BY <1>4 DEF Post, PoolType
  <2> QED
    BY <2>1, StarterMoves, AccountTypes DEF Account
<1>5. ~ StartPriority(o)
  BY DEF StartPriority
<1> QED
  BY <1>1, <1>2, <1>3, <1>4, <1>5 DEF OpStep
\* A worker's step that takes nothing from the queue of p or its semaphore keeps
\* the numbers of p's account, except that its own pool's workers move.
Moved(p, waiting, dequeuing) ==
  /\ Cardinality(At(p, Unsignalled))' = Cardinality(At(p, Unsignalled)) + waiting
  /\ Cardinality(At(p, {"dequeue"}))' = Cardinality(At(p, {"dequeue"})) + dequeuing
  /\ Cardinality(StartersAt(p, {"signal"}))' = Cardinality(StartersAt(p, {"signal"}))
  /\ Cardinality(StartersAt(p, {"post"}))' = Cardinality(StartersAt(p, {"post"}))

\* How the numbers of an account change when a worker of pool q goes from a step
\* to the next.
LEMMA AccountMoves ==
  ASSUME PoolType, NEW w \in Workers, NEW step, Goto(w, step), NEW p \in Pools
  PROVE  /\ PoolOf[w] # p => Moved(p, 0, 0)
         /\ PoolOf[w] = p =>
              Moved(p, (IF step \in Unsignalled THEN 1 ELSE 0)
                         - (IF pc[w] \in Unsignalled THEN 1 ELSE 0),
                       (IF step \in {"dequeue"} THEN 1 ELSE 0)
                         - (IF pc[w] \in {"dequeue"} THEN 1 ELSE 0))
<1>1. Cardinality(At(p, Unsignalled))' = Cardinality(At(p, Unsignalled))
        + (IF PoolOf[w] = p /\ step \in Unsignalled THEN 1 ELSE 0)
        - (IF PoolOf[w] = p /\ pc[w] \in Unsignalled THEN 1 ELSE 0)
  BY WorkerMoves
<1>2. Cardinality(At(p, {"dequeue"}))' = Cardinality(At(p, {"dequeue"}))
        + (IF PoolOf[w] = p /\ step \in {"dequeue"} THEN 1 ELSE 0)
        - (IF PoolOf[w] = p /\ pc[w] \in {"dequeue"} THEN 1 ELSE 0)
  BY WorkerMoves
<1>3. /\ StartersAt(p, {"signal"})' = StartersAt(p, {"signal"})
      /\ StartersAt(p, {"post"})' = StartersAt(p, {"post"})
  BY WorkerMoves
<1> QED
  BY <1>1, <1>2, <1>3, AccountTypes DEF Moved

\* The worker that takes a unit, waits for a post, gives its unit back after a
\* timeout or dequeues an element: every step of a worker keeps the account.
LEMMA AccountWorker ==
  ASSUME PlacesInv, NEW w \in Workers, WorkerStep(w), kind = "sharing",
         NEW p \in Pools, Account(p)
  PROVE  Account(p)'
<1>0. PoolType /\ pc[w] \notin {"pop", "cv", "woken"} /\ PoolOf[w] \in Pools
  BY PoolsAssumption DEF PlacesInv, SharingHasNoCv
<1>1. CASE Loop(w)
  <2> DEFINE step == IF w \in stop THEN "exited" ELSE "spin"
  <2>1. /\ Goto(w, step) /\ pc[w] = "loop" /\ queue' = queue /\ count' = count /\ sema' = sema
    BY <1>0, <1>1 DEF Loop, semaphore, Goto
  <2>2. step \notin Unsignalled /\ step # "dequeue"
    BY DEF Unsignalled
  <2> HIDE DEF step
  <2>3. IF PoolOf[w] = p THEN Moved(p, 0, 0) ELSE Moved(p, 0, 0)
    BY <1>0, <2>1, <2>2, AccountMoves DEF Unsignalled
  <2> QED
    BY <1>0, <2>1, <2>3, AccountTypes DEF Account, Moved
<1>2. CASE TryWait(w)
  <2>1. /\ Goto(w, "dequeue") /\ pc[w] = "spin" /\ queue' = queue /\ sema' = sema
        /\ count'[p] = IF PoolOf[w] = p THEN count[p] - 1 ELSE count[p]
        /\ PoolOf[w] = p => count[p] > 0
    BY <1>0, <1>2 DEF TryWait, PoolType
  <2>3. IF PoolOf[w] = p THEN Moved(p, 0, 1) ELSE Moved(p, 0, 0)
    BY <1>0, <2>1, AccountMoves DEF Unsignalled
  <2> QED
    BY <1>0, <2>1, <2>3, AccountTypes DEF Account, Moved
<1>3. CASE FetchSub(w) /\ count[PoolOf[w]] > 0
  <2>1. /\ Goto(w, "dequeue") /\ pc[w] = "spin" /\ queue' = queue /\ sema' = sema
        /\ count'[p] = IF PoolOf[w] = p THEN count[p] - 1 ELSE count[p]
        /\ PoolOf[w] = p => count[p] > 0
    BY <1>0, <1>3 DEF FetchSub, PoolType
  <2>3. IF PoolOf[w] = p THEN Moved(p, 0, 1) ELSE Moved(p, 0, 0)
    BY <1>0, <2>1, AccountMoves DEF Unsignalled
  <2> QED
    BY <1>0, <2>1, <2>3, AccountTypes DEF Account, Moved
<1>4. CASE FetchSub(w) /\ ~(count[PoolOf[w]] > 0)
  <2>1. /\ Goto(w, "wait") /\ pc[w] = "spin" /\ queue' = queue /\ sema' = sema
        /\ count'[p] = IF PoolOf[w] = p THEN count[p] - 1 ELSE count[p]
        /\ PoolOf[w] = p => ~(count[p] > 0)
    BY <1>0, <1>4 DEF FetchSub, PoolType
  <2>3. IF PoolOf[w] = p THEN Moved(p, 1, 0) ELSE Moved(p, 0, 0)
    BY <1>0, <2>1, AccountMoves DEF Unsignalled
  <2> QED
    BY <1>0, <2>1, <2>3, AccountTypes DEF Account, Moved
<1>5. CASE TimedWait(w)
  <2>1. /\ Goto(w, "dequeue") /\ pc[w] = "wait" /\ queue' = queue /\ count' = count
        /\ sema'[p] = IF PoolOf[w] = p THEN sema[p] - 1 ELSE sema[p]
    BY <1>0, <1>5 DEF TimedWait, PoolType
  <2>3. IF PoolOf[w] = p THEN Moved(p, -1, 1) ELSE Moved(p, 0, 0)
    BY <1>0, <2>1, AccountMoves DEF Unsignalled
  <2> QED
    BY <1>0, <2>1, <2>3, AccountTypes DEF Account, Moved
<1>6. CASE Timeout(w)
  <2>1. /\ Goto(w, "load") /\ pc[w] = "wait" /\ queue' = queue /\ count' = count /\ sema' = sema
    BY <1>0, <1>6 DEF Timeout, semaphore
  <2>3. IF PoolOf[w] = p THEN Moved(p, 0, 0) ELSE Moved(p, 0, 0)
    BY <1>0, <2>1, AccountMoves DEF Unsignalled
  <2> QED
    BY <1>0, <2>1, <2>3, AccountTypes DEF Account, Moved
<1>7. CASE Load(w)
  <2>1. /\ Goto(w, "adjust") /\ pc[w] = "load" /\ queue' = queue /\ count' = count /\ sema' = sema
    BY <1>0, <1>7 DEF Load
  <2>3. IF PoolOf[w] = p THEN Moved(p, 0, 0) ELSE Moved(p, 0, 0)
    BY <1>0, <2>1, AccountMoves DEF Unsignalled
  <2> QED
    BY <1>0, <2>1, <2>3, AccountTypes DEF Account, Moved
<1>8. CASE Adjust(w) /\ old[w] >= 0
  <2>1. /\ Goto(w, "dequeue") /\ pc[w] = "adjust" /\ queue' = queue /\ count' = count
        /\ sema'[p] = IF PoolOf[w] = p THEN sema[p] - 1 ELSE sema[p]
    BY <1>0, <1>8 DEF Adjust, PoolType
  <2>3. IF PoolOf[w] = p THEN Moved(p, -1, 1) ELSE Moved(p, 0, 0)
    BY <1>0, <2>1, AccountMoves DEF Unsignalled
  <2> QED
    BY <1>0, <2>1, <2>3, AccountTypes DEF Account, Moved
<1>9. CASE Adjust(w) /\ ~(old[w] >= 0)
  <2>1. /\ Goto(w, "loop") /\ pc[w] = "adjust" /\ queue' = queue /\ sema' = sema
        /\ count'[p] = IF PoolOf[w] = p THEN count[p] + 1 ELSE count[p]
        /\ PoolOf[w] = p => count[p] < 0
    BY <1>0, <1>9 DEF Adjust, PoolType
  <2>3. IF PoolOf[w] = p THEN Moved(p, -1, 0) ELSE Moved(p, 0, 0)
    BY <1>0, <2>1, AccountMoves DEF Unsignalled
  <2> QED
    BY <1>0, <2>1, <2>3, AccountTypes DEF Account, Moved
<1>10. CASE AdjustRetry(w)
  <2>1. /\ Goto(w, "load") /\ pc[w] = "adjust" /\ queue' = queue /\ count' = count /\ sema' = sema
    BY <1>0, <1>10 DEF AdjustRetry, semaphore
  <2>3. IF PoolOf[w] = p THEN Moved(p, 0, 0) ELSE Moved(p, 0, 0)
    BY <1>0, <2>1, AccountMoves DEF Unsignalled
  <2> QED
    BY <1>0, <2>1, <2>3, AccountTypes DEF Account, Moved
<1>11. CASE Dequeue(w)
  <2>1. PICK o \in queue[PoolOf[w]] :
          /\ Goto(w, "execute") /\ count' = count /\ sema' = sema /\ pc[w] = "dequeue"
          /\ queue'[p] = IF PoolOf[w] = p THEN queue[p] \ {o} ELSE queue[p]
    BY <1>0, <1>11 DEF Dequeue, Take, semaphore, PoolType
  <2>2. Cardinality(queue'[p]) = Cardinality(queue[p]) - (IF PoolOf[w] = p THEN 1 ELSE 0)
    <3>1. IsFiniteSet(queue[p]) /\ Cardinality(queue[p]) \in Nat
      BY <1>0, AccountTypes
    <3>2. PoolOf[w] = p => Cardinality(queue[p] \ {o}) = Cardinality(queue[p]) - 1
      BY <2>1, <3>1, FS_RemoveElement
    <3> QED
      BY <2>1, <3>1, <3>2
  <2>3. IF PoolOf[w] = p THEN Moved(p, 0, -1) ELSE Moved(p, 0, 0)
    BY <1>0, <2>1, AccountMoves DEF Unsignalled
  <2> QED
    BY <1>0, <2>1, <2>2, <2>3, AccountTypes DEF Account, Moved
<1>12. ~ Pop(w) /\ ~ PopTimeout(w)
  BY <1>0 DEF Pop, PopTimeout
<1>13. CASE Execute(w)
  <2>1. Goto(w, "loop") /\ queue' = queue /\ count' = count /\ sema' = sema /\ pc[w] = "execute"
    BY <1>13 DEF Execute, semaphore
  <2>3. Moved(p, 0, 0)
    BY <1>0, <2>1, AccountMoves DEF Unsignalled
  <2> QED
    BY <1>0, <2>1, <2>3, AccountTypes DEF Account, Moved
<1> QED
  BY <1>1, <1>2, <1>3, <1>4, <1>5, <1>6, <1>7, <1>8, <1>9, <1>10, <1>11, <1>12, <1>13
  DEF WorkerStep

\* Initially a queue is empty and nobody has signalled or waits.
LEMMA AccountInit == Init => SignalsMatchElements
<1> SUFFICES ASSUME Init, NEW p \in Pools PROVE Account(p)
  BY AccountsArePools
<1>1. /\ At(p, Unsignalled) = {} /\ At(p, {"dequeue"}) = {}
      /\ StartersAt(p, {"signal"}) = {} /\ StartersAt(p, {"post"}) = {}
  BY PoolsAssumption DEF Init, At, WorkersOf, StartersAt, Unsignalled
<1>2. queue[p] = {} /\ count[p] = 0 /\ sema[p] = 0
  BY DEF Init
<1> QED
  BY <1>1, <1>2, FS_EmptySet DEF Account

\* Every step keeps the account of every pool.
LEMMA AccountNext == SignalsInv /\ [Next]_vars => SignalsMatchElements'
<1> SUFFICES ASSUME SignalsInv, [Next]_vars, kind' = "sharing", NEW p \in Pools
             PROVE  Account(p)'
  BY AccountsArePools
<1>1. kind = "sharing"
  BY DEF Next, vars, OpStep, Reject, StartSharing, Signal, Post, StartPriority, WorkerStep,
         Loop, TryWait, FetchSub, TimedWait, Timeout, Load, Adjust, AdjustRetry, Dequeue,
         Pop, PopTimeout, Execute, RequestStop, BeginDestroy, lifetime
<1>2. PlacesInv /\ Account(p)
  BY <1>1, AccountsArePools DEF SignalsInv
<1>3. CASE \E o \in Ops : OpStep(o)
  BY <1>1, <1>2, <1>3, AccountOp
<1>4. CASE \E w \in Workers : WorkerStep(w)
  BY <1>1, <1>2, <1>4, AccountWorker
<1>5. CASE \/ \E w \in Workers : RequestStop(w)
           \/ \E q \in Pools : BeginDestroy(q)
           \/ UNCHANGED vars
  <2>1. pc' = pc /\ queue' = queue /\ count' = count /\ sema' = sema
    BY <1>5 DEF RequestStop, BeginDestroy, vars, semaphore
  <2> QED
    BY <1>2, <2>1 DEF Account, At, StartersAt
<1> QED
  BY <1>3, <1>4, <1>5 DEF Next

\* The inductive invariant of the pools.
LEMMA SignalsInvariant == Spec => []SignalsInv
<1>1. Init => SignalsInv
  BY PlacesInit, AccountInit DEF SignalsInv
<1>2. SignalsInv /\ [Next]_vars => SignalsInv'
  BY PlacesNext, AccountNext DEF SignalsInv
<1> QED
  BY <1>1, <1>2, PTL DEF Spec

\* Every element of a blocking queue whose starter has signalled is matched by
\* exactly one unit of the LightweightSemaphore, and the posts made or owed are
\* for the waiters, however signals, timeouts and the compare-and-swap after a
\* timeout interleave (blockingconcurrentqueue.h:358, lightweightsemaphore.h).
THEOREM SignalsMatch == Spec => []SignalsMatchElements
BY SignalsInvariant, PTL DEF SignalsInv

\* The spin `while (!inner.try_dequeue(item))` of wait_dequeue_timed never finds
\* the queue empty: there are at least as many elements as workers past the
\* semaphore (blockingconcurrentqueue.h:358).
DequeueFinds ==
  kind = "sharing" => \A w \in Workers : pc[w] = "dequeue" => queue[PoolOf[w]] # {}

\* A worker that has passed the semaphore finds an element in the inner queue.
THEOREM DequeueFindsElement == Spec => []DequeueFinds
<1>1. SignalsInv => DequeueFinds
  <2> SUFFICES ASSUME SignalsInv, kind = "sharing", NEW w \in Workers, pc[w] = "dequeue",
                      queue[PoolOf[w]] = {}
               PROVE  FALSE
    BY DEF DequeueFinds
  <2> DEFINE p == PoolOf[w]
  <2>1. p \in Pools /\ Account(p) /\ PoolType
    BY PoolsAssumption, AccountsArePools DEF SignalsInv, PlacesInv
  <2>2. Cardinality(At(p, {"dequeue"})) # 0
    <3>1. w \in At(p, {"dequeue"})
      BY DEF At, WorkersOf
    <3>2. IsFiniteSet(At(p, {"dequeue"}))
      <4>1. At(p, {"dequeue"}) \subseteq WorkersOf(p)
        BY DEF At
      <4> QED
        BY <4>1, PoolsFinite, FS_Subset
    <3> QED
      BY <3>1, <3>2, FS_EmptySet
  <2>3. Cardinality(queue[p]) = 0
    BY FS_EmptySet
  <2> HIDE DEF p
  <2> QED
    BY <2>1, <2>2, <2>3, AccountTypes DEF Account
<1> QED
  BY <1>1, SignalsInvariant, PTL
-----------------------------------------------------------------------------
(* No operation is executed twice.                                         *)

\* An operation is in the queue of its own pool or in one worker's hand or has
\* been executed, and only one of these.
Places ==
  /\ \A p \in Pools : \A o \in queue[p] : p = Index[o] /\ runs[o] = 0
  /\ \A p \in Pools, w \in Workers : queue[p] \cap held[w] = {}
  /\ \A w \in Workers : \A o \in held[w] :
       runs[o] = 0 /\ pc[o] # "new" /\ \A v \in Workers : o \in held[v] => v = w
  /\ \A o \in Ops : pc[o] = "new" => runs[o] = 0
  /\ \A o \in Ops : runs[o] <= 1

OnceInv == PlacesInv /\ Places

\* Execute() is called at most once for an operation, whichever workers pop and
\* whatever wakes them (scheduler.h, Operation::Execute): a second call would
\* complete the receiver twice.
ExecutedAtMostOnce == \A o \in Ops : runs[o] <= 1

\* Every step moves an operation from one place to the next.
LEMMA PlacesKept == OnceInv /\ [Next]_vars => Places'
<1> SUFFICES ASSUME OnceInv, [Next]_vars PROVE Places'
  OBVIOUS
<1> USE PoolsAssumption, OpsAssumption DEF OnceInv, PlacesInv, PoolType
<1>1. ASSUME NEW o \in Ops, OpStep(o) PROVE Places'
  <2>1. CASE EnqueueOperation(Index[o], o) /\ pc[o] = "new" /\ UNCHANGED <<held, runs>>
             /\ Index[o] \in Pools /\ pc'[o] # "new"
             /\ \A x \in Ops : x # o => pc'[x] = pc[x]
    BY <2>1 DEF EnqueueOperation, Places, NewNotQueued
  <2>2. CASE UNCHANGED <<queue, held, runs>> /\ pc'[o] # "new"
             /\ \A x \in Ops : x # o => pc'[x] = pc[x]
    BY <2>2 DEF Places
  <2> QED
    BY <1>1, <2>1, <2>2
    DEF OpStep, Reject, StartSharing, Signal, Post, StartPriority, Goto, At, WorkersOf
<1>2. ASSUME NEW w \in Workers, WorkerStep(w) PROVE Places'
  <2>0. \A x \in Ops : pc'[x] = pc[x]
    BY <1>2 DEF WorkerStep, Loop, TryWait, FetchSub, TimedWait, Timeout, Load, Adjust,
                AdjustRetry, Dequeue, Pop, PopTimeout, Execute, Take, Goto
  <2>1. CASE UNCHANGED <<queue, held, runs>>
    BY <2>0, <2>1 DEF Places
  <2>2. ASSUME NEW o \in queue[PoolOf[w]], Take(w, o), UNCHANGED runs PROVE Places'
    BY <2>0, <2>2 DEF Places, Take, NewNotQueued
  <2>3. CASE Execute(w)
    BY <2>0, <2>3 DEF Places, Execute
  <2> QED
    BY <1>2, <2>1, <2>2, <2>3
    DEF WorkerStep, Loop, TryWait, FetchSub, TimedWait, Timeout, Load, Adjust,
        AdjustRetry, Dequeue, Pop, PopTimeout, Urgent
<1>3. CASE \/ \E w \in Workers : RequestStop(w)
           \/ \E p \in Pools : BeginDestroy(p)
           \/ UNCHANGED vars
  BY <1>3 DEF RequestStop, BeginDestroy, vars, Places
<1> QED
  BY <1>1, <1>2, <1>3 DEF Next

\* No operation is executed twice, in pools of either kind, and also while the
\* destructor stops and joins the workers.
THEOREM NoSecondExecution == Spec => []ExecutedAtMostOnce
<1>1. Init => OnceInv
  BY PlacesInit, PoolsAssumption DEF OnceInv, Places, Init
<1>2. OnceInv /\ [Next]_vars => OnceInv'
  BY PlacesKept, PlacesNext DEF OnceInv
<1>3. OnceInv => ExecutedAtMostOnce
  BY DEF OnceInv, Places, ExecutedAtMostOnce
<1> QED
  BY <1>1, <1>2, <1>3, PTL DEF Spec
=============================================================================
