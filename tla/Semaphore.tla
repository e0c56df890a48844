------------------------------ MODULE Semaphore ------------------------------
(***************************************************************************)
(* util::Semaphore (include/ncaf/internal/util.h:21-105): an atomic count   *)
(* and a mutex-protected list of OnDrained operations.  Callers call       *)
(* Acquire and Release; each waiter is one OnDrained operation, started     *)
(* once.  count_ is changed without the mutex, so the load in start() and   *)
(* the test in Acquire race.                                               *)
(***************************************************************************)
EXTENDS Integers, FiniteSets

CONSTANTS
  Callers,             \* threads that call Acquire and Release
  Waiters,             \* OnDrained operations
  Amounts,             \* the n of Acquire(n) and Release(n)
  InitialCount,
  MaxDebt, MaxCount    \* bounds on count_, for model checking

ASSUME AmountsAssumption == Amounts \subseteq Nat \ {0}
ASSUME CountAssumption ==
  InitialCount \in Int /\ MaxDebt \in Nat /\ MaxCount \in Nat
ASSUME DisjointAssumption == Callers \cap Waiters = {}

VARIABLES
  count,     \* count_
  waiters,   \* waiters_
  mu,        \* the operation inside start() that holds waiters_mu_, if any
  pc,        \* the next step of each caller and of each operation
  taken,     \* Acquire's local list of the waiters it is completing
  completed  \* how often each operation was completed

semaphoreVars == <<count, waiters, mu, pc, taken, completed>>

Goto(t, label) == pc' = [pc EXCEPT ![t] = label]

Complete(w) == completed' = [completed EXCEPT ![w] = @ + 1]

SemaphoreInit ==
  /\ count = InitialCount
  /\ waiters = {}
  /\ mu = {}
  /\ pc = [t \in Callers \cup Waiters |-> IF t \in Callers THEN "idle" ELSE "new"]
  /\ taken = [c \in Callers |-> {}]
  /\ completed = [w \in Waiters |-> 0]

-----------------------------------------------------------------------------
\* The test for an emptied count uses < where the code uses <=.
Acquire_StrictTest(c, n) ==
  /\ pc[c] = "idle"
  /\ count - n >= -MaxDebt
  /\ count' = count - n
  /\ Goto(c, IF count < n THEN "take" ELSE "idle")
  /\ UNCHANGED <<waiters, mu, taken, completed>>

\* Acquire(n): count_.fetch_sub(n), and go on to complete the waiters if the
\* previous value was at most n.
Acquire(c, n) ==
  /\ pc[c] = "idle"
  /\ count - n >= -MaxDebt
  /\ count' = count - n
  /\ Goto(c, IF count <= n THEN "take" ELSE "idle")
  /\ UNCHANGED <<waiters, mu, taken, completed>>

\* The list is copied instead of moved.
AcquireTake_Copy(c) ==
  /\ pc[c] = "take"
  /\ mu = {}
  /\ taken' = [taken EXCEPT ![c] = waiters]
  /\ Goto(c, "complete")
  /\ UNCHANGED <<count, waiters, mu, completed>>

\* Acquire: lock waiters_mu_, move the list out, unlock.
AcquireTake(c) ==
  /\ pc[c] = "take"
  /\ mu = {}
  /\ taken' = [taken EXCEPT ![c] = waiters]
  /\ waiters' = {}
  /\ Goto(c, "complete")
  /\ UNCHANGED <<count, mu, completed>>

\* Acquire: for (auto* waiter : waiters) waiter->Complete(); then return.
AcquireComplete(c) ==
  /\ pc[c] = "complete"
  /\ \/ \E w \in taken[c] :
          /\ Complete(w)
          /\ taken' = [taken EXCEPT ![c] = @ \ {w}]
          /\ Goto(w, "done")
     \/ /\ taken[c] = {}
        /\ Goto(c, "idle")
        /\ UNCHANGED <<taken, completed>>
  /\ UNCHANGED <<count, waiters, mu>>

\* Release(n): count_.fetch_add(n); nobody is completed.
Release(c, n) ==
  /\ pc[c] = "idle"
  /\ count + n <= MaxCount
  /\ count' = count + n
  /\ UNCHANGED <<waiters, mu, pc, taken, completed>>

\* OnDrainedOperation::start: lock waiters_mu_ ...
StartLock(w) ==
  /\ pc[w] = "new"
  /\ mu = {}
  /\ mu' = {w}
  /\ Goto(w, "load")
  /\ UNCHANGED <<count, waiters, taken, completed>>

\* The lock covers only the push, not the load before it.
StartLoad_Unlocks(w) ==
  /\ pc[w] = "load"
  /\ \/ /\ count <= 0
        /\ Complete(w)
        /\ Goto(w, "done")
     \/ /\ count > 0
        /\ Goto(w, "push")
        /\ UNCHANGED completed
  /\ mu' = {}
  /\ UNCHANGED <<count, waiters, taken>>

\* ... load count_: complete at once, under the lock, if it is drained ...
StartLoad(w) ==
  /\ pc[w] = "load"
  /\ \/ /\ count <= 0
        /\ Complete(w)
        /\ mu' = {}
        /\ Goto(w, "done")
     \/ /\ count > 0
        /\ Goto(w, "push")
        /\ UNCHANGED <<completed, mu>>
  /\ UNCHANGED <<count, waiters, taken>>

\* ... or join the list; unlock.
StartPush(w) ==
  /\ pc[w] = "push"
  /\ waiters' = waiters \cup {w}
  /\ mu' = {}
  /\ Goto(w, "waiting")
  /\ UNCHANGED <<count, taken, completed>>

SemaphoreNext ==
  \/ \E c \in Callers :
       \/ \E n \in Amounts : Acquire(c, n) \/ Release(c, n)
       \/ AcquireTake(c)
       \/ AcquireComplete(c)
  \/ \E w \in Waiters : StartLock(w) \/ StartLoad(w) \/ StartPush(w)

SemaphoreSpec == SemaphoreInit /\ [][SemaphoreNext]_semaphoreVars

\* A caller inside Acquire and an operation inside start() keep running;
\* nobody has to call Acquire, Release or start().  Strong fairness of
\* AcquireTake: a caller that waits for the mutex gets it in the end although
\* other operations keep locking it.
Fairness ==
  /\ \A c \in Callers : WF_semaphoreVars(AcquireComplete(c)) /\ SF_semaphoreVars(AcquireTake(c))
  /\ \A w \in Waiters : WF_semaphoreVars(StartLoad(w) \/ StartPush(w))

FairSpec == SemaphoreSpec /\ Fairness

-----------------------------------------------------------------------------
\* Type invariant: callers are inside Acquire or idle, operations inside
\* start(), listed or done.
TypeOK ==
  /\ count \in Int
  /\ waiters \subseteq Waiters
  /\ mu \subseteq Waiters
  /\ pc \in [Callers \cup Waiters ->
               {"idle", "take", "complete", "new", "load", "push", "waiting", "done"}]
  /\ taken \in [Callers -> SUBSET Waiters]
  /\ completed \in [Waiters -> Nat]

\* No lost waiter: an operation listed while the count is drained is about to
\* be taken off the list by an Acquire that is already past its fetch_sub
\* (util.h:26-37 against 78-85).
NoLostWaiter ==
  waiters # {} /\ count <= 0 => \E c \in Callers : pc[c] = "take"

\* No operation is completed twice (its receiver's set_value would run twice).
CompletedOnce == \A w \in Waiters : completed[w] <= 1

\* Why no waiter is lost: while an operation is between its load and its push
\* it holds the mutex, and a count drained meanwhile has left an Acquire
\* waiting for that mutex.
Handover ==
  /\ \A w \in Waiters : pc[w] \in {"load", "push"} <=> mu = {w}
  /\ (waiters # {} \/ \E w \in Waiters : pc[w] = "push") /\ count <= 0 =>
       \E c \in Callers : pc[c] = "take"

\* Why none is completed twice: an operation is in at most one list.
Ownership ==
  /\ \A w \in Waiters : completed[w] = IF pc[w] = "done" THEN 1 ELSE 0
  /\ \A w \in waiters : pc[w] = "waiting"
  /\ \A c \in Callers : \A w \in taken[c] : pc[w] = "waiting" /\ w \notin waiters
  /\ \A c, e \in Callers : c # e => taken[c] \cap taken[e] = {}
  /\ \A c \in Callers : pc[c] # "complete" => taken[c] = {}

\* A waiter on a drained semaphore is eventually completed.
DrainedWaiterCompletes ==
  \A w \in Waiters : (pc[w] = "waiting" /\ count <= 0) ~> (pc[w] = "done")
=============================================================================
