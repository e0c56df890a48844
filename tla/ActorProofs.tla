----------------------------- MODULE ActorProofs -----------------------------
(***************************************************************************)
(* Proofs about Actor: IInv is inductive, and with it the mailbox has one  *)
(* consumer, no wakeup and no destruction is lost, and the actor refines   *)
(* SerialActor, for every number of senders, workers, destroyers and       *)
(* messages and every bound on an activation.                              *)
(***************************************************************************)
EXTENDS Actor, FiniteSetTheorems, SequenceTheorems, TLAPS

(* The steps of TryActivate, PushMessage, PullMailboxAndRun and             *)
(* AsyncDestroy, one disjunct per atomic access.                           *)
LEMMA NextCases ==
  ASSUME Next
  PROVE \/ \E t \in Threads : TryActivateCAS(t) \/ Schedule(t)
        \/ \E s \in Senders : PushExchange(s) \/ PushLink(s) \/ PushCount(s)
        \/ \E w \in Workers : Dequeue(w) \/ PullCheckInstance(w) \/ PullCheckDestroy(w)
        \/ \E w \in Workers : PullReset(w) \/ PullDestroyClear(w) \/ PullDestroySub(w)
        \/ \E w \in Workers : PullPop(w) \/ PullExecute(w) \/ PullSub(w)
        \/ \E w \in Workers : PullClear(w) \/ PullRecheck(w) \/ PullReturn(w)
        \/ \E d \in Destroyers : DestroyCAS(d) \/ DestroyCount(d) \/ DestroyWait(d)
        \/ Free
  BY DEF Next, PushMessage, PullMailboxAndRun, AsyncDestroy, TryActivate, Threads

(* Where each kind of thread continues after TryActivate (actor.h:237-245). *)
LEMMA AfterActivateCases ==
  /\ \A s \in Senders : AfterActivate(s) = "idle"
  /\ \A w \in Workers : AfterActivate(w) = "exit"
  /\ \A d \in Destroyers : AfterActivate(d) = "wait"
  BY ThreadsAssumption DEF AfterActivate

(* The initial state of an Actor satisfies the invariant.                  *)
LEMMA InitIInv == Init => IInv
<1> SUFFICES ASSUME Init PROVE IInv
  OBVIOUS
<1>1. TypeOK
  <2>1. PcOK
    BY DEF Init, PcOK, Threads, SenderLabels, WorkerLabels, DestroyerLabels
  <2>2. /\ msg \in [Threads -> Msgs \cup {None}] /\ message_executed \in [Workers -> Nat]
        /\ mailbox \in Seq(Msgs) /\ linked \subseteq Msgs
        /\ pending_message_count \in Int /\ async_scope \in Nat /\ pool \in Nat
        /\ unsent \subseteq Msgs /\ done \subseteq Msgs
    BY DEF Init
  <2>3. /\ activated \in BOOLEAN /\ pending_to_be_destroyed \in BOOLEAN
        /\ user_class_instance \in BOOLEAN /\ freed \in BOOLEAN
    BY DEF Init
  <2> QED BY <2>1, <2>2, <2>3 DEF TypeOK
<1>2. Slots /\ Token /\ TokenExists /\ User /\ Winner /\ Wakeup
  BY DEF Init, Slots, Token, TokenExists, User, Winner, Wakeup, Threads, Holding, Consuming, Won
<1>3. Scope
  <2>1. Busy = {}
    BY DEF Init, Threads, Busy
  <2> QED BY <2>1, FS_EmptySet DEF Scope, Init
<1>4. Counted
  <2>1. Uncounted = {}
    BY DEF Init, Threads, Uncounted
  <2>2. Extra = 0
    BY DEF Init, Threads, Extra, Won
  <2> QED BY <2>1, <2>2, FS_EmptySet DEF Counted, Init, Balance, Batch, Threads
<1> QED BY <1>1, <1>2, <1>3, <1>4 DEF IInv

(* A thread that moves to a label of its own kind keeps the program         *)
(* counters well typed.                                                    *)
LEMMA GotoType ==
  ASSUME PcOK, NEW t \in Threads, NEW l, Goto(t, l),
         \/ t \in Senders /\ l \in SenderLabels
         \/ t \in Workers /\ l \in WorkerLabels
         \/ t \in Destroyers /\ l \in DestroyerLabels
  PROVE  PcOK'
  BY ThreadsAssumption DEF PcOK, Goto, Threads

(* The operations in the scope are counted by a natural number, and taking  *)
(* away the one of a busy worker leaves a natural number.                  *)
LEMMA BusyFinite == IsFiniteSet(Busy) /\ Cardinality(Busy) \in Nat
  BY FiniteAssumption, FS_Subset, FS_CardinalityType DEF Busy

(* A busy worker counts for at least one (actor.h:248-286).                *)
LEMMA BusyMember ==
  ASSUME NEW w \in Workers, pc[w] # "idle"
  PROVE  Cardinality(Busy) >= 1
  BY BusyFinite, FS_EmptySet DEF Busy

(* Every step keeps the types; leaving the scope keeps its count natural    *)
(* because the leaving operation is one of those counted.                  *)
LEMMA TypeStep == IInv /\ Next => TypeOK'
<1> SUFFICES ASSUME TypeOK, Slots, Scope, Next PROVE TypeOK'
  BY DEF IInv
<1>1. ASSUME NEW t \in Threads, TryActivateCAS(t) PROVE TypeOK'
  <2>1. PcOK'
    BY <1>1, GotoType, AfterActivateCases DEF TryActivateCAS, TypeOK, PcOK, Threads, SenderLabels, WorkerLabels, DestroyerLabels
  <2> QED BY <1>1, <2>1 DEF TryActivateCAS, TypeOK, Slots, Threads, locals, queue, scope, ghosts
<1>2. ASSUME NEW t \in Threads, Schedule(t) PROVE TypeOK'
  <2>1. PcOK'
    BY <1>2, GotoType, AfterActivateCases DEF Schedule, TypeOK, PcOK, Threads, SenderLabels, WorkerLabels, DestroyerLabels
  <2> QED BY <1>2, <2>1 DEF Schedule, TypeOK, Slots, Threads, locals, queue, scope, ghosts
<1>3. ASSUME NEW s \in Senders, PushExchange(s) PROVE TypeOK'
  <2>1. PcOK'
    BY <1>3, GotoType, AfterActivateCases DEF PushExchange, TypeOK, PcOK, Threads, SenderLabels, WorkerLabels, DestroyerLabels
  <2> QED BY <1>3, <2>1 DEF PushExchange, TypeOK, Slots, Threads, locals, queue, scope, ghosts
<1>4. ASSUME NEW s \in Senders, PushLink(s) PROVE TypeOK'
  <2>1. PcOK'
    BY <1>4, GotoType, AfterActivateCases DEF PushLink, TypeOK, PcOK, Threads, SenderLabels, WorkerLabels, DestroyerLabels
  <2> QED BY <1>4, <2>1 DEF PushLink, TypeOK, Slots, Threads, locals, queue, scope, ghosts
<1>5. ASSUME NEW s \in Senders, PushCount(s) PROVE TypeOK'
  <2>1. PcOK'
    BY <1>5, GotoType, AfterActivateCases DEF PushCount, TypeOK, PcOK, Threads, SenderLabels, WorkerLabels, DestroyerLabels
  <2> QED BY <1>5, <2>1 DEF PushCount, TypeOK, Slots, Threads, locals, queue, scope, ghosts
<1>6. ASSUME NEW w \in Workers, Dequeue(w) PROVE TypeOK'
  <2>1. PcOK'
    BY <1>6, GotoType, AfterActivateCases DEF Dequeue, TypeOK, PcOK, Threads, SenderLabels, WorkerLabels, DestroyerLabels
  <2> QED BY <1>6, <2>1 DEF Dequeue, TypeOK, Slots, Threads, locals, queue, scope, ghosts
<1>7. ASSUME NEW w \in Workers, PullCheckInstance(w) PROVE TypeOK'
  <2>1. PcOK'
    BY <1>7, GotoType, AfterActivateCases DEF PullCheckInstance, TypeOK, PcOK, Threads, SenderLabels, WorkerLabels, DestroyerLabels, Move
  <2> QED BY <1>7, <2>1 DEF PullCheckInstance, TypeOK, Slots, Threads, locals, queue, scope, ghosts, Move
<1>8. ASSUME NEW w \in Workers, PullCheckDestroy(w) PROVE TypeOK'
  <2>1. PcOK'
    BY <1>8, GotoType, AfterActivateCases DEF PullCheckDestroy, TypeOK, PcOK, Threads, SenderLabels, WorkerLabels, DestroyerLabels, Move
  <2> QED BY <1>8, <2>1 DEF PullCheckDestroy, TypeOK, Slots, Threads, locals, queue, scope, ghosts, Move
<1>9. ASSUME NEW w \in Workers, PullReset(w) PROVE TypeOK'
  <2>1. PcOK'
    BY <1>9, GotoType, AfterActivateCases DEF PullReset, TypeOK, PcOK, Threads, SenderLabels, WorkerLabels, DestroyerLabels
  <2> QED BY <1>9, <2>1 DEF PullReset, TypeOK, Slots, Threads, locals, queue, scope, ghosts
<1>10. ASSUME NEW w \in Workers, PullDestroyClear(w) PROVE TypeOK'
  <2>1. PcOK'
    BY <1>10, GotoType, AfterActivateCases DEF PullDestroyClear, TypeOK, PcOK, Threads, SenderLabels, WorkerLabels, DestroyerLabels
  <2> QED BY <1>10, <2>1 DEF PullDestroyClear, TypeOK, Slots, Threads, locals, queue, scope, ghosts
<1>11. ASSUME NEW w \in Workers, PullDestroySub(w) PROVE TypeOK'
  <2>1. PcOK'
    BY <1>11, GotoType, AfterActivateCases DEF PullDestroySub, TypeOK, PcOK, Threads, SenderLabels, WorkerLabels, DestroyerLabels
  <2> QED BY <1>11, <2>1 DEF PullDestroySub, TypeOK, Slots, Threads, locals, queue, scope, ghosts
<1>12. ASSUME NEW w \in Workers, PullPop(w) PROVE TypeOK'
  <2>1. PcOK'
    BY <1>12, GotoType, AfterActivateCases DEF PullPop, TypeOK, PcOK, Threads, SenderLabels, WorkerLabels, DestroyerLabels
  <2>2. CASE CanPop
    <3>1. Head(mailbox) \in Msgs /\ Tail(mailbox) \in Seq(Msgs)
      BY <2>2, HeadTailProperties DEF CanPop, TypeOK
    <3> QED BY <1>12, <2>1, <2>2, <3>1 DEF PullPop, TypeOK, Threads, scope, ghosts
  <2>3. CASE ~CanPop
    BY <1>12, <2>1, <2>3 DEF PullPop, TypeOK, scope, ghosts
  <2> QED BY <2>2, <2>3
<1>13. ASSUME NEW w \in Workers, PullExecute(w) PROVE TypeOK'
  <2>1. PcOK'
    BY <1>13, GotoType, AfterActivateCases DEF PullExecute, TypeOK, PcOK, Threads, SenderLabels, WorkerLabels, DestroyerLabels
  <2> QED BY <1>13, <2>1 DEF PullExecute, TypeOK, Slots, Threads, locals, queue, scope, ghosts
<1>14. ASSUME NEW w \in Workers, PullSub(w) PROVE TypeOK'
  <2>1. PcOK'
    BY <1>14, GotoType, AfterActivateCases DEF PullSub, TypeOK, PcOK, Threads, SenderLabels, WorkerLabels, DestroyerLabels
  <2> QED BY <1>14, <2>1 DEF PullSub, TypeOK, Slots, Threads, locals, queue, scope, ghosts
<1>15. ASSUME NEW w \in Workers, PullClear(w) PROVE TypeOK'
  <2>1. PcOK'
    BY <1>15, GotoType, AfterActivateCases DEF PullClear, TypeOK, PcOK, Threads, SenderLabels, WorkerLabels, DestroyerLabels
  <2> QED BY <1>15, <2>1 DEF PullClear, TypeOK, Slots, Threads, locals, queue, scope, ghosts
<1>16. ASSUME NEW w \in Workers, PullRecheck(w) PROVE TypeOK'
  <2>1. PcOK'
    BY <1>16, GotoType, AfterActivateCases DEF PullRecheck, TypeOK, PcOK, Threads, SenderLabels, WorkerLabels, DestroyerLabels, Move
  <2> QED BY <1>16, <2>1 DEF PullRecheck, TypeOK, Slots, Threads, locals, queue, scope, ghosts, Move
<1>17. ASSUME NEW w \in Workers, PullReturn(w) PROVE TypeOK'
  <2>1. PcOK'
    BY <1>17, GotoType, AfterActivateCases DEF PullReturn, TypeOK, PcOK, Threads, SenderLabels, WorkerLabels, DestroyerLabels
  <2>2. async_scope - 1 \in Nat
    BY <1>17, BusyMember, BusyFinite DEF PullReturn, TypeOK, Scope
  <2> QED BY <1>17, <2>1, <2>2 DEF PullReturn, TypeOK, Slots, Threads, locals, queue, scope, ghosts
<1>18. ASSUME NEW d \in Destroyers, DestroyCAS(d) PROVE TypeOK'
  <2>1. PcOK'
    BY <1>18, GotoType, AfterActivateCases DEF DestroyCAS, TypeOK, PcOK, Threads, SenderLabels, WorkerLabels, DestroyerLabels
  <2> QED BY <1>18, <2>1 DEF DestroyCAS, TypeOK, Slots, Threads, locals, queue, scope, ghosts
<1>19. ASSUME NEW d \in Destroyers, DestroyCount(d) PROVE TypeOK'
  <2>1. PcOK'
    BY <1>19, GotoType, AfterActivateCases DEF DestroyCount, TypeOK, PcOK, Threads, SenderLabels, WorkerLabels, DestroyerLabels
  <2> QED BY <1>19, <2>1 DEF DestroyCount, TypeOK, Slots, Threads, locals, queue, scope, ghosts
<1>20. ASSUME NEW d \in Destroyers, DestroyWait(d) PROVE TypeOK'
  <2>1. PcOK'
    BY <1>20, GotoType, AfterActivateCases DEF DestroyWait, TypeOK, PcOK, Threads, SenderLabels, WorkerLabels, DestroyerLabels, Move
  <2> QED BY <1>20, <2>1 DEF DestroyWait, TypeOK, Slots, Threads, locals, queue, scope, ghosts, Move
<1>21. CASE Free
  BY <1>21 DEF Free, TypeOK, PcOK, locals, queue, scope
<1> QED BY <1>1, <1>2, <1>3, <1>4, <1>5, <1>6, <1>7, <1>8, <1>9, <1>10, <1>11, <1>12, <1>13, <1>14, <1>15, <1>16, <1>17, <1>18, <1>19, <1>20, <1>21, NextCases

(* Messages stay with the threads that push or execute them.               *)
LEMMA SlotsStep == IInv /\ Next => Slots'
<1> SUFFICES ASSUME TypeOK, Slots, Next PROVE Slots'
  BY DEF IInv
<1> USE AfterActivateCases, ThreadsAssumption
    DEF TypeOK, PcOK, Slots, Threads, Goto, locals
<1>1. CASE \E t \in Threads : TryActivateCAS(t) \/ Schedule(t)
  BY <1>1 DEF TryActivateCAS, Schedule
<1>2. CASE \E s \in Senders : PushExchange(s) \/ PushLink(s) \/ PushCount(s)
  BY <1>2 DEF PushExchange, PushLink, PushCount
<1>3. CASE \E w \in Workers : Dequeue(w) \/ PullCheckInstance(w) \/ PullCheckDestroy(w)
  BY <1>3 DEF Dequeue, PullCheckInstance, PullCheckDestroy, Move
<1>4. CASE \E w \in Workers : PullReset(w) \/ PullDestroyClear(w) \/ PullDestroySub(w)
  BY <1>4 DEF PullReset, PullDestroyClear, PullDestroySub
<1>5. CASE \E w \in Workers : PullPop(w) \/ PullExecute(w) \/ PullSub(w)
  BY <1>5, HeadTailProperties DEF PullPop, PullExecute, PullSub, CanPop
<1>6. CASE \E w \in Workers : PullClear(w) \/ PullRecheck(w) \/ PullReturn(w)
  BY <1>6 DEF PullClear, PullRecheck, PullReturn, Move
<1>7. CASE \E d \in Destroyers : DestroyCAS(d) \/ DestroyCount(d) \/ DestroyWait(d)
  BY <1>7 DEF DestroyCAS, DestroyCount, DestroyWait, Move
<1>8. CASE Free
  BY <1>8 DEF Free
<1> QED BY <1>1, <1>2, <1>3, <1>4, <1>5, <1>6, <1>7, <1>8, NextCases

(* Steps that neither start nor end a run of PullMailboxAndRun leave the    *)
(* set of busy workers alone.                                              *)
LEMMA BusySame ==
  ASSUME TypeOK, NEW t \in Threads, NEW l, Goto(t, l),
         t \in Workers => pc[t] # "idle" /\ l # "idle"
  PROVE  Busy' = Busy
  BY DEF TypeOK, PcOK, Threads, Goto, Busy

(* The scope's count follows Schedule, Dequeue and the return of an         *)
(* operation (actor.h:78-88).                                              *)
LEMMA ScopeStep == IInv /\ Next => Scope'
<1> SUFFICES ASSUME TypeOK, Scope, Next PROVE Scope'
  BY DEF IInv
<1> USE DEF Scope, scope
<1>1. CASE \E t \in Threads : TryActivateCAS(t) \/ Schedule(t)
  <2> PICK t \in Threads : TryActivateCAS(t) \/ Schedule(t)
    BY <1>1
  <2>1. Busy' = Busy
    BY BusySame, AfterActivateCases DEF TryActivateCAS, Schedule
  <2> QED BY <2>1, BusyFinite DEF TryActivateCAS, Schedule, TypeOK
<1>2. CASE \E s \in Senders : PushExchange(s) \/ PushLink(s) \/ PushCount(s)
  <2>1. Busy' = Busy
    BY <1>2, BusySame, ThreadsAssumption DEF PushExchange, PushLink, PushCount, Threads
  <2> QED BY <1>2, <2>1 DEF PushExchange, PushLink, PushCount
<1>3. ASSUME NEW w \in Workers, Dequeue(w) PROVE Scope'
  <2>1. Busy' = Busy \cup {w} /\ w \notin Busy
    BY <1>3 DEF Dequeue, Busy, Goto, TypeOK, PcOK, Threads
  <2>2. Cardinality(Busy') = Cardinality(Busy) + 1
    BY <2>1, BusyFinite, FS_AddElement
  <2> QED BY <1>3, <2>2, BusyFinite DEF Dequeue, TypeOK
<1>4. ASSUME NEW w \in Workers, PullReturn(w) PROVE Scope'
  <2>1. Busy' = Busy \ {w} /\ w \in Busy
    BY <1>4 DEF PullReturn, Busy, Goto, TypeOK, PcOK, Threads
  <2>2. Cardinality(Busy') = Cardinality(Busy) - 1
    BY <2>1, BusyFinite, FS_RemoveElement
  <2> QED BY <1>4, <2>2, BusyFinite DEF PullReturn, TypeOK
<1>5. ASSUME NEW w \in Workers,
             \/ PullCheckInstance(w) \/ PullCheckDestroy(w) \/ PullReset(w)
             \/ PullDestroyClear(w) \/ PullDestroySub(w) \/ PullPop(w)
             \/ PullExecute(w) \/ PullSub(w) \/ PullClear(w) \/ PullRecheck(w)
      PROVE Scope'
  <2>1. Busy' = Busy
    BY <1>5, BusySame DEF PullCheckInstance, PullCheckDestroy, PullReset, PullDestroyClear,
       PullDestroySub, PullPop, PullExecute, PullSub, PullClear, PullRecheck, Threads, Move
  <2> QED
    BY <1>5, <2>1 DEF PullCheckInstance, PullCheckDestroy, PullReset, PullDestroyClear,
       PullDestroySub, PullPop, PullExecute, PullSub, PullClear, PullRecheck, Move
<1>6. CASE \E d \in Destroyers : DestroyCAS(d) \/ DestroyCount(d) \/ DestroyWait(d)
  <2>1. Busy' = Busy
    BY <1>6, BusySame, ThreadsAssumption DEF DestroyCAS, DestroyCount, DestroyWait, Threads, Move
  <2> QED BY <1>6, <2>1 DEF DestroyCAS, DestroyCount, DestroyWait, Move
<1>7. CASE Free
  BY <1>7 DEF Free, Busy
<1> QED BY <1>1, <1>2, <1>3, <1>4, <1>5, <1>6, <1>7, NextCases

(* The token is created by a successful compare-and-swap only when there is  *)
(* none, moves without being copied, and goes when activated_ is cleared.  *)
LEMMA TokenStep == IInv /\ Next => Token'
<1> SUFFICES ASSUME TypeOK, Token, Next PROVE Token'
  BY DEF IInv
<1> USE AfterActivateCases, ThreadsAssumption
    DEF TypeOK, PcOK, Token, Holding, Consuming, Threads, Goto, scope
<1>1. CASE \E t \in Threads : TryActivateCAS(t) \/ Schedule(t)
  BY <1>1 DEF TryActivateCAS, Schedule
<1>2. CASE \E s \in Senders : PushExchange(s) \/ PushLink(s) \/ PushCount(s)
  BY <1>2 DEF PushExchange, PushLink, PushCount
<1>3. CASE \E w \in Workers : Dequeue(w) \/ PullCheckInstance(w) \/ PullCheckDestroy(w)
  BY <1>3 DEF Dequeue, PullCheckInstance, PullCheckDestroy, Move
<1>4. CASE \E w \in Workers : PullReset(w) \/ PullDestroyClear(w) \/ PullDestroySub(w)
  BY <1>4 DEF PullReset, PullDestroyClear, PullDestroySub
<1>5. CASE \E w \in Workers : PullPop(w) \/ PullExecute(w) \/ PullSub(w)
  BY <1>5 DEF PullPop, PullExecute, PullSub
<1>6. CASE \E w \in Workers : PullClear(w) \/ PullRecheck(w) \/ PullReturn(w)
  BY <1>6 DEF PullClear, PullRecheck, PullReturn, Move
<1>7. CASE \E d \in Destroyers : DestroyCAS(d) \/ DestroyCount(d) \/ DestroyWait(d)
  BY <1>7 DEF DestroyCAS, DestroyCount, DestroyWait, Move
<1>8. CASE Free
  BY <1>8 DEF Free
<1> QED BY <1>1, <1>2, <1>3, <1>4, <1>5, <1>6, <1>7, <1>8, NextCases

(* Only the return of a run that found the user object gone leaves          *)
(* activated_ set without a token.                                         *)
LEMMA TokenExistsStep == IInv /\ Next => TokenExists'
<1> SUFFICES ASSUME TypeOK, Token, TokenExists, User, Next PROVE TokenExists'
  BY DEF IInv
<1> USE AfterActivateCases, ThreadsAssumption
    DEF TypeOK, PcOK, Token, TokenExists, User, Holding, Consuming, Threads, Goto, scope
<1>1. CASE \E t \in Threads : TryActivateCAS(t) \/ Schedule(t)
  <2> PICK t \in Threads : TryActivateCAS(t) \/ Schedule(t)
    BY <1>1
  <2>1. CASE TryActivateCAS(t) /\ ~activated
    BY <2>1 DEF TryActivateCAS
  <2>2. CASE TryActivateCAS(t) /\ activated
    BY <2>2 DEF TryActivateCAS
  <2>3. CASE Schedule(t)
    BY <2>3 DEF Schedule
  <2> QED BY <2>1, <2>2, <2>3
<1>2. CASE \E s \in Senders : PushExchange(s) \/ PushLink(s) \/ PushCount(s)
  BY <1>2 DEF PushExchange, PushLink, PushCount
<1>3. CASE \E w \in Workers : Dequeue(w) \/ PullCheckInstance(w) \/ PullCheckDestroy(w)
  BY <1>3 DEF Dequeue, PullCheckInstance, PullCheckDestroy, Move
<1>4. CASE \E w \in Workers : PullReset(w) \/ PullDestroyClear(w) \/ PullDestroySub(w)
  BY <1>4 DEF PullReset, PullDestroyClear, PullDestroySub
<1>5. CASE \E w \in Workers : PullPop(w) \/ PullExecute(w) \/ PullSub(w)
  BY <1>5 DEF PullPop, PullExecute, PullSub
<1>6. CASE \E w \in Workers : PullClear(w) \/ PullRecheck(w) \/ PullReturn(w)
  BY <1>6 DEF PullClear, PullRecheck, PullReturn, Move
<1>7. CASE \E d \in Destroyers : DestroyCAS(d) \/ DestroyCount(d) \/ DestroyWait(d)
  BY <1>7 DEF DestroyCAS, DestroyCount, DestroyWait, Move
<1>8. CASE Free
  BY <1>8 DEF Free
<1> QED BY <1>1, <1>2, <1>3, <1>4, <1>5, <1>6, <1>7, <1>8, NextCases

(* The user object goes only at PullReset, when no other worker uses it.    *)
LEMMA UserStep == IInv /\ Next => User'
<1> SUFFICES ASSUME TypeOK, Token, User, Next PROVE User'
  BY DEF IInv
<1> USE AfterActivateCases, ThreadsAssumption
    DEF TypeOK, PcOK, Token, User, Holding, Consuming, Threads, Goto, scope
<1>1. CASE \E t \in Threads : TryActivateCAS(t) \/ Schedule(t)
  BY <1>1 DEF TryActivateCAS, Schedule
<1>2. CASE \E s \in Senders : PushExchange(s) \/ PushLink(s) \/ PushCount(s)
  BY <1>2 DEF PushExchange, PushLink, PushCount
<1>3. CASE \E w \in Workers : Dequeue(w) \/ PullCheckInstance(w) \/ PullCheckDestroy(w)
  BY <1>3 DEF Dequeue, PullCheckInstance, PullCheckDestroy, Move
<1>4. CASE \E w \in Workers : PullReset(w) \/ PullDestroyClear(w) \/ PullDestroySub(w)
  BY <1>4 DEF PullReset, PullDestroyClear, PullDestroySub
<1>5. CASE \E w \in Workers : PullPop(w) \/ PullExecute(w) \/ PullSub(w)
  BY <1>5 DEF PullPop, PullExecute, PullSub
<1>6. CASE \E w \in Workers : PullClear(w) \/ PullRecheck(w) \/ PullReturn(w)
  BY <1>6 DEF PullClear, PullRecheck, PullReturn, Move
<1>7. CASE \E d \in Destroyers : DestroyCAS(d) \/ DestroyCount(d) \/ DestroyWait(d)
  BY <1>7 DEF DestroyCAS, DestroyCount, DestroyWait, Move
<1>8. CASE Free
  BY <1>8 DEF Free
<1> QED BY <1>1, <1>2, <1>3, <1>4, <1>5, <1>6, <1>7, <1>8, NextCases

(* The flag pending_to_be_destroyed_ is won once.                          *)
LEMMA WinnerStep == IInv /\ Next => Winner'
<1> SUFFICES ASSUME TypeOK, Winner, Next PROVE Winner'
  BY DEF IInv
<1> USE AfterActivateCases, ThreadsAssumption
    DEF TypeOK, PcOK, Winner, Won, Threads, Goto
<1>1. CASE \E t \in Threads : TryActivateCAS(t) \/ Schedule(t)
  BY <1>1 DEF TryActivateCAS, Schedule
<1>2. CASE \E s \in Senders : PushExchange(s) \/ PushLink(s) \/ PushCount(s)
  BY <1>2 DEF PushExchange, PushLink, PushCount
<1>3. CASE \E w \in Workers : Dequeue(w) \/ PullCheckInstance(w) \/ PullCheckDestroy(w)
  BY <1>3 DEF Dequeue, PullCheckInstance, PullCheckDestroy, Move
<1>4. CASE \E w \in Workers : PullReset(w) \/ PullDestroyClear(w) \/ PullDestroySub(w)
  BY <1>4 DEF PullReset, PullDestroyClear, PullDestroySub
<1>5. CASE \E w \in Workers : PullPop(w) \/ PullExecute(w) \/ PullSub(w)
  BY <1>5 DEF PullPop, PullExecute, PullSub
<1>6. CASE \E w \in Workers : PullClear(w) \/ PullRecheck(w) \/ PullReturn(w)
  BY <1>6 DEF PullClear, PullRecheck, PullReturn, Move
<1>7. CASE \E d \in Destroyers : DestroyCAS(d) \/ DestroyCount(d) \/ DestroyWait(d)
  BY <1>7 DEF DestroyCAS, DestroyCount, DestroyWait, Move
<1>8. CASE Free
  BY <1>8 DEF Free
<1> QED BY <1>1, <1>2, <1>3, <1>4, <1>5, <1>6, <1>7, <1>8, NextCases

(* A thread that is about to look at the flag stays so while others move,   *)
(* and one that gets there is a new one.                                   *)
LEMMA WakerKept ==
  ASSUME TypeOK, NEW t \in Threads, NEW l, Goto(t, l), pc[t] \notin {"activate", "recheck"},
         \E u \in Threads : pc[u] \in {"activate", "recheck"}
  PROVE  \E u \in Threads : pc'[u] \in {"activate", "recheck"}
  BY DEF TypeOK, PcOK, Goto

(* A thread that arrives before TryActivate is a waker of its own.          *)
LEMMA WakerNew ==
  ASSUME TypeOK, NEW t \in Threads, NEW l \in {"activate", "recheck"}, Goto(t, l)
  PROVE  \E u \in Threads : pc'[u] \in {"activate", "recheck"}
  BY DEF TypeOK, PcOK, Goto

(* Whoever raises the count above zero, and whoever clears activated_,      *)
(* still has to look at the other one (actor.h:218-223, 279-285).          *)
LEMMA WakeupStep == IInv /\ Next => Wakeup'
<1> SUFFICES ASSUME TypeOK, Token, User, Wakeup, Next,
                    user_class_instance', ~activated', pending_message_count' # 0
             PROVE  \E u \in Threads : pc'[u] \in {"activate", "recheck"}
  BY DEF IInv, Wakeup
<1>1. ASSUME NEW t \in Threads, TryActivateCAS(t) \/ Schedule(t) PROVE FALSE
  BY <1>1 DEF TryActivateCAS, Schedule, Token, Holding, TypeOK
<1>2. ASSUME NEW s \in Senders, PushExchange(s) \/ PushLink(s)
      PROVE  \E u \in Threads : pc'[u] \in {"activate", "recheck"}
  BY <1>2, WakerKept DEF PushExchange, PushLink, Wakeup, Threads
<1>3. ASSUME NEW s \in Senders, PushCount(s)
      PROVE  \E u \in Threads : pc'[u] \in {"activate", "recheck"}
  BY <1>3, WakerNew DEF PushCount, Threads
<1>4. ASSUME NEW w \in Workers,
             \/ Dequeue(w) \/ PullCheckInstance(w) \/ PullCheckDestroy(w) \/ PullReset(w)
             \/ PullPop(w) \/ PullExecute(w) \/ PullSub(w)
      PROVE  FALSE
  <2>1. CASE Dequeue(w)
    BY <2>1 DEF Dequeue, Token, TypeOK
  <2>2. CASE ~Dequeue(w)
    <3>1. pc[w] \in Holding /\ w \in Threads
      BY <1>4, <2>2 DEF PullCheckInstance, PullCheckDestroy, PullReset, PullPop,
         PullExecute, PullSub, Holding, Consuming, Threads, Move
    <3>2. activated
      BY <3>1 DEF Token
    <3>3. activated' = activated
      BY <1>4, <2>2 DEF PullCheckInstance, PullCheckDestroy, PullReset, PullPop,
         PullExecute, PullSub, Move
    <3> QED BY <3>2, <3>3
  <2> QED BY <2>1, <2>2
<1>5. ASSUME NEW w \in Workers, PullDestroyClear(w) \/ PullDestroySub(w) PROVE FALSE
  BY <1>5 DEF PullDestroyClear, PullDestroySub, User
<1>6. ASSUME NEW w \in Workers, PullClear(w) \/ PullRecheck(w)
      PROVE  \E u \in Threads : pc'[u] \in {"activate", "recheck"}
  BY <1>6, WakerNew DEF PullClear, PullRecheck, Threads, Move
<1>7. ASSUME NEW w \in Workers, PullReturn(w)
      PROVE  \E u \in Threads : pc'[u] \in {"activate", "recheck"}
  BY <1>7, WakerKept DEF PullReturn, Wakeup, Threads
<1>8. ASSUME NEW d \in Destroyers, DestroyCAS(d) \/ DestroyWait(d)
      PROVE  \E u \in Threads : pc'[u] \in {"activate", "recheck"}
  BY <1>8, WakerKept DEF DestroyCAS, DestroyWait, Wakeup, Threads, Move
<1>9. ASSUME NEW d \in Destroyers, DestroyCount(d)
      PROVE  \E u \in Threads : pc'[u] \in {"activate", "recheck"}
  BY <1>9, WakerNew DEF DestroyCount, Threads
<1>10. CASE Free
  BY <1>10 DEF Free, Wakeup
<1> QED BY <1>1, <1>2, <1>3, <1>4, <1>5, <1>6, <1>7, <1>8, <1>9, <1>10, NextCases

(* The terms of the balance are integers.                                  *)
LEMMA BalanceType ==
  ASSUME TypeOK
  PROVE  /\ IsFiniteSet(Uncounted) /\ Cardinality(Uncounted) \in Nat
         /\ Extra \in {0, 1}
         /\ Len(mailbox) \in Nat
         /\ Balance \in Int
<1>1. IsFiniteSet(Uncounted) /\ Cardinality(Uncounted) \in Nat
  BY FiniteAssumption, FS_Subset, FS_CardinalityType DEF Uncounted
<1>2. Extra \in {0, 1}
  BY DEF Extra
<1>3. Len(mailbox) \in Nat
  BY LenProperties DEF TypeOK
<1> QED BY <1>1, <1>2, <1>3 DEF Balance, TypeOK

(* Which moves leave the uncounted pushes, and the request to destroy, as   *)
(* they are.                                                               *)
LEMMA UncountedSame ==
  ASSUME TypeOK, NEW t \in Threads, NEW l, Goto(t, l),
         t \in Senders => (pc[t] \in {"link", "count"} <=> l \in {"link", "count"})
  PROVE  Uncounted' = Uncounted
  BY DEF TypeOK, PcOK, Threads, Goto, Uncounted

(* A step of a sender or a worker leaves the count of AsyncDestroy alone.   *)
LEMMA ExtraSame ==
  ASSUME TypeOK, NEW t \in Threads, NEW l, Goto(t, l),
         t \in Destroyers => (pc[t] \in Won \ {"count"} <=> l \in Won \ {"count"})
  PROVE  Extra' = Extra
<1>1. (\E d \in Destroyers : pc'[d] \in Won \ {"count"})
        <=> (\E d \in Destroyers : pc[d] \in Won \ {"count"})
  BY DEF TypeOK, PcOK, Threads, Goto
<1> QED BY <1>1 DEF Extra

(* A step outside a batch that keeps the balance keeps Counted.             *)
LEMMA CountedSame ==
  ASSUME TypeOK, Counted, NEW t \in Threads, NEW l, Goto(t, l),
         t \in Workers => pc[t] \notin Batch /\ l \notin Batch,
         message_executed' = message_executed,
         user_class_instance' => user_class_instance /\ Balance' = Balance
  PROVE  Counted'
<1>1. \A w \in Workers : (pc'[w] \in Batch <=> pc[w] \in Batch)
                           /\ (pc[w] \in Batch => pc'[w] = pc[w])
  BY DEF TypeOK, PcOK, Threads, Goto
<1>2. \A w \in Workers : pc[w] \in Batch => Popped(w)' = Popped(w)
  BY <1>1 DEF Popped
<1> QED BY <1>1, <1>2 DEF Counted

(* The count stays in step with the mailbox.                                *)
LEMMA CountedStep == IInv /\ Next => Counted'
<1> SUFFICES ASSUME TypeOK, Token, User, Winner, Counted, Next PROVE Counted'
  BY DEF IInv
<1>1. ASSUME NEW t \in Threads, TryActivateCAS(t) \/ Schedule(t) PROVE Counted'
  <2> PICK l : Goto(t, l) /\ l \in {"schedule", AfterActivate(t)}
    BY <1>1 DEF TryActivateCAS, Schedule
  <2>0. pc[t] \in {"activate", "schedule"}
    BY <1>1 DEF TryActivateCAS, Schedule
  <2>1. Uncounted' = Uncounted
    BY <2>0, UncountedSame, AfterActivateCases
  <2>2. Extra' = Extra
    BY <2>0, ExtraSame, AfterActivateCases DEF Won
  <2>3. Balance' = Balance
    BY <1>1, <2>1, <2>2 DEF Balance, TryActivateCAS, Schedule, queue
  <2>4. t \in Workers => pc[t] \notin Batch /\ l \notin Batch
    BY <2>0, AfterActivateCases DEF Batch
  <2> QED BY <1>1, <2>3, <2>4, CountedSame DEF TryActivateCAS, Schedule, locals
<1>2. ASSUME NEW s \in Senders, PushExchange(s) PROVE Counted'
  <2>1. Uncounted' = Uncounted \cup {s} /\ s \notin Uncounted
    BY <1>2 DEF PushExchange, Uncounted, Goto, TypeOK, PcOK, Threads
  <2>2. Cardinality(Uncounted') = Cardinality(Uncounted) + 1
    BY <2>1, BalanceType, FS_AddElement
  <2>3. Extra' = Extra
    BY <1>2, ExtraSame, ThreadsAssumption DEF PushExchange, Threads
  <2>4. Len(mailbox') = Len(mailbox) + 1
    BY <1>2, AppendProperties DEF PushExchange, TypeOK
  <2>5. Balance' = Balance
    BY <1>2, <2>2, <2>3, <2>4, BalanceType DEF PushExchange, Balance, TypeOK
  <2> QED BY <1>2, <2>5, CountedSame, ThreadsAssumption DEF PushExchange, Threads
<1>3. ASSUME NEW s \in Senders, PushLink(s) PROVE Counted'
  <2>1. Uncounted' = Uncounted
    BY <1>3, UncountedSame DEF PushLink, Threads
  <2>2. Extra' = Extra
    BY <1>3, ExtraSame, ThreadsAssumption DEF PushLink, Threads
  <2>3. Balance' = Balance
    BY <1>3, <2>1, <2>2 DEF PushLink, Balance
  <2> QED BY <1>3, <2>3, CountedSame, ThreadsAssumption DEF PushLink, Threads, locals
<1>4. ASSUME NEW s \in Senders, PushCount(s) PROVE Counted'
  <2>1. Uncounted' = Uncounted \ {s} /\ s \in Uncounted
    BY <1>4 DEF PushCount, Uncounted, Goto, TypeOK, PcOK, Threads
  <2>2. Cardinality(Uncounted') = Cardinality(Uncounted) - 1
    BY <2>1, BalanceType, FS_RemoveElement
  <2>3. Extra' = Extra
    BY <1>4, ExtraSame, ThreadsAssumption DEF PushCount, Threads
  <2>4. Balance' = Balance
    BY <1>4, <2>2, <2>3, BalanceType DEF PushCount, Balance, TypeOK, queue
  <2> QED BY <1>4, <2>4, CountedSame, ThreadsAssumption DEF PushCount, Threads
<1>5. ASSUME NEW w \in Workers,
             \/ Dequeue(w) \/ PullCheckInstance(w) \/ PullReset(w) \/ PullDestroyClear(w)
             \/ PullClear(w) \/ PullRecheck(w) \/ PullReturn(w)
      PROVE Counted'
  <2> PICK l : Goto(w, l) /\ l \notin Batch
    BY <1>5 DEF Dequeue, PullCheckInstance, PullReset, PullDestroyClear, PullClear,
       PullRecheck, PullReturn, Batch, Move
  <2>1. pc[w] \notin Batch
    BY <1>5 DEF Dequeue, PullCheckInstance, PullReset, PullDestroyClear, PullClear,
       PullRecheck, PullReturn, Batch, Move
  <2>2. Uncounted' = Uncounted /\ Extra' = Extra
    BY UncountedSame, ExtraSame, ThreadsAssumption DEF Threads
  <2>3. Balance' = Balance /\ message_executed' = message_executed
        /\ (user_class_instance' => user_class_instance)
    BY <1>5, <2>2 DEF Dequeue, PullCheckInstance, PullReset, PullDestroyClear, PullClear,
       PullRecheck, PullReturn, Balance, queue, locals, Move
  <2> QED BY <2>1, <2>3, CountedSame DEF Threads
<1>6. ASSUME NEW w \in Workers, PullDestroySub(w) PROVE Counted'
  BY <1>6, CountedSame DEF PullDestroySub, User, Batch, Threads, locals
<1> DEFINE Sole(w) == \A v \in Workers : pc[v] \in Holding => v = w
<1>7. ASSUME NEW w \in Workers, pc[w] \in Holding PROVE Sole(w)
  BY <1>7 DEF Token, Threads
<1>8. ASSUME NEW w \in Workers, NEW l, Goto(w, l)
      PROVE  Uncounted' = Uncounted /\ Extra' = Extra
  BY <1>8, UncountedSame, ExtraSame, ThreadsAssumption DEF Threads
<1>9. ASSUME NEW w \in Workers, PullCheckDestroy(w) PROVE Counted'
  <2>1. \A v \in Workers : pc[v] \notin Batch
    BY <1>9, <1>7 DEF PullCheckDestroy, Holding, Consuming, Batch, Move
  <2>2. Balance' = Balance
    BY <1>9, <1>8 DEF PullCheckDestroy, Balance, queue, Move
  <2>3. user_class_instance => Balance = 0
    BY <2>1 DEF Counted
  <2>4. \A v \in Workers : message_executed[v] = 0
    BY <2>1 DEF Counted
  <2>5. \A v \in Workers : pc'[v] # "exec"
    BY <1>9, <2>1 DEF PullCheckDestroy, Goto, Batch, TypeOK, PcOK, Threads, Move
  <2>6. \A v \in Workers : Popped(v)' = 0
    BY <1>9, <2>4, <2>5 DEF Popped, PullCheckDestroy, locals, Move
  <2> QED BY <1>9, <2>2, <2>3, <2>4, <2>6 DEF Counted, PullCheckDestroy, locals, Move
<1>10. ASSUME NEW w \in Workers, PullPop(w) PROVE Counted'
  <2>1. \A v \in Workers : pc[v] \in Batch <=> v = w
    BY <1>10, <1>7 DEF PullPop, Holding, Consuming, Batch
  <2>2. \A v \in Workers : pc'[v] \in Batch <=> v = w
    BY <1>10, <2>1 DEF PullPop, Goto, Batch, TypeOK, PcOK, Threads
  <2>3. user_class_instance => Balance = message_executed[w]
    BY <1>10, <2>1 DEF PullPop, Counted, Popped, Batch, TypeOK
  <2>4. Uncounted' = Uncounted /\ Extra' = Extra
    BY <1>10, <1>8 DEF PullPop
  <2>5. CASE CanPop
    <3>1. Len(mailbox') = Len(mailbox) - 1
      BY <1>10, <2>5, HeadTailProperties DEF PullPop, CanPop, TypeOK
    <3>2. Balance' = Balance + 1
      BY <1>10, <2>4, <3>1, BalanceType DEF PullPop, Balance, TypeOK
    <3>3. Popped(w)' = message_executed[w] + 1
      BY <1>10, <2>5 DEF PullPop, Popped, Goto, TypeOK, PcOK, Threads
    <3> QED BY <1>10, <2>1, <2>2, <2>3, <3>2, <3>3 DEF Counted, PullPop
  <2>6. CASE ~CanPop
    <3>1. Balance' = Balance
      BY <1>10, <2>4, <2>6 DEF PullPop, Balance
    <3>2. Popped(w)' = message_executed[w]
      BY <1>10, <2>6 DEF PullPop, Popped, Goto, TypeOK, PcOK, Threads
    <3> QED BY <1>10, <2>1, <2>2, <2>3, <3>1, <3>2 DEF Counted, PullPop
  <2> QED BY <2>5, <2>6
<1>11. ASSUME NEW w \in Workers, PullExecute(w) PROVE Counted'
  <2>1. \A v \in Workers : pc[v] \in Batch <=> v = w
    BY <1>11, <1>7 DEF PullExecute, Holding, Consuming, Batch
  <2>2. \A v \in Workers : pc'[v] \in Batch <=> v = w
    BY <1>11, <2>1 DEF PullExecute, Goto, Batch, TypeOK, PcOK, Threads
  <2>3. user_class_instance => Balance = message_executed[w] + 1
    BY <1>11, <2>1 DEF PullExecute, Counted, Popped, Batch, TypeOK
  <2>4. Uncounted' = Uncounted /\ Extra' = Extra
    BY <1>11, <1>8 DEF PullExecute
  <2>5. Balance' = Balance
    BY <1>11, <2>4 DEF PullExecute, Balance, queue
  <2>6. Popped(w)' = message_executed[w] + 1
    BY <1>11 DEF PullExecute, Popped, Goto, TypeOK, PcOK, Threads
  <2>7. \A v \in Workers : v # w => message_executed'[v] = message_executed[v]
    BY <1>11 DEF PullExecute, TypeOK
  <2> QED BY <1>11, <2>1, <2>2, <2>3, <2>5, <2>6, <2>7 DEF Counted, PullExecute
<1>12. ASSUME NEW w \in Workers, PullSub(w) PROVE Counted'
  <2>1. \A v \in Workers : pc[v] \in Batch <=> v = w
    BY <1>12, <1>7 DEF PullSub, Holding, Consuming, Batch
  <2>2. \A v \in Workers : pc'[v] \notin Batch
    BY <1>12, <2>1 DEF PullSub, Goto, Batch, TypeOK, PcOK, Threads
  <2>3. user_class_instance => Balance = message_executed[w]
    BY <1>12, <2>1 DEF PullSub, Counted, Popped, Batch, TypeOK
  <2>4. Uncounted' = Uncounted /\ Extra' = Extra
    BY <1>12, <1>8 DEF PullSub
  <2>5. Balance' = Balance - message_executed[w]
    BY <1>12, <2>4, BalanceType DEF PullSub, Balance, queue, TypeOK
  <2>6. \A v \in Workers : message_executed'[v] = 0
    BY <1>12, <2>1 DEF PullSub, Counted, TypeOK
  <2> QED BY <1>12, <2>2, <2>3, <2>5, <2>6, BalanceType DEF Counted, PullSub
<1>13. ASSUME NEW d \in Destroyers, DestroyCAS(d) \/ DestroyWait(d) PROVE Counted'
  <2> PICK l : Goto(d, l) /\ (pc[d] \in Won \ {"count"} <=> l \in Won \ {"count"})
    BY <1>13 DEF DestroyCAS, DestroyWait, Won, Move
  <2>1. Uncounted' = Uncounted /\ Extra' = Extra
    BY UncountedSame, ExtraSame, ThreadsAssumption DEF Threads
  <2>2. Balance' = Balance
    BY <1>13, <2>1 DEF DestroyCAS, DestroyWait, Balance, queue, Move
  <2> QED BY <1>13, <2>2, CountedSame, ThreadsAssumption DEF DestroyCAS, DestroyWait, Threads, locals, Move
<1>14. ASSUME NEW d \in Destroyers, DestroyCount(d) PROVE Counted'
  <2>1. Uncounted' = Uncounted
    BY <1>14, UncountedSame, ThreadsAssumption DEF DestroyCount, Threads
  <2>2. Extra = 0
    BY <1>14 DEF DestroyCount, Extra, Winner, Won
  <2>3. Extra' = 1
    BY <1>14 DEF DestroyCount, Extra, Won, Goto, TypeOK, PcOK, Threads
  <2>4. Balance' = Balance
    BY <1>14, <2>1, <2>2, <2>3, BalanceType DEF DestroyCount, Balance, TypeOK, queue
  <2> QED BY <1>14, <2>4, CountedSame, ThreadsAssumption DEF DestroyCount, Threads, locals
<1>15. CASE Free
  BY <1>15 DEF Free, Counted, Balance, Popped, Uncounted, Extra, locals, queue
<1> QED BY <1>1, <1>2, <1>3, <1>4, <1>5, <1>6, <1>9, <1>10, <1>11, <1>12, <1>13, <1>14, <1>15,
           NextCases

(* IInv is an invariant of the actor.                                       *)
THEOREM Invariance == Spec => []IInv
<1>1. IInv /\ [Next]_vars => IInv'
  <2> SUFFICES ASSUME IInv, [Next]_vars PROVE IInv'
    OBVIOUS
  <2>1. CASE Next
    BY <2>1, TypeStep, SlotsStep, ScopeStep, TokenStep, TokenExistsStep, UserStep,
       WinnerStep, CountedStep, WakeupStep DEF IInv
  <2>2. CASE UNCHANGED vars
    BY <2>2 DEF vars, IInv, TypeOK, PcOK, Slots, Scope, Busy, Token, TokenExists, User, Winner,
       Counted, Balance, Uncounted, Extra, Popped, Wakeup
  <2> QED BY <2>1, <2>2
<1> QED BY <1>1, InitIInv, PTL DEF Spec

(* Every thread of the actor is always at a step of its own operation.      *)
THEOREM TypeCorrect == Spec => []TypeOK
  BY Invariance, PTL DEF IInv

(* The mailbox has one consumer and the user object one user: Consuming is  *)
(* a part of holding the token (actor.h:237-286).                          *)
THEOREM MutualExclusion == Spec => []SingleConsumer
<1>1. IInv => SingleConsumer
  BY DEF IInv, Token, Holding, SingleConsumer, Threads
<1> QED BY <1>1, Invariance, PTL

(* When everybody has returned there is no token, so the flag is clear, and *)
(* no waker, so the count is zero; nothing is uncounted, so the mailbox is  *)
(* as long as the count (actor.h:218-223, 279-285).                        *)
LEMMA QuiescentCount ==
  ASSUME IInv, Quiescent, user_class_instance
  PROVE  Len(mailbox) = 0 /\ Extra = 0
<1>1. \A t \in Threads : pc[t] \notin Holding /\ pc[t] \notin {"activate", "recheck"}
  BY DEF Quiescent, Holding, Consuming
<1>2. ~activated
  BY <1>1 DEF IInv, TokenExists, Quiescent
<1>3. pending_message_count = 0
  BY <1>1, <1>2 DEF IInv, Wakeup
<1>4. Uncounted = {}
  BY DEF Quiescent, Uncounted, Threads
<1>5. Cardinality(Uncounted) = 0
  BY <1>4, FS_EmptySet
<1>6. \A w \in Workers : pc[w] \notin Batch
  BY DEF Quiescent, Batch, Threads
<1>7. Balance = 0
  BY <1>6 DEF IInv, Counted
<1>8. Len(mailbox) \in Nat /\ Extra \in {0, 1}
  BY BalanceType DEF IInv
<1> QED BY <1>3, <1>5, <1>7, <1>8 DEF Balance

(* No push is forgotten in the mailbox of a live actor.                     *)
THEOREM NoLostWakeup == Spec => []NoLostMessage
<1>1. IInv => NoLostMessage
  BY QuiescentCount, EmptySeq DEF NoLostMessage, IInv, TypeOK
<1> QED BY <1>1, Invariance, PTL

(* No request to destroy is forgotten: its increment of the count keeps the *)
(* actor activated until a run has seen the flag (actor.h:204-212).        *)
THEOREM DestroyNotForgotten == Spec => []NoLostDestroy
<1>1. ASSUME IInv PROVE NoLostDestroy
  <2> SUFFICES ASSUME Quiescent, pending_to_be_destroyed, user_class_instance PROVE FALSE
    BY DEF NoLostDestroy
  <2>1. PICK d \in Destroyers : pc[d] \in Won
    BY <1>1 DEF IInv, Winner
  <2>2. pc[d] \in Won \ {"count"}
    BY <2>1 DEF Quiescent, Threads
  <2>3. Extra = 1
    BY <2>2 DEF Extra
  <2> QED BY <1>1, <2>3, QuiescentCount
<1> QED BY <1>1, Invariance, PTL

(* An empty scope means that no run is queued or in progress.               *)
LEMMA ScopeEmpty ==
  ASSUME IInv, async_scope = 0
  PROVE  pool = 0 /\ \A w \in Workers : pc[w] = "idle"
<1>1. pool = 0 /\ Cardinality(Busy) = 0
  BY BusyFinite DEF IInv, TypeOK, Scope
<1>2. Busy = {}
  BY <1>1, BusyFinite, FS_EmptySet
<1> QED BY <1>1, <1>2 DEF Busy

(* No batch begins after AsyncDestroy has returned: its wait found the scope
   empty and the flag stays set (actor.h:214, 258).                        *)
LEMMA NoBatchStep == IInv /\ NoBatchAfterReturn /\ [Next]_vars => NoBatchAfterReturn'
<1> SUFFICES ASSUME IInv, NoBatchAfterReturn, [Next]_vars PROVE NoBatchAfterReturn'
  OBVIOUS
<1> USE AfterActivateCases, ThreadsAssumption
    DEF NoBatchAfterReturn, Batch, Threads, Goto, IInv, TypeOK, PcOK
<1>1. CASE \E t \in Threads : TryActivateCAS(t) \/ Schedule(t)
  BY <1>1 DEF TryActivateCAS, Schedule
<1>2. CASE \E s \in Senders : PushExchange(s) \/ PushLink(s) \/ PushCount(s)
  BY <1>2 DEF PushExchange, PushLink, PushCount
<1>3. CASE \E w \in Workers : Dequeue(w) \/ PullCheckInstance(w) \/ PullCheckDestroy(w)
  BY <1>3 DEF Dequeue, PullCheckInstance, PullCheckDestroy, Winner, Won, Move
<1>4. CASE \E w \in Workers : PullReset(w) \/ PullDestroyClear(w) \/ PullDestroySub(w)
  BY <1>4 DEF PullReset, PullDestroyClear, PullDestroySub
<1>5. CASE \E w \in Workers : PullPop(w) \/ PullExecute(w) \/ PullSub(w)
  BY <1>5 DEF PullPop, PullExecute, PullSub
<1>6. CASE \E w \in Workers : PullClear(w) \/ PullRecheck(w) \/ PullReturn(w)
  BY <1>6 DEF PullClear, PullRecheck, PullReturn, Move
<1>7. CASE \E d \in Destroyers : DestroyCAS(d) \/ DestroyCount(d)
  BY <1>7 DEF DestroyCAS, DestroyCount
<1>8. CASE \E d \in Destroyers : DestroyWait(d)
  BY <1>8, ScopeEmpty DEF DestroyWait, Move
<1>9. CASE Free \/ UNCHANGED vars
  BY <1>9 DEF Free, vars
<1> QED BY <1>1, <1>2, <1>3, <1>4, <1>5, <1>6, <1>7, <1>8, <1>9, NextCases

(* Nothing executes after AsyncDestroy has returned, even while senders go  *)
(* on (actor.h:201-215, 258-266): only a run in its loop executes.         *)
THEOREM NothingExecutes == Spec => NothingExecutesAfterDestroy
<1>1. Init => NoBatchAfterReturn
  BY DEF Init, NoBatchAfterReturn, Threads
<1>2. Spec => []NoBatchAfterReturn
  BY <1>1, NoBatchStep, Invariance, PTL DEF Spec
<1>3. IInv /\ NoBatchAfterReturn /\ [Next]_vars
        => [\A d \in Destroyers : pc[d] = "done" => done' = done]_vars
  <2> SUFFICES ASSUME IInv, NoBatchAfterReturn, [Next]_vars, NEW d \in Destroyers, pc[d] = "done"
               PROVE  done' = done
    OBVIOUS
  <2>1. \A w \in Workers : ~PullExecute(w)
    BY DEF PullExecute, NoBatchAfterReturn, Batch
  <2> QED
    BY <2>1, NextCases DEF vars, ghosts, TryActivateCAS, Schedule, PushExchange, PushLink,
       PushCount, Dequeue, PullCheckInstance, PullCheckDestroy, PullReset, PullDestroyClear,
       PullDestroySub, PullPop, PullSub, PullClear, PullRecheck, PullReturn,
       DestroyCAS, DestroyCount, DestroyWait, Free, Move
<1> QED BY <1>2, <1>3, Invariance, PTL DEF Spec, NothingExecutesAfterDestroy

(* With callers that let their pushes return first, senders stay idle once  *)
(* the destruction has begun.                                              *)
LEMMA SendersQuietStep == IInv /\ SendersQuiet /\ [Next]_vars => SendersQuiet'
<1> SUFFICES ASSUME IInv, SendersQuiet, [Next]_vars PROVE SendersQuiet'
  OBVIOUS
<1> USE AfterActivateCases, ThreadsAssumption
    DEF SendersQuiet, DestroyStarted, Threads, Goto, IInv, TypeOK, PcOK
<1>1. CASE \E t \in Threads : TryActivateCAS(t) \/ Schedule(t)
  BY <1>1 DEF TryActivateCAS, Schedule
<1>2. CASE \E s \in Senders : PushExchange(s) \/ PushLink(s) \/ PushCount(s)
  BY <1>2 DEF PushExchange, PushLink, PushCount
<1>3. CASE \E w \in Workers : Dequeue(w) \/ PullCheckInstance(w) \/ PullCheckDestroy(w)
  BY <1>3 DEF Dequeue, PullCheckInstance, PullCheckDestroy, Move
<1>4. CASE \E w \in Workers : PullReset(w) \/ PullDestroyClear(w) \/ PullDestroySub(w)
  BY <1>4 DEF PullReset, PullDestroyClear, PullDestroySub
<1>5. CASE \E w \in Workers : PullPop(w) \/ PullExecute(w) \/ PullSub(w)
  BY <1>5 DEF PullPop, PullExecute, PullSub
<1>6. CASE \E w \in Workers : PullClear(w) \/ PullRecheck(w) \/ PullReturn(w)
  BY <1>6 DEF PullClear, PullRecheck, PullReturn, Move
<1>7. CASE \E d \in Destroyers : DestroyCAS(d) \/ DestroyCount(d) \/ DestroyWait(d)
  BY <1>7 DEF DestroyCAS, DestroyCount, DestroyWait, CallerReady, Move
<1>8. CASE Free \/ UNCHANGED vars
  BY <1>8 DEF Free, vars
<1> QED BY <1>1, <1>2, <1>3, <1>4, <1>5, <1>6, <1>7, <1>8, NextCases

(* When AsyncDestroy returns to such callers nobody is inside the actor or   *)
(* on the way into it, and the user object is gone: the owner may delete    *)
(* the actor (actor_registry.h:114-126).                                   *)
THEOREM SafeDestruction ==
  ASSUME DestroyWhen = "quiet"
  PROVE  Spec => [](LifetimeCovered /\ DestroyedOnReturn)
<1> DEFINE Q == SendersQuiet /\ LifetimeCovered /\ DestroyedOnReturn
<1>1. Init => Q
  BY DEF Init, SendersQuiet, DestroyStarted, LifetimeCovered, DestroyedOnReturn, Threads
<1>2. IInv /\ Q /\ [Next]_vars => Q'
  <2> SUFFICES ASSUME IInv, Q, [Next]_vars PROVE LifetimeCovered' /\ DestroyedOnReturn'
    BY SendersQuietStep
  <2>1. CASE \E d \in Destroyers : DestroyWait(d)
    <3> PICK d \in Destroyers : DestroyWait(d)
      BY <2>1
    <3>1. pool = 0 /\ (\A w \in Workers : pc[w] = "idle")
      BY ScopeEmpty DEF DestroyWait, Move
    <3>2. \A s \in Senders : pc[s] = "idle"
      BY DEF DestroyWait, SendersQuiet, DestroyStarted, Move
    <3>3. \A e \in Destroyers : pc[e] \in {"idle", "wait", "refused"}
      BY DEF DestroyWait, IInv, Winner, Won, TypeOK, PcOK, DestroyerLabels, Move
    <3>4. Quiescent
      BY <3>1, <3>2, <3>3 DEF Quiescent, Threads
    <3>5. pending_to_be_destroyed
      BY DEF DestroyWait, IInv, Winner, Won, Move
    <3>6. ~user_class_instance
      <4> SUFFICES ASSUME user_class_instance PROVE FALSE
        OBVIOUS
      <4>1. Extra = 1
        BY DEF DestroyWait, Extra, Won, Move
      <4> QED BY <3>4, <4>1, QuiescentCount
    <3> QED BY <3>1, <3>2, <3>6, ThreadsAssumption DEF DestroyWait, Goto, LifetimeCovered,
               DestroyedOnReturn, Threads, IInv, TypeOK, PcOK, scope, Move
  <2>2. CASE (\E d \in Destroyers : pc[d] = "done") /\ Next
    <3>1. ~user_class_instance
      BY <2>2 DEF DestroyedOnReturn
    <3>2. pool = 0 /\ \A t \in Senders \cup Workers : pc[t] = "idle"
      BY <2>2 DEF LifetimeCovered
    <3>3. PICK d \in Destroyers : pc[d] = "done"
      BY <2>2
    <3>4. \A e \in Destroyers : pc[e] \in {"idle", "done", "refused"}
      BY <3>3 DEF IInv, Winner, Won, TypeOK, PcOK, DestroyerLabels
    <3>5. (\E e \in Destroyers : DestroyCAS(e)) \/ Free
      <4>1. ASSUME NEW t \in Threads, TryActivateCAS(t) \/ Schedule(t) PROVE FALSE
        BY <3>2, <3>4, <4>1 DEF TryActivateCAS, Schedule, Threads
      <4>2. ASSUME NEW s \in Senders, PushExchange(s) \/ PushLink(s) \/ PushCount(s) PROVE FALSE
        BY <3>2, <3>3, <4>2 DEF PushExchange, PushLink, PushCount, DestroyStarted
      <4>3. ASSUME NEW w \in Workers,
                   \/ Dequeue(w) \/ PullCheckInstance(w) \/ PullCheckDestroy(w) \/ PullReset(w)
                   \/ PullDestroyClear(w) \/ PullDestroySub(w) \/ PullPop(w) \/ PullExecute(w)
                   \/ PullSub(w) \/ PullClear(w) \/ PullRecheck(w) \/ PullReturn(w)
            PROVE FALSE
        BY <3>2, <4>3 DEF Dequeue, PullCheckInstance, PullCheckDestroy, PullReset,
           PullDestroyClear, PullDestroySub, PullPop, PullExecute, PullSub, PullClear,
           PullRecheck, PullReturn, Move
      <4>4. ASSUME NEW e \in Destroyers, DestroyCount(e) \/ DestroyWait(e) PROVE FALSE
        BY <3>4, <4>4 DEF DestroyCount, DestroyWait, Move
      <4> QED BY <2>2, <4>1, <4>2, <4>3, <4>4, NextCases
    <3> QED BY <3>1, <3>2, <3>5, ThreadsAssumption DEF DestroyCAS, Free, Goto, LifetimeCovered,
               DestroyedOnReturn, Threads, IInv, TypeOK, PcOK, scope
  <2>3. CASE (\A d \in Destroyers : pc[d] # "done") /\ ~(\E d \in Destroyers : DestroyWait(d)) /\ Next
    <3>1. \A d \in Destroyers : pc'[d] # "done"
      BY <2>3, NextCases, AfterActivateCases, ThreadsAssumption
         DEF Threads, Goto, IInv, TypeOK, PcOK, TryActivateCAS, Schedule, PushExchange,
         PushLink, PushCount, Dequeue, PullCheckInstance, PullCheckDestroy, PullReset,
         PullDestroyClear, PullDestroySub, PullPop, PullExecute, PullSub, PullClear,
         PullRecheck, PullReturn, DestroyCAS, DestroyCount, Free, Move
    <3> QED BY <3>1 DEF LifetimeCovered, DestroyedOnReturn
  <2>4. CASE UNCHANGED vars
    BY <2>4 DEF vars, LifetimeCovered, DestroyedOnReturn
  <2> QED BY <2>1, <2>2, <2>3, <2>4
<1> QED BY <1>1, <1>2, Invariance, PTL DEF Spec

(* In particular the user object is gone when AsyncDestroy has returned, so *)
(* that no message can reach it any more (actor.h:201-215).                *)
THEOREM ObjectGone ==
  ASSUME DestroyWhen = "quiet"
  PROVE  Spec => []DestroyedOnReturn
  BY SafeDestruction, PTL

(* A thread that neither enters nor leaves Execute() leaves the running     *)
(* message alone.                                                          *)
LEMMA RunningSame ==
  ASSUME TypeOK, NEW t \in Threads, NEW l, Goto(t, l),
         t \in Workers => pc[t] # "exec" /\ l # "exec",
         \A w \in Workers : msg'[w] = msg[w]
  PROVE  Running' = Running
  BY DEF TypeOK, PcOK, Threads, Goto, Running

(* With one token nothing else runs while a worker holds it.                *)
LEMMA RunningHolder ==
  ASSUME IInv, NEW w \in Workers, pc[w] \in Holding
  PROVE  Running = IF pc[w] = "exec" THEN {msg[w]} ELSE {}
<1>1. \A v \in Workers : pc[v] = "exec" => v = w
  BY DEF IInv, Token, Holding, Consuming, Threads
<1> QED BY <1>1 DEF Running

(* Every step of the actor is a step of the serial specification or leaves   *)
(* it unchanged.                                                           *)
LEMMA SimulationStep == IInv /\ [Next]_vars => [Serial!SerialNext]_Serial!avars
<1> SUFFICES ASSUME IInv, [Next]_vars
             PROVE  Serial!SerialNext \/ UNCHANGED Serial!avars
  OBVIOUS
<1>0. TypeOK
  BY DEF IInv
<1>1. ASSUME NEW t \in Threads, TryActivateCAS(t) \/ Schedule(t)
      PROVE  UNCHANGED Serial!avars
  <2>1. Running' = Running
    <3>1. PICK l : Goto(t, l) /\ l \in {"schedule", "idle", "exit", "wait"}
      BY <1>1, AfterActivateCases DEF TryActivateCAS, Schedule, Threads
    <3> QED BY <1>0, <1>1, <3>1, RunningSame DEF TryActivateCAS, Schedule, locals
  <2> QED BY <1>1, <2>1 DEF Serial!avars, TryActivateCAS, Schedule, queue, ghosts
<1>2. ASSUME NEW s \in Senders, PushExchange(s) PROVE Serial!SerialNext
  <2>1. Running' = Running
    BY <1>0, <1>2, RunningSame, ThreadsAssumption DEF PushExchange, Threads, TypeOK
  <2>2. PICK m \in unsent : mailbox' = Append(mailbox, m)
    BY <1>2 DEF PushExchange
  <2>3. Serial!Accept(m)
    BY <1>2, <2>1, <2>2 DEF Serial!Accept, PushExchange
  <2> QED BY <1>0, <2>3 DEF Serial!SerialNext, TypeOK
<1>3. ASSUME NEW s \in Senders, PushLink(s) \/ PushCount(s) PROVE UNCHANGED Serial!avars
  <2>1. Running' = Running
    BY <1>0, <1>3, RunningSame, ThreadsAssumption DEF PushLink, PushCount, Threads, TypeOK, locals
  <2> QED BY <1>3, <2>1 DEF Serial!avars, PushLink, PushCount, queue, ghosts
<1>4. ASSUME NEW w \in Workers,
             \/ Dequeue(w) \/ PullCheckInstance(w) \/ PullCheckDestroy(w)
             \/ PullDestroyClear(w) \/ PullDestroySub(w) \/ PullSub(w)
             \/ PullClear(w) \/ PullRecheck(w) \/ PullReturn(w)
      PROVE  UNCHANGED Serial!avars
  <2>1. msg' = msg /\ mailbox' = mailbox /\ done' = done
        /\ user_class_instance' = user_class_instance
    BY <1>4 DEF Dequeue, PullCheckInstance, PullCheckDestroy, PullDestroyClear,
       PullDestroySub, PullSub, PullClear, PullRecheck, PullReturn, locals, queue, ghosts, Move
  <2>2. \E l : Goto(w, l) /\ pc[w] # "exec" /\ l # "exec"
    BY <1>4 DEF Dequeue, PullCheckInstance, PullCheckDestroy, PullDestroyClear,
       PullDestroySub, PullSub, PullClear, PullRecheck, PullReturn, Move
  <2>3. Running' = Running
    BY <1>0, <2>1, <2>2, RunningSame DEF Threads
  <2> QED BY <2>1, <2>3 DEF Serial!avars
<1>5. ASSUME NEW w \in Workers, PullReset(w) PROVE Serial!SerialNext
  <2>1. Running' = Running
    BY <1>0, <1>5, RunningSame DEF PullReset, Threads, locals
  <2>2. Running = {}
    BY <1>5, RunningHolder DEF PullReset, Holding, Consuming
  <2>3. user_class_instance
    BY <1>5 DEF PullReset, IInv, User, Consuming
  <2>4. Serial!Close
    BY <1>5, <2>1, <2>2, <2>3 DEF Serial!Close, PullReset, queue, ghosts
  <2> QED BY <2>4 DEF Serial!SerialNext
<1>6. ASSUME NEW w \in Workers, PullPop(w) PROVE Serial!SerialNext \/ UNCHANGED Serial!avars
  <2>1. CASE CanPop
    <3>1. Running = {}
      BY <1>6, RunningHolder DEF PullPop, Holding, Consuming
    <3>2. \A v \in Workers : pc'[v] = "exec" <=> v = w
      BY <1>0, <1>6, <2>1, <3>1 DEF PullPop, Goto, TypeOK, PcOK, Threads, Running
    <3>3. msg'[w] = Head(mailbox)
      BY <1>0, <1>6, <2>1 DEF PullPop, TypeOK, Threads
    <3>4. Running' = {Head(mailbox)}
      BY <3>2, <3>3 DEF Running
    <3>5. user_class_instance
      BY <1>6 DEF PullPop, IInv, User, Consuming
    <3>6. Serial!Begin
      BY <1>6, <2>1, <3>1, <3>4, <3>5 DEF Serial!Begin, PullPop, CanPop, ghosts
    <3> QED BY <3>6 DEF Serial!SerialNext
  <2>2. CASE ~CanPop
    <3>1. Running' = Running
      BY <1>0, <1>6, <2>2, RunningSame DEF PullPop, Threads
    <3> QED BY <1>6, <2>2, <3>1 DEF PullPop, Serial!avars, ghosts
  <2> QED BY <2>1, <2>2
<1>7. ASSUME NEW w \in Workers, PullExecute(w) PROVE Serial!SerialNext
  <2>1. Running = {msg[w]} /\ msg[w] \in Msgs
    BY <1>7, RunningHolder DEF PullExecute, Holding, Consuming, IInv, Slots
  <2>2. \A v \in Workers : pc[v] = "exec" => v = w
    BY <1>7 DEF PullExecute, IInv, Token, Holding, Consuming, Threads
  <2>3. \A v \in Workers : pc'[v] # "exec"
    BY <1>0, <1>7, <2>2 DEF PullExecute, Goto, TypeOK, PcOK, Threads
  <2>4. Running' = {}
    BY <2>3 DEF Running
  <2>5. Serial!Finish(msg[w])
    BY <1>7, <2>1, <2>4 DEF Serial!Finish, PullExecute, queue
  <2> QED BY <2>1, <2>5 DEF Serial!SerialNext
<1>8. ASSUME NEW d \in Destroyers, DestroyCAS(d) \/ DestroyCount(d) \/ DestroyWait(d)
      PROVE  UNCHANGED Serial!avars
  <2>1. Running' = Running
    BY <1>0, <1>8, RunningSame, ThreadsAssumption DEF DestroyCAS, DestroyCount, DestroyWait, Threads, locals, Move
  <2> QED BY <1>8, <2>1 DEF Serial!avars, DestroyCAS, DestroyCount, DestroyWait, queue, ghosts, Move
<1>9. ASSUME Free \/ UNCHANGED vars PROVE UNCHANGED Serial!avars
  BY <1>9 DEF Free, vars, Serial!avars, Running, locals, queue
<1> QED BY <1>1, <1>2, <1>3, <1>4, <1>5, <1>6, <1>7, <1>8, <1>9, NextCases

(* The lock-free actor implements the serial one: messages start one at a    *)
(* time in the order of the mailbox's exchanges, never after the user      *)
(* object is gone (README.md:32 of the repository).                        *)
THEOREM Refinement == Spec => RefinesSerialActor
<1>1. Init => Serial!SerialInit
  BY DEF Init, Serial!SerialInit, Running, Threads
<1> QED BY <1>1, SimulationStep, Invariance, PTL DEF Spec, RefinesSerialActor, Serial!SerialSpec
=============================================================================
