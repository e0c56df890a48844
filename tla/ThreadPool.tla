----------------------------- MODULE ThreadPool -----------------------------
(***************************************************************************)
(* WorkSharingThreadPoolBase and SchedulerUnion (scheduler.h) over their    *)
(* two queues (util.h): the moodycamel blocking queue, whose consumers wait *)
(* on a LightweightSemaphore, and the priority queue with a condition       *)
(* variable.  One action per access to shared state.  The lock-free queue   *)
(* inside the blocking queue is a set here: what it promises is the subject *)
(* of ConcurrentQueue.  The pools are the schedulers_ of one SchedulerUnion.*)
(***************************************************************************)
EXTENDS Integers, FiniteSets

CONSTANTS
  Pools,      \* indices of schedulers_
  Workers,    \* worker threads of all pools, numbered in creation order
  PoolOf,     \* the pool of each worker
  Ops,        \* operations, each started once by a thread of its own
  Index,      \* get_scheduler_index of each operation's environment
  Priority    \* get_priority of each operation's environment

ASSUME PoolsAssumption ==
  /\ Workers \subseteq Nat /\ IsFiniteSet(Workers)
  /\ IsFiniteSet(Ops) /\ Ops \cap Workers = {}
  /\ PoolOf \in [Workers -> Pools]
ASSUME OpsAssumption == Index \in [Ops -> Nat] /\ Priority \in [Ops -> Nat]

VARIABLES
  kind,       \* the Queue template argument of the pools, fixed
  queue,      \* queue_ of each pool: the operations in it
  count,      \* LightweightSemaphore::m_count of each pool
  sema,       \* the POSIX semaphore m_sema of each pool
  pc,         \* the next step of every operation's starter and every worker
  old,        \* waitWithPartialSpinning: the oldCount a worker has loaded
  held,       \* the operation a worker has taken from the queue
  runs,       \* how often Execute() of an operation was called
  destroying, \* the pools whose destructor has begun
  stop        \* the workers whose stop_token has been asked to stop

vars == <<kind, queue, count, sema, pc, old, held, runs, destroying, stop>>
semaphore == <<count, sema, old>>
lifetime == <<kind, destroying, stop>>

WorkersOf(p) == {w \in Workers : PoolOf[w] = p}

\* The workers of pool p, or the starters of operations for p, at a step.
At(p, steps) == {w \in WorkersOf(p) : pc[w] \in steps}
StartersAt(p, steps) == {o \in Ops : Index[o] = p /\ pc[o] \in steps}

Goto(t, step) == pc' = [pc EXCEPT ![t] = step]

Init ==
  /\ kind \in {"sharing", "priority"}
  /\ queue = [p \in Pools |-> {}]
  /\ count = [p \in Pools |-> 0]
  /\ sema = [p \in Pools |-> 0]
  /\ pc = [t \in Ops \cup Workers |-> IF t \in Ops THEN "new" ELSE "loop"]
  /\ old = [w \in Workers |-> 0]
  /\ held = [w \in Workers |-> {}]
  /\ runs = [o \in Ops |-> 0]
  /\ destroying = {}
  /\ stop = {}

-----------------------------------------------------------------------------
(* Starting an operation.                                                   *)

\* SchedulerUnion::Sender::connect throws for an index out of range.
Reject(o) ==
  /\ pc[o] = "new"
  /\ Index[o] \notin Pools
  /\ Goto(o, "rejected")
  /\ UNCHANGED <<queue, semaphore, held, runs, lifetime>>

\* EnqueueOperation: the operation goes into queue_ of its pool.
EnqueueOperation(p, o) == queue' = [queue EXCEPT ![p] = @ \cup {o}]

\* Operation::start and EnqueueOperation on a work-sharing pool: the element
\* goes into the inner queue first, the semaphore is signalled after it.
StartSharing(o) ==
  LET p == Index[o] IN
  /\ pc[o] = "new" /\ p \in Pools /\ kind = "sharing" /\ p \notin destroying
  /\ EnqueueOperation(p, o)
  /\ Goto(o, "signal")
  /\ UNCHANGED <<semaphore, held, runs, lifetime>>

\* The signal is given only to workers that wait already.
Signal_OnlyWaiting(o) ==
  LET p == Index[o] IN
  /\ pc[o] = "signal"
  /\ count' = [count EXCEPT ![p] = IF @ < 0 THEN @ + 1 ELSE @]
  /\ Goto(o, IF count[p] < 0 THEN "post" ELSE "started")
  /\ UNCHANGED <<queue, sema, old, held, runs, lifetime>>

\* LightweightSemaphore::signal: m_count.fetch_add(1); a previous value below
\* zero means that a waiter is owed a post of the POSIX semaphore.
Signal(o) ==
  LET p == Index[o] IN
  /\ pc[o] = "signal"
  /\ count' = [count EXCEPT ![p] = @ + 1]
  /\ Goto(o, IF count[p] < 0 THEN "post" ELSE "started")
  /\ UNCHANGED <<queue, sema, old, held, runs, lifetime>>

\* m_sema.signal
Post(o) ==
  LET p == Index[o] IN
  /\ pc[o] = "post"
  /\ sema' = [sema EXCEPT ![p] = @ + 1]
  /\ Goto(o, "started")
  /\ UNCHANGED <<queue, count, old, held, runs, lifetime>>

\* UnboundedBlockingPriorityQueue::Push: push and notify_one under the mutex;
\* one of the workers that wait on cv_ is woken, if there is one.
StartPriority(o) ==
  LET p == Index[o] IN
  /\ pc[o] = "new" /\ p \in Pools /\ kind = "priority" /\ p \notin destroying
  /\ EnqueueOperation(p, o)
  /\ \/ \E w \in At(p, {"cv"}) :
          pc' = [pc EXCEPT ![o] = "started", ![w] = "woken"]
     \/ /\ At(p, {"cv"}) = {}
        /\ Goto(o, "started")
  /\ UNCHANGED <<semaphore, held, runs, lifetime>>

-----------------------------------------------------------------------------
(* The worker loop.                                                         *)

\* while (!stop_token.stop_requested()) Pop(10 ms) ...
Loop(w) ==
  /\ pc[w] = "loop"
  /\ Goto(w, IF w \in stop THEN "exited"
             ELSE IF kind = "sharing" THEN "spin" ELSE "pop")
  /\ UNCHANGED <<queue, semaphore, held, runs, lifetime>>

\* tryWait and the spinning part of waitWithPartialSpinning: take a count with
\* a compare-and-swap if there is one.
TryWait(w) ==
  LET p == PoolOf[w] IN
  /\ pc[w] = "spin"
  /\ count[p] > 0
  /\ count' = [count EXCEPT ![p] = @ - 1]
  /\ Goto(w, "dequeue")
  /\ UNCHANGED <<queue, sema, old, held, runs, lifetime>>

\* The spins are used up: m_count.fetch_sub(1), and wait if it was not positive.
FetchSub(w) ==
  LET p == PoolOf[w] IN
  /\ pc[w] = "spin"
  /\ count' = [count EXCEPT ![p] = @ - 1]
  /\ Goto(w, IF count[p] > 0 THEN "dequeue" ELSE "wait")
  /\ UNCHANGED <<queue, sema, old, held, runs, lifetime>>

\* m_sema.timed_wait succeeds.
TimedWait(w) ==
  LET p == PoolOf[w] IN
  /\ pc[w] = "wait"
  /\ sema[p] > 0
  /\ sema' = [sema EXCEPT ![p] = @ - 1]
  /\ Goto(w, "dequeue")
  /\ UNCHANGED <<queue, count, old, held, runs, lifetime>>

\* The wait never ends without a post.
Timeout_Never(w) ==
  /\ FALSE
  /\ UNCHANGED vars

\* m_sema.timed_wait fails after 10 ms without a post; the count is still
\* decremented.
Timeout(w) ==
  /\ pc[w] = "wait"
  /\ sema[PoolOf[w]] = 0
  /\ Goto(w, "load")
  /\ UNCHANGED <<queue, semaphore, held, runs, lifetime>>

\* After the timeout: oldCount = m_count.load().
Load(w) ==
  /\ pc[w] = "load"
  /\ old' = [old EXCEPT ![w] = count[PoolOf[w]]]
  /\ Goto(w, "adjust")
  /\ UNCHANGED <<queue, count, sema, held, runs, lifetime>>

\* The count is given back although a post may be under way.
Adjust_Blind(w) ==
  LET p == PoolOf[w] IN
  /\ pc[w] = "adjust"
  /\ count' = [count EXCEPT ![p] = @ + 1]
  /\ Goto(w, "loop")
  /\ UNCHANGED <<queue, sema, old, held, runs, lifetime>>

\* With oldCount >= 0 a post is owed: try_wait for it.  Otherwise give the
\* count back if nobody has changed it since.
Adjust(w) ==
  LET p == PoolOf[w] IN
  /\ pc[w] = "adjust"
  /\ \/ /\ old[w] >= 0 /\ sema[p] > 0
        /\ sema' = [sema EXCEPT ![p] = @ - 1]
        /\ Goto(w, "dequeue")
        /\ UNCHANGED count
     \/ /\ old[w] < 0 /\ count[p] = old[w]
        /\ count' = [count EXCEPT ![p] = @ + 1]
        /\ Goto(w, "loop")
        /\ UNCHANGED sema
  /\ UNCHANGED <<queue, old, held, runs, lifetime>>

\* The try_wait or the compare-and-swap failed: once more.
AdjustRetry(w) ==
  /\ pc[w] = "adjust"
  /\ IF old[w] >= 0 THEN sema[PoolOf[w]] = 0 ELSE count[PoolOf[w]] # old[w]
  /\ Goto(w, "load")
  /\ UNCHANGED <<queue, semaphore, held, runs, lifetime>>

Take(w, o) ==
  /\ queue' = [queue EXCEPT ![PoolOf[w]] = @ \ {o}]
  /\ held' = [held EXCEPT ![w] = {o}]
  /\ Goto(w, "execute")

\* wait_dequeue_timed: while (!inner.try_dequeue(item)) continue.
Dequeue(w) ==
  /\ pc[w] = "dequeue"
  /\ \E o \in queue[PoolOf[w]] : Take(w, o)
  /\ UNCHANGED <<semaphore, runs, lifetime>>

\* top(): no element has a smaller priority number.
Urgent(p) == {o \in queue[p] : \A x \in queue[p] : Priority[o] <= Priority[x]}

\* UnboundedBlockingPriorityQueue::Pop, under the mutex, before the wait or
\* when the wait ends by a notification: the predicate is tested.
Pop(w) ==
  LET p == PoolOf[w] IN
  /\ pc[w] \in {"pop", "woken"}
  /\ \/ \E o \in Urgent(p) : Take(w, o)
     \/ /\ queue[p] = {}
        /\ Goto(w, "cv")
        /\ UNCHANGED <<queue, held>>
  /\ UNCHANGED <<semaphore, runs, lifetime>>

\* cv_.wait_for times out: the predicate is tested once more.
PopTimeout(w) ==
  LET p == PoolOf[w] IN
  /\ pc[w] \in {"cv", "woken"}
  /\ \/ \E o \in Urgent(p) : Take(w, o)
     \/ /\ queue[p] = {}
        /\ Goto(w, "loop")
        /\ UNCHANGED <<queue, held>>
  /\ UNCHANGED <<semaphore, runs, lifetime>>

\* Operation::Execute: set_value or set_stopped, either of which completes the
\* operation.
Execute(w) ==
  /\ pc[w] = "execute"
  /\ \E o \in held[w] : runs' = [runs EXCEPT ![o] = @ + 1]
  /\ held' = [held EXCEPT ![w] = {}]
  /\ Goto(w, "loop")
  /\ UNCHANGED <<queue, semaphore, lifetime>>

-----------------------------------------------------------------------------
(* The destructor: workers_ is destroyed first, one std::jthread after the  *)
(* other, each by request_stop and join.  The owner destroys a pool only    *)
(* when nobody is starting an operation on it.                              *)

\* The pools' owner lets the members go.
BeginDestroy(p) ==
  /\ p \notin destroying
  /\ StartersAt(p, {"signal", "post"}) = {}
  /\ destroying' = destroying \cup {p}
  /\ UNCHANGED <<queue, semaphore, pc, held, runs, kind, stop>>

\* ~jthread of w: the workers before it have been joined.
RequestStop(w) ==
  /\ PoolOf[w] \in destroying
  /\ w \notin stop
  /\ \A v \in WorkersOf(PoolOf[w]) : v < w => pc[v] = "exited"
  /\ stop' = stop \cup {w}
  /\ UNCHANGED <<queue, semaphore, pc, held, runs, kind, destroying>>

OpStep(o) ==
  Reject(o) \/ StartSharing(o) \/ Signal(o) \/ Post(o) \/ StartPriority(o)

WorkerStep(w) ==
  \/ Loop(w) \/ TryWait(w) \/ FetchSub(w) \/ TimedWait(w) \/ Timeout(w)
  \/ Load(w) \/ Adjust(w) \/ AdjustRetry(w) \/ Dequeue(w) \/ Pop(w)
  \/ PopTimeout(w) \/ Execute(w)

Next ==
  \/ \E o \in Ops : OpStep(o)
  \/ \E w \in Workers : WorkerStep(w) \/ RequestStop(w)
  \/ \E p \in Pools : BeginDestroy(p)

Spec == Init /\ [][Next]_vars

\* A thread that can run does run, a timed wait ends, and a destructor that has
\* begun goes on.  The compare-and-swap of Adjust succeeds if it could again and
\* again: only another worker's can defeat it, and that one sleeps 10 ms between
\* two of them.  Nobody is obliged to start an operation or destroy a pool.
Fairness ==
  /\ \A o \in Ops : WF_vars(Signal(o) \/ Post(o))
  /\ \A w \in Workers : /\ WF_vars(WorkerStep(w)) /\ SF_vars(Adjust(w))
                        /\ WF_vars(RequestStop(w))

FairSpec == Spec /\ Fairness

Unsignalled == {"wait", "load", "adjust"}

\* Every element of a blocking queue whose starter has signalled is matched by
\* exactly one unit: of m_count, of a worker that has decremented it and is
\* still waiting, or of a worker that may dequeue.  The posts made or owed are
\* for those waiters whom m_count no longer owes anything.  This is what makes
\* the spin `while (!inner.try_dequeue(item))` of wait_dequeue_timed end
\* (blockingconcurrentqueue.h:358), and no element is left behind when a
\* timeout races a signal.
SignalsMatchElements ==
  kind = "sharing" => \A p \in Pools :
    LET waiting == Cardinality(At(p, Unsignalled)) IN
    /\ Cardinality(queue[p]) - Cardinality(StartersAt(p, {"signal"}))
         = count[p] + waiting + Cardinality(At(p, {"dequeue"}))
    /\ sema[p] + Cardinality(StartersAt(p, {"post"}))
         = waiting + (IF count[p] < 0 THEN count[p] ELSE 0)

\* An operation started on a pool is executed, unless the pool's destructor has
\* begun: what is still queued then is abandoned (scheduler.h:115).
StartedIsExecuted ==
  \A o \in Ops :
    pc[o] \in {"signal", "started"} ~> runs[o] = 1 \/ Index[o] \in destroying

\* The destructor returns: every worker notices the stop request, because every
\* wait is timed.
DestructorReturns ==
  \A p \in Pools :
    p \in destroying ~> \A w \in WorkersOf(p) : pc[w] = "exited"
=============================================================================
