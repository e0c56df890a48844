-------------------------------- MODULE Actor --------------------------------
(***************************************************************************)
(* One internal::Actor (include/ncaf/internal/actor.h): a lock-free        *)
(* mailbox, an `activated_` flag that at most one scheduled                *)
(* PullMailboxAndRun may hold, a count of pending messages and an          *)
(* asynchronous destruction.                                               *)
(*                                                                         *)
(* Threads: Senders call PushMessage, Workers are pool threads that run    *)
(* PullMailboxAndRun, Destroyers are the coroutines that call              *)
(* AsyncDestroy.  pc[t] names the next atomic access of thread t; every    *)
(* action performs exactly one access to the shared state.  A message that *)
(* sends to its own actor is a Sender whose steps fall while the Worker    *)
(* stays at "exec".                                                        *)
(*                                                                         *)
(* Atomics are sequentially consistent here; see README.md.                *)
(***************************************************************************)
EXTENDS Integers, Sequences, FiniteSets

CONSTANTS
  Msgs,              \* the messages; each is one operation state, sent once
  Senders, Workers, Destroyers,
  MaxPerActivation,  \* ActorConfig::max_message_executed_per_activation
  DestroyWhen,       \* what the callers of AsyncDestroy wait for first
  OwnerFrees,        \* the owner deletes the Actor after AsyncDestroy
  None

ASSUME ThreadsAssumption ==
  /\ Senders \cap Workers = {}
  /\ Senders \cap Destroyers = {}
  /\ Workers \cap Destroyers = {}

ASSUME FiniteAssumption == IsFiniteSet(Senders) /\ IsFiniteSet(Workers)

ASSUME MaxAssumption == MaxPerActivation \in Nat \ {0}

\* "any": AsyncDestroy races with senders.  "completed": the callers first
\* wait until every message they sent has been executed (co_await of Send),
\* and send no more.  "quiet": they also wait until every call of
\* PushMessage has returned.
ASSUME DestroyWhenAssumption == DestroyWhen \in {"any", "completed", "quiet"}

ASSUME NoneAssumption == None \notin Msgs

ASSUME OwnerFreesAssumption == OwnerFrees \in BOOLEAN

Threads == Senders \cup Workers \cup Destroyers

VARIABLES
  pc,                       \* the next atomic step of each thread
  msg,                      \* the message a thread pushes or executes
  message_executed,         \* PullMailboxAndRun's local counter
  mailbox,                  \* messages in the order of the queue's exchange
  linked,                   \* messages whose node is linked from its predecessor
  pending_message_count,    \* its value mod 2^64 is the atomic_size_t
  activated,
  pending_to_be_destroyed,
  user_class_instance,      \* TRUE: non-null
  async_scope,              \* number of operations spawned and not completed
  pool,                     \* spawned operations no pool thread has taken yet
  freed,                    \* the Actor object has been deleted
  unsent,                   \* messages nobody has sent yet
  done                      \* messages that have been executed

vars == <<pc, msg, message_executed, mailbox, linked, pending_message_count,
          activated, pending_to_be_destroyed, user_class_instance,
          async_scope, pool, freed, unsent, done>>

locals == <<msg, message_executed>>
queue == <<mailbox, linked>>
scope == <<async_scope, pool>>
ghosts == <<freed, unsent, done>>

Goto(t, label) == pc' = [pc EXCEPT ![t] = label]

\* A step that only reads the shared state.
Move(t, from, to) ==
  /\ pc[t] = from
  /\ Goto(t, to)
  /\ UNCHANGED <<locals, queue, pending_message_count, activated,
                 pending_to_be_destroyed, user_class_instance, scope, ghosts>>

Init ==
  /\ pc = [t \in Threads |-> "idle"]
  /\ msg = [t \in Threads |-> None]
  /\ message_executed = [w \in Workers |-> 0]
  /\ mailbox = << >>
  /\ linked = {}
  /\ pending_message_count = 0
  /\ activated = FALSE
  /\ pending_to_be_destroyed = FALSE
  /\ user_class_instance = TRUE
  /\ async_scope = 0
  /\ pool = 0
  /\ freed = FALSE
  /\ unsent = Msgs
  /\ done = {}

-----------------------------------------------------------------------------
(* TryActivate, shared by all three kinds of threads.                      *)

\* Where a thread continues once TryActivate returns.
AfterActivate(t) ==
  IF t \in Senders THEN "idle" ELSE IF t \in Workers THEN "exit" ELSE "wait"

\* The result of the compare-and-swap is not tested.
TryActivateCAS_NoExchange(t) ==
  /\ pc[t] = "activate"
  /\ activated' = TRUE
  /\ Goto(t, "schedule")
  /\ UNCHANGED <<locals, queue, pending_message_count, pending_to_be_destroyed,
                 user_class_instance, scope, ghosts>>

\* activated_.compare_exchange_strong(false, true); on failure return.
TryActivateCAS(t) ==
  /\ pc[t] = "activate"
  /\ \/ /\ ~activated
        /\ activated' = TRUE
        /\ Goto(t, "schedule")
     \/ /\ activated
        /\ UNCHANGED activated
        /\ Goto(t, AfterActivate(t))
  /\ UNCHANGED <<locals, queue, pending_message_count, pending_to_be_destroyed,
                 user_class_instance, scope, ghosts>>

\* scheduler_->Schedule(this, async_scope_): spawn into the scope an
\* operation that runs PullMailboxAndRun on the pool.
Schedule(t) ==
  /\ pc[t] = "schedule"
  /\ async_scope' = async_scope + 1
  /\ pool' = pool + 1
  /\ Goto(t, AfterActivate(t))
  /\ UNCHANGED <<locals, queue, pending_message_count, activated,
                 pending_to_be_destroyed, user_class_instance, ghosts>>

TryActivate(t) == TryActivateCAS(t) \/ Schedule(t)

-----------------------------------------------------------------------------
(* PushMessage: mailbox_.Push, count, TryActivate.                         *)

DestroyStarted == \E d \in Destroyers : pc[d] # "idle"

\* mailbox_.Push, first half: allocate the node and exchange the head of the
\* queue.  A disciplined caller sends nothing once it has asked for the
\* destruction.
PushExchange(s) ==
  /\ pc[s] = "idle"
  /\ ~freed
  /\ DestroyWhen # "any" => ~DestroyStarted
  /\ \E m \in unsent :
       /\ msg' = [msg EXCEPT ![s] = m]
       /\ mailbox' = Append(mailbox, m)
       /\ unsent' = unsent \ {m}
  /\ Goto(s, "link")
  /\ UNCHANGED <<message_executed, linked, pending_message_count, activated,
                 pending_to_be_destroyed, user_class_instance, scope, freed, done>>

\* mailbox_.Push, second half: link the node from its predecessor.
PushLink(s) ==
  /\ pc[s] = "link"
  /\ linked' = linked \cup {msg[s]}
  /\ Goto(s, "count")
  /\ UNCHANGED <<locals, mailbox, pending_message_count, activated,
                 pending_to_be_destroyed, user_class_instance, scope, ghosts>>

\* The call of TryActivate is left out.
PushCount_NoActivate(s) ==
  /\ pc[s] = "count"
  /\ pending_message_count' = pending_message_count + 1
  /\ msg' = [msg EXCEPT ![s] = None]
  /\ Goto(s, "idle")
  /\ UNCHANGED <<message_executed, queue, activated, pending_to_be_destroyed,
                 user_class_instance, scope, ghosts>>

\* pending_message_count_.fetch_add(1)
PushCount(s) ==
  /\ pc[s] = "count"
  /\ pending_message_count' = pending_message_count + 1
  /\ msg' = [msg EXCEPT ![s] = None]
  /\ Goto(s, "activate")
  /\ UNCHANGED <<message_executed, queue, activated, pending_to_be_destroyed,
                 user_class_instance, scope, ghosts>>

PushMessage(s) == PushExchange(s) \/ PushLink(s) \/ PushCount(s) \/ TryActivate(s)

-----------------------------------------------------------------------------
(* PullMailboxAndRun on a pool thread.                                     *)

\* A pool thread takes the scheduled operation.
Dequeue(w) ==
  /\ pc[w] = "idle"
  /\ pool > 0
  /\ pool' = pool - 1
  /\ Goto(w, "enter")
  /\ UNCHANGED <<locals, queue, pending_message_count, activated,
                 pending_to_be_destroyed, user_class_instance, async_scope, ghosts>>

\* Already destroyed: warn and return, with activated_ left set.
PullCheckInstance(w) ==
  Move(w, "enter", IF user_class_instance THEN "check" ELSE "exit")

\* The request to destroy is not looked at.
PullCheckDestroy_NoTest(w) ==
  Move(w, "check", "loop")

PullCheckDestroy(w) ==
  Move(w, "check", IF pending_to_be_destroyed THEN "reset" ELSE "loop")

\* The destruction branch: user_class_instance_.reset()
PullReset(w) ==
  /\ pc[w] = "reset"
  /\ user_class_instance' = FALSE
  /\ Goto(w, "dclear")
  /\ UNCHANGED <<locals, queue, pending_message_count, activated,
                 pending_to_be_destroyed, scope, ghosts>>

\* ... activated_.store(false)
PullDestroyClear(w) ==
  /\ pc[w] = "dclear"
  /\ activated' = FALSE
  /\ Goto(w, "dsub")
  /\ UNCHANGED <<locals, queue, pending_message_count, pending_to_be_destroyed,
                 user_class_instance, scope, ghosts>>

\* ... pending_message_count_.fetch_sub(1), warn about the rest and return.
PullDestroySub(w) ==
  /\ pc[w] = "dsub"
  /\ pending_message_count' = pending_message_count - 1
  /\ Goto(w, "exit")
  /\ UNCHANGED <<locals, queue, activated, pending_to_be_destroyed,
                 user_class_instance, scope, ghosts>>

\* Whether TryPop finds a node: the successor of the queue's tail is linked.
CanPop == mailbox # << >> /\ Head(mailbox) \in linked

\* while (auto optional_msg = mailbox_.TryPop())
PullPop(w) ==
  /\ pc[w] = "loop"
  /\ \/ /\ CanPop
        /\ msg' = [msg EXCEPT ![w] = Head(mailbox)]
        /\ mailbox' = Tail(mailbox)
        /\ Goto(w, "exec")
     \/ /\ ~CanPop
        /\ Goto(w, "sub")
        /\ UNCHANGED <<msg, mailbox>>
  /\ UNCHANGED <<message_executed, linked, pending_message_count, activated,
                 pending_to_be_destroyed, user_class_instance, scope, ghosts>>

\* The message returns from Execute() (its receiver got set_value or
\* set_stopped); the loop goes on unless the bound is reached.
PullExecute(w) ==
  /\ pc[w] = "exec"
  /\ done' = done \cup {msg[w]}
  /\ msg' = [msg EXCEPT ![w] = None]
  /\ message_executed' = [message_executed EXCEPT ![w] = @ + 1]
  /\ Goto(w, IF message_executed[w] + 1 >= MaxPerActivation THEN "sub" ELSE "loop")
  /\ UNCHANGED <<queue, pending_message_count, activated, pending_to_be_destroyed,
                 user_class_instance, scope, freed, unsent>>

\* The bound is subtracted in place of what was executed.
PullSub_Bound(w) ==
  /\ pc[w] = "sub"
  /\ pending_message_count' = pending_message_count - MaxPerActivation
  /\ message_executed' = [message_executed EXCEPT ![w] = 0]
  /\ Goto(w, "clear")
  /\ UNCHANGED <<msg, queue, activated, pending_to_be_destroyed,
                 user_class_instance, scope, ghosts>>

\* pending_message_count_.fetch_sub(message_executed); the local dies here.
PullSub(w) ==
  /\ pc[w] = "sub"
  /\ pending_message_count' = pending_message_count - message_executed[w]
  /\ message_executed' = [message_executed EXCEPT ![w] = 0]
  /\ Goto(w, "clear")
  /\ UNCHANGED <<msg, queue, activated, pending_to_be_destroyed,
                 user_class_instance, scope, ghosts>>

\* The recheck of the count after clearing the flag is left out.
PullClear_NoRecheck(w) ==
  /\ pc[w] = "clear"
  /\ activated' = FALSE
  /\ Goto(w, "exit")
  /\ UNCHANGED <<locals, queue, pending_message_count, pending_to_be_destroyed,
                 user_class_instance, scope, ghosts>>

\* activated_.store(false)
PullClear(w) ==
  /\ pc[w] = "clear"
  /\ activated' = FALSE
  /\ Goto(w, "recheck")
  /\ UNCHANGED <<locals, queue, pending_message_count, pending_to_be_destroyed,
                 user_class_instance, scope, ghosts>>

\* if (pending_message_count_.load() > 0) TryActivate(); the count is
\* unsigned, so a negative value here is a huge one there.
PullRecheck(w) ==
  Move(w, "recheck", IF pending_message_count # 0 THEN "activate" ELSE "exit")

\* The operation leaves the scope without giving the thread back, and may
\* leave it again.
PullReturn_Repeats(w) ==
  /\ pc[w] = "exit"
  /\ async_scope' = async_scope - 1
  /\ Goto(w, "exit") \/ Goto(w, "idle")
  /\ UNCHANGED <<locals, queue, pending_message_count, activated,
                 pending_to_be_destroyed, user_class_instance, pool, ghosts>>

\* The spawned operation completes and leaves the scope.
PullReturn(w) ==
  /\ pc[w] = "exit"
  /\ async_scope' = async_scope - 1
  /\ Goto(w, "idle")
  /\ UNCHANGED <<locals, queue, pending_message_count, activated,
                 pending_to_be_destroyed, user_class_instance, pool, ghosts>>

PullMailboxAndRun(w) ==
  \/ Dequeue(w) \/ PullCheckInstance(w) \/ PullCheckDestroy(w)
  \/ PullReset(w) \/ PullDestroyClear(w) \/ PullDestroySub(w)
  \/ PullPop(w) \/ PullExecute(w) \/ PullSub(w) \/ PullClear(w)
  \/ PullRecheck(w) \/ TryActivate(w) \/ PullReturn(w)

-----------------------------------------------------------------------------
(* AsyncDestroy.                                                           *)

\* What the caller waited for before calling AsyncDestroy.
CallerReady ==
  /\ DestroyWhen = "completed" => unsent \cup done = Msgs
  /\ DestroyWhen = "quiet" => \A s \in Senders : pc[s] = "idle"

\* pending_to_be_destroyed_.compare_exchange_strong(false, true); a second
\* caller returns at once.
DestroyCAS(d) ==
  /\ pc[d] = "idle"
  /\ ~freed
  /\ CallerReady
  /\ \/ /\ ~pending_to_be_destroyed
        /\ pending_to_be_destroyed' = TRUE
        /\ Goto(d, "count")
     \/ /\ pending_to_be_destroyed
        /\ UNCHANGED pending_to_be_destroyed
        /\ Goto(d, "refused")
  /\ UNCHANGED <<locals, queue, pending_message_count, activated,
                 user_class_instance, scope, ghosts>>

\* The increment is left out.
DestroyCount_NoIncrement(d) ==
  Move(d, "count", "activate")

\* pending_message_count_.fetch_add(1), so that a running
\* PullMailboxAndRun activates the actor again.
DestroyCount(d) ==
  /\ pc[d] = "count"
  /\ pending_message_count' = pending_message_count + 1
  /\ Goto(d, "activate")
  /\ UNCHANGED <<locals, queue, activated, pending_to_be_destroyed,
                 user_class_instance, scope, ghosts>>

\* AsyncDestroy returns without waiting for the scope.
DestroyWait_NoWait(d) ==
  Move(d, "wait", "done")

\* co_await async_scope_.on_empty()
DestroyWait(d) ==
  async_scope = 0 /\ Move(d, "wait", "done")

AsyncDestroy(d) == DestroyCAS(d) \/ DestroyCount(d) \/ TryActivate(d) \/ DestroyWait(d)

\* The owner deletes the Actor: the unique_ptr of DestroyActor goes out of
\* scope once its co_await of AsyncDestroy has returned.
Free ==
  /\ OwnerFrees
  /\ ~freed
  /\ \E d \in Destroyers : pc[d] = "done"
  /\ freed' = TRUE
  /\ UNCHANGED <<pc, locals, queue, pending_message_count, activated,
                 pending_to_be_destroyed, user_class_instance, scope, unsent, done>>

-----------------------------------------------------------------------------
Next ==
  \/ \E s \in Senders : PushMessage(s)
  \/ \E w \in Workers : PullMailboxAndRun(w)
  \/ \E d \in Destroyers : AsyncDestroy(d)
  \/ Free

Spec == Init /\ [][Next]_vars

\* A thread that has begun an operation is scheduled by the OS until it
\* returns, pool threads keep taking work, and user code returns from
\* Execute(); nobody has to start a PushMessage or an AsyncDestroy.
Fairness ==
  /\ \A s \in Senders : WF_vars(pc[s] # "idle" /\ PushMessage(s))
  /\ \A w \in Workers : WF_vars(PullMailboxAndRun(w))
  /\ \A d \in Destroyers : WF_vars(pc[d] # "idle" /\ AsyncDestroy(d))

FairSpec == Spec /\ Fairness

-----------------------------------------------------------------------------
(* Properties.                                                             *)

SenderLabels == {"idle", "link", "count", "activate", "schedule"}
WorkerLabels == {"idle", "enter", "check", "reset", "dclear", "dsub", "loop", "exec",
                 "sub", "clear", "recheck", "activate", "schedule", "exit"}
DestroyerLabels == {"idle", "count", "activate", "schedule", "wait", "done", "refused"}

PcOK ==
  /\ pc \in [Threads -> SenderLabels \cup WorkerLabels \cup DestroyerLabels]
  /\ \A s \in Senders : pc[s] \in SenderLabels
  /\ \A w \in Workers : pc[w] \in WorkerLabels
  /\ \A d \in Destroyers : pc[d] \in DestroyerLabels

\* Type invariant: every thread is at a step of its own operation
\* (PushMessage, PullMailboxAndRun or AsyncDestroy).
TypeOK ==
  /\ PcOK
  /\ msg \in [Threads -> Msgs \cup {None}]
  /\ message_executed \in [Workers -> Nat]
  /\ mailbox \in Seq(Msgs)
  /\ linked \subseteq Msgs
  /\ pending_message_count \in Int
  /\ activated \in BOOLEAN
  /\ pending_to_be_destroyed \in BOOLEAN
  /\ user_class_instance \in BOOLEAN
  /\ async_scope \in Nat
  /\ pool \in Nat
  /\ freed \in BOOLEAN
  /\ unsent \subseteq Msgs
  /\ done \subseteq Msgs

\* At most one pool thread is between the check of the user object and the
\* release of activated_: the mailbox has one consumer, and the user object
\* is neither used by two threads nor reset under a running message
\* (activated_, actor.h:233 and 237-245).
Consuming == {"check", "reset", "loop", "exec", "sub", "clear"}
SingleConsumer ==
  \A v, w \in Workers : pc[v] \in Consuming /\ pc[w] \in Consuming => v = w

\* No thread will ever again take a step of this actor by itself.
Quiescent ==
  /\ \A t \in Threads : pc[t] \in {"idle", "wait", "done", "refused"}
  /\ pool = 0

\* No lost wakeup: when everybody has returned, no message is left behind in
\* the mailbox of a live actor, however the pushes, the end of the loop, the
\* subtraction, the store to activated_ and the recheck were interleaved
\* (actor.h:279-285 against 218-223).
NoLostMessage == Quiescent /\ user_class_instance => mailbox = << >>

\* The same for a request to destroy: it is never forgotten, even when
\* AsyncDestroy found the actor activated (actor.h:204-212 against 258-285).
NoLostDestroy == Quiescent /\ pending_to_be_destroyed => ~user_class_instance

\* Once AsyncDestroy has returned to its caller no message of the actor is
\* executed any more, even if other threads keep sending to it.
NothingExecutesAfterDestroy ==
  [][\A d \in Destroyers : pc[d] = "done" => done' = done]_vars

\* When AsyncDestroy returns, the user object has been destroyed.
DestroyedOnReturn ==
  \A d \in Destroyers : pc[d] = "done" => ~user_class_instance

\* When AsyncDestroy has returned no thread is inside the Actor object and
\* none is scheduled to enter it, so that its owner may delete it.
LifetimeCovered ==
  (\E d \in Destroyers : pc[d] = "done") => 
    /\ pool = 0
    /\ \A t \in Senders \cup Workers : pc[t] = "idle"

\* Every message that is pushed is eventually executed, whatever the number
\* of activations it takes, unless the actor is asked to be destroyed
\* (actor.h:269-285; what is still in the mailbox then is dropped).
EveryMessageExecuted ==
  \A m \in Msgs : (m \notin unsent) ~> (m \in done \/ pending_to_be_destroyed)

\* AsyncDestroy eventually returns (actor.h:201-215).
AsyncDestroyReturns ==
  \A d \in Destroyers : (pc[d] # "idle") ~> (pc[d] \in {"done", "refused"})

-----------------------------------------------------------------------------
(* The inductive invariant behind the safety properties.  The right to run  *)
(* the actor is a token: whoever sets activated_ has it, it travels through *)
(* the pool to a worker, and the worker gives it back by clearing the flag. *)

Holding == Consuming \cup {"schedule", "enter", "dclear"}
Won == {"count", "activate", "schedule", "wait", "done"}
Batch == {"loop", "exec", "sub"}

\* A thread between its exchange and its count, or in Execute(), has a message.
Slots ==
  /\ \A s \in Senders : pc[s] \in {"link", "count"} => msg[s] \in Msgs
  /\ \A w \in Workers : pc[w] = "exec" => msg[w] \in Msgs

\* The scope holds the queued operation and those being run.
Busy == {w \in Workers : pc[w] # "idle"}
Scope == async_scope = pool + Cardinality(Busy)

\* There is at most one token, and only while activated_ is set.
Token ==
  /\ pool \in {0, 1}
  /\ pool = 1 => activated
  /\ \A t \in Threads : pc[t] \in Holding => pool = 0 /\ activated
  /\ \A t, u \in Threads : pc[t] \in Holding /\ pc[u] \in Holding => t = u

\* While the user object lives, activated_ is never set without a token.
TokenExists ==
  activated /\ user_class_instance => pool = 1 \/ \E t \in Threads : pc[t] \in Holding

\* A worker past the checks works on a live user object, and destroys it only
\* on request.
User ==
  /\ \A w \in Workers : pc[w] \in Consuming => user_class_instance
  /\ \A w \in Workers : pc[w] \in {"dclear", "dsub"} => ~user_class_instance
  /\ \A w \in Workers : pc[w] = "reset" => pending_to_be_destroyed
  /\ ~user_class_instance => pending_to_be_destroyed

\* Exactly one caller of AsyncDestroy wins the flag.
Winner ==
  /\ \A d, e \in Destroyers : pc[d] \in Won /\ pc[e] \in Won => d = e
  /\ \A d \in Destroyers : pc[d] \in Won => pending_to_be_destroyed
  /\ pending_to_be_destroyed => \E d \in Destroyers : pc[d] \in Won

\* The count is the length of the mailbox, plus what the current batch has
\* popped and not yet subtracted, minus the pushes not yet counted, plus the
\* request to destroy.
Uncounted == {s \in Senders : pc[s] \in {"link", "count"}}
Extra == IF \E d \in Destroyers : pc[d] \in Won \ {"count"} THEN 1 ELSE 0
Popped(w) == message_executed[w] + (IF pc[w] = "exec" THEN 1 ELSE 0)
Balance == pending_message_count - Len(mailbox) + Cardinality(Uncounted) - Extra

Counted ==
  /\ \A w \in Workers : pc[w] \notin Batch => message_executed[w] = 0
  /\ user_class_instance =>
       /\ \A w \in Workers : pc[w] \in Batch => Balance = Popped(w)
       /\ (\A w \in Workers : pc[w] \notin Batch) => Balance = 0

\* A count above zero that nobody is working on is about to be noticed.
Wakeup ==
  user_class_instance /\ ~activated /\ pending_message_count # 0 =>
    \E t \in Threads : pc[t] \in {"activate", "recheck"}

\* The conjunction that every step of the actor preserves: it implies that
\* the mailbox has one consumer and that no wakeup is lost.
IInv ==
  /\ TypeOK /\ Slots /\ Scope /\ Token /\ TokenExists
  /\ User /\ Winner /\ Counted /\ Wakeup

\* Once AsyncDestroy has returned no run is in its loop: runs that were, kept
\* the scope from being empty, and later ones see the flag.
NoBatchAfterReturn ==
  \A d \in Destroyers : pc[d] = "done" => \A w \in Workers : pc[w] \notin Batch

\* Callers that wait for their pushes to return keep out of the destruction.
SendersQuiet ==
  DestroyWhen = "quiet" /\ DestroyStarted => \A s \in Senders : pc[s] = "idle"

-----------------------------------------------------------------------------
\* The messages in execution.
Running == {msg[w] : w \in {v \in Workers : pc[v] = "exec"}}

\* The actor implements the serial specification: a message is accepted at
\* the exchange of the mailbox's head, runs while a pool thread is in
\* Execute(), and the actor is closed by the reset of the user object.
Serial == INSTANCE SerialActor WITH
  inbox   <- mailbox,
  running <- Running,
  closed  <- ~user_class_instance

\* Messages execute one at a time, in the order in which the queue accepted
\* them, and none after the user object is gone (README.md:32).
RefinesSerialActor == Serial!SerialSpec
=============================================================================
