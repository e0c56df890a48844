# ncaf: specifications, model checks and proofs

ncaf is a C++20 actor framework on top of std::execution. User objects are
wrapped in actors that execute their messages one at a time on a shared thread
pool; a cluster of nodes creates, finds, calls and destroys actors across process
boundaries over ZeroMQ. This directory holds TLA+ models of the parts of ncaf
where a mistake would be a matter of interleaving, the TLC runs that check them
on small instances, and TLAPS proofs of the most important properties for every
instance. Paths below are relative to `src/`; `I/` is `include/ncaf/internal/`,
`S/` is `src/ncaf/internal/`, `L/` is `include/ncaf/3rd_lib/`.

## 1. Inventory

| Component | State | Operations | Talks to |
|---|---|---|---|
| Actor (`I/actor.h`) | mailbox, `pending_message_count_`, `activated_`, `pending_to_be_destroyed_`, user object, `async_scope_` | PushMessage, TryActivate, PullMailboxAndRun, AsyncDestroy | scheduler (spawns itself), mailbox queue, owner (registry) |
| MPSC queue (`L/daking/MPSC_queue.h`) | head, tail, linked nodes, a list of free nodes per thread, a lock-free stack of chunks, pages | constructor, emplace, try_dequeue, destructor, thread exit | actor mailboxes, broker queues |
| Semaphore (`I/util.h:21-105`) | `count_`, `waiters_`, mutex | Acquire, Release, OnDrained | used by user code and tests |
| MessageBroker (`I/network.h`, `S/network.cc`) | pending sends and replies, operation map, received-request map, sockets, `quit_latch_`, `stopped_`, `async_scope_` | SendRequest, ReplyRequest, two I/O loops, SendHeartbeat, CheckHeartbeat, ClusterAlignedStop | registry (request handler), ZeroMQ, peers |
| Failure detector (same files) | `last_heartbeat_`, `last_seen_` | refresh on send and receive, SendHeartbeat, CheckHeartbeat | the I/O loops |
| ActorRegistry and its processor (`I/actor_registry.h`, `S/actor_registry.cc`) | `actor_id_to_actor_`, `actor_name_to_id_` | CreateActor, DestroyActor, GetActorRefByName, HandleNetworkRequest, AsyncDestroyAllActors, shutdown | broker, actors, user code |
| ActorRef and its serialization (`I/actor_ref.h`, `I/actor_ref_serialization/`) | node ids, actor id, local pointer, broker pointer | Send, SendLocal, (de)serialization | actor, broker |
| Remote handler registry (`I/remote_handler_registry.h`, `I/reflect.h`) | key to handler maps | registration before main(), lookup | registry |
| Schedulers and pools (`I/scheduler.h`, queues of `I/util.h`) | operation queue, worker threads | EnqueueOperation, WorkerThreadLoop, SchedulerUnion, destructor | actors |
| moodycamel queue (`L/moody_camel_queue/`) | producers, blocks, block index, free list, hash tables, LightweightSemaphore | enqueue, wait_dequeue_timed, thread exit, destructor | thread pools |
| Wire format, logging | | | |

What is hard here:

* **Concurrency.** A sender, a pool thread that ends its batch and a caller of
  AsyncDestroy touch four atomics of an actor in any order. The broker has two
  threads, user threads and a stopping thread on shared maps and queues. Both
  queues are lock-free and recycle their memory while others still read it.
* **Ordering.** An operation must be registered before it can be answered; a
  destruction must not be forgotten; nodes may only stop when all others do.
* **Failure and time.** Peers crash; heartbeats are postponed by other traffic;
  the timed wait of a pool thread times out while a starter signals it.
* **Lifetime.** Actors are deleted, and operations completed, while other
  threads may hold pointers to them; a reference travels to nodes where its
  pointer means nothing.
* **Termination.** Every node waits for every other node at shutdown; callers
  wait for replies from actors that may be gone.

`PROJECT.json` lists these hazards at their lines with the properties aimed at
them.

## 2. Modules

| Module | Contents |
|---|---|
| `SerialActor` | abstract: an inbox, at most one running message, closed once |
| `Actor` | one actor, one action per atomic access; refines `SerialActor` |
| `ActorProofs` | TLAPS proofs about `Actor` |
| `Semaphore` | the semaphore; its proofs are in `RemoteProofs` |
| `MessageBroker`, `MessageBrokerProofs` | the brokers of a cluster, without time, and proofs about them |
| `Heartbeat` | the failure detector of a cluster, in discrete time; its proofs are in `RemoteProofs` |
| `ActorRegistry`, `ActorRegistryProofs` | the registries of a cluster and proofs about them |
| `FifoQueue` | abstract: queues of elements, each enqueued once |
| `MpscQueue` | the mailbox queue with its allocator, one action per atomic access; refines `FifoQueue` |
| `MpscQueueProofs` | proofs about `MpscQueue`, the refinement among them |
| `ThreadPool`, `ThreadPoolProofs` | the pools of a SchedulerUnion over their blocking queues, and proofs about them |
| `QueueState`, `BlockPool`, `ImplicitProducer`, `ConcurrentQueue` | moodycamel's queue: its variables, its free list of blocks, one producer's elements and block index, and the producers' hash table with the calls of the threads |
| `ConcurrentQueueProofs` | proofs about the hash tables of producers and the tickets of dequeues |
| `QueueBlocksProofs` | proofs about the blocks of the queue and the elements in them |
| `Remote`, `RemoteProofs` | a remote call from the reference to the method and back, and proofs about it, about `Semaphore` and about `Heartbeat` |
| `MC*` | instances for TLC |

How they fit together: `Actor` uses a FIFO mailbox, which is what `MpscQueue` is
shown to implement; `ThreadPool` uses an unordered queue whose elements can be
dequeued when a permit was taken, which is what `ConcurrentQueue` shows
(`DequeueCompletes`); `ActorRegistry` is built on what `Actor` and `MessageBroker`
guarantee; `Remote` abstracts from both to look at what is inside a request.

### Actor

Senders call `PushMessage`, Workers are pool threads, Destroyers call
`AsyncDestroy`; `pc[t]` is the next atomic access of thread t. The mailbox is a
sequence in the order of the queue's `exchange`; `linked` are the messages whose
node is reachable from its predecessor, so a push that has exchanged and not
linked hides later messages from `try_dequeue`, as in `MPSC_queue.h:396-406`.
`pending_message_count` is an integer: its value mod 2^64 is the
`atomic_size_t`, which really is below zero when a batch pops a message its
sender has not counted yet. The code only adds, subtracts and compares it with
zero, and its magnitude is bounded by the number of threads and messages, so the
comparisons come out the same.

`DestroyWhen` says how disciplined the callers of AsyncDestroy are (`any`: no
discipline; `completed`: after all sends completed; `quiet`: after all calls of
PushMessage returned), `OwnerFrees` whether the owner then deletes the actor as
`DestroyActor` does (`I/actor_registry.h:118-126`).

`SerialActor` is the promise of README.md:32 of the repository: messages run one
at a time in the order they were accepted, and none after the actor was closed.
The refinement maps the mailbox to the inbox, the message in `Execute()` to the
running one and the reset of the user object to the closing.

### Semaphore

Callers call Acquire and Release, every waiter is one OnDrained operation. The
mutex is the operation that holds it; `taken` is Acquire's local list, completed
after the unlock. `MaxDebt` and `MaxCount` bound the count for TLC.

### MessageBroker

Every node has user calls, a send thread (`send_pc`: top of the loop, requests,
flag test after a send, replies, heartbeat test, heartbeat spawns), a receive
thread and a stopping thread. An operation is its identifier and the call it
belongs to. `net[a][b]` is ZeroMQ: FIFO and lossless while the sending socket is
open. With `CloseDiscards` a close drops any suffix of each channel, as
`ZMQ_LINGER` 0 permits. `MaxHeartbeats` bounds the rounds of heartbeats.

### Heartbeat

Clocks are ages in ticks; a tick passes only when no thread has anything due.
The message's `request_node_id` decides which entry of `last_seen_` is
refreshed, as in `S/network.cc:212`.

### ActorRegistry

Per node the two tables, per object its configuration and its life, per task (a
user coroutine) its operation under way. What a processor method does between
two suspensions is one step, because the processor is itself an Actor
(`SingleConsumer` and `RefinesSerialActor`). Requests and replies are delivered
once (`CallReturns`, `OwnReply`), and `ClusterAlignedStop` lets a node go on when
all nodes are stopping (`AlignedStop`). A message in the mailbox of an actor is
executed while the actor is alive or being destroyed and dropped afterwards,
which is what `SerialActor` promises. `of` in a reference is a ghost: the object
the reference was made for. The code keeps it as a pointer on the object's own
node and does not know it elsewhere. `UniqueIds` restricts the draw of ids to ids
never drawn before in the cluster; without it any id missing in the node's own
table can be drawn, as the code does.

Local operations that throw (a duplicate name, an unknown id) change nothing and
are no steps. Remote ones reply an error. `Room` bounds the number of actors ever
made by the number of objects.

### MpscQueue

`next[n]` and `slot[n]` are the fields of node n; `slot` is the union of the value
and of `next_chunk_`, so a thread that reads a node another one has popped
meanwhile reads an element as a pointer, as at `MPSC_queue.h:179`. Every thread
may construct a queue, push, pop, destroy and exit; at most one pops a queue at a
time, as the class demands and `SingleConsumer` guarantees for mailboxes. Nodes
1..`count` are in the pages; what `Reserve` allocates is bounded by `MaxNodes`.
The tag of the stack's top is kept as a number: its wrap after 2^64 pops is left
out. `capacity` (`ThreadLocalCapacity`) is chosen in `Init`.

The refinement maps the nodes after the dummy to the abstract contents; an element
is in its queue from the exchange of `head_` on. A pop that finds the next node
not linked yet returns false in the model as in the code, although the abstract
queue has elements: `FifoQueue` therefore promises order and uniqueness, and no
more, of a pop that fails.

### ThreadPool

`kind` is the Queue argument of the pools (work sharing or priority) and is chosen
in `Init`. Workers go through `WorkerThreadLoop` and, in the blocking queue,
through `waitWithPartialSpinning` with its give-back of `m_count` after a timeout;
a starter enqueues, signals and posts in separate steps. An operation whose index
no scheduler of the union has is refused with an exception. The destructor
requests the stop of the workers one by one, in their order.

### ConcurrentQueue

The queue is modelled at the level of its atomic accesses, in three layers that
share `QueueState`: `BlockPool` (initial pool, free list with its reference
counts and the should-be-on-list bit, heap), `ImplicitProducer` (enqueue, dequeue,
the circular block index and its growth, set_empty) and `ConcurrentQueue` (the
hash table of producers with its resizes, recycling of producers of threads that
exit, the scan of `try_dequeue`, the destructor). A thread makes the calls of its
workload: free choice of calls would only multiply states with cases the
workloads already have. `MaxBlocks`, `MaxProducers` and `maxHashes` are the
memory: an allocation beyond them fails as `malloc` may, and the error paths of
enqueue are taken. Indices do not wrap around.

### Remote

The handler registry is one function from keys, filled before main() in an
arbitrary order; a key is the type of the function pointer, so methods of one
signature share it. A reference is what its members hold, plus where it came from
(`via`). The layout of a request is modelled by its sizes and offsets, the
arguments by the references in them: `Reflector::from` and `to` are translated
member by member, with and without `ActorRefDeserializationInfo`. Ids are per
node, so two nodes do give the same id.

## 3. Runs

| Run | Instance | Shows |
|---|---|---|
| `actor_destroy_race` | 3 messages, 2 senders, 2 workers, 2 destroyers, batches of 2 | the inductive invariant, one consumer, no lost message or destruction, refinement of SerialActor, nothing executed after AsyncDestroy returned |
| `actor_destroy_quiet` | same with 1 destroyer, `quiet`, owner frees, fair | AsyncDestroy returns, the object is gone then, nobody is inside the freed actor, every message is executed unless destruction was requested |
| `semaphore` | 2 callers, 2 waiters, amounts 1 and 2, count from -2 to 3, fair | no waiter lost, none completed twice, waiters of a drained semaphore complete |
| `broker_calls` | 2 nodes, 2 overlapping calls of one node, 1 heartbeat round each, discarding closes | a response finds its operation and completes the right call; the latch never goes below zero (`TypeOK`) |
| `broker_live` | 2 nodes, 1 call, no heartbeats, fair | calls return, the cluster stops together, the stop completes with an empty scope |
| `heartbeat` | 3 nodes, n1 calls n2 every 4 ticks, interval 2, timeout 6, delay 1, n1 may crash, fair | no false death, every crash is noticed by all |
| `registry` | 2 nodes, 2 tasks, 2 objects, 2 ids, 1 name, unique ids, fair | both tables agree, references lead to their actors, requests are answered, nothing is under way once a node destroys its actors, all actors are destroyed when Shutdown returns |
| `mpsc` | 2 threads, 1 queue object constructed any number of times, chunks of 1 or 2 nodes, 4 nodes, 3 elements | a node is in one place at a time and in no freed page; the queue refines FifoQueue |
| `thread_pool` | 1 pool of either kind, 2 workers, 3 operations (two priorities, one bad index), fair | permits match elements whatever times out, operations are executed unless the pool is destroyed, the destructor returns |
| `concurrent_queue` | 3 threads with one hash value, blocks of 2 elements, 3 blocks, block index of 2, 7 workloads, fair | a dequeue gets the element of its index, one producer per thread, no block lost or held twice, a dequeue with a permit completes |
| `remote` | 2 nodes, 1 id per node, 3 methods (two of one signature), 2 creation functions, 2 programs, 4 requests | an exported method is the one that runs, a reference passed as an argument is usable where it arrives |
| `remote_reference` | as `remote`, 3 requests | *violation*: a reference returned by a remote method is not usable |

The bounds: three messages with batches of two give a full and a partial batch,
and a message that arrives during each. Two workers are enough for two consumers,
two destroyers for a winner and a loser. Two callers and two waiters make a list
that two Acquires could both take. Two calls of one node can overlap and be
answered in either order. Three nodes let a node be kept busy by one peer while
another is silent. In the registry two objects can meet on one node or on two,
compete for the one name and, with reuse, share an id. Four nodes of the MPSC
queue are a dummy, two elements and a spare, so that nodes pass through the lists
of both threads and through the global stack, and a chunk can be popped, filled
and pushed again while another thread holds its address; two allocations of a page
are possible, and a free of the pages while the other thread constructs. Two
workers and two operations make a timeout race a signal meant for the other
worker. In the moodycamel queue the cold workloads start from an empty queue (a
producer whose index grows until memory is exhausted; a thread that exits and
whose producer is taken over; no memory for the second hash table), the warm ones
from a state in which two producers have filled a block each and both blocks are on
the free list, so that three threads meet in the free list, in the last block of the
initial pool, or at the last element.

`remote_reference` is the one run that shows a disagreement between the code and its
documentation: README.md:21 of the repository promises that a caller needs only an
ActorRef and Send, yet `I/actor_ref.h:131-134` deserializes a return value without
ActorRefDeserializationInfo. The result has no broker and no pointer: Send throws,
or dereferences null when the actor's node is 0.

Deadlock is not checked in these models: every one of them ends (no messages,
calls or objects left, all processes down), which is no error. Liveness
properties say instead what must not be left undone.

Fairness is weak for every thread that has begun an operation (the OS schedules
it), for pool threads and I/O loops (they poll), for ZeroMQ's delivery and for
user code returning from `Execute()`. It is strong in two places: for a caller
that waits for the semaphore's mutex, and for the compare-and-swap with which a
timed-out pool thread gives back its place (`ThreadPool!Adjust`), which only
another worker's can defeat, and that one sleeps 10 ms between two of them. In
`ConcurrentQueue` every thread inside a call is weakly fair and no more. Nothing
makes user code start an operation, a shutdown or a crash.

### Other disagreements, and how to see them

These follow from the models but are not runs of their own. The first five appear
when a constant of a run is changed as stated.

* *Actor freed under a sender* (`I/actor.h:222-226`): `actor_destroy_quiet` with
  `DestroyWhen = "completed"`, one worker and `MaxPerActivation = 1` violates both
  `DestroyedOnReturn` and `LifetimeCovered`. All messages completed, yet a sender can still be before its
  `fetch_add` or TryActivate when AsyncDestroy returns and the actor is deleted.
* *Spawn into a drained scope* (`S/network.cc:256`): `broker_live` with
  `MaxHeartbeats = 1` violates `ScopeDrainedAtStop`. A heartbeat round that tested
  `stopped_` early spawns after the scope was found empty.
* *One-way traffic* (`S/network.cc:212`): `heartbeat` with `Hosts = {n1, n2}`,
  `Timeout = 20`, `RequestGap = 1`, `Crashes = {}` and without the assumption of
  `MCHeartbeat` violates `NoFalseDeath`. Replies
  refresh the receiver's own entry and postpone the responder's heartbeats, so the
  caller declares a healthy peer dead.
* *Equal ids* (`I/actor_registry.h:116`): `registry` with `UniqueIds = FALSE`
  violates `ReachesItsActor`. Ids are unique per node only, and DestroyActor ignores
  the node of the reference.
* *Operation read after completion* (`S/network.cc:161-166`, `229-231`): in
  `broker_calls` the step `SendFlag` is enabled for an operation whose call is
  already `"done"`, because the response completed it after the send. An invariant
  that the operation of `SendFlag` is alive fails.
* *Unexported methods* (`I/reflect.h:167`): a call of a method that is not exported
  runs the exported one of the same signature; the comment at
  `I/remote_handler_registry.h:75-77` speaks of the method's name as the key.
* *Empty references* (`actor_ref_serialization.h`): `is_valid` is written from
  `is_empty_` and never read; an empty reference arrives as a non-empty one to
  actor 0 of node 0. A reference to a destroyed local actor arrives with a null
  pointer.
* *ParseMessageType* (`S/actor_registry.cc:94-97`) is not called, and its CHECK_LE
  is the wrong way round.
* *Chunk sizes* (`MPSC_queue.h:86-91`): `Allocate` does not decrement the thread's
  count, so that chunks do not keep the size the comment states. A destroyed queue
  keeps its dummy from reuse, and a thread that exits its list, until the last
  queue goes.
* *Dropped enqueue* (`I/util.h`, `UnboundedBlockingQueue::Push`): the result of
  enqueue is ignored; when memory is exhausted the operation is lost silently. In
  `ThreadPool` an enqueue does not fail.

## 4. Proofs

All theorems hold for every value of the constants that satisfies the named
assumptions of the module: disjoint thread sets, finitely many senders, workers and
nodes, calls between different nodes, a batch bound above zero, `None` outside the
data sets, a pool of a queue that is within its memory. Seven have a hypothesis besides,
stated with them below: `RoutingSound`, `SafeDestruction`, `ObjectGone`, `NoFalseDeaths`,
`ScopeDrained`, `BlocksAreAccounted`, `ElementIsClaimed`.

**ActorProofs.** `Invariance` shows that `IInv` is inductive, and the safety
properties follow from it: `TypeCorrect`, `MutualExclusion` (`SingleConsumer`),
`NoLostWakeup` (`NoLostMessage`), `DestroyNotForgotten` (`NoLostDestroy`). None of
them is inductive alone. `SingleConsumer` needs the *token*: whoever sets
`activated_` holds the right to run the actor, which travels through the pool to
a worker and is given back by clearing the flag (`Token`, `TokenExists`). No lost
message needs the *balance*: the count is the length of the mailbox, plus what the
current batch popped and has not subtracted, minus the pushes not yet counted,
plus one for a destruction (`Counted`), and a nonzero count that nobody works on
has somebody at `TryActivate` or at the recheck (`Wakeup`). `NothingExecutes`
adds that no batch runs once AsyncDestroy has returned (`NoBatchAfterReturn`;
`Scope` ties the scope's size to the workers). `SafeDestruction` is
`LifetimeCovered` and `DestroyedOnReturn` for `quiet` callers (`ObjectGone` the
latter alone). `Refinement` shows that every step of the actor is a step of `SerialActor` or a stutter.

**Semaphore** (in `RemoteProofs`, which extends that module too). `NoWaiterLost` from
`Handover` (while an operation is between its load and its push it holds the mutex, and a
count drained meanwhile has left an Acquire waiting for it), `CompletesOnce` from `Ownership`
(an operation is in one list at most), `SemaphoreType`.

**MpscQueueProofs.** `NodesArePlaced`: `NodesInv` is inductive for any number of threads,
queues, nodes and elements and any chunk size. It says that there is a function `o` that
gives each node its one place (a queue, a chunk of the stack, a thread's list or hand, or
nowhere) and a function `Q` that gives each queue its nodes in order, such that the
pointers of the code agree with both: `Chain` (`next_` follows `Q` except where a thread
is between its exchange and its link), `LinksInv` and `First` (lists and chunks are
linked without a cycle), `StackInv` (the stack's slots), `Holding`, `PagesInv`; and,
without `o` and `Q`, what each thread's step allows (`ControlInv`), that a top of the stack
once read has not come back with its tag (`PopInv`, the ABA argument) and that
`global_instance_count_` counts the queues (`InstancesInv`). A step gives the new `o` and `Q`
explicitly. Neither is a variable of the model: the existential is inside the invariant.

`NodesHaveOneOwner` (`OneOwner`) follows. The walks of `OneOwner` along `next_` are recursive
functions; what they meet is found by minimal counterexample (`Least`, from the
well-foundedness of the naturals), which replaces induction over the length of a walk
(`WalkSteps`, `WalkWithin`, `FewNodes`). `QueuesAreFifo` (`RefinesFifoQueue`) adds `ValuesInv` (an
element is in one slot, and the elements to come are in none) and `Holds`: the walk that
`Contents` makes from `tail_` is `Q`. Then the exchange of `head_` is the enqueue, the move of
`tail_` the dequeue, and every other step a stutter (`FifoNext`).

**ActorRegistryProofs.** `TablesAgree` from `TablesInv`: both tables agree, what is
registered was made (so a new object is in no table), and a request names what its
handler reads. `RoutingSound`, for clusters that never draw an id twice, from
`RoutingInv` on top: an id is registered on one node at most, and the id of every
reference held, asked with or replied is registered for its object or not at all.
`ShutdownComplete` (`NoRequestAfterStop` and `AllDestroyedAtShutdown`, with or
without unique ids) from `ShutdownInv`: a node that stops has no task of its own
under way and nobody passes the aligned stop while a node runs, so no creation can
arrive late; and every actor ever made on a node is registered there, destroyed,
or in the hands of a task in DestroyActor, so that destroying what is registered
leaves none behind.

**MessageBrokerProofs.** One invariant, `BrokerInv`, for any number of nodes, calls
and heartbeats, and with or without closes that discard messages:

* `ShapeInv`, `ControlInv`: every queue holds messages that belong there (`Own`,
  `Asked`, `Between`), which is what routing depends on;
* `IdsInv`: ids are drawn once, the operations of a node have different ids, and a call
  that waits finds its operation registered;
* `FlightInv`: a call that waits has at most one message on its way, counted over
  the sender's queue, both channels, the receiver's table and its reply queue; any
  other call has none. This is the invariant behind `ResponseFound`: a response on
  its way means that the call still waits, so its operation has not been erased;
* `ReplyInv`: `ResponseFindsOperation` and `OwnReply` themselves (`RepliesMatch`);
* `StopInv`: node m owes node n at most one quit message, still to be sent, queued or
  under way (`Owed`), and the latch of n is at least the number of nodes that owe it
  one, plus one while n has not counted itself down. So a latch at zero means that
  every node has decided to stop (`StopAligned`), and no count goes below zero
  (`BrokerType`);
* `ScopeInv`: `async_scope` is the number of spawned operations that are queued or in
  the send thread's hand.

On top of it `NoQuitQueued` gives `QuitsLeave`: when a node asks its threads to stop no
quit message is left in its queue, although heartbeats may be. `ScopeDrained` has the
hypothesis `MaxHeartbeats = 0`: with heartbeats `ScopeDrainedAtStop` is false (section 3).
The operators that count messages in queues have lemmas of their own (`CountAppend`,
`CountTail`, ...), on which the proofs of the steps rest.

**Heartbeat** (at the end of `RemoteProofs`). `NoFalseDeaths` from `HeartbeatInv`: while no node has failed,
every node is up, `hb_age` is at most the interval, a channel delivers in order and in time
and carries at most one request, and every node is `Heard` by every peer: either a
sign of life of it is on its way, or a set D of *sources* (the nodes that request of
it, and itself if it requests) has postponed its heartbeat since the peer last saw it,
and none of these can do so again before the heartbeat is due. Each source adds one
interval to the silence. The hypothesis `SparseRequests` is therefore
`RequestGap > |Sources(n)| * Interval + MaxDelay` and
`Timeout > (|Sources(n)| + 1) * Interval + MaxDelay`. The run's constants satisfy it (TLC
evaluates it there), and on the run's topology both bounds are sharp: one tick less of
`Timeout` (5) or of `RequestGap` (3) violates `NoFalseDeath`. Without any such hypothesis
it is false (section 3, one-way traffic).

**ThreadPoolProofs.** `SignalsMatch` from `SignalsInv`: the account of elements, permits,
waiters and posts, together with the type of the state and the fact that a starter past
connect() has a pool. It holds for every interleaving of signals, timeouts and the
give-back of a timed-out worker. `DequeueFindsElement` follows: in a work-sharing pool
a worker that the semaphore let through finds an element. `NoSecondExecution` from
`OnceInv`: an operation is in its own pool's queue, in one worker's hand or executed,
and only one of these.

**RemoteProofs.** `RunsNamed` and `ExportedFound` from `HandlersInv`: what has been
registered is found under its own key, registration is over when main() runs, and a
request carries the key of the method asked for. `ArgumentsUsable` from `ArgumentsInv`:
the reference in a request is a copy of one held somewhere (`ArgumentsAreHeld`), and an id
is not given to an actor while a reference with it is held (`Unused`), and what the reader put into a reference that
arrived stays right while actors come and go (`ArgumentSet`).

**ConcurrentQueueProofs.** `OneProducer` (`OneProducerPerThread`) from `QueueInv`, for any
number of threads, hash values, tables and producers. `OwnersInv`: the producers that
threads listen with are disjoint, one per thread at most, none of them is up for
recycling, and a producer taken but not yet subscribed is nobody's. That alone is not
inductive, because a thread that misses its slot takes a second producer. `SlotsInv` is
what excludes it: a slot with a thread's key holds the thread's producer, linear probing
from the thread's hash reaches it over slots that are all taken, a thread that has a
producer is found in some table, and a thread that leaves has its key in no table after
the one it works on. `DestroyedInv` covers the destructor, after which tables mean
nothing. `ProducerHasOneWriter` adds `WriterInv` (a thread inside enqueue, also in a
FreeList::add that try_get makes, has a producer it listens with): no two threads are
ever inside enqueue with one producer, so its tail index and block index need no lock.

`ClaimsArePublished` says that `headIndex` never passes `tailIndex`. The code has three
counters and no lock: a dequeue first adds to the optimistic count, gives up by adding to
the overcommit, and only otherwise draws the next index. `TicketInv` keeps of each
producer the *tickets*, values of the optimistic count that a dequeue got: those that
claimed an index, C, are `headIndex` many and those that failed, F, are as many as the
overcommit. They differ from each other and from those still in a thread's hand. A thread
that claims has a ticket m of which m - |{k in F : k < m}| is below `tailIndex` (its
overcommit, read before, is no more than the failures below m), so the largest
ticket in C bounds the size of C by `tailIndex`.

**QueueBlocksProofs.** The two theorems about blocks, for any number of producers and
blocks, any size of blocks and of the first block index, any number of growths, and any
interleaving of threads. Both have the hypothesis `FewThreads`: the threads are finitely
many and fewer than the flag with which a block's reference count says that it should be
on the free list (2^16 in the model, 2^31 in the code); a count that reaches the flag
would say so falsely. `WorkloadAssumption` of `ConcurrentQueue` puts the initial pool of a
workload within `MaxBlocks`.

`BlocksAreAccounted` (`BlocksAccounted`) from `Placed`: there are functions that give each
block its kind, the thread that has it in hand, the producer and entry it is stored in, and a
list that is the free list, such that pointers and counts agree with them. A block is
unused, listed, stored in one entry, in one hand (four kinds, by how far `try_get`,
`add` or the enqueue has come), or *owed*: to be listed by the last thread that still refers to it.
Each kind fixes what the reference count is beyond the threads that refer to the block
(`CountsInv`). That is why the compare-and-swap of `try_get` is safe although the head it
compares may have been off the list and on again meanwhile: a thread that holds a reference
keeps the `next` of the block from being written (`KnowsInv`). The walk of `OnList` and the sets
of `Holders` are then shown to be what the invariant says (`OnListIs`, `HoldersAre`),
and `NoneLeft` that the destructor frees every block once.

`ElementIsClaimed` (`DequeuesItsElement`) needs `Placed`, the tickets, and `ElementInv`: for each
producer the number n of blocks begun, the sequence X of the entries they were given and
the set D of indices whose dequeue is over. The entries are those of the current header, round
and round, in their order (`IndexInv`), and keep it when the index doubles; entry X[k] has the base
index of block k as its key while it has a block (`KeysInv`); a block leaves the index only
when all its indices are in D (`LiveInv`), counts exactly those (`FilledInv`), and
has at each index still wanted the element of that index. The thread that enqueues
(`Writer`) and those that dequeue (`Reader`) are tied to these; a dequeue that read a header which
has been replaced since still finds its entry in it (`Finds`). One lemma per action
shows that the action keeps it.

### Only model-checked

* All liveness properties (`EveryMessageExecuted`, `AsyncDestroyReturns`,
  `DrainedWaiterCompletes`, `CallReturns`, `StopCompletes`, `CrashDetected`,
  `RequestAnswered`, `StartedIsExecuted`, `DestructorReturns`, `DequeueCompletes`): the
  provers handle neither fairness nor ENABLED.

Every invariant that a run checks is stated by a theorem, and so are the
refinements. A proof holds for the model, with its atomicity and its bounded memory
(section 5), and some have the hypotheses named above.

## 5. Assumptions and what is left out

* Atomics are sequentially consistent. The read-modify-writes of ncaf's own code are
  release or acq_rel operations and full barriers on x86; weaker hardware is not
  covered, and of the two queues only the algorithms are, not their memory orders.
* A message that sends to its own actor is a sender whose steps fall while the
  worker executes. User code returns from `Execute()`.
* User code stops a node only after its own calls have returned. A call in flight
  when its node's I/O threads are joined never completes.
* `StopCompletes` assumes that a closing socket discards nothing. With
  `ZMQ_LINGER` 0 (`S/network.cc:95`) a quit message may be lost when its sender
  closes, and its receiver waits at the latch for ever.
* Messages in the mailbox of a destroyed actor are dropped and their senders never
  complete (`I/actor.h:200`); `RequestAnswered` excepts such a request by name. A
  pool that is destroyed abandons what is queued; `StartedIsExecuted` excepts it.
* An OnDrained operation may complete although the count was positive ever since
  it started, if a Release falls between Acquire's subtraction and its taking the
  list.

Not modelled:

* the order of construction in `ActorRegistry` (the broker's threads start before
  the members its handler uses exist) and `Init` of the global registry;
* what reflect-cpp and Cap'n Proto write: only sizes, offsets and references are;
* `WorkStealingThreadPool`, whose pool is stdexec's and not in this repository;
* of the MPSC queue: bulk and blocking operations and `reserve_global_chunk`, which
  ncaf does not call, and the wrap of the stack's tag;
* of the moodycamel queue: explicit producers and tokens, bulk operations, moves and
  swaps, which ncaf does not call, the wrap of the indices, and a failing allocation
  of a producer;
* logging: formatting and output over spdlog, read by nobody.

## 6. Plan

Done: Actor against SerialActor, Semaphore, MessageBroker and Heartbeat,
ActorRegistry, Remote, MpscQueue against FifoQueue, ThreadPool, ConcurrentQueue;
proofs of every invariant and refinement the runs check.

Left, in this order:

1. The broker implements an abstract call that is answered at most once.
2. Construction order of the registry, with a peer whose first request arrives
   before the constructor ends.
