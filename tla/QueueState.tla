----------------------------- MODULE QueueState -----------------------------
(***************************************************************************)
(* The state of a moodycamel::ConcurrentQueue and of the threads that use   *)
(* it, shared by the modules that model its parts.                          *)
(***************************************************************************)
EXTENDS Integers, Sequences, FiniteSets

VARIABLES
  \* the pool of blocks (BlockPool)
  poolSize,     \* initialBlockPoolSize, fixed
  poolIndex,    \* initialBlockPoolIndex
  heap,         \* heap[b]: how often the block b from the heap is allocated
  freeListHead, \* FreeList::freeListHead
  freeListRefs, \* Block::freeListRefs
  freeListNext, \* Block::freeListNext
  fl,           \* the local variables of each thread in BlockPool
  \* the blocks and the producers (ImplicitProducer)
  elements,    \* Block::elements
  dequeuedIn,  \* Block::elementsCompletelyDequeued
  tailIndex,   \* ProducerBase: where to enqueue next
  headIndex,   \* ProducerBase: where to dequeue next
  optimistic,  \* dequeueOptimisticCount
  overcommit,  \* dequeueOvercommit
  tailBlock,   \* ProducerBase::tailBlock
  entries,     \* the BlockIndexEntry objects of each producer
  blockIndex,  \* the BlockIndexHeader objects of each producer, the last is current
  ql,          \* the local variables of each thread in ImplicitProducer
  \* the producers' table and the callers (ConcurrentQueue)
  pc,          \* the next step of each thread
  todo,        \* the calls each thread still makes: "enqueue", "dequeue", "exit"
  permits,     \* the semaphore of BlockingConcurrentQueue
  producers,   \* producerCount
  inactive,    \* the producers whose inactive is set
  hash,        \* the hash tables, the last is implicitProducerHash
  maxHashes,   \* the tables that fit into memory
  hashCount,   \* implicitProducerHashCount
  resizing,    \* implicitProducerHashResizeInProgress
  listeners,   \* the producers subscribed to the exit of each thread
  exiting,     \* the thread that holds ThreadExitNotifier::mutex (at most one)
  destroyed,   \* ~ConcurrentQueue has run
  hl           \* the local variables of each thread in ConcurrentQueue

poolVars == <<poolIndex, heap, freeListHead, freeListRefs, freeListNext>>
producerVars == <<elements, dequeuedIn, tailIndex, headIndex, optimistic, overcommit,
                  tailBlock, entries, blockIndex>>
counters == <<tailIndex, headIndex, optimistic, overcommit, tailBlock>>
tableVars == <<producers, inactive, hash, hashCount, resizing, listeners, exiting>>
fixed == <<poolSize, maxHashes>>

\* What the steps of BlockPool and those of ImplicitProducer leave alone.
outsideProducer == <<hl, todo, permits, tableVars, destroyed, fixed>>
outsidePool == <<producerVars, ql, outsideProducer>>

vars == <<poolVars, pc, fl, outsidePool>>
=============================================================================
