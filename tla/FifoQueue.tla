------------------------------ MODULE FifoQueue ------------------------------
(***************************************************************************)
(* What a family of queues promises: the elements of a queue leave it in    *)
(* the order in which they entered it, each once, and queues do not mix.    *)
(***************************************************************************)
EXTENDS Sequences

CONSTANTS Queues, Values

VARIABLES
  contents,  \* the elements of each queue, the oldest first
  fresh      \* the values that have not been enqueued yet

vars == <<contents, fresh>>

Init == contents = [q \in Queues |-> <<>>] /\ fresh = Values

Enqueue(q, v) ==
  /\ v \in fresh
  /\ contents' = [contents EXCEPT ![q] = Append(@, v)]
  /\ fresh' = fresh \ {v}

Dequeue(q) ==
  /\ contents[q] # <<>>
  /\ contents' = [contents EXCEPT ![q] = Tail(@)]
  /\ UNCHANGED fresh

Next == \E q \in Queues : Dequeue(q) \/ \E v \in Values : Enqueue(q, v)

Spec == Init /\ [][Next]_vars
=============================================================================
