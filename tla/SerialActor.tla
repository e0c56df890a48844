----------------------------- MODULE SerialActor -----------------------------
(***************************************************************************)
(* What an actor promises its callers (the repository's README.md:32: an    *)
(* actor executes its messages serially, so user code needs no locks):     *)
(* messages are accepted into one queue, started strictly in the order of  *)
(* acceptance, one at a time, each at most once; once the actor is closed  *)
(* nothing is ever started again, and it is never closed under a running   *)
(* message.  Actor.tla, the lock-free implementation, refines this module. *)
(***************************************************************************)
EXTENDS Sequences, FiniteSets

CONSTANT Msgs

VARIABLES
  inbox,    \* accepted messages, oldest first
  running,  \* the messages being executed: none or one
  done,     \* the messages whose execution has finished
  closed    \* the user object is gone

avars == <<inbox, running, done, closed>>

SerialInit ==
  /\ inbox = << >>
  /\ running = {}
  /\ done = {}
  /\ closed = FALSE

Accept(m) ==
  /\ inbox' = Append(inbox, m)
  /\ UNCHANGED <<running, done, closed>>

\* Only the oldest message may start, only when nothing runs and the actor
\* is still open.
Begin ==
  /\ inbox # << >>
  /\ running = {}
  /\ ~closed
  /\ running' = {Head(inbox)}
  /\ inbox' = Tail(inbox)
  /\ UNCHANGED <<done, closed>>

Finish(m) ==
  /\ running = {m}
  /\ running' = {}
  /\ done' = done \cup {m}
  /\ UNCHANGED <<inbox, closed>>

Close ==
  /\ running = {}
  /\ ~closed
  /\ closed' = TRUE
  /\ UNCHANGED <<inbox, running, done>>

SerialNext ==
  \/ \E m \in Msgs : Accept(m) \/ Finish(m)
  \/ Begin
  \/ Close

SerialSpec == SerialInit /\ [][SerialNext]_avars
=============================================================================
