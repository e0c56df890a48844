-------------------------- MODULE MCActorRegistry --------------------------
(* Instances of ActorRegistry for TLC.                                     *)
EXTENDS ActorRegistry, TLC

CONSTANTS n1, n2, t1, t2

\* One task on each of two nodes.
HomeTwo == t1 :> n1 @@ t2 :> n2
=============================================================================
