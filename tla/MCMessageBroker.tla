-------------------------- MODULE MCMessageBroker --------------------------
(* Instances of MessageBroker for TLC.                                     *)
EXTENDS MessageBroker, TLC

CONSTANTS n1, n2, k1, k2

\* Two calls of one node overlap.
TwoNodeFrom == k1 :> n1 @@ k2 :> n1
TwoNodeTo == k1 :> n2 @@ k2 :> n2

\* One call between two nodes.
OneCallFrom == k1 :> n1
OneCallTo == k1 :> n2
=============================================================================
