---------------------------- MODULE MCHeartbeat ----------------------------
(* Instances of Heartbeat for TLC.                                         *)
EXTENDS Heartbeat

CONSTANTS n1, n2, n3

\* User code on n1 calls actors on n2, and never the other way round.
OneWay == {<<n1, n2>>}

ASSUME SparseRequestsAssumption == SparseRequests
=============================================================================
