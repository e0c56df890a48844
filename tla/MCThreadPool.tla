---------------------------- MODULE MCThreadPool ----------------------------
(* A union of one pool with two workers; operation c asks for a scheduler    *)
(* that does not exist.                                                     *)
EXTENDS ThreadPool, TLC

CONSTANTS a, b, c

MCPools == {0}
MCWorkers == {1, 2}
MCPoolOf == [w \in MCWorkers |-> 0]
MCOps == {a, b, c}
MCIndex == (a :> 0) @@ (b :> 0) @@ (c :> 1)
MCPriority == (a :> 1) @@ (b :> 7) @@ (c :> 0)
=============================================================================
