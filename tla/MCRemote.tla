------------------------------ MODULE MCRemote ------------------------------
(* Three methods, two of them with the same signature: a program that       *)
(* exports both does not start; the other exports one of them.  One of the  *)
(* two creation functions is exported.                                      *)
EXTENDS Remote, TLC

CONSTANTS m1, m2, m3, c1, c2

MCMethods == {m1, m2, m3}
MCSignature ==
  (m1 :> "void(int)") @@ (m2 :> "void(int)") @@ (m3 :> "Ref(Ref)")
    @@ (c1 :> "A(Ref)") @@ (c2 :> "A(Ref, int)")
MCPrograms ==
  {[create |-> c1, methods |-> {m1, m2}], [create |-> c1, methods |-> {m1, m3}]}
MCNodes == {0, 1}
=============================================================================
