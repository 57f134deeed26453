----------------------------- MODULE MCSpendCap -----------------------------
(***************************************************************************)
(* Three invocations, one of which queues a job, with costs of one and two *)
(* cents against a cap of two.                                             *)
(***************************************************************************)
EXTENDS SpendCap, TLC

CONSTANTS a, b, c3, j

OneParent == (j :> a)
Costs     == (a :> 1 @@ b :> 2 @@ c3 :> 1 @@ j :> 2)
=============================================================================
