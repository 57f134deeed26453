---------------------------- MODULE MCConnectors ----------------------------
(* Connectors on a small instance: submissions and workers are alike, and  *)
(* what a call was answered decides nothing of what comes after it.        *)
EXTENDS Connectors, TLC

Symmetry == Permutations(Req) \cup Permutations(Worker)

Ended(c) == call[c].result \notin {"none", "minted"}
View == <<res, req, cloud, procs, jwks, ghosts,
          [c \in Call |-> IF Ended(c) THEN "ended" ELSE call[c]]>>
=============================================================================
