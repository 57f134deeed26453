---------------------------- MODULE MCDashboards ----------------------------
(* Dashboards on a small instance: requests and sources are alike.         *)
EXTENDS Dashboards, TLC

Symmetry == Permutations(Request) \cup Permutations(Source)
=============================================================================
