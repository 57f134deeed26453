--------------------------- MODULE MCGitHubTokens ---------------------------
(* GitHubTokens on a small instance: the threads are alike.                *)
EXTENDS GitHubTokens, TLC

Skews    == -1 .. 1
Symmetry == Permutations(Thread)
=============================================================================
