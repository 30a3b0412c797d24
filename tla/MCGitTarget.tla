----------------------------- MODULE MCGitTarget -----------------------------
(* The instance of GitTarget that TLC checks. *)
EXTENDS GitTarget, TLC

Symmetry == Permutations(Threads) \cup Permutations(Files)
=============================================================================
