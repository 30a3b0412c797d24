--------------------------- MODULE MCSharedCaches ---------------------------
(* The instance of SharedCaches that TLC checks. *)
EXTENDS SharedCaches, TLC

Symmetry == Permutations(Threads)
=============================================================================
