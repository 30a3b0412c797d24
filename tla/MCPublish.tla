------------------------------ MODULE MCPublish ------------------------------
(* The instance of Publish that TLC checks: the first flow has a variable and *)
(* a connection of its own; the second has that variable too, and uses the    *)
(* connection.                                                                *)
EXTENDS Publish, TLC

CONSTANTS f, g, v, c

LocalKeys == f :> {v, c} @@ g :> {v}
RemoteKeys == f :> {} @@ g :> {c}

Symmetry == Permutations(Threads) \cup Permutations(Ids)
=============================================================================
