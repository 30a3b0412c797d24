---------------------------- MODULE MCDagCodegen ----------------------------
(* DagCodegen with the names codegen.py makes: x_task for the task of x. *)
EXTENDS DagCodegen

AuthorNames == {"x", "x_task", "y"}
AuthorNatives == {"x", "y"}
MadeNames == [name \in AuthorNatives |-> name \o "_task"]
=============================================================================
