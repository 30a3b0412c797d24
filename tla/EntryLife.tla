------------------------------- MODULE EntryLife -------------------------------
(***************************************************************************)
(* What the deploy journal promises of one entry: put once, open until it  *)
(* is closed, and never lost.  A stop overrules any other ending, and is   *)
(* overruled by none; only an entry that expired is opened again.          *)
(***************************************************************************)

VARIABLES
    life,      \* is the entry there, and is it still to be worked on
    ending     \* how it was closed

Endings == {"completed", "expired", "stopped"}

TypeOK ==
    /\ life \in {"absent", "open", "closed"}
    /\ ending \in Endings \cup {"none"}
    /\ life = "closed" <=> ending # "none"

Init == life = "absent" /\ ending = "none"

Put == life = "absent" /\ life' = "open" /\ ending' = "none"

Close(e) ==
    /\ life = "open" \/ (life = "closed" /\ ending # "stopped" /\ e = "stopped")
    /\ life' = "closed" /\ ending' = e

Reopen == life = "closed" /\ ending = "expired" /\ life' = "open" /\ ending' = "none"

Next == Put \/ Reopen \/ \E e \in Endings : Close(e)

Spec == Init /\ [][Next]_<<life, ending>>
=============================================================================
