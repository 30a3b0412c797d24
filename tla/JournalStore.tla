----------------------------- MODULE JournalStore -----------------------------
(***************************************************************************)
(* The files under one entry of the deploy journal.  An entry is a file in *)
(* pending/, inflight/ or done/; entries do not share files.  A step is    *)
(* one system call that changes or reads a file: the rename of a claim,    *)
(* the replace of an atomic write, one unlink.  There is no lock in the    *)
(* code, so any thread may act between any two calls of another; crossed   *)
(* remembers that one acted inside a section another had open.             *)
(***************************************************************************)
EXTENDS Naturals, Sequences

CONSTANTS
    Sweeper,       \* the reconciler's thread
    Handlers,      \* request threads
    NoDoc,
    MaxClaims,     \* bound of the model: claims, and so tokens
    MaxRequests,   \* bound: operations by request threads
    MaxFaults      \* bound: crashes and failing writes

Operations == {"claim", "release", "stop", "finish", "record", "veto", "reopen"}

Dirs == {"pending", "inflight", "done"}

\* What a file says, as far as the operations look: the claim token (0: none), the
\* outcome, the unpause step and the two request keys.
Doc == [token: 0 .. MaxClaims,
        ending: {"none", "completed", "expired", "stopped"},
        unpause: {"pending", "done", "vetoed", "elapsed"},
        stop: {"absent", "requested", "consumed"},
        veto: {"absent", "requested", "consumed"}]

ASSUME StoreAssumption ==
    /\ NoDoc \notin Doc
    /\ Sweeper \notin Handlers
    /\ MaxClaims \in Nat /\ MaxRequests \in Nat /\ MaxFaults \in Nat

Threads == {Sweeper} \cup Handlers

VARIABLES
    disk,       \* the file in each directory
    th,         \* each thread: its operation, its next step, the entry it has in memory
    told,       \* history: what the request threads were answered
    residue,    \* history: an unlink failed, and the code went on
    crossed,    \* history: a thread acted inside another's open section
    claims, requests, faults

vars == <<disk, th, told, residue, crossed, claims, requests, faults>>

TypeOK ==
    /\ disk \in [Dirs -> Doc \cup {NoDoc}]
    /\ \A t \in Threads :
          /\ th[t].op \in Operations \cup {"none"}
          /\ th[t].pc \in {"idle", "read", "stamp", "held", "check", "write", "unlink",
                           "inflight", "place"}
          /\ th[t].doc \in Doc \cup {NoDoc}
    /\ \A dir \in {"pending", "done"} : disk[dir] # NoDoc => disk[dir].token = 0
    /\ told \subseteq {"finished", "requested", "vetoed"}
    /\ residue \in BOOLEAN /\ crossed \in BOOLEAN
    /\ claims \in 0 .. MaxClaims /\ requests \in 0 .. MaxRequests /\ faults \in 0 .. MaxFaults

NewDoc == [token |-> 0, ending |-> "none", unpause |-> "pending",
           stop |-> "absent", veto |-> "absent"]

Idle == [op |-> "none", pc |-> "idle", doc |-> NoDoc, to |-> "pending", rest |-> <<>>]

Init ==
    /\ disk = [dir \in Dirs |-> NoDoc]
    /\ th = [t \in Threads |-> Idle]
    /\ told = {} /\ residue = FALSE /\ crossed = FALSE
    /\ claims = 0 /\ requests = 0 /\ faults = 0

-----------------------------------------------------------------------------
\* Operations with an open section: they have read what they are about to write, or
\* written and not yet dropped the other copies.  A stop on its way from its read to
\* its write has none: the token check is there for it.
Delicate == Operations \ {"stop"}

\* A step of thread t falls into nobody's open section.
Turn(t) == \A u \in Threads \ {t} : th[u].op \notin Delicate

By(t) == crossed' = (crossed \/ ~Turn(t))

Fault == faults < MaxFaults /\ faults' = faults + 1

\* A request names an entry that has been journaled.
Asked(h) ==
    /\ By(h) /\ th[h] = Idle
    /\ \E dir \in Dirs : disk[dir] # NoDoc
    /\ requests < MaxRequests /\ requests' = requests + 1

Goes(t, op, pc, doc, to) ==
    th' = [th EXCEPT ![t] = [op |-> op, pc |-> pc, doc |-> doc, to |-> to, rest |-> <<>>]]

Rests(t) == th' = [th EXCEPT ![t] = Idle]

\* Mutant: a copy in inflight/ is left where it is.
WithoutInflight(dir) == IF dir = "pending" THEN <<"done">> ELSE <<"pending">>

\* The other directories, in the order in which _move_out cleans them.
Others(dir) ==
    CASE dir = "pending"  -> <<"inflight", "done">>
      [] dir = "inflight" -> <<"pending", "done">>
      [] dir = "done"     -> <<"pending", "inflight">>

Vetoed(d) == [d EXCEPT !.unpause = IF @ = "pending" THEN "vetoed" ELSE @]

\* Mutant: the holder's copy wins.
MergedNothing(held, stored) == held

\* Only a request the holder never saw.
Merged(held, stored) ==
    [held EXCEPT
        !.stop = IF held.stop = "absent" /\ stored.stop = "requested" THEN "requested" ELSE @,
        !.veto = IF held.veto = "absent" /\ stored.veto = "requested" THEN "requested" ELSE @]

-----------------------------------------------------------------------------
(* _move_out: check the token, write, drop the other copies. *)

\* Mutant: whoever wrote first has lost.
CheckNothing(t) ==
    /\ By(t) /\ th[t].pc = "check"
    /\ th' = [th EXCEPT ![t].doc.token = 0, ![t].pc = "write"]
    /\ UNCHANGED <<disk, told, residue, claims, requests, faults>>

\* The holder's copy in inflight/ must still carry the holder's token.
Check(t) ==
    LET current == disk["inflight"]
    IN  /\ By(t) /\ th[t].pc = "check"
        /\ IF current # NoDoc /\ current.token = th[t].doc.token
           THEN th' = [th EXCEPT ![t].doc = [Merged(@, current) EXCEPT !.token = 0],
                                 ![t].pc = "write"]
           ELSE Rests(t)
        /\ UNCHANGED <<disk, told, residue, claims, requests, faults>>

\* _atomic_write: the whole file or nothing.
Write(t) ==
    LET my == th[t]
    IN  /\ By(t) /\ my.pc = "write"
        /\ disk' = [disk EXCEPT ![my.to] = my.doc]
        /\ th' = [th EXCEPT ![t].op = IF @ = "stop" THEN "finish" ELSE @,
                            ![t].pc = "unlink", ![t].rest = Others(my.to)]
        /\ UNCHANGED <<told, residue, claims, requests, faults>>

WriteFails(t) ==
    /\ By(t) /\ th[t].pc \in {"write", "place", "stamp"}
    /\ Fault
    /\ Rests(t)
    /\ UNCHANGED <<disk, told, residue, claims, requests>>

\* The last unlink ends the operation.
Unlinked(t) ==
    LET rest == Tail(th[t].rest)
    IN  IF rest # <<>>
        THEN th' = [th EXCEPT ![t].rest = rest] /\ UNCHANGED told
        ELSE /\ Rests(t)
             /\ told' = IF th[t].op = "finish" THEN told \cup {"finished"} ELSE told

Unlink(t) ==
    /\ By(t) /\ th[t].pc = "unlink"
    /\ disk' = [disk EXCEPT ![Head(th[t].rest)] = NoDoc]
    /\ Unlinked(t)
    /\ UNCHANGED <<residue, claims, requests, faults>>

\* An OSError of an unlink is swallowed.
UnlinkFails(t) ==
    /\ By(t) /\ th[t].pc = "unlink" /\ disk[Head(th[t].rest)] # NoDoc
    /\ Fault
    /\ residue' = TRUE
    /\ Unlinked(t)
    /\ UNCHANGED <<disk, claims, requests>>

-----------------------------------------------------------------------------
(* The sweep. *)

\* put, by the deploy; the id is new.
Put ==
    /\ \A dir \in Dirs : disk[dir] = NoDoc
    /\ claims = 0 /\ requests = 0
    /\ disk' = [disk EXCEPT !["pending"] = NewDoc]
    /\ UNCHANGED <<th, told, residue, crossed, claims, requests, faults>>

\* claim: the rename replaces what is left in inflight/.
Claim ==
    /\ By(Sweeper) /\ th[Sweeper] = Idle /\ disk["pending"] # NoDoc
    /\ claims < MaxClaims /\ claims' = claims + 1
    /\ disk' = [disk EXCEPT !["pending"] = NoDoc, !["inflight"] = disk["pending"]]
    /\ Goes(Sweeper, "claim", "read", NoDoc, "inflight")
    /\ UNCHANGED <<told, residue, requests, faults>>

ClaimRead ==
    /\ By(Sweeper) /\ th[Sweeper].pc = "read"
    /\ IF disk["inflight"] = NoDoc THEN Rests(Sweeper)
       ELSE Goes(Sweeper, "claim", "stamp", [disk["inflight"] EXCEPT !.token = claims], "inflight")
    /\ UNCHANGED <<disk, told, residue, claims, requests, faults>>

ClaimStamp ==
    /\ By(Sweeper) /\ th[Sweeper].pc = "stamp"
    /\ disk' = [disk EXCEPT !["inflight"] = th[Sweeper].doc]
    /\ Goes(Sweeper, "none", "held", th[Sweeper].doc, "inflight")
    /\ UNCHANGED <<told, residue, claims, requests, faults>>

\* What one turn of advance makes of an entry: a stop or a veto first, then a
\* back-off, a step, an expiry or the end.
Advanced(d) ==
    LET e == IF d.veto = "requested" THEN [Vetoed(d) EXCEPT !.veto = "consumed"] ELSE d
    IN  IF d.stop = "requested" THEN {[d EXCEPT !.stop = "consumed", !.ending = "stopped"]}
        ELSE {e, [e EXCEPT !.ending = "expired",
                           !.unpause = IF @ = "pending" THEN "elapsed" ELSE @]}
             \cup (IF e.unpause = "pending" THEN {[e EXCEPT !.unpause = "done"]}
                   ELSE {[e EXCEPT !.ending = "completed"]})

\* advance, and the release or the finish that follows.
Advance ==
    /\ By(Sweeper) /\ th[Sweeper].pc = "held"
    /\ \E d \in Advanced(th[Sweeper].doc) :
          Goes(Sweeper, "release", "check", d, IF d.ending = "none" THEN "pending" ELSE "done")
    /\ UNCHANGED <<disk, told, residue, claims, requests, faults>>

\* Mutant: the token goes with the file.
ResumedWhole == [disk EXCEPT !["inflight"] = NoDoc, !["pending"] = disk["inflight"]]

\* An inflight file back in pending/, where its token no longer counts.
Resumed == [disk EXCEPT !["inflight"] = NoDoc, !["pending"] = [disk["inflight"] EXCEPT !.token = 0]]

\* reclaim_stale: a claim that nobody holds any more.
Reclaim ==
    /\ By(Sweeper) /\ th[Sweeper] = Idle /\ disk["inflight"] # NoDoc
    /\ disk' = Resumed
    /\ UNCHANGED <<th, told, residue, claims, requests, faults>>

-----------------------------------------------------------------------------
(* The request threads. *)

\* request_stop: an idle entry is read, then finished on the spot.
Stop(h) ==
    /\ Asked(h)
    /\ IF disk["pending"] = NoDoc THEN Goes(h, "stop", "inflight", NoDoc, "inflight")
       ELSE Goes(h, "stop", "write", [disk["pending"] EXCEPT !.ending = "stopped"], "done")
    /\ UNCHANGED <<disk, told, residue, claims, faults>>

\* A held one is read, then written back with the request.
StopHeld(h) ==
    /\ By(h) /\ th[h].op = "stop" /\ th[h].pc = "inflight"
    /\ IF disk["inflight"] = NoDoc THEN Rests(h)
       ELSE Goes(h, "record", "place", [disk["inflight"] EXCEPT !.stop = "requested"], "inflight")
    /\ UNCHANGED <<disk, told, residue, claims, requests, faults>>

\* veto_unpause: first what is in pending/, then what is in inflight/.
Veto(h) ==
    /\ Asked(h)
    /\ IF disk["pending"] # NoDoc /\ disk["pending"].unpause = "pending"
       THEN Goes(h, "veto", "place", Vetoed(disk["pending"]), "pending")
       ELSE Goes(h, "veto", "inflight", NoDoc, "inflight")
    /\ UNCHANGED <<disk, told, residue, claims, faults>>

VetoHeld(h) ==
    /\ By(h) /\ th[h].op = "veto" /\ th[h].pc = "inflight"
    /\ IF disk["inflight"] # NoDoc
       THEN /\ Goes(h, "veto", "place", [Vetoed(disk["inflight"]) EXCEPT !.veto = "requested"],
                    "inflight")
            /\ UNCHANGED told
       ELSE Rests(h) /\ told' = told \cup {"vetoed"}
    /\ UNCHANGED <<disk, residue, claims, requests, faults>>

\* The write in place that ends a request.
Place(h) ==
    LET my == th[h]
    IN  /\ By(h) /\ my.pc = "place"
        /\ disk' = [disk EXCEPT ![my.to] = my.doc]
        /\ IF my.to = "pending"
           THEN Goes(h, "veto", "inflight", NoDoc, "inflight") /\ UNCHANGED told
           ELSE /\ Rests(h)
                /\ told' = told \cup {IF my.op = "veto" THEN "vetoed" ELSE "requested"}
        /\ UNCHANGED <<residue, claims, requests, faults>>

\* "Keep waiting": what the clock skipped is pending again.
Reopen(h) ==
    /\ Asked(h)
    /\ disk["pending"] = NoDoc /\ disk["inflight"] = NoDoc
    /\ disk["done"] # NoDoc /\ disk["done"].ending = "expired"
    /\ Goes(h, "reopen", "write",
            [disk["done"] EXCEPT !.ending = "none",
                                 !.unpause = IF @ = "elapsed" THEN "pending" ELSE @], "pending")
    /\ told' = told \ {"vetoed"}
    /\ UNCHANGED <<disk, residue, claims, faults>>

\* The server dies anywhere, comes back, and resumes what was claimed.
Restart ==
    /\ Fault
    /\ th' = [t \in Threads |-> Idle]
    /\ disk' = IF disk["inflight"] = NoDoc THEN disk ELSE Resumed
    /\ UNCHANGED <<told, residue, crossed, claims, requests>>

Next ==
    \/ Put \/ Claim \/ ClaimRead \/ ClaimStamp \/ Advance \/ Reclaim \/ Restart
    \/ \E t \in Threads : Check(t) \/ Write(t) \/ WriteFails(t) \/ Unlink(t) \/ UnlinkFails(t)
    \/ \E h \in Handlers : \/ Stop(h) \/ StopHeld(h) \/ Veto(h) \/ VetoHeld(h)
                           \/ Place(h) \/ Reopen(h)

Spec == Init /\ [][Next]_vars

-----------------------------------------------------------------------------
\* An entry in two directories counts where work may still go on.
Current ==
    IF disk["inflight"] # NoDoc THEN disk["inflight"]
    ELSE IF disk["pending"] # NoDoc THEN disk["pending"] ELSE disk["done"]

Open == disk["inflight"] # NoDoc \/ disk["pending"] # NoDoc

LifeNow == IF Open THEN "open" ELSE IF disk["done"] # NoDoc THEN "closed" ELSE "absent"

EndingNow == IF Open \/ disk["done"] = NoDoc THEN "none" ELSE disk["done"].ending

Life == INSTANCE EntryLife WITH life <- LifeNow, ending <- EndingNow

\* As long as nobody acts inside another's open section the files implement an entry's
\* life: it is never lost and never comes back by itself, whatever a crash leaves behind
\* in two directories (_move_out, claim).
LifePromised ==
    /\ Life!Init
    /\ [][crossed' \/ Life!Next \/ UNCHANGED <<LifeNow, EndingNow>>]_vars

\* A stop that was answered "finished" has won: the entry is closed and stays so, also
\* against a sweep that claimed it between the stop's read and its write.
StopWins ==
    "finished" \in told /\ ~residue /\ ~crossed =>
        /\ disk["pending"] = NoDoc /\ disk["inflight"] = NoDoc
        /\ disk["done"] # NoDoc /\ disk["done"].ending = "stopped"

\* A request that was answered is in the copy that counts until it is honoured, if it came
\* before a claim's sections, between them or after them.
RequestsKept ==
    ~residue /\ ~crossed =>
      /\ "requested" \in told => Current.stop # "absent" \/ Current.ending # "none"
      /\ "vetoed" \in told /\ Current.ending = "none" =>
            Current.unpause # "pending" \/ Current.veto = "requested"

\* When nobody is at work, one copy at most is to be worked on.
OneOpenCopy ==
    (\A t \in Threads : th[t] = Idle) /\ ~residue /\ ~crossed =>
        disk["pending"] = NoDoc \/ disk["inflight"] = NoDoc

-----------------------------------------------------------------------------
(* What the repository says, and the code does not do.                     *)

\* "The stop still wins", whatever a sweep does in that instant (request_stop).
StopStillWins == "finished" \in told => ~Open

=============================================================================
