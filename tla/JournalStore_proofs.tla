------------------------- MODULE JournalStore_proofs -------------------------
(***************************************************************************)
(* What holds of the files of one entry for any number of request threads, *)
(* claims, requests and faults.  The invariant comes in two layers.        *)
(* Layered holds whoever acts when: which operation is where, with what in *)
(* memory, and what a document in each directory looks like.  Guarded is   *)
(* what an operation in its section relies on: it holds until a thread     *)
(* acts inside another's section, which is what crossed remembers.         *)
(***************************************************************************)
EXTENDS JournalStore, TLAPS

-----------------------------------------------------------------------------
(* Layer 1: shape. *)

Rest == {<<>>, <<"done">>, <<"inflight">>, <<"inflight", "done">>, <<"pending", "inflight">>}

Thread == [op: Operations \cup {"none"},
           pc: {"idle", "read", "stamp", "held", "check", "write", "unlink", "inflight", "place"},
           doc: Doc \cup {NoDoc}, to: Dirs, rest: Rest]

Typed ==
    /\ disk \in [Dirs -> Doc \cup {NoDoc}]
    /\ th \in [Threads -> Thread]
    /\ told \subseteq {"finished", "requested", "vetoed"}
    /\ residue \in BOOLEAN
    /\ claims \in 0 .. MaxClaims /\ requests \in 0 .. MaxRequests /\ faults \in 0 .. MaxFaults

\* A document the operations can make: what is consumed has had its effect.
Sound(d) ==
    /\ d.stop = "consumed" => d.ending = "stopped"
    /\ d.unpause = "elapsed" => d.ending = "expired"
    /\ d.veto = "consumed" => d.unpause \in {"done", "vetoed"}

\* Where work may go on nothing has ended, and no token is left outside inflight/.
Files ==
    \A dir \in Dirs : disk[dir] # NoDoc =>
        /\ Sound(disk[dir])
        /\ dir # "inflight" => disk[dir].token = 0
        /\ disk[dir].ending = "none" <=> dir # "done"

\* A document on its way to a directory.
Fits(d, to) ==
    /\ d \in Doc /\ Sound(d)
    /\ d.ending = "none" <=> to # "done"

\* Which operation is where, who runs it, and what it has in memory.
Shape(t) ==
    LET my == th[t]
    IN  \/ my = Idle
        \/ t = Sweeper /\ my.pc = "read" /\ my.op = "claim"
        \/ /\ t = Sweeper /\ my.pc = "stamp" /\ my.op = "claim"
           /\ my.to = "inflight" /\ Fits(my.doc, my.to)
        \/ /\ t = Sweeper /\ my.pc = "held" /\ my.op = "none"
           /\ my.to = "inflight" /\ Fits(my.doc, my.to)
        \/ /\ t = Sweeper /\ my.pc = "check" /\ my.op = "release"
           /\ my.to # "inflight" /\ Fits(my.doc, my.to)
        \/ /\ my.pc = "write" /\ my.to # "inflight" /\ Fits(my.doc, my.to) /\ my.doc.token = 0
           /\ \/ t = Sweeper /\ my.op = "release"
              \/ t # Sweeper /\ my.op = "stop" /\ my.to = "done" /\ my.doc.ending = "stopped"
              \/ t # Sweeper /\ my.op = "reopen" /\ my.to = "pending"
        \/ /\ my.pc = "unlink" /\ Fits(my.doc, my.to) /\ my.doc.token = 0
           /\ \/ my.to = "pending" /\ my.rest \in {<<"inflight", "done">>, <<"done">>}
              \/ my.to = "done" /\ my.rest \in {<<"pending", "inflight">>, <<"inflight">>}
           /\ \/ t = Sweeper /\ my.op = "release"
              \/ t # Sweeper /\ my.op = "finish" /\ my.to = "done" /\ my.doc.ending = "stopped"
              \/ t # Sweeper /\ my.op = "reopen" /\ my.to = "pending"
        \/ t # Sweeper /\ my.pc = "inflight" /\ my.op \in {"stop", "veto"}
        \/ /\ t # Sweeper /\ my.pc = "place" /\ Fits(my.doc, my.to)
           /\ \/ my.op = "veto" /\ my.to = "pending" /\ my.doc.token = 0
              \/ my.op \in {"veto", "record"} /\ my.to = "inflight"

Layered == Typed /\ Files /\ \A t \in Threads : Shape(t)

-----------------------------------------------------------------------------
(* Layer 2: what an operation in its section relies on. *)

Alone == \A t, u \in Threads : th[t].op \in Delicate /\ th[u].op \in Delicate => t = u

Vetted(d) == d.unpause # "pending" \/ d.veto = "requested"

\* Document d makes up for document c: no request is lost.
Covers(d, c) ==
    /\ c.stop # "absent" => d.stop # "absent"
    /\ Vetted(c) => Vetted(d)

\* What the holder has in memory is behind the stored copy by requests only.
Behind(held, stored) ==
    held.token = stored.token /\ stored.veto # "requested" /\ stored.unpause # "pending" =>
        held.unpause # "pending"

\* claim: between its read and its write the file is what it read.
Stamping(t) ==
    th[t].pc = "stamp" =>
        /\ disk["inflight"] # NoDoc
        /\ th[t].doc = [disk["inflight"] EXCEPT !.token = th[t].doc.token]

\* advance: the copy in memory, against the stored one.
Holding(t) ==
    th[t].pc \in {"held", "check"} /\ disk["inflight"] # NoDoc => Behind(th[t].doc, disk["inflight"])

\* _move_out by the holder, past the token check.
Releasing(t) ==
    /\ th[t].pc = "write" /\ th[t].op = "release" =>
          disk["inflight"] # NoDoc /\ Covers(th[t].doc, disk["inflight"])
    /\ th[t].pc = "unlink" /\ th[t].op = "release" =>
          /\ th[t].to = "done" => disk["inflight"] # NoDoc
          /\ disk["inflight"] # NoDoc /\ ~residue => Covers(th[t].doc, disk["inflight"])

\* reopen: nothing of it is open, until it has written.
Reopening(t) ==
    th[t].op = "reopen" =>
        /\ "vetoed" \notin told /\ disk["inflight"] = NoDoc
        /\ th[t].pc = "write" =>
              /\ disk["pending"] = NoDoc /\ disk["done"] # NoDoc
              /\ disk["done"].ending = "expired" /\ th[t].doc.stop = disk["done"].stop

\* A request, between its read and its write in place.
Placing(t) ==
    th[t].pc = "place" =>
        /\ disk[th[t].to] # NoDoc
        /\ th[t].doc = CASE th[t].op = "record" -> [disk["inflight"] EXCEPT !.stop = "requested"]
                         [] th[t].to = "pending" -> Vetoed(disk["pending"])
                         [] OTHER -> [Vetoed(disk["inflight"]) EXCEPT !.veto = "requested"]

\* veto_unpause, when it is done with pending/.
Vetoing(t) ==
    th[t].op = "veto" /\ disk["pending"] # NoDoc /\ (th[t].pc = "inflight" \/ th[t].to = "inflight") =>
        disk["pending"].unpause # "pending"

\* _move_out: what has been written stays while the other copies go.
Cleaning(t) ==
    th[t].pc = "unlink" =>
        /\ disk[th[t].to] = th[t].doc
        /\ th[t].rest = <<"inflight">> /\ ~residue => disk["pending"] = NoDoc
        /\ th[t].rest = <<"done">> /\ ~residue => disk["inflight"] = NoDoc

Section(t) ==
    /\ Stamping(t) /\ Holding(t) /\ Releasing(t) /\ Reopening(t)
    /\ Placing(t) /\ Vetoing(t) /\ Cleaning(t)

\* An entry that was put is somewhere.
Kept ==
    (\A dir \in Dirs : disk[dir] = NoDoc) => told = {} /\ \A t \in Threads : th[t] = Idle

\* Two open copies are the middle of a release.
TwoCopies ==
    ~residue /\ disk["pending"] # NoDoc /\ disk["inflight"] # NoDoc =>
        /\ th[Sweeper].op = "release" /\ th[Sweeper].pc = "unlink"
        /\ th[Sweeper].rest = <<"inflight", "done">>

StopKept ==
    "requested" \in told /\ ~residue =>
        /\ \A dir \in {"pending", "inflight"} : disk[dir] # NoDoc => disk[dir].stop # "absent"
        /\ disk["pending"] = NoDoc /\ disk["inflight"] = NoDoc /\ disk["done"].ending = "expired" =>
              disk["done"].stop # "absent"

VetoKept ==
    "vetoed" \in told /\ ~residue =>
        \A dir \in {"pending", "inflight"} : disk[dir] # NoDoc => Vetted(disk[dir])

\* What was answered "finished" is in done/, and nowhere else.
StopHolds ==
    "finished" \in told /\ ~residue =>
        /\ disk["pending"] = NoDoc /\ disk["inflight"] = NoDoc
        /\ disk["done"] # NoDoc /\ disk["done"].ending = "stopped"

Guarded ==
    /\ Alone /\ \A t \in Threads : Section(t)
    /\ Kept /\ TwoCopies /\ StopKept /\ VetoKept /\ StopHolds

StoreInv == Layered /\ (~crossed => Guarded)

-----------------------------------------------------------------------------
(* Lemmas about documents: what the operations make of one, field by field. *)

\* Writing one field of a document leaves the others.
LEMMA TokenWritten ==
    ASSUME NEW d \in Doc, NEW k \in 0 .. MaxClaims
    PROVE  LET e == [d EXCEPT !.token = k]
           IN  /\ e \in Doc /\ e.token = k
               /\ e.ending = d.ending /\ e.unpause = d.unpause /\ e.stop = d.stop /\ e.veto = d.veto
BY DEF Doc

\* The same of the ending.
LEMMA EndingWritten ==
    ASSUME NEW d \in Doc, NEW k \in {"none", "completed", "expired", "stopped"}
    PROVE  LET e == [d EXCEPT !.ending = k]
           IN  /\ e \in Doc /\ e.ending = k
               /\ e.token = d.token /\ e.unpause = d.unpause /\ e.stop = d.stop /\ e.veto = d.veto
BY DEF Doc

\* The same of the stop request.
LEMMA StopWritten ==
    ASSUME NEW d \in Doc, NEW k \in {"absent", "requested", "consumed"}
    PROVE  LET e == [d EXCEPT !.stop = k]
           IN  /\ e \in Doc /\ e.stop = k
               /\ e.token = d.token /\ e.ending = d.ending /\ e.unpause = d.unpause /\ e.veto = d.veto
BY DEF Doc

\* The same of the veto.
LEMMA VetoWritten ==
    ASSUME NEW d \in Doc, NEW k \in {"absent", "requested", "consumed"}
    PROVE  LET e == [d EXCEPT !.veto = k]
           IN  /\ e \in Doc /\ e.veto = k
               /\ e.token = d.token /\ e.ending = d.ending /\ e.unpause = d.unpause /\ e.stop = d.stop
BY DEF Doc

\* apply_unpause_veto: a pending unpause is off, and nothing else changes.
LEMMA VetoedFields ==
    ASSUME NEW d \in Doc
    PROVE  /\ Vetoed(d) \in Doc /\ Vetoed(d).token = d.token /\ Vetoed(d).ending = d.ending
           /\ Vetoed(d).stop = d.stop /\ Vetoed(d).veto = d.veto
           /\ Vetoed(d).unpause = IF d.unpause = "pending" THEN "vetoed" ELSE d.unpause
BY DEF Doc, Vetoed

\* The merge in _move_out brings requests forward, and nothing else.
LEMMA MergedFields ==
    ASSUME NEW held \in Doc, NEW stored \in Doc
    PROVE  LET e == Merged(held, stored)
           IN  /\ e \in Doc /\ e.token = held.token /\ e.ending = held.ending
               /\ e.unpause = held.unpause
               /\ e.stop = IF held.stop = "absent" /\ stored.stop = "requested"
                           THEN "requested" ELSE held.stop
               /\ e.veto = IF held.veto = "absent" /\ stored.veto = "requested"
                           THEN "requested" ELSE held.veto
BY DEF Doc, Merged

\* What one turn of advance makes of a document that fits an open entry: it can be stored,
\* and an unpause that was settled stays settled.
LEMMA AdvancedFields ==
    ASSUME NEW d, Fits(d, "inflight"), NEW e \in Advanced(d)
    PROVE  /\ e \in Doc /\ Sound(e) /\ e.token = d.token
           /\ d.unpause # "pending" => e.unpause # "pending"
<1> d \in Doc /\ Sound(d) /\ d.ending = "none"
    BY DEF Fits
<1>1. CASE d.stop = "requested"
    <2> DEFINE a == [d EXCEPT !.stop = "consumed"]
    <2>1. e = [a EXCEPT !.ending = "stopped"]
        BY <1>1 DEF Advanced, Doc
    <2>2. /\ a \in Doc /\ a.token = d.token /\ a.ending = d.ending /\ a.unpause = d.unpause
          /\ a.stop = "consumed" /\ a.veto = d.veto
        BY StopWritten
    <2> HIDE DEF a
    <2>3. /\ e \in Doc /\ e.token = a.token /\ e.ending = "stopped" /\ e.unpause = a.unpause
          /\ e.stop = a.stop /\ e.veto = a.veto
        BY <2>1, <2>2, EndingWritten
    <2> QED BY <2>2, <2>3 DEF Sound
<1>2. CASE d.stop # "requested"
    <2> DEFINE v == Vetoed(d)
               c == [v EXCEPT !.veto = "consumed"]
               b == IF d.veto = "requested" THEN c ELSE d
    <2>1. /\ v \in Doc /\ v.token = d.token /\ v.ending = d.ending /\ v.stop = d.stop
          /\ v.veto = d.veto /\ v.unpause = IF d.unpause = "pending" THEN "vetoed" ELSE d.unpause
        BY VetoedFields
    <2>2. /\ c \in Doc /\ c.token = v.token /\ c.ending = v.ending /\ c.unpause = v.unpause
          /\ c.stop = v.stop /\ c.veto = "consumed"
        <3> HIDE DEF v
        <3> QED BY <2>1, VetoWritten
    <2>3. e \in {b, [b EXCEPT !.ending = "expired",
                              !.unpause = IF @ = "pending" THEN "elapsed" ELSE @]}
             \cup (IF b.unpause = "pending" THEN {[b EXCEPT !.unpause = "done"]}
                   ELSE {[b EXCEPT !.ending = "completed"]})
        BY <1>2 DEF Advanced
    <2> HIDE DEF v, c
    <2>4. /\ b \in Doc /\ b.token = d.token /\ b.ending = "none" /\ b.stop = d.stop
          /\ d.unpause # "pending" => b.unpause # "pending"
        BY <2>1, <2>2
    <2>5. b.unpause # "elapsed" /\ (b.veto = "consumed" => b.unpause \in {"done", "vetoed"})
        <3>1. d.unpause \in {"pending", "done", "vetoed"}
            BY DEF Doc, Sound
        <3>2. v.unpause \in {"done", "vetoed"}
            BY <3>1, <2>1
        <3> QED BY <3>1, <3>2, <2>2 DEF Sound
    <2>6. b.stop # "consumed"
        BY <2>4 DEF Sound
    <2> HIDE DEF b
    <2>7. CASE e = b
        BY <2>7, <2>4, <2>5, <2>6 DEF Sound
    <2>8. CASE e = [b EXCEPT !.ending = "expired",
                             !.unpause = IF @ = "pending" THEN "elapsed" ELSE @]
        <3>1. /\ e \in Doc /\ e.token = b.token /\ e.ending = "expired" /\ e.stop = b.stop
              /\ e.veto = b.veto /\ e.unpause = IF b.unpause = "pending" THEN "elapsed" ELSE b.unpause
            BY <2>8, <2>4 DEF Doc
        <3> QED BY <3>1, <2>4, <2>5, <2>6 DEF Sound
    <2>9. CASE e = [b EXCEPT !.unpause = "done"]
        <3>1. /\ e \in Doc /\ e.token = b.token /\ e.ending = b.ending /\ e.unpause = "done"
              /\ e.stop = b.stop /\ e.veto = b.veto
            BY <2>9, <2>4 DEF Doc
        <3> QED BY <3>1, <2>4, <2>5, <2>6 DEF Sound
    <2>10. CASE e = [b EXCEPT !.ending = "completed"]
        <3>1. /\ e \in Doc /\ e.token = b.token /\ e.ending = "completed" /\ e.unpause = b.unpause
              /\ e.stop = b.stop /\ e.veto = b.veto
            BY <2>10, <2>4 DEF Doc
        <3> QED BY <3>1, <2>4, <2>5, <2>6 DEF Sound
    <2> QED BY <2>3, <2>7, <2>8, <2>9, <2>10
<1> QED BY <1>1, <1>2

\* The order in which _move_out drops the other copies.
LEMMA OthersAre ==
    /\ Others("pending") = <<"inflight", "done">> /\ Others("done") = <<"pending", "inflight">>
    /\ Head(<<"inflight", "done">>) = "inflight" /\ Tail(<<"inflight", "done">>) = <<"done">>
    /\ Head(<<"pending", "inflight">>) = "pending"
    /\ Tail(<<"pending", "inflight">>) = <<"inflight">>
    /\ Head(<<"done">>) = "done" /\ Tail(<<"done">>) = <<>>
    /\ Head(<<"inflight">>) = "inflight" /\ Tail(<<"inflight">>) = <<>>
    /\ <<"done">> # <<>> /\ <<"inflight">> # <<>> /\ <<"done">> # <<"inflight">>
    /\ <<"inflight", "done">> # <<>> /\ <<"pending", "inflight">> # <<>>
    /\ <<"inflight", "done">> # <<"done">> /\ <<"inflight", "done">> # <<"inflight">>
    /\ <<"pending", "inflight">> # <<"done">> /\ <<"pending", "inflight">> # <<"inflight">>
    /\ <<"pending", "inflight">> # <<"inflight", "done">>
BY DEF Others

-----------------------------------------------------------------------------
(* Lemmas about the threads. *)

\* What an idle thread has in memory.
LEMMA IdleIs ==
    /\ Idle \in Thread /\ Idle.op = "none" /\ Idle.pc = "idle" /\ Idle.doc = NoDoc
    /\ Idle.to = "pending" /\ Idle.rest = <<>>
BY DEF Idle, Thread, Rest, Dirs

\* Goes moves one thread.
LEMMA GoesTo ==
    ASSUME th \in [Threads -> Thread], NEW t \in Threads,
           NEW op \in Operations \cup {"none"},
           NEW pc \in {"idle", "read", "stamp", "held", "check", "write", "unlink", "inflight",
                       "place"},
           NEW doc \in Doc \cup {NoDoc}, NEW to \in Dirs,
           Goes(t, op, pc, doc, to)
    PROVE  /\ th' \in [Threads -> Thread]
           /\ th'[t].op = op /\ th'[t].pc = pc /\ th'[t].doc = doc /\ th'[t].to = to
           /\ th'[t].rest = <<>>
           /\ \A u \in Threads \ {t} : th'[u] = th[u]
BY DEF Goes, Thread, Rest, Idle

\* Rests ends what a thread does.
LEMMA RestsNow ==
    ASSUME th \in [Threads -> Thread], NEW t \in Threads, Rests(t)
    PROVE  /\ th' \in [Threads -> Thread] /\ th'[t] = Idle
           /\ \A u \in Threads \ {t} : th'[u] = th[u]
BY IdleIs DEF Rests

\* What a thread is doing depends on that thread alone.
LEMMA ShapesKept ==
    ASSUME NEW t \in Threads, \A u \in Threads : Shape(u),
           \A u \in Threads \ {t} : th'[u] = th[u], Shape(t)'
    PROVE  \A u \in Threads : Shape(u)'
BY DEF Shape

-----------------------------------------------------------------------------
(* Lemmas about the files. *)

\* One document written where it fits.
LEMMA FileWritten ==
    ASSUME Typed, Files, NEW dir \in Dirs, NEW d, Fits(d, dir), dir # "inflight" => d.token = 0,
           disk' = [disk EXCEPT ![dir] = d]
    PROVE  /\ disk' \in [Dirs -> Doc \cup {NoDoc}] /\ Files'
           /\ disk'[dir] = d /\ d # NoDoc /\ \A o \in Dirs \ {dir} : disk'[o] = disk[o]
<1>1. d \in Doc /\ d # NoDoc
    BY StoreAssumption DEF Fits
<1>2. /\ disk' \in [Dirs -> Doc \cup {NoDoc}]
      /\ disk'[dir] = d /\ \A o \in Dirs \ {dir} : disk'[o] = disk[o]
    BY <1>1 DEF Typed
<1>3. Files'
    BY <1>1, <1>2 DEF Files, Fits
<1> QED BY <1>1, <1>2, <1>3

\* One file dropped.
LEMMA FileDropped ==
    ASSUME Typed, Files, NEW dir \in Dirs, disk' = [disk EXCEPT ![dir] = NoDoc]
    PROVE  /\ disk' \in [Dirs -> Doc \cup {NoDoc}] /\ Files'
           /\ disk'[dir] = NoDoc /\ \A o \in Dirs \ {dir} : disk'[o] = disk[o]
<1>2. /\ disk' \in [Dirs -> Doc \cup {NoDoc}]
      /\ disk'[dir] = NoDoc /\ \A o \in Dirs \ {dir} : disk'[o] = disk[o]
    BY DEF Typed
<1> QED BY <1>2 DEF Files

\* An inflight file back in pending/.
LEMMA FileResumed ==
    ASSUME Typed, Files, disk["inflight"] # NoDoc, disk' = Resumed
    PROVE  /\ disk' \in [Dirs -> Doc \cup {NoDoc}] /\ Files'
           /\ disk'["inflight"] = NoDoc /\ disk'["done"] = disk["done"]
           /\ disk'["pending"] # NoDoc /\ disk'["pending"].ending = "none"
           /\ disk'["pending"].unpause = disk["inflight"].unpause
           /\ disk'["pending"].stop = disk["inflight"].stop
           /\ disk'["pending"].veto = disk["inflight"].veto
<1> DEFINE i == disk["inflight"]
           e == [i EXCEPT !.token = 0]
<1>1. i \in Doc /\ 0 \in 0 .. MaxClaims
    BY StoreAssumption DEF Typed, Dirs
<1>2. Sound(i) /\ i.ending = "none"
    BY <1>1, StoreAssumption DEF Files, Dirs
<1>3. /\ e \in Doc /\ e.token = 0 /\ e.ending = i.ending /\ e.unpause = i.unpause
      /\ e.stop = i.stop /\ e.veto = i.veto
    <2> HIDE DEF i
    <2> QED BY <1>1, TokenWritten
<1>4. disk' = [disk EXCEPT !["inflight"] = NoDoc, !["pending"] = e]
    BY DEF Resumed
<1> HIDE DEF i, e
<1>5. /\ disk' \in [Dirs -> Doc \cup {NoDoc}]
      /\ disk'["inflight"] = NoDoc /\ disk'["done"] = disk["done"] /\ disk'["pending"] = e
    BY <1>3, <1>4 DEF Typed, Dirs
<1>6. e # NoDoc /\ Sound(e) /\ e.ending = "none"
    BY <1>2, <1>3, StoreAssumption DEF Sound
<1>7. Files'
    BY <1>3, <1>5, <1>6 DEF Files, Dirs
<1> QED BY <1>3, <1>5, <1>6, <1>7 DEF i

\* A file that is there fits where it is.
LEMMA Stored ==
    ASSUME Typed, Files, NEW dir \in Dirs, disk[dir] # NoDoc
    PROVE  /\ Fits(disk[dir], dir)
           /\ dir # "inflight" => disk[dir].token = 0
           /\ disk[dir] \in Doc /\ Sound(disk[dir])
           /\ disk[dir].ending = "none" <=> dir # "done"
BY DEF Typed, Files, Fits

-----------------------------------------------------------------------------
(* Layer 1 is inductive, whoever acts when. *)

\* Nothing journaled yet: layer 1 holds.
LEMMA InitLayered == Init => Layered
<1> SUFFICES ASSUME Init PROVE Layered
    OBVIOUS
<1>1. Typed
    <2>1. 0 \in 0 .. MaxClaims /\ 0 \in 0 .. MaxRequests /\ 0 \in 0 .. MaxFaults
        BY StoreAssumption
    <2>2. disk \in [Dirs -> Doc \cup {NoDoc}] /\ th \in [Threads -> Thread]
        BY IdleIs DEF Init
    <2> QED BY <2>1, <2>2 DEF Init, Typed
<1>2. Files
    BY DEF Init, Files, Dirs
<1>3. \A t \in Threads : Shape(t)
    BY DEF Init, Shape
<1> QED BY <1>1, <1>2, <1>3 DEF Layered

\* put, of a new entry leaves files and threads in shape.
LEMMA PutLayered ==
    ASSUME Layered, Put
    PROVE  Layered'
<1> USE DEF Layered
<1>1. Fits(NewDoc, "pending") /\ NewDoc.token = 0
    BY StoreAssumption DEF Fits, NewDoc, Doc, Sound
<1>2. disk' \in [Dirs -> Doc \cup {NoDoc}] /\ Files'
    BY <1>1, FileWritten, "pending" \in Dirs DEF Put, Dirs
<1>3. Typed'
    BY <1>2 DEF Typed, Put
<1>4. \A t \in Threads : Shape(t)'
    BY DEF Put, Shape
<1> QED BY <1>2, <1>3, <1>4

\* The rename of a claim leaves files and threads in shape.
LEMMA ClaimLayered ==
    ASSUME Layered, Claim
    PROVE  Layered'
<1> USE DEF Layered
<1> Sweeper \in Threads
    BY DEF Threads
<1>1. disk["pending"] # NoDoc /\ Fits(disk["pending"], "pending")
    BY Stored DEF Claim, Dirs
<1>2. /\ disk' \in [Dirs -> Doc \cup {NoDoc}] /\ disk'["pending"] = NoDoc
      /\ disk'["inflight"] = disk["pending"] /\ disk'["done"] = disk["done"]
    BY <1>1 DEF Claim, Typed, Dirs, Fits
<1>3. Files'
    BY <1>1, <1>2 DEF Files, Dirs, Fits
<1>4. /\ th' \in [Threads -> Thread] /\ th'[Sweeper].op = "claim" /\ th'[Sweeper].pc = "read"
      /\ \A u \in Threads \ {Sweeper} : th'[u] = th[u]
    <2>1. "claim" \in Operations /\ "inflight" \in Dirs
        BY DEF Operations, Dirs
    <2>2. Goes(Sweeper, "claim", "read", NoDoc, "inflight")
        BY DEF Claim
    <2> QED BY <2>1, <2>2, GoesTo DEF Typed
<1>5. Shape(Sweeper)'
    BY <1>4 DEF Shape
<1>6. \A t \in Threads : Shape(t)'
    BY <1>4, <1>5, ShapesKept
<1>7. claims' \in 0 .. MaxClaims
    BY StoreAssumption DEF Claim, Typed
<1> QED BY <1>2, <1>3, <1>4, <1>6, <1>7 DEF Typed, Claim

\* The read of a claim leaves files and threads in shape.
LEMMA ClaimReadLayered ==
    ASSUME Layered, ClaimRead
    PROVE  Layered'
<1> USE DEF Layered
<1> Sweeper \in Threads
    BY DEF Threads
<1>1. UNCHANGED <<disk, told, residue, claims, requests, faults>>
    BY DEF ClaimRead
<1>2. Files'
    BY <1>1 DEF Files
<1>3. CASE disk["inflight"] = NoDoc
    <2>1. /\ th' \in [Threads -> Thread] /\ th'[Sweeper] = Idle
          /\ \A u \in Threads \ {Sweeper} : th'[u] = th[u]
        BY <1>3, RestsNow DEF ClaimRead, Typed
    <2>2. Shape(Sweeper)'
        BY <2>1 DEF Shape
    <2> QED BY <1>1, <1>2, <2>1, <2>2, ShapesKept DEF Typed
<1>4. CASE disk["inflight"] # NoDoc
    <2> DEFINE i == disk["inflight"]
               e == [i EXCEPT !.token = claims]
    <2>1. i \in Doc /\ Sound(i) /\ i.ending = "none"
        BY <1>4, Stored DEF Dirs
    <2>2. Goes(Sweeper, "claim", "stamp", e, "inflight")
        BY <1>4 DEF ClaimRead
    <2>3. /\ e \in Doc /\ e.ending = i.ending /\ e.unpause = i.unpause
          /\ e.stop = i.stop /\ e.veto = i.veto
        <3> claims \in 0 .. MaxClaims
            BY DEF Typed
        <3> HIDE DEF i
        <3> QED BY <2>1, TokenWritten
    <2> HIDE DEF i, e
    <2>4. Fits(e, "inflight")
        BY <2>1, <2>3 DEF Fits, Sound
    <2>5. /\ th' \in [Threads -> Thread] /\ th'[Sweeper].op = "claim"
          /\ th'[Sweeper].pc = "stamp" /\ th'[Sweeper].to = "inflight" /\ th'[Sweeper].doc = e
          /\ \A u \in Threads \ {Sweeper} : th'[u] = th[u]
        <3>1. "claim" \in Operations /\ "inflight" \in Dirs
            BY DEF Operations, Dirs
        <3> QED BY <3>1, <2>2, <2>3, GoesTo DEF Typed
    <2>6. Shape(Sweeper)'
        BY <2>4, <2>5 DEF Shape
    <2> QED BY <1>1, <1>2, <2>5, <2>6, ShapesKept DEF Typed
<1> QED BY <1>3, <1>4

\* The write of a claim leaves files and threads in shape.
LEMMA ClaimStampLayered ==
    ASSUME Layered, ClaimStamp
    PROVE  Layered'
<1> USE DEF Layered
<1> DEFINE e == th[Sweeper].doc
<1> Sweeper \in Threads
    BY DEF Threads
<1>1. Fits(e, "inflight")
    BY IdleIs DEF ClaimStamp, Shape
<1>2. disk' = [disk EXCEPT !["inflight"] = e] /\ Goes(Sweeper, "none", "held", e, "inflight")
    BY DEF ClaimStamp
<1> HIDE DEF e
<1>3. disk' \in [Dirs -> Doc \cup {NoDoc}] /\ Files'
    BY <1>1, <1>2, FileWritten, "inflight" \in Dirs DEF Dirs
<1>4. /\ th' \in [Threads -> Thread] /\ th'[Sweeper].op = "none"
      /\ th'[Sweeper].pc = "held" /\ th'[Sweeper].to = "inflight" /\ th'[Sweeper].doc = e
      /\ \A u \in Threads \ {Sweeper} : th'[u] = th[u]
    <2>1. "inflight" \in Dirs /\ e \in Doc /\ "none" \in Operations \cup {"none"}
        BY <1>1 DEF Dirs, Fits
    <2>2. Goes(Sweeper, "none", "held", e, "inflight") /\ th \in [Threads -> Thread]
        BY <1>2 DEF Typed
    <2> HIDE DEF Layered
    <2> QED BY <2>1, <2>2 DEF Goes, Thread, Rest
<1>5. Shape(Sweeper)'
    BY <1>1, <1>4 DEF Shape
<1> QED BY <1>3, <1>4, <1>5, ShapesKept DEF Typed, ClaimStamp

\* A turn of advance leaves files and threads in shape.
LEMMA AdvanceLayered ==
    ASSUME Layered, Advance
    PROVE  Layered'
<1> USE DEF Layered
<1> Sweeper \in Threads
    BY DEF Threads
<1>1. UNCHANGED <<disk, told, residue, claims, requests, faults>>
    BY DEF Advance
<1>2. Files'
    BY <1>1 DEF Files
<1>3. Fits(th[Sweeper].doc, "inflight")
    BY IdleIs DEF Advance, Shape
<1>4. PICK d \in Advanced(th[Sweeper].doc) :
          Goes(Sweeper, "release", "check", d, IF d.ending = "none" THEN "pending" ELSE "done")
    BY DEF Advance
<1> DEFINE to == IF d.ending = "none" THEN "pending" ELSE "done"
<1>5. d \in Doc /\ Sound(d)
    BY <1>3, AdvancedFields
<1>6. to \in Dirs /\ to # "inflight" /\ (d.ending = "none" <=> to # "done")
    BY DEF Dirs
<1> HIDE DEF to
<1>7. /\ th' \in [Threads -> Thread] /\ th'[Sweeper].op = "release"
      /\ th'[Sweeper].pc = "check" /\ th'[Sweeper].to = to /\ th'[Sweeper].doc = d
      /\ \A u \in Threads \ {Sweeper} : th'[u] = th[u]
    <2>1. "release" \in Operations
        BY DEF Operations
    <2>2. Goes(Sweeper, "release", "check", d, to)
        BY <1>4 DEF to
    <2> QED BY <2>1, <2>2, <1>5, <1>6, GoesTo DEF Typed
<1>8. Shape(Sweeper)'
    BY <1>5, <1>6, <1>7 DEF Shape, Fits
<1> QED BY <1>1, <1>2, <1>7, <1>8, ShapesKept DEF Typed

\* reclaim_stale leaves files and threads in shape.
LEMMA ReclaimLayered ==
    ASSUME Layered, Reclaim
    PROVE  Layered'
<1> USE DEF Layered
<1>1. disk' \in [Dirs -> Doc \cup {NoDoc}] /\ Files'
    BY FileResumed DEF Reclaim
<1>2. Typed'
    BY <1>1 DEF Typed, Reclaim
<1>3. \A t \in Threads : Shape(t)'
    BY DEF Reclaim, Shape
<1> QED BY <1>1, <1>2, <1>3

\* A crash and what resume does after it leaves files and threads in shape.
LEMMA RestartLayered ==
    ASSUME Layered, Restart
    PROVE  Layered'
<1> USE DEF Layered
<1>1. disk' \in [Dirs -> Doc \cup {NoDoc}] /\ Files'
    <2>1. CASE disk["inflight"] = NoDoc
        BY <2>1 DEF Restart, Files, Typed
    <2>2. CASE disk["inflight"] # NoDoc
        BY <2>2, FileResumed DEF Restart
    <2> QED BY <2>1, <2>2
<1>2. th' \in [Threads -> Thread]
    BY IdleIs DEF Restart
<1>3. \A t \in Threads : Shape(t)'
    BY DEF Restart, Shape
<1>4. faults' \in 0 .. MaxFaults
    BY StoreAssumption DEF Typed, Restart, Fault
<1> QED BY <1>1, <1>2, <1>3, <1>4 DEF Typed, Restart

\* The token check and the merge of _move_out leaves files and threads in shape.
LEMMA CheckLayered ==
    ASSUME Layered, NEW t \in Threads, Check(t)
    PROVE  Layered'
<1> USE DEF Layered
<1> DEFINE current == disk["inflight"]
           held == th[t].doc
           m == Merged(held, current)
           e == [m EXCEPT !.token = 0]
<1>1. UNCHANGED <<disk, told, residue, claims, requests, faults>>
    BY DEF Check
<1>2. Files'
    BY <1>1 DEF Files
<1>3. /\ t = Sweeper /\ th[t].pc = "check" /\ th[t].op = "release"
      /\ th[t].to # "inflight" /\ Fits(held, th[t].to) /\ th[t] \in Thread
    BY IdleIs DEF Check, Shape, Typed
<1>4. CASE current # NoDoc /\ current.token = held.token
    <2>1. held \in Doc /\ current \in Doc /\ 0 \in 0 .. MaxClaims
        BY <1>3, <1>4, StoreAssumption DEF Fits, Typed, Dirs
    <2>2. th' = [th EXCEPT ![t].doc = e, ![t].pc = "write"]
        BY <1>4 DEF Check
    <2>3. /\ m \in Doc /\ m.token = held.token /\ m.ending = held.ending /\ m.unpause = held.unpause
          /\ m.stop = IF held.stop = "absent" /\ current.stop = "requested"
                      THEN "requested" ELSE held.stop
          /\ m.veto = IF held.veto = "absent" /\ current.veto = "requested"
                      THEN "requested" ELSE held.veto
        <3> HIDE DEF held, current
        <3> QED BY <2>1, MergedFields
    <2>4. /\ e \in Doc /\ e.token = 0 /\ e.ending = m.ending /\ e.unpause = m.unpause
          /\ e.stop = m.stop /\ e.veto = m.veto
        <3> HIDE DEF m
        <3> QED BY <2>1, <2>3, TokenWritten
    <2>5. Fits(e, th[t].to)
        <3> HIDE DEF m, e
        <3> QED BY <1>3, <2>3, <2>4 DEF Fits, Sound
    <2> HIDE DEF held, current, m, e
    <2>6. /\ th' \in [Threads -> Thread] /\ th'[t].op = th[t].op /\ th'[t].pc = "write"
          /\ th'[t].doc = e /\ th'[t].to = th[t].to
          /\ \A u \in Threads \ {t} : th'[u] = th[u]
        BY <1>3, <2>2, <2>4 DEF Typed, Thread
    <2>7. Shape(t)'
        BY <1>3, <2>4, <2>5, <2>6 DEF Shape
    <2> QED BY <1>1, <1>2, <2>6, <2>7, ShapesKept DEF Typed
<1>5. CASE ~(current # NoDoc /\ current.token = held.token)
    <2>1. /\ th' \in [Threads -> Thread] /\ th'[t] = Idle
          /\ \A u \in Threads \ {t} : th'[u] = th[u]
        BY <1>5, RestsNow DEF Check, Typed
    <2>2. Shape(t)'
        BY <2>1 DEF Shape
    <2> QED BY <1>1, <1>2, <2>1, <2>2, ShapesKept DEF Typed
<1> QED BY <1>4, <1>5

\* The atomic write of _move_out leaves files and threads in shape.
LEMMA WriteLayered ==
    ASSUME Layered, NEW t \in Threads, Write(t)
    PROVE  Layered'
<1> USE DEF Layered
<1> DEFINE my == th[t]
<1>1. /\ my \in Thread /\ my.pc = "write" /\ my.to # "inflight" /\ Fits(my.doc, my.to)
      /\ my.doc.token = 0
      /\ \/ t = Sweeper /\ my.op = "release"
         \/ t # Sweeper /\ my.op = "stop" /\ my.to = "done" /\ my.doc.ending = "stopped"
         \/ t # Sweeper /\ my.op = "reopen" /\ my.to = "pending"
    BY IdleIs DEF Write, Shape, Typed
<1>2. my.to \in {"pending", "done"}
    BY <1>1 DEF Thread, Dirs
<1>3. disk' \in [Dirs -> Doc \cup {NoDoc}] /\ Files'
    <2>1. disk' = [disk EXCEPT ![my.to] = my.doc]
        BY DEF Write
    <2> QED BY <1>1, <1>2, <2>1, FileWritten DEF Dirs
<1> DEFINE rest == Others(my.to)
<1>4. /\ my.to = "pending" => rest = <<"inflight", "done">>
      /\ my.to = "done" => rest = <<"pending", "inflight">>
      /\ rest \in Rest
    BY <1>2, OthersAre DEF Rest
<1> HIDE DEF rest
<1>5. /\ th' \in [Threads -> Thread]
      /\ th'[t].op = IF my.op = "stop" THEN "finish" ELSE my.op
      /\ th'[t].pc = "unlink" /\ th'[t].doc = my.doc /\ th'[t].to = my.to /\ th'[t].rest = rest
      /\ \A u \in Threads \ {t} : th'[u] = th[u]
    <2>1. th' = [th EXCEPT ![t].op = IF @ = "stop" THEN "finish" ELSE @,
                           ![t].pc = "unlink", ![t].rest = rest]
        BY DEF Write, rest
    <2>2. "finish" \in Operations
        BY DEF Operations
    <2> QED BY <1>1, <1>4, <2>1, <2>2 DEF Typed, Thread
<1> HIDE DEF my
<1>6. Shape(t)'
    BY <1>1, <1>2, <1>4, <1>5 DEF Shape
<1> QED BY <1>3, <1>5, <1>6, ShapesKept DEF Typed, Write

\* A write that fails leaves files and threads in shape.
LEMMA WriteFailsLayered ==
    ASSUME Layered, NEW t \in Threads, WriteFails(t)
    PROVE  Layered'
<1> USE DEF Layered
<1>1. /\ th' \in [Threads -> Thread] /\ th'[t] = Idle
      /\ \A u \in Threads \ {t} : th'[u] = th[u]
    BY RestsNow DEF WriteFails, Typed
<1>2. Shape(t)'
    BY <1>1 DEF Shape
<1>3. faults' \in 0 .. MaxFaults
    BY StoreAssumption DEF Typed, WriteFails, Fault
<1>4. Files'
    BY DEF WriteFails, Files
<1> QED BY <1>1, <1>2, <1>3, <1>4, ShapesKept DEF Typed, WriteFails

\* _move_out goes on to the next copy, or is done.
LEMMA UnlinkedTo ==
    ASSUME Layered, NEW t \in Threads, th[t].pc = "unlink", Unlinked(t)
    PROVE  /\ th' \in [Threads -> Thread] /\ \A u \in Threads \ {t} : th'[u] = th[u]
           /\ Shape(t)' /\ told' \subseteq {"finished", "requested", "vetoed"}
           /\ \/ /\ th[t].rest \in {<<"inflight", "done">>, <<"pending", "inflight">>}
                 /\ th'[t].rest = IF th[t].to = "pending" THEN <<"done">> ELSE <<"inflight">>
                 /\ th'[t].op = th[t].op /\ th'[t].pc = "unlink" /\ th'[t].doc = th[t].doc
                 /\ th'[t].to = th[t].to /\ told' = told
              \/ /\ th[t].rest \in {<<"done">>, <<"inflight">>} /\ th'[t] = Idle
                 /\ told' = IF th[t].op = "finish" THEN told \cup {"finished"} ELSE told
<1> USE DEF Layered
<1> DEFINE my == th[t]
           rest == Tail(th[t].rest)
<1>1. /\ my \in Thread /\ Fits(my.doc, my.to) /\ my.doc.token = 0
      /\ \/ my.to = "pending" /\ my.rest \in {<<"inflight", "done">>, <<"done">>}
         \/ my.to = "done" /\ my.rest \in {<<"pending", "inflight">>, <<"inflight">>}
      /\ \/ t = Sweeper /\ my.op = "release"
         \/ t # Sweeper /\ my.op = "finish" /\ my.to = "done" /\ my.doc.ending = "stopped"
         \/ t # Sweeper /\ my.op = "reopen" /\ my.to = "pending"
    BY IdleIs DEF Shape, Typed
<1>2. CASE my.rest \in {<<"inflight", "done">>, <<"pending", "inflight">>}
    <2>1. rest = (IF my.to = "pending" THEN <<"done">> ELSE <<"inflight">>) /\ rest # <<>>
        BY <1>1, <1>2, OthersAre
    <2>2. th' = [th EXCEPT ![t].rest = rest] /\ told' = told
        BY <2>1 DEF Unlinked
    <2> HIDE DEF rest
    <2>3. rest \in Rest
        BY <2>1 DEF Rest
    <2>4. /\ th' \in [Threads -> Thread] /\ \A u \in Threads \ {t} : th'[u] = th[u]
          /\ th'[t].rest = rest /\ th'[t].op = my.op /\ th'[t].pc = "unlink"
          /\ th'[t].doc = my.doc /\ th'[t].to = my.to
        BY <1>1, <2>2, <2>3 DEF Typed, Thread
    <2> HIDE DEF my
    <2>5. Shape(t)'
        BY <1>1, <2>1, <2>4 DEF Shape
    <2> QED BY <1>2, <2>1, <2>2, <2>4, <2>5 DEF my, Typed
<1>3. CASE my.rest \in {<<"done">>, <<"inflight">>}
    <2>1. rest = <<>>
        BY <1>3, OthersAre
    <2>2. Rests(t) /\ told' = IF my.op = "finish" THEN told \cup {"finished"} ELSE told
        BY <2>1 DEF Unlinked
    <2>3. /\ th' \in [Threads -> Thread] /\ th'[t] = Idle
          /\ \A u \in Threads \ {t} : th'[u] = th[u]
        BY <2>2, RestsNow DEF Typed
    <2>4. Shape(t)'
        BY <2>3 DEF Shape
    <2> QED BY <1>3, <2>2, <2>3, <2>4 DEF Typed
<1> QED BY <1>1, <1>2, <1>3

\* The copy that goes next is not the one just written.
LEMMA NextCopy ==
    ASSUME Layered, NEW t \in Threads, th[t].pc = "unlink"
    PROVE  /\ th[t].to \in {"pending", "done"} /\ th[t].to # Head(th[t].rest)
           /\ th[t].rest = <<"inflight", "done">> => Head(th[t].rest) = "inflight" /\ th[t].to = "pending"
           /\ th[t].rest = <<"done">> => Head(th[t].rest) = "done" /\ th[t].to = "pending"
           /\ th[t].rest = <<"pending", "inflight">> => Head(th[t].rest) = "pending" /\ th[t].to = "done"
           /\ th[t].rest = <<"inflight">> => Head(th[t].rest) = "inflight" /\ th[t].to = "done"
           /\ Head(th[t].rest) \in Dirs
<1>1. \/ th[t].to = "pending" /\ th[t].rest \in {<<"inflight", "done">>, <<"done">>}
      \/ th[t].to = "done" /\ th[t].rest \in {<<"pending", "inflight">>, <<"inflight">>}
    BY IdleIs DEF Layered, Shape
<1> QED BY <1>1, OthersAre DEF Dirs

\* One unlink of _move_out leaves files and threads in shape.
LEMMA UnlinkLayered ==
    ASSUME Layered, NEW t \in Threads, Unlink(t)
    PROVE  Layered'
<1>1. th[t].pc = "unlink" /\ Unlinked(t)
    BY DEF Unlink
<1>2. /\ th' \in [Threads -> Thread] /\ \A u \in Threads \ {t} : th'[u] = th[u]
      /\ Shape(t)' /\ told' \subseteq {"finished", "requested", "vetoed"}
    BY <1>1, UnlinkedTo
<1>3. disk' \in [Dirs -> Doc \cup {NoDoc}] /\ Files'
    BY <1>1, NextCopy, FileDropped DEF Unlink, Layered
<1> QED BY <1>2, <1>3, ShapesKept DEF Layered, Typed, Unlink

\* An unlink that fails leaves files and threads in shape.
LEMMA UnlinkFailsLayered ==
    ASSUME Layered, NEW t \in Threads, UnlinkFails(t)
    PROVE  Layered'
<1>1. th[t].pc = "unlink" /\ Unlinked(t)
    BY DEF UnlinkFails
<1>2. /\ th' \in [Threads -> Thread] /\ \A u \in Threads \ {t} : th'[u] = th[u]
      /\ Shape(t)' /\ told' \subseteq {"finished", "requested", "vetoed"}
    BY <1>1, UnlinkedTo
<1>3. Files'
    BY DEF UnlinkFails, Files, Layered
<1>4. faults' \in 0 .. MaxFaults
    BY StoreAssumption DEF Layered, Typed, UnlinkFails, Fault
<1> QED BY <1>2, <1>3, <1>4, ShapesKept DEF Layered, Typed, UnlinkFails

\* An operation that begins or goes on: one thread moves, the files stay.
LEMMA MovesLayered ==
    ASSUME Layered, NEW t \in Threads,
           NEW op \in Operations \cup {"none"},
           NEW pc \in {"idle", "read", "stamp", "held", "check", "write", "unlink", "inflight",
                       "place"},
           NEW doc \in Doc \cup {NoDoc}, NEW to \in Dirs,
           Goes(t, op, pc, doc, to),
           disk' = disk, told' \subseteq {"finished", "requested", "vetoed"}, residue' = residue,
           claims' = claims, requests' \in 0 .. MaxRequests, faults' = faults,
           \/ pc = "inflight" /\ op \in {"stop", "veto"}
           \/ /\ pc = "write" /\ Fits(doc, to) /\ doc.token = 0
              /\ \/ op = "stop" /\ to = "done" /\ doc.ending = "stopped"
                 \/ op = "reopen" /\ to = "pending"
           \/ /\ pc = "place" /\ Fits(doc, to)
              /\ \/ op = "veto" /\ to = "pending" /\ doc.token = 0
                 \/ op \in {"veto", "record"} /\ to = "inflight",
           t # Sweeper
    PROVE  Layered'
<1> USE DEF Layered
<1>1. /\ th' \in [Threads -> Thread]
      /\ th'[t].op = op /\ th'[t].pc = pc /\ th'[t].doc = doc /\ th'[t].to = to
      /\ \A u \in Threads \ {t} : th'[u] = th[u]
    BY DEF Goes, Typed, Thread, Rest
<1>2. Shape(t)'
    BY <1>1 DEF Shape
<1>3. Files'
    BY DEF Files
<1> QED BY <1>1, <1>2, <1>3, ShapesKept DEF Typed

\* An operation that ends without a write.
LEMMA RestsLayered ==
    ASSUME Layered, NEW t \in Threads, Rests(t),
           disk' = disk, told' \subseteq {"finished", "requested", "vetoed"}, residue' = residue,
           claims' = claims, requests' \in 0 .. MaxRequests, faults' = faults
    PROVE  Layered'
<1> USE DEF Layered
<1>1. /\ th' \in [Threads -> Thread] /\ th'[t] = Idle
      /\ \A u \in Threads \ {t} : th'[u] = th[u]
    BY RestsNow DEF Typed
<1>2. Shape(t)'
    BY <1>1 DEF Shape
<1>3. Files'
    BY DEF Files
<1> QED BY <1>1, <1>2, <1>3, ShapesKept DEF Typed

\* A request thread is not the sweep.
LEMMA HandlersAre ==
    ASSUME NEW h \in Handlers
    PROVE  h \in Threads /\ h # Sweeper
BY StoreAssumption DEF Threads

\* A request counts towards the bound.
LEMMA AskedCounts ==
    ASSUME Typed, NEW h \in Handlers, Asked(h)
    PROVE  requests' \in 0 .. MaxRequests
BY StoreAssumption DEF Typed, Asked

\* The document a stop of an idle entry writes.
LEMMA StoppedFits ==
    ASSUME Typed, Files, disk["pending"] # NoDoc
    PROVE  LET e == [disk["pending"] EXCEPT !.ending = "stopped"]
           IN  e \in Doc /\ Fits(e, "done") /\ e.token = 0 /\ e.ending = "stopped"
<1> DEFINE d == disk["pending"]
           e == [d EXCEPT !.ending = "stopped"]
<1>1. d \in Doc /\ Sound(d) /\ d.ending = "none" /\ d.token = 0
    BY Stored DEF Dirs
<1> HIDE DEF d
<1>2. /\ e \in Doc /\ e.ending = "stopped"
      /\ e.token = d.token /\ e.unpause = d.unpause /\ e.stop = d.stop /\ e.veto = d.veto
    BY <1>1, EndingWritten
<1> HIDE DEF e
<1>3. Fits(e, "done")
    BY <1>1, <1>2 DEF Fits, Sound
<1> QED BY <1>1, <1>2, <1>3 DEF d, e

\* The document a recorded stop writes.
LEMMA RecordedFits ==
    ASSUME Typed, Files, disk["inflight"] # NoDoc
    PROVE  LET e == [disk["inflight"] EXCEPT !.stop = "requested"]
           IN  /\ e \in Doc /\ Fits(e, "inflight") /\ e.stop = "requested"
               /\ e.token = disk["inflight"].token /\ e.unpause = disk["inflight"].unpause
               /\ e.veto = disk["inflight"].veto
<1> DEFINE d == disk["inflight"]
           e == [d EXCEPT !.stop = "requested"]
<1>1. d \in Doc /\ Sound(d) /\ d.ending = "none"
    BY Stored DEF Dirs
<1> HIDE DEF d
<1>2. /\ e \in Doc /\ e.stop = "requested"
      /\ e.token = d.token /\ e.unpause = d.unpause /\ e.ending = d.ending /\ e.veto = d.veto
    BY <1>1, StopWritten
<1> HIDE DEF e
<1>3. Fits(e, "inflight")
    BY <1>1, <1>2 DEF Fits, Sound
<1> QED BY <1>2, <1>3 DEF d, e

\* The documents a veto writes.
LEMMA VetoedFits ==
    ASSUME Typed, Files
    PROVE  /\ disk["pending"] # NoDoc =>
                LET e == Vetoed(disk["pending"])
                IN  /\ e \in Doc /\ Fits(e, "pending") /\ e.token = 0 /\ e.unpause # "pending"
                    /\ e.stop = disk["pending"].stop
           /\ disk["inflight"] # NoDoc =>
                LET e == [Vetoed(disk["inflight"]) EXCEPT !.veto = "requested"]
                IN  /\ e \in Doc /\ Fits(e, "inflight") /\ e.veto = "requested"
                    /\ e.stop = disk["inflight"].stop /\ e.token = disk["inflight"].token
<1>1. ASSUME disk["pending"] # NoDoc
      PROVE  LET e == Vetoed(disk["pending"])
             IN  /\ e \in Doc /\ Fits(e, "pending") /\ e.token = 0 /\ e.unpause # "pending"
                 /\ e.stop = disk["pending"].stop
    <2> DEFINE d == disk["pending"]
               e == Vetoed(d)
    <2>1. d \in Doc /\ Sound(d) /\ d.ending = "none" /\ d.token = 0
        BY <1>1, Stored DEF Dirs
    <2> HIDE DEF d
    <2>2. /\ e \in Doc /\ e.token = d.token /\ e.ending = d.ending /\ e.stop = d.stop
          /\ e.veto = d.veto /\ e.unpause = IF d.unpause = "pending" THEN "vetoed" ELSE d.unpause
        BY <2>1, VetoedFields
    <2> HIDE DEF e
    <2>3. Fits(e, "pending")
        BY <2>1, <2>2 DEF Fits, Sound
    <2> QED BY <2>1, <2>2, <2>3 DEF d, e
<1>2. ASSUME disk["inflight"] # NoDoc
      PROVE  LET e == [Vetoed(disk["inflight"]) EXCEPT !.veto = "requested"]
             IN  /\ e \in Doc /\ Fits(e, "inflight") /\ e.veto = "requested"
                 /\ e.stop = disk["inflight"].stop /\ e.token = disk["inflight"].token
    <2> DEFINE d == disk["inflight"]
               v == Vetoed(d)
               e == [v EXCEPT !.veto = "requested"]
    <2>1. d \in Doc /\ Sound(d) /\ d.ending = "none"
        BY <1>2, Stored DEF Dirs
    <2> HIDE DEF d
    <2>2. /\ v \in Doc /\ v.token = d.token /\ v.ending = d.ending /\ v.stop = d.stop
          /\ v.veto = d.veto /\ v.unpause = IF d.unpause = "pending" THEN "vetoed" ELSE d.unpause
        BY <2>1, VetoedFields
    <2> HIDE DEF v
    <2>3. /\ e \in Doc /\ e.veto = "requested" /\ e.token = v.token /\ e.ending = v.ending
          /\ e.unpause = v.unpause /\ e.stop = v.stop
        BY <2>2, VetoWritten
    <2> HIDE DEF e
    <2>4. Fits(e, "inflight")
        BY <2>1, <2>2, <2>3 DEF Fits, Sound
    <2> QED BY <2>2, <2>3, <2>4 DEF d, v, e
<1> QED BY <1>1, <1>2

\* The document a keep-waiting writes.
LEMMA ReopenedFits ==
    ASSUME Typed, Files, disk["done"] # NoDoc, disk["done"].ending = "expired"
    PROVE  LET e == [disk["done"] EXCEPT !.ending = "none",
                                         !.unpause = IF @ = "elapsed" THEN "pending" ELSE @]
           IN  e \in Doc /\ Fits(e, "pending") /\ e.token = 0 /\ e.stop = disk["done"].stop
<1> DEFINE d == disk["done"]
           e == [d EXCEPT !.ending = "none", !.unpause = IF @ = "elapsed" THEN "pending" ELSE @]
<1>1. d \in Doc /\ Sound(d) /\ d.ending = "expired" /\ d.token = 0
    BY Stored DEF Dirs
<1> HIDE DEF d
<1>2. /\ e \in Doc /\ e.token = d.token /\ e.ending = "none" /\ e.stop = d.stop
      /\ e.veto = d.veto /\ e.unpause = IF d.unpause = "elapsed" THEN "pending" ELSE d.unpause
    BY <1>1 DEF Doc
<1> HIDE DEF e
<1>3. Fits(e, "pending")
    BY <1>1, <1>2 DEF Fits, Sound
<1> QED BY <1>1, <1>2, <1>3 DEF d, e

\* The first read of a stop leaves files and threads in shape.
LEMMA StopLayered ==
    ASSUME Layered, NEW h \in Handlers, Stop(h)
    PROVE  Layered'
<1> USE DEF Layered
<1>1. h \in Threads /\ h # Sweeper /\ requests' \in 0 .. MaxRequests
    BY HandlersAre, AskedCounts DEF Stop
<1>2. UNCHANGED <<disk, told, residue, claims, faults>> /\ told' \subseteq {"finished", "requested", "vetoed"}
    BY DEF Stop, Typed
<1>3. "stop" \in Operations /\ "inflight" \in Dirs /\ "done" \in Dirs
    BY DEF Operations, Dirs
<1>4. CASE disk["pending"] = NoDoc
    <2>1. Goes(h, "stop", "inflight", NoDoc, "inflight")
        BY <1>4 DEF Stop
    <2> QED BY <1>1, <1>2, <1>3, <2>1, MovesLayered
<1>5. CASE disk["pending"] # NoDoc
    <2> DEFINE e == [disk["pending"] EXCEPT !.ending = "stopped"]
    <2>1. Goes(h, "stop", "write", e, "done")
        BY <1>5 DEF Stop
    <2>2. e \in Doc /\ Fits(e, "done") /\ e.token = 0 /\ e.ending = "stopped"
        BY <1>5, StoppedFits
    <2> HIDE DEF e
    <2> QED BY <1>1, <1>2, <1>3, <2>1, <2>2, MovesLayered
<1> QED BY <1>4, <1>5

\* The second read of a stop leaves files and threads in shape.
LEMMA StopHeldLayered ==
    ASSUME Layered, NEW h \in Handlers, StopHeld(h)
    PROVE  Layered'
<1> USE DEF Layered
<1>1. h \in Threads /\ h # Sweeper
    BY HandlersAre
<1>2. /\ UNCHANGED <<disk, told, residue, claims, requests, faults>>
      /\ told' \subseteq {"finished", "requested", "vetoed"} /\ requests' \in 0 .. MaxRequests
    BY DEF StopHeld, Typed
<1>3. "record" \in Operations /\ "inflight" \in Dirs
    BY DEF Operations, Dirs
<1>4. CASE disk["inflight"] = NoDoc
    BY <1>1, <1>2, <1>4, RestsLayered DEF StopHeld
<1>5. CASE disk["inflight"] # NoDoc
    <2> DEFINE e == [disk["inflight"] EXCEPT !.stop = "requested"]
    <2>1. Goes(h, "record", "place", e, "inflight")
        BY <1>5 DEF StopHeld
    <2>2. e \in Doc /\ Fits(e, "inflight")
        BY <1>5, RecordedFits
    <2> HIDE DEF e
    <2> QED BY <1>1, <1>2, <1>3, <2>1, <2>2, MovesLayered
<1> QED BY <1>4, <1>5

\* The first read of a veto leaves files and threads in shape.
LEMMA VetoLayered ==
    ASSUME Layered, NEW h \in Handlers, Veto(h)
    PROVE  Layered'
<1> USE DEF Layered
<1>1. h \in Threads /\ h # Sweeper /\ requests' \in 0 .. MaxRequests
    BY HandlersAre, AskedCounts DEF Veto
<1>2. UNCHANGED <<disk, told, residue, claims, faults>> /\ told' \subseteq {"finished", "requested", "vetoed"}
    BY DEF Veto, Typed
<1>3. "veto" \in Operations /\ "inflight" \in Dirs /\ "pending" \in Dirs
    BY DEF Operations, Dirs
<1>4. CASE disk["pending"] # NoDoc /\ disk["pending"].unpause = "pending"
    <2> DEFINE e == Vetoed(disk["pending"])
    <2>1. Goes(h, "veto", "place", e, "pending")
        BY <1>4 DEF Veto
    <2>2. e \in Doc /\ Fits(e, "pending") /\ e.token = 0
        BY <1>4, VetoedFits
    <2> HIDE DEF e
    <2> QED BY <1>1, <1>2, <1>3, <2>1, <2>2, MovesLayered
<1>5. CASE ~(disk["pending"] # NoDoc /\ disk["pending"].unpause = "pending")
    <2>1. Goes(h, "veto", "inflight", NoDoc, "inflight")
        BY <1>5 DEF Veto
    <2> QED BY <1>1, <1>2, <1>3, <2>1, MovesLayered
<1> QED BY <1>4, <1>5

\* The second read of a veto leaves files and threads in shape.
LEMMA VetoHeldLayered ==
    ASSUME Layered, NEW h \in Handlers, VetoHeld(h)
    PROVE  Layered'
<1> USE DEF Layered
<1>1. h \in Threads /\ h # Sweeper
    BY HandlersAre
<1>2. /\ UNCHANGED <<disk, residue, claims, requests, faults>>
      /\ told' \subseteq {"finished", "requested", "vetoed"} /\ requests' \in 0 .. MaxRequests
    BY DEF VetoHeld, Typed
<1>3. "veto" \in Operations /\ "inflight" \in Dirs
    BY DEF Operations, Dirs
<1>4. CASE disk["inflight"] = NoDoc
    BY <1>1, <1>2, <1>4, RestsLayered DEF VetoHeld
<1>5. CASE disk["inflight"] # NoDoc
    <2> DEFINE e == [Vetoed(disk["inflight"]) EXCEPT !.veto = "requested"]
    <2>1. Goes(h, "veto", "place", e, "inflight")
        BY <1>5 DEF VetoHeld
    <2>2. e \in Doc /\ Fits(e, "inflight")
        BY <1>5, VetoedFits
    <2> HIDE DEF e
    <2> QED BY <1>1, <1>2, <1>3, <2>1, <2>2, MovesLayered
<1> QED BY <1>4, <1>5

\* A write in place leaves files and threads in shape.
LEMMA PlaceLayered ==
    ASSUME Layered, NEW h \in Handlers, Place(h)
    PROVE  Layered'
<1> USE DEF Layered
<1> DEFINE my == th[h]
<1>1. h \in Threads /\ h # Sweeper
    BY HandlersAre
<1>2. /\ my \in Thread /\ Fits(my.doc, my.to) /\ my.to \in Dirs
      /\ \/ my.op = "veto" /\ my.to = "pending" /\ my.doc.token = 0
         \/ my.op \in {"veto", "record"} /\ my.to = "inflight"
    BY <1>1, IdleIs DEF Place, Shape, Typed, Thread
<1>3. disk' \in [Dirs -> Doc \cup {NoDoc}] /\ Files'
    <2>1. disk' = [disk EXCEPT ![my.to] = my.doc]
        BY DEF Place
    <2> QED BY <1>2, <2>1, FileWritten
<1>4. /\ th' \in [Threads -> Thread] /\ \A u \in Threads \ {h} : th'[u] = th[u]
      /\ Shape(h)' /\ told' \subseteq {"finished", "requested", "vetoed"}
    <2>1. CASE my.to = "pending"
        <3>1. Goes(h, "veto", "inflight", NoDoc, "inflight") /\ told' = told
            BY <2>1 DEF Place
        <3>2. "veto" \in Operations /\ "inflight" \in Dirs
            BY DEF Operations, Dirs
        <3>3. /\ th' \in [Threads -> Thread] /\ th'[h].op = "veto" /\ th'[h].pc = "inflight"
              /\ \A u \in Threads \ {h} : th'[u] = th[u]
            BY <1>1, <3>1, <3>2, GoesTo DEF Typed
        <3>4. Shape(h)'
            BY <1>1, <3>3 DEF Shape
        <3> QED BY <3>1, <3>3, <3>4 DEF Typed
    <2>2. CASE my.to # "pending"
        <3>1. Rests(h) /\ told' = told \cup {IF my.op = "veto" THEN "vetoed" ELSE "requested"}
            BY <2>2 DEF Place
        <3>2. /\ th' \in [Threads -> Thread] /\ th'[h] = Idle
              /\ \A u \in Threads \ {h} : th'[u] = th[u]
            BY <1>1, <3>1, RestsNow DEF Typed
        <3>3. Shape(h)'
            BY <3>2 DEF Shape
        <3> QED BY <3>1, <3>2, <3>3 DEF Typed
    <2> QED BY <2>1, <2>2
<1> QED BY <1>1, <1>3, <1>4, ShapesKept DEF Typed, Place

\* The read of a keep-waiting leaves files and threads in shape.
LEMMA ReopenLayered ==
    ASSUME Layered, NEW h \in Handlers, Reopen(h)
    PROVE  Layered'
<1> USE DEF Layered
<1>1. h \in Threads /\ h # Sweeper /\ requests' \in 0 .. MaxRequests
    BY HandlersAre, AskedCounts DEF Reopen
<1>2. UNCHANGED <<disk, residue, claims, faults>> /\ told' \subseteq {"finished", "requested", "vetoed"}
    BY DEF Reopen, Typed
<1>3. "reopen" \in Operations /\ "pending" \in Dirs
    BY DEF Operations, Dirs
<1> DEFINE e == [disk["done"] EXCEPT !.ending = "none",
                                     !.unpause = IF @ = "elapsed" THEN "pending" ELSE @]
<1>4. Goes(h, "reopen", "write", e, "pending")
    BY DEF Reopen
<1>5. e \in Doc /\ Fits(e, "pending") /\ e.token = 0
    BY ReopenedFits DEF Reopen
<1> HIDE DEF e
<1> QED BY <1>1, <1>2, <1>3, <1>4, <1>5, MovesLayered

\* Every step of the code as it is keeps layer 1.
LEMMA LayeredInductive ==
    ASSUME Layered, [Next]_vars
    PROVE  Layered'
<1>1. CASE UNCHANGED vars
    BY <1>1 DEF vars, Layered, Typed, Files, Shape
<1>2. ASSUME NEW t \in Threads,
             Check(t) \/ Write(t) \/ WriteFails(t) \/ Unlink(t) \/ UnlinkFails(t)
      PROVE  Layered'
    BY <1>2, CheckLayered, WriteLayered, WriteFailsLayered, UnlinkLayered, UnlinkFailsLayered
<1>3. ASSUME NEW h \in Handlers,
             Stop(h) \/ StopHeld(h) \/ Veto(h) \/ VetoHeld(h) \/ Place(h) \/ Reopen(h)
      PROVE  Layered'
    BY <1>3, StopLayered, StopHeldLayered, VetoLayered, VetoHeldLayered, PlaceLayered, ReopenLayered
<1> QED BY <1>1, <1>2, <1>3, PutLayered, ClaimLayered, ClaimReadLayered, ClaimStampLayered,
           AdvanceLayered, ReclaimLayered, RestartLayered DEF Next

\* Layer 1 holds in every state of every behaviour.
LEMMA LayeredAlways == Spec => []Layered
<1>1. Init => Layered
    BY InitLayered
<1>2. Layered /\ [Next]_vars => Layered'
    BY LayeredInductive
<1> QED BY <1>1, <1>2, PTL DEF Spec

\* Once crossed, for good.
LEMMA CrossedStays ==
    ASSUME crossed \in BOOLEAN, [Next]_vars
    PROVE  crossed' \in BOOLEAN /\ (crossed => crossed')
<1>1. CASE crossed' = crossed
    BY <1>1
<1>2. ASSUME NEW t \in Threads, By(t)
      PROVE  crossed' \in BOOLEAN /\ (crossed => crossed')
    BY <1>2 DEF By
<1>3. Sweeper \in Threads /\ Handlers \subseteq Threads
    BY DEF Threads
<1>4. crossed' = crossed \/ \E t \in Threads : By(t)
    BY <1>3 DEF Next, vars, Put, Restart, Claim, ClaimRead, ClaimStamp, Advance, Reclaim, Check,
                Write, WriteFails, Unlink, UnlinkFails, Asked, Stop, StopHeld, Veto, VetoHeld,
                Place, Reopen
<1> QED BY <1>1, <1>2, <1>4

\* Whoever acts inside whose section, a step leaves well-formed files, and no claim token
\* outlives its claim outside inflight/ (claim, _move_out, resume).
THEOREM TypeCorrect == Spec => []TypeOK
<1>1. Layered /\ crossed \in BOOLEAN => TypeOK
    BY DEF Layered, Typed, Files, TypeOK, Thread, Dirs
<1>2. Init => crossed \in BOOLEAN
    BY DEF Init
<1>3. crossed \in BOOLEAN /\ [Next]_vars => (crossed \in BOOLEAN)'
    BY CrossedStays
<1> QED BY <1>1, <1>2, <1>3, LayeredAlways, PTL DEF Spec

-----------------------------------------------------------------------------
(* Lemmas about the critical sections. *)

\* The operations with an open section.
LEMMA DelicateOps ==
    /\ {"claim", "release", "finish", "record", "veto", "reopen"} \subseteq Delicate
    /\ "none" \notin Delicate
BY DEF Delicate, Operations

\* Who is in no section is idle, holds an entry, or is on its way to a stop.
LEMMA Outside ==
    ASSUME Layered, NEW u \in Threads, th[u].op \notin Delicate
    PROVE  \/ th[u] = Idle
           \/ u = Sweeper /\ th[u].pc = "held" /\ th[u].op = "none"
           \/ u # Sweeper /\ th[u].op = "stop" /\ th[u].pc \in {"write", "inflight"}
BY DelicateOps DEF Layered, Shape

\* An idle thread relies on nothing.
LEMMA IdleSection ==
    ASSUME NEW u \in Threads, th'[u] = Idle
    PROVE  Section(u)'
BY IdleIs DEF Section, Stamping, Holding, Releasing, Reopening, Placing, Vetoing, Cleaning

\* Who is in no section relies on nothing either, but for the holder's copy.
LEMMA Bystander ==
    ASSUME Layered, NEW u \in Threads, th[u].op \notin Delicate, th'[u] = th[u],
           u = Sweeper => Holding(u)'
    PROVE  Section(u)'
<1>1. CASE th[u] = Idle
    BY <1>1, IdleSection
<1>2. CASE u = Sweeper /\ th[u].pc = "held" /\ th[u].op = "none"
    <2>1. Stamping(u)' /\ Releasing(u)' /\ Reopening(u)' /\ Placing(u)' /\ Vetoing(u)' /\ Cleaning(u)'
        BY <1>2 DEF Stamping, Releasing, Reopening, Placing, Vetoing, Cleaning
    <2> QED BY <1>2, <2>1 DEF Section
<1>3. CASE u # Sweeper /\ th[u].op = "stop" /\ th[u].pc \in {"write", "inflight"}
    BY <1>3 DEF Section, Stamping, Holding, Releasing, Reopening, Placing, Vetoing, Cleaning
<1> QED BY <1>1, <1>2, <1>3, Outside

\* A step of one thread in its turn disturbs no other.
LEMMA OneMoves ==
    ASSUME Layered, NEW t \in Threads, Turn(t),
           \A u \in Threads \ {t} : th'[u] = th[u],
           Section(t)', t # Sweeper => Holding(Sweeper)'
    PROVE  Alone' /\ \A u \in Threads : Section(u)'
<1>1. Alone'
    BY DEF Turn, Alone
<1>2. ASSUME NEW u \in Threads \ {t}
      PROVE  Section(u)'
    <2>1. th[u].op \notin Delicate /\ th'[u] = th[u] /\ (u = Sweeper => Holding(u)')
        BY <1>2 DEF Turn
    <2> QED BY <2>1, Bystander
<1> QED BY <1>1, <1>2

\* The holder's copy is behind as long as the stored one is not touched, or gone.
LEMMA HolderBehind ==
    ASSUME Holding(Sweeper), th'[Sweeper] = th[Sweeper],
           disk'["inflight"] \in {disk["inflight"], NoDoc}
    PROVE  Holding(Sweeper)'
BY DEF Holding, Behind

\* A thread at work: the entry is somewhere.
LEMMA Somewhere ==
    ASSUME Kept, \/ \E t \in Threads : th[t] # Idle
                 \/ told # {}
    PROVE  \E dir \in Dirs : disk[dir] # NoDoc
BY DEF Kept

\* A step that writes no file.
LEMMA QuietGuarded ==
    ASSUME Layered, Guarded, NEW t \in Threads, Turn(t),
           \A u \in Threads \ {t} : th'[u] = th[u],
           disk' = disk, residue' = residue, told' \subseteq told \cup {"vetoed"},
           \E dir \in Dirs : disk[dir] # NoDoc,
           t # Sweeper \/ th[Sweeper].pc # "unlink",
           Section(t)', VetoKept'
    PROVE  Guarded'
<1> Sweeper \in Threads
    BY DEF Threads
<1>1. Alone' /\ \A u \in Threads : Section(u)'
    <2>1. ASSUME t # Sweeper
          PROVE  Holding(Sweeper)'
        BY <2>1, HolderBehind DEF Guarded, Section
    <2> QED BY <2>1, OneMoves
<1>2. Kept'
    BY DEF Kept
<1>3. TwoCopies'
    BY DEF Guarded, TwoCopies
<1>4. StopKept' /\ StopHolds'
    BY DEF Guarded, StopKept, StopHolds
<1> QED BY <1>1, <1>2, <1>3, <1>4 DEF Guarded

\* What was vetoed stays so while no file is written and nothing more is answered.
LEMMA VetoKeptSame ==
    ASSUME VetoKept, disk' = disk, residue' = residue, told' \subseteq told
    PROVE  VetoKept'
BY DEF VetoKept

-----------------------------------------------------------------------------
(* Layer 2 is inductive, as long as nobody crosses. *)

\* Nothing journaled yet: layer 2 holds.
LEMMA InitGuarded == Init => Guarded
<1> SUFFICES ASSUME Init PROVE Guarded
    OBVIOUS
<1>1. \A t \in Threads : th[t] = Idle
    BY DEF Init
<1>2. Alone
    BY <1>1, IdleIs, StoreAssumption DEF Alone, Delicate, Operations
<1>3. \A t \in Threads : Section(t)
    BY <1>1, IdleIs DEF Section, Stamping, Holding, Releasing, Reopening, Placing, Vetoing, Cleaning
<1>4. Kept
    BY <1>1 DEF Kept, Init
<1>5. TwoCopies /\ StopKept /\ VetoKept /\ StopHolds
    BY DEF Init, TwoCopies, StopKept, VetoKept, StopHolds, Dirs
<1> QED BY <1>2, <1>3, <1>4, <1>5 DEF Guarded

\* put, of a new entry keeps what the sections rely on.
LEMMA PutGuarded ==
    ASSUME Layered, Guarded, Put
    PROVE  Guarded'
<1> Sweeper \in Threads
    BY DEF Threads
<1>1. told = {} /\ (\A t \in Threads : th[t] = Idle)
    BY DEF Guarded, Kept, Put
<1>2. \A t \in Threads : Section(t)'
    <2>1. \A t \in Threads : th'[t] = Idle
        BY <1>1 DEF Put
    <2> QED BY <2>1, IdleSection
<1>3. Alone'
    BY DEF Guarded, Alone, Put
<1>4. disk'["pending"] = NewDoc /\ NewDoc # NoDoc /\ disk'["inflight"] = NoDoc
    <2>1. NewDoc \in Doc
        BY StoreAssumption DEF NewDoc, Doc
    <2> QED BY <2>1, StoreAssumption DEF Put, Layered, Typed, Dirs
<1>5. Kept' /\ TwoCopies'
    BY <1>4 DEF Kept, TwoCopies, Dirs
<1>6. StopKept' /\ VetoKept' /\ StopHolds'
    BY <1>1 DEF StopKept, VetoKept, StopHolds, Put
<1> QED BY <1>2, <1>3, <1>5, <1>6 DEF Guarded

\* The rename of a claim keeps what the sections rely on.
LEMMA ClaimGuarded ==
    ASSUME Layered, Guarded, Turn(Sweeper), Claim
    PROVE  Guarded'
<1> Sweeper \in Threads
    BY DEF Threads
<1>1. /\ disk["pending"] # NoDoc /\ Turn(Sweeper)
      /\ disk'["pending"] = NoDoc /\ disk'["inflight"] = disk["pending"]
      /\ disk'["done"] = disk["done"]
    BY DEF Claim, Layered, Typed, Dirs
<1>2. /\ th'[Sweeper].op = "claim" /\ th'[Sweeper].pc = "read"
      /\ \A u \in Threads \ {Sweeper} : th'[u] = th[u]
    <2>1. "claim" \in Operations /\ "inflight" \in Dirs
        BY DEF Operations, Dirs
    <2>2. Goes(Sweeper, "claim", "read", NoDoc, "inflight")
        BY DEF Claim
    <2> QED BY <2>1, <2>2, GoesTo DEF Layered, Typed
<1>3. Section(Sweeper)'
    BY <1>2 DEF Section, Stamping, Holding, Releasing, Reopening, Placing, Vetoing, Cleaning
<1>4. Alone' /\ \A u \in Threads : Section(u)'
    BY <1>1, <1>2, <1>3, OneMoves
<1>5. Kept' /\ TwoCopies'
    BY <1>1 DEF Kept, TwoCopies, Dirs
<1>6. told' = told /\ residue' = residue
    BY DEF Claim
<1>7. StopKept' /\ VetoKept' /\ StopHolds'
    BY <1>1, <1>6 DEF Guarded, StopKept, VetoKept, StopHolds
<1> QED BY <1>4, <1>5, <1>7 DEF Guarded

\* The read of a claim keeps what the sections rely on.
LEMMA ClaimReadGuarded ==
    ASSUME Layered, Guarded, Turn(Sweeper), ClaimRead
    PROVE  Guarded'
<1> Sweeper \in Threads
    BY DEF Threads
<1>1. /\ Turn(Sweeper) /\ th[Sweeper].pc = "read" /\ disk' = disk /\ residue' = residue
      /\ told' = told /\ told' \subseteq told \cup {"vetoed"}
    BY DEF ClaimRead
<1>2. VetoKept'
    BY <1>1, VetoKeptSame DEF Guarded
<1>3. \E dir \in Dirs : disk[dir] # NoDoc
    BY <1>1, IdleIs, Somewhere DEF Guarded
<1>4. Section(Sweeper)' /\ \A u \in Threads \ {Sweeper} : th'[u] = th[u]
    <2>1. CASE disk["inflight"] = NoDoc
        BY <2>1, RestsNow, IdleSection DEF ClaimRead, Layered, Typed
    <2>2. CASE disk["inflight"] # NoDoc
        <3> DEFINE e == [disk["inflight"] EXCEPT !.token = claims]
        <3>1. e \in Doc /\ e.token = claims
            <4> DEFINE i == disk["inflight"]
            <4>1. i \in Doc /\ claims \in 0 .. MaxClaims
                BY <2>2 DEF Layered, Typed, Dirs
            <4> HIDE DEF i
            <4>2. [i EXCEPT !.token = claims] \in Doc /\ [i EXCEPT !.token = claims].token = claims
                BY <4>1, TokenWritten
            <4> QED BY <4>2 DEF i
        <3>2. Goes(Sweeper, "claim", "stamp", e, "inflight")
            BY <2>2 DEF ClaimRead
        <3>3. e = [disk["inflight"] EXCEPT !.token = e.token]
            BY <3>1
        <3> HIDE DEF e
        <3>4. /\ th'[Sweeper].op = "claim" /\ th'[Sweeper].pc = "stamp" /\ th'[Sweeper].doc = e
              /\ \A u \in Threads \ {Sweeper} : th'[u] = th[u]
            <4>1. "claim" \in Operations /\ "inflight" \in Dirs
                BY DEF Operations, Dirs
            <4> QED BY <4>1, <3>1, <3>2, GoesTo DEF Layered, Typed
        <3>5. Stamping(Sweeper)'
            BY <1>1, <2>2, <3>3, <3>4 DEF Stamping
        <3>6. Section(Sweeper)'
            BY <3>4, <3>5 DEF Section, Holding, Releasing, Reopening, Placing, Vetoing, Cleaning
        <3> QED BY <3>4, <3>6
    <2> QED BY <2>1, <2>2
<1> QED BY <1>1, <1>2, <1>3, <1>4, QuietGuarded

\* The write of a claim keeps what the sections rely on.
LEMMA ClaimStampGuarded ==
    ASSUME Layered, Guarded, Turn(Sweeper), ClaimStamp
    PROVE  Guarded'
<1> Sweeper \in Threads
    BY DEF Threads
<1> DEFINE e == th[Sweeper].doc
<1>1. /\ Turn(Sweeper) /\ th[Sweeper].pc = "stamp" /\ residue' = residue /\ told' = told
      /\ disk' = [disk EXCEPT !["inflight"] = e]
      /\ Goes(Sweeper, "none", "held", e, "inflight")
    BY DEF ClaimStamp
<1>2. /\ disk["inflight"] # NoDoc /\ e = [disk["inflight"] EXCEPT !.token = e.token]
      /\ disk["inflight"] \in Doc
    BY <1>1 DEF Guarded, Section, Stamping, Layered, Typed, Dirs
<1>3. /\ e \in Doc /\ e # NoDoc /\ e.stop = disk["inflight"].stop
      /\ e.unpause = disk["inflight"].unpause /\ e.veto = disk["inflight"].veto
    <2>1. e \in Doc
        BY <1>1, IdleIs DEF Layered, Shape, Fits
    <2> QED BY <1>2, <2>1, StoreAssumption DEF Doc
<1> HIDE DEF e
<1>4. /\ disk'["inflight"] = e /\ disk'["pending"] = disk["pending"]
      /\ disk'["done"] = disk["done"]
    BY <1>1 DEF Layered, Typed, Dirs
<1>5. /\ th'[Sweeper].op = "none" /\ th'[Sweeper].pc = "held" /\ th'[Sweeper].doc = e
      /\ \A u \in Threads \ {Sweeper} : th'[u] = th[u]
    BY <1>1, <1>3 DEF Goes, Layered, Typed, Thread
<1>6. Section(Sweeper)'
    <2>1. Holding(Sweeper)'
        BY <1>4, <1>5 DEF Holding, Behind
    <2> QED BY <2>1, <1>5 DEF Section, Stamping, Releasing, Reopening, Placing, Vetoing, Cleaning
<1>7. Alone' /\ \A u \in Threads : Section(u)'
    BY <1>1, <1>5, <1>6, OneMoves
<1>8. Kept'
    BY <1>3, <1>4 DEF Kept, Dirs
<1>9. TwoCopies'
    BY <1>1, <1>2, <1>4 DEF Guarded, TwoCopies
<1>10. StopKept' /\ VetoKept' /\ StopHolds'
    BY <1>1, <1>2, <1>3, <1>4 DEF Guarded, StopKept, VetoKept, StopHolds, Vetted
<1> QED BY <1>7, <1>8, <1>9, <1>10 DEF Guarded

\* A turn of advance keeps what the sections rely on.
LEMMA AdvanceGuarded ==
    ASSUME Layered, Guarded, Turn(Sweeper), Advance
    PROVE  Guarded'
<1> Sweeper \in Threads
    BY DEF Threads
<1>1. /\ Turn(Sweeper) /\ th[Sweeper].pc = "held" /\ disk' = disk /\ residue' = residue
      /\ told' = told /\ told' \subseteq told \cup {"vetoed"}
    BY DEF Advance
<1>2. VetoKept'
    BY <1>1, VetoKeptSame DEF Guarded
<1>3. \E dir \in Dirs : disk[dir] # NoDoc
    BY <1>1, IdleIs, Somewhere DEF Guarded
<1>4. Fits(th[Sweeper].doc, "inflight")
    BY <1>1, IdleIs DEF Layered, Shape
<1>5. PICK d \in Advanced(th[Sweeper].doc) :
          Goes(Sweeper, "release", "check", d, IF d.ending = "none" THEN "pending" ELSE "done")
    BY DEF Advance
<1>6. /\ d \in Doc /\ d.token = th[Sweeper].doc.token
      /\ th[Sweeper].doc.unpause # "pending" => d.unpause # "pending"
    BY <1>4, AdvancedFields
<1> DEFINE to == IF d.ending = "none" THEN "pending" ELSE "done"
<1>7. to \in Dirs /\ "release" \in Operations
    BY DEF Dirs, Operations
<1>8. Goes(Sweeper, "release", "check", d, to)
    BY <1>5
<1> HIDE DEF to
<1>9. /\ th'[Sweeper].op = "release" /\ th'[Sweeper].pc = "check" /\ th'[Sweeper].doc = d
      /\ \A u \in Threads \ {Sweeper} : th'[u] = th[u]
    BY <1>6, <1>7, <1>8, GoesTo DEF Layered, Typed
<1>10. Holding(Sweeper)'
    <2>1. Holding(Sweeper)
        BY DEF Guarded, Section
    <2> QED BY <2>1, <1>1, <1>6, <1>9 DEF Holding, Behind
<1>11. Section(Sweeper)'
    BY <1>9, <1>10 DEF Section, Stamping, Releasing, Reopening, Placing, Vetoing, Cleaning
<1> QED BY <1>1, <1>2, <1>3, <1>9, <1>11, QuietGuarded

\* reclaim_stale keeps what the sections rely on.
LEMMA ReclaimGuarded ==
    ASSUME Layered, Guarded, Turn(Sweeper), Reclaim
    PROVE  Guarded'
<1> Sweeper \in Threads
    BY DEF Threads
<1>1. /\ Turn(Sweeper) /\ th[Sweeper] = Idle /\ disk["inflight"] # NoDoc
      /\ th' = th /\ told' = told /\ residue' = residue
    BY DEF Reclaim
<1>2. /\ disk'["inflight"] = NoDoc /\ disk'["pending"] # NoDoc
      /\ disk'["pending"].unpause = disk["inflight"].unpause
      /\ disk'["pending"].stop = disk["inflight"].stop
      /\ disk'["pending"].veto = disk["inflight"].veto
    BY FileResumed DEF Reclaim, Layered
<1>3. Alone' /\ \A u \in Threads : Section(u)'
    <2>1. Section(Sweeper)'
        BY <1>1, IdleSection
    <2> QED BY <1>1, <2>1, OneMoves
<1>4. Kept' /\ TwoCopies'
    BY <1>2 DEF Kept, TwoCopies, Dirs
<1>5. StopKept' /\ VetoKept' /\ StopHolds'
    BY <1>1, <1>2 DEF Guarded, StopKept, VetoKept, StopHolds, Vetted
<1> QED BY <1>3, <1>4, <1>5 DEF Guarded

\* A crash and what resume does after it keeps what the sections rely on.
LEMMA RestartGuarded ==
    ASSUME Layered, Guarded, Restart
    PROVE  Guarded'
<1>1. (\A t \in Threads : th'[t] = Idle) /\ told' = told /\ residue' = residue
    BY DEF Restart
<1>2. \A t \in Threads : Section(t)'
    BY <1>1, IdleSection
<1>3. Alone'
    BY <1>1, IdleIs, StoreAssumption DEF Alone, Delicate, Operations
<1>4. CASE disk["inflight"] = NoDoc
    <2>1. disk' = disk
        BY <1>4 DEF Restart
    <2>2. Kept' /\ TwoCopies'
        BY <1>1, <1>4, <2>1 DEF Guarded, Kept, TwoCopies
    <2>3. StopKept' /\ VetoKept' /\ StopHolds'
        BY <1>1, <2>1 DEF Guarded, StopKept, VetoKept, StopHolds
    <2> QED BY <1>2, <1>3, <2>2, <2>3 DEF Guarded
<1>5. CASE disk["inflight"] # NoDoc
    <2>1. /\ disk'["inflight"] = NoDoc /\ disk'["pending"] # NoDoc
          /\ disk'["pending"].unpause = disk["inflight"].unpause
          /\ disk'["pending"].stop = disk["inflight"].stop
          /\ disk'["pending"].veto = disk["inflight"].veto
        BY <1>5, FileResumed DEF Restart, Layered
    <2>2. Kept' /\ TwoCopies'
        BY <2>1 DEF Kept, TwoCopies, Dirs
    <2>3. StopKept' /\ VetoKept' /\ StopHolds'
        BY <1>1, <1>5, <2>1 DEF Guarded, StopKept, VetoKept, StopHolds, Vetted
    <2> QED BY <1>2, <1>3, <2>2, <2>3 DEF Guarded
<1> QED BY <1>4, <1>5

\* The token check and the merge of _move_out keeps what the sections rely on.
LEMMA CheckGuarded ==
    ASSUME Layered, Guarded, NEW t \in Threads, Turn(t), Check(t)
    PROVE  Guarded'
<1> DEFINE current == disk["inflight"]
           held == th[t].doc
           m == Merged(held, current)
           e == [m EXCEPT !.token = 0]
<1>1. /\ Turn(t) /\ th[t].pc = "check" /\ disk' = disk /\ residue' = residue
      /\ told' = told /\ told' \subseteq told \cup {"vetoed"}
    BY DEF Check
<1>2. VetoKept'
    BY <1>1, VetoKeptSame DEF Guarded
<1>3. \E dir \in Dirs : disk[dir] # NoDoc
    BY <1>1, IdleIs, Somewhere DEF Guarded
<1>4. /\ t = Sweeper /\ th[t].op = "release" /\ Fits(held, th[t].to) /\ th[t] \in Thread
    BY <1>1, IdleIs DEF Layered, Shape, Typed
<1>5. Section(t)' /\ \A u \in Threads \ {t} : th'[u] = th[u]
    <2>1. CASE current # NoDoc /\ current.token = held.token
        <3>1. /\ held \in Doc /\ current \in Doc /\ 0 \in 0 .. MaxClaims
              /\ Sound(held) /\ Sound(current) /\ current.ending = "none"
            BY <1>4, <2>1, Stored, StoreAssumption DEF Fits, Layered, Dirs
        <3>2. th' = [th EXCEPT ![t].doc = e, ![t].pc = "write"]
            BY <2>1 DEF Check
        <3>3. /\ m \in Doc /\ m.unpause = held.unpause
              /\ m.stop = IF held.stop = "absent" /\ current.stop = "requested"
                          THEN "requested" ELSE held.stop
              /\ m.veto = IF held.veto = "absent" /\ current.veto = "requested"
                          THEN "requested" ELSE held.veto
            <4> HIDE DEF held, current
            <4> QED BY <3>1, MergedFields
        <3>4. e \in Doc /\ e.unpause = m.unpause /\ e.stop = m.stop /\ e.veto = m.veto
            <4> HIDE DEF m
            <4> QED BY <3>1, <3>3, TokenWritten
        <3>5. Behind(held, current)
            BY <1>1, <2>1 DEF Guarded, Section, Holding
        <3> HIDE DEF held, current, m, e
        <3>6. Covers(e, current)
            <4>1. current.stop # "absent" => e.stop # "absent"
                <5>1. current.stop # "absent" => current.stop = "requested"
                    BY <3>1 DEF Sound, Doc
                <5> QED BY <5>1, <3>3, <3>4
            <4>2. Vetted(current) => Vetted(e)
                <5>1. CASE current.veto = "requested"
                    <6>1. held.veto \in {"absent", "requested", "consumed"}
                        BY <3>1 DEF Doc
                    <6>2. held.veto = "consumed" => held.unpause # "pending"
                        BY <3>1 DEF Sound
                    <6> QED BY <5>1, <6>1, <6>2, <3>3, <3>4 DEF Vetted
                <5>2. CASE current.veto # "requested"
                    BY <5>2, <2>1, <3>3, <3>4, <3>5 DEF Vetted, Behind
                <5> QED BY <5>1, <5>2
            <4> QED BY <4>1, <4>2 DEF Covers
        <3>7. /\ th'[t].op = "release" /\ th'[t].pc = "write" /\ th'[t].doc = e
              /\ \A u \in Threads \ {t} : th'[u] = th[u]
            BY <1>4, <3>2 DEF Layered, Typed, Thread
        <3>8. Releasing(t)'
            BY <1>1, <2>1, <3>6, <3>7 DEF Releasing, current
        <3>9. Section(t)'
            BY <3>7, <3>8 DEF Section, Stamping, Holding, Reopening, Placing, Vetoing, Cleaning
        <3> QED BY <3>7, <3>9
    <2>2. CASE ~(current # NoDoc /\ current.token = held.token)
        BY <2>2, RestsNow, IdleSection DEF Check, Layered, Typed
    <2> QED BY <2>1, <2>2
<1> QED BY <1>1, <1>2, <1>3, <1>5, QuietGuarded

\* A write that fails keeps what the sections rely on.
LEMMA WriteFailsGuarded ==
    ASSUME Layered, Guarded, NEW t \in Threads, Turn(t), WriteFails(t)
    PROVE  Guarded'
<1>1. /\ Turn(t) /\ th[t].pc \in {"write", "place", "stamp"} /\ disk' = disk /\ residue' = residue
      /\ told' = told /\ told' \subseteq told \cup {"vetoed"} /\ Rests(t)
    BY DEF WriteFails
<1>2. VetoKept'
    BY <1>1, VetoKeptSame DEF Guarded
<1>3. \E dir \in Dirs : disk[dir] # NoDoc
    BY <1>1, IdleIs, Somewhere DEF Guarded
<1>4. Section(t)' /\ \A u \in Threads \ {t} : th'[u] = th[u]
    BY <1>1, RestsNow, IdleSection DEF Layered, Typed
<1>5. t # Sweeper \/ th[Sweeper].pc # "unlink"
    BY <1>1
<1> QED BY <1>1, <1>2, <1>3, <1>4, <1>5, QuietGuarded

\* Who has the turn is alone in the journal: the sweep is in no section of its own.
LEMMA SweeperOut ==
    ASSUME NEW t \in Threads, Turn(t), t # Sweeper
    PROVE  th[Sweeper].op # "release"
BY DelicateOps DEF Turn, Threads

\* The atomic write of _move_out keeps what the sections rely on.
LEMMA WriteGuarded ==
    ASSUME Layered, Guarded, NEW t \in Threads, Turn(t), Write(t)
    PROVE  Guarded'
<1> Sweeper \in Threads
    BY DEF Threads
<1> DEFINE my == th[t]
           rest == Others(my.to)
<1>1. /\ my \in Thread /\ Turn(t) /\ my.pc = "write" /\ my.to # "inflight" /\ Fits(my.doc, my.to)
      /\ \/ t = Sweeper /\ my.op = "release"
         \/ t # Sweeper /\ my.op = "stop" /\ my.to = "done" /\ my.doc.ending = "stopped"
         \/ t # Sweeper /\ my.op = "reopen" /\ my.to = "pending"
    BY IdleIs DEF Write, Layered, Shape, Typed
<1>2. /\ my.to \in {"pending", "done"} /\ my.to \in Dirs /\ my.doc \in Doc /\ my.doc # NoDoc
      /\ my.doc.ending = "none" <=> my.to # "done"
    BY <1>1, StoreAssumption DEF Thread, Dirs, Fits
<1>3. /\ disk'[my.to] = my.doc /\ \A o \in Dirs \ {my.to} : disk'[o] = disk[o]
      /\ disk'["inflight"] = disk["inflight"]
    <2>1. disk' = [disk EXCEPT ![my.to] = my.doc]
        BY DEF Write
    <2> QED BY <1>2, <2>1 DEF Layered, Typed, Dirs
<1>4. /\ my.to = "pending" => rest = <<"inflight", "done">>
      /\ my.to = "done" => rest = <<"pending", "inflight">>
      /\ rest # <<"inflight">> /\ rest # <<"done">>
    BY <1>2, OthersAre
<1>5. told' = told /\ residue' = residue
    BY DEF Write
<1>6. /\ th'[t].op = IF my.op = "stop" THEN "finish" ELSE my.op
      /\ th'[t].pc = "unlink" /\ th'[t].doc = my.doc /\ th'[t].to = my.to /\ th'[t].rest = rest
      /\ \A u \in Threads \ {t} : th'[u] = th[u]
    BY <1>1 DEF Write, Layered, Typed, Thread
<1> HIDE DEF my, rest
<1>7. Kept'
    BY <1>2, <1>3 DEF Kept
<1>8. /\ my.op = "release" => disk["inflight"] # NoDoc /\ Covers(my.doc, disk["inflight"])
      /\ my.op = "reopen" => /\ "vetoed" \notin told /\ disk["inflight"] = NoDoc
                             /\ disk["pending"] = NoDoc /\ disk["done"] # NoDoc
                             /\ disk["done"].ending = "expired" /\ my.doc.stop = disk["done"].stop
    BY <1>1 DEF Guarded, Section, Releasing, Reopening, my
<1>9. Section(t)'
    <2>1. Releasing(t)'
        BY <1>3, <1>6, <1>8 DEF Releasing
    <2>2. Reopening(t)'
        BY <1>3, <1>5, <1>6, <1>8 DEF Reopening
    <2>3. Cleaning(t)'
        BY <1>3, <1>4, <1>6 DEF Cleaning
    <2>4. Stamping(t)' /\ Holding(t)' /\ Placing(t)' /\ Vetoing(t)'
        BY <1>1, <1>6 DEF Stamping, Holding, Placing, Vetoing
    <2> QED BY <2>1, <2>2, <2>3, <2>4 DEF Section
<1>10. Alone' /\ \A u \in Threads : Section(u)'
    <2>1. ASSUME t # Sweeper
          PROVE  Holding(Sweeper)'
        BY <2>1, <1>3, <1>6, HolderBehind DEF Guarded, Section
    <2> QED BY <2>1, <1>1, <1>6, <1>9, OneMoves
<1>11. CASE my.op = "release" /\ my.to = "pending"
    <2>1. t = Sweeper /\ disk'["pending"] = my.doc /\ disk'["done"] = disk["done"]
        BY <1>1, <1>3, <1>11 DEF Dirs
    <2>2. TwoCopies'
        BY <1>4, <1>6, <1>11, <2>1 DEF TwoCopies
    <2>3. StopKept' /\ VetoKept' /\ StopHolds'
        BY <1>3, <1>5, <1>8, <1>11, <2>1 DEF Guarded, StopKept, VetoKept, StopHolds, Covers
    <2> QED BY <1>7, <1>10, <2>2, <2>3 DEF Guarded
<1>12. CASE my.op = "release" /\ my.to = "done"
    <2>1. t = Sweeper /\ disk'["pending"] = disk["pending"]
        BY <1>1, <1>3, <1>12 DEF Dirs
    <2>2. TwoCopies'
        BY <1>1, <1>3, <1>5, <2>1 DEF Guarded, TwoCopies, my
    <2>3. StopKept' /\ VetoKept' /\ StopHolds'
        BY <1>3, <1>5, <1>8, <1>12, <2>1 DEF Guarded, StopKept, VetoKept, StopHolds
    <2> QED BY <1>7, <1>10, <2>2, <2>3 DEF Guarded
<1>13. CASE my.op = "stop"
    <2>1. /\ t # Sweeper /\ disk'["pending"] = disk["pending"] /\ disk'["done"] = my.doc
          /\ my.doc.ending = "stopped"
        BY <1>1, <1>3, <1>13 DEF Dirs
    <2>2. TwoCopies'
        BY <1>1, <1>3, <1>5, <2>1, SweeperOut DEF Guarded, TwoCopies
    <2>3. StopKept' /\ VetoKept' /\ StopHolds'
        BY <1>2, <1>3, <1>5, <2>1 DEF Guarded, StopKept, VetoKept, StopHolds
    <2> QED BY <1>7, <1>10, <2>2, <2>3 DEF Guarded
<1>14. CASE my.op = "reopen"
    <2>1. disk'["pending"] = my.doc /\ disk'["inflight"] = NoDoc
        BY <1>1, <1>3, <1>8, <1>14 DEF Dirs
    <2>2. TwoCopies'
        BY <2>1 DEF TwoCopies
    <2>3. StopKept' /\ VetoKept' /\ StopHolds'
        BY <1>2, <1>5, <1>8, <1>14, <2>1 DEF Guarded, StopKept, VetoKept, StopHolds
    <2> QED BY <1>7, <1>10, <2>2, <2>3 DEF Guarded
<1> QED BY <1>1, <1>2, <1>11, <1>12, <1>13, <1>14

\* One unlink of _move_out keeps what the sections rely on.
LEMMA UnlinkGuarded ==
    ASSUME Layered, Guarded, NEW t \in Threads, Turn(t), Unlink(t)
    PROVE  Guarded'
<1> Sweeper \in Threads
    BY DEF Threads
<1> DEFINE my == th[t]
           dir == Head(my.rest)
<1>1. Turn(t) /\ my.pc = "unlink" /\ Unlinked(t) /\ residue' = residue
    BY DEF Unlink
<1>2. /\ Fits(my.doc, my.to) /\ my.doc # NoDoc
      /\ my.doc.ending = "none" <=> my.to # "done"
      /\ \/ my.to = "pending" /\ my.rest \in {<<"inflight", "done">>, <<"done">>}
         \/ my.to = "done" /\ my.rest \in {<<"pending", "inflight">>, <<"inflight">>}
      /\ \/ t = Sweeper /\ my.op = "release"
         \/ t # Sweeper /\ my.op = "finish" /\ my.to = "done" /\ my.doc.ending = "stopped"
         \/ t # Sweeper /\ my.op = "reopen" /\ my.to = "pending"
    BY <1>1, IdleIs, StoreAssumption DEF Layered, Shape, Fits
<1>3. /\ my.to \in Dirs /\ dir \in Dirs /\ my.to # dir
      /\ my.rest = <<"inflight", "done">> => dir = "inflight"
      /\ my.rest = <<"done">> => dir = "done"
      /\ my.rest = <<"pending", "inflight">> => dir = "pending"
      /\ my.rest = <<"inflight">> => dir = "inflight"
    BY <1>1, NextCopy DEF Dirs
<1>4. disk'[dir] = NoDoc /\ \A o \in Dirs \ {dir} : disk'[o] = disk[o]
    BY <1>3 DEF Unlink, Layered, Typed
<1>5. /\ \A u \in Threads \ {t} : th'[u] = th[u]
      /\ \/ /\ my.rest \in {<<"inflight", "done">>, <<"pending", "inflight">>}
            /\ th'[t].rest = IF my.to = "pending" THEN <<"done">> ELSE <<"inflight">>
            /\ th'[t].op = my.op /\ th'[t].pc = "unlink" /\ th'[t].doc = my.doc
            /\ th'[t].to = my.to /\ told' = told
         \/ /\ my.rest \in {<<"done">>, <<"inflight">>} /\ th'[t] = Idle
            /\ told' = IF my.op = "finish" THEN told \cup {"finished"} ELSE told
    BY <1>1, UnlinkedTo
<1>6. /\ disk[my.to] = my.doc /\ disk'[my.to] = my.doc
      /\ my.rest = <<"inflight">> /\ ~residue => disk["pending"] = NoDoc
      /\ my.rest = <<"done">> /\ ~residue => disk["inflight"] = NoDoc
      /\ my.op = "release" /\ my.to = "done" => disk["inflight"] # NoDoc
      /\ my.op = "release" /\ disk["inflight"] # NoDoc /\ ~residue => Covers(my.doc, disk["inflight"])
      /\ my.op = "reopen" => "vetoed" \notin told /\ disk["inflight"] = NoDoc
    BY <1>1, <1>3, <1>4 DEF Guarded, Section, Cleaning, Releasing, Reopening
<1> HIDE DEF my, dir
<1>7. Kept'
    BY <1>2, <1>3, <1>6 DEF Kept
<1>8. disk'["inflight"] \in {disk["inflight"], NoDoc}
    BY <1>3, <1>4 DEF Dirs
<1>9. Section(t)'
    <2>1. CASE th'[t] = Idle
        BY <2>1, IdleSection
    <2>2. CASE my.rest = <<"inflight", "done">> /\ th'[t] # Idle
        <3>1. /\ my.to = "pending" /\ th'[t].rest = <<"done">> /\ disk'["inflight"] = NoDoc
              /\ th'[t].op = my.op /\ th'[t].pc = "unlink" /\ th'[t].doc = my.doc
              /\ th'[t].to = my.to /\ told' = told
            BY <2>2, <1>2, <1>3, <1>4, <1>5, OthersAre
        <3>2. Releasing(t)' /\ Reopening(t)'
            BY <1>6, <3>1 DEF Releasing, Reopening
        <3>3. Cleaning(t)'
            BY <1>6, <3>1, OthersAre DEF Cleaning
        <3>4. Stamping(t)' /\ Holding(t)' /\ Placing(t)' /\ Vetoing(t)'
            BY <1>2, <3>1 DEF Stamping, Holding, Placing, Vetoing
        <3> QED BY <3>2, <3>3, <3>4 DEF Section
    <2>3. CASE my.rest = <<"pending", "inflight">> /\ th'[t] # Idle
        <3>1. /\ my.to = "done" /\ th'[t].rest = <<"inflight">> /\ disk'["pending"] = NoDoc
              /\ th'[t].op = my.op /\ th'[t].pc = "unlink" /\ th'[t].doc = my.doc
              /\ th'[t].to = my.to /\ told' = told /\ disk'["inflight"] = disk["inflight"]
            BY <2>3, <1>2, <1>3, <1>4, <1>5, OthersAre DEF Dirs
        <3>2. Releasing(t)' /\ Reopening(t)'
            BY <1>1, <1>2, <1>6, <3>1 DEF Releasing, Reopening
        <3>3. Cleaning(t)'
            BY <1>6, <3>1, OthersAre DEF Cleaning
        <3>4. Stamping(t)' /\ Holding(t)' /\ Placing(t)' /\ Vetoing(t)'
            BY <1>2, <3>1 DEF Stamping, Holding, Placing, Vetoing
        <3> QED BY <3>2, <3>3, <3>4 DEF Section
    <2> QED BY <2>1, <2>2, <2>3, <1>5
<1>10. Alone' /\ \A u \in Threads : Section(u)'
    <2>1. ASSUME t # Sweeper
          PROVE  Holding(Sweeper)'
        BY <2>1, <1>5, <1>8, HolderBehind DEF Guarded, Section
    <2> QED BY <2>1, <1>1, <1>5, <1>9, OneMoves DEF my
<1>11. CASE my.rest = <<"inflight", "done">>
    <2>1. /\ my.to = "pending" /\ disk'["inflight"] = NoDoc /\ disk'["pending"] = my.doc
          /\ disk["pending"] = my.doc /\ disk'["done"] = disk["done"] /\ told' = told
        BY <1>2, <1>3, <1>4, <1>5, <1>6, <1>11, OthersAre DEF Dirs
    <2>2. TwoCopies'
        BY <2>1 DEF TwoCopies
    <2>3. StopKept' /\ VetoKept' /\ StopHolds'
        BY <1>1, <1>2, <2>1 DEF Guarded, StopKept, VetoKept, StopHolds
    <2> QED BY <1>7, <1>10, <2>2, <2>3 DEF Guarded
<1>12. CASE my.rest = <<"done">>
    <2>1. /\ my.to = "pending" /\ my.op # "finish" /\ disk'["inflight"] = disk["inflight"]
          /\ disk'["pending"] = my.doc /\ disk["pending"] = my.doc /\ told' = told
          /\ ~residue => disk["inflight"] = NoDoc
        <3>1. my.to = "pending" /\ my.op # "finish"
            BY <1>2, <1>12, OthersAre
        <3> QED BY <3>1, <1>3, <1>4, <1>5, <1>6, <1>12, OthersAre DEF Dirs
    <2>2. TwoCopies'
        BY <1>1, <2>1 DEF TwoCopies
    <2>3. StopKept' /\ VetoKept' /\ StopHolds'
        BY <1>1, <1>2, <2>1 DEF Guarded, StopKept, VetoKept, StopHolds
    <2> QED BY <1>7, <1>10, <2>2, <2>3 DEF Guarded
<1>13. CASE my.rest = <<"pending", "inflight">>
    <2>1. /\ my.to = "done" /\ disk'["pending"] = NoDoc /\ disk'["inflight"] = disk["inflight"]
          /\ disk'["done"] = my.doc /\ disk["done"] = my.doc /\ told' = told
          /\ disk["inflight"] = NoDoc => my.doc.ending = "stopped"
        <3>1. my.to = "done"
            BY <1>2, <1>13, OthersAre
        <3> QED BY <3>1, <1>2, <1>3, <1>4, <1>5, <1>6, <1>13, OthersAre DEF Dirs
    <2>2. TwoCopies'
        BY <2>1 DEF TwoCopies
    <2>3. StopKept' /\ VetoKept' /\ StopHolds'
        BY <1>1, <1>2, <2>1 DEF Guarded, StopKept, VetoKept, StopHolds
    <2> QED BY <1>7, <1>10, <2>2, <2>3 DEF Guarded
<1>14. CASE my.rest = <<"inflight">>
    <2>1. /\ my.to = "done" /\ disk'["inflight"] = NoDoc /\ disk'["pending"] = disk["pending"]
          /\ disk'["done"] = my.doc /\ disk["done"] = my.doc
          /\ ~residue => disk["pending"] = NoDoc
          /\ told' = IF my.op = "finish" THEN told \cup {"finished"} ELSE told
        <3>1. my.to = "done"
            BY <1>2, <1>14, OthersAre
        <3> QED BY <3>1, <1>3, <1>4, <1>5, <1>6, <1>14, OthersAre DEF Dirs
    <2>2. TwoCopies'
        BY <2>1 DEF TwoCopies
    <2>3. CASE my.op = "finish"
        <3>1. my.doc.ending = "stopped"
            BY <1>2, <2>3
        <3>2. StopKept' /\ VetoKept' /\ StopHolds'
            BY <1>1, <1>2, <2>1, <2>3, <3>1 DEF Guarded, StopKept, VetoKept, StopHolds
        <3> QED BY <1>7, <1>10, <2>2, <3>2 DEF Guarded
    <2>4. CASE my.op # "finish"
        <3>1. my.op = "release" /\ told' = told
            BY <1>2, <2>1, <2>4
        <3>2. StopKept' /\ VetoKept' /\ StopHolds'
            BY <1>1, <1>2, <1>6, <2>1, <3>1 DEF Guarded, StopKept, VetoKept, StopHolds, Covers
        <3> QED BY <1>7, <1>10, <2>2, <3>2 DEF Guarded
    <2> QED BY <2>3, <2>4
<1> QED BY <1>2, <1>11, <1>12, <1>13, <1>14

\* An unlink that fails keeps what the sections rely on.
LEMMA UnlinkFailsGuarded ==
    ASSUME Layered, Guarded, NEW t \in Threads, Turn(t), UnlinkFails(t)
    PROVE  Guarded'
<1> Sweeper \in Threads
    BY DEF Threads
<1> DEFINE my == th[t]
<1>1. Turn(t) /\ my.pc = "unlink" /\ Unlinked(t) /\ residue' = TRUE /\ disk' = disk
    BY DEF UnlinkFails
<1>2. /\ \A u \in Threads \ {t} : th'[u] = th[u]
      /\ \/ /\ th'[t].op = my.op /\ th'[t].pc = "unlink" /\ th'[t].doc = my.doc
            /\ th'[t].to = my.to /\ told' = told
         \/ th'[t] = Idle
    BY <1>1, UnlinkedTo
<1>3. Section(t)'
    <2>1. CASE th'[t] = Idle
        BY <2>1, IdleSection
    <2>2. CASE th'[t] # Idle
        <3>1. Releasing(t)' /\ Reopening(t)' /\ Cleaning(t)'
            BY <1>1, <1>2, <2>2 DEF Guarded, Section, Releasing, Reopening, Cleaning
        <3>2. my.op # "veto"
            BY <1>1, IdleIs DEF Layered, Shape
        <3>3. Stamping(t)' /\ Holding(t)' /\ Placing(t)' /\ Vetoing(t)'
            BY <1>1, <1>2, <2>2, <3>2 DEF Stamping, Holding, Placing, Vetoing
        <3> QED BY <3>1, <3>3 DEF Section
    <2> QED BY <2>1, <2>2
<1>4. Alone' /\ \A u \in Threads : Section(u)'
    <2>1. ASSUME t # Sweeper
          PROVE  Holding(Sweeper)'
        BY <2>1, <1>1, <1>2, HolderBehind DEF Guarded, Section
    <2> QED BY <2>1, <1>1, <1>2, <1>3, OneMoves
<1>5. Kept'
    <2>1. \E dir \in Dirs : disk[dir] # NoDoc
        BY <1>1, IdleIs, Somewhere DEF Guarded
    <2> QED BY <1>1, <2>1 DEF Kept
<1>6. TwoCopies' /\ StopKept' /\ VetoKept' /\ StopHolds'
    BY <1>1 DEF TwoCopies, StopKept, VetoKept, StopHolds
<1> QED BY <1>4, <1>5, <1>6 DEF Guarded

\* The first read of a stop keeps what the sections rely on.
LEMMA StopGuarded ==
    ASSUME Layered, Guarded, NEW h \in Handlers, Turn(h), Stop(h)
    PROVE  Guarded'
<1>1. h \in Threads /\ h # Sweeper
    BY HandlersAre
<1>2. /\ Turn(h) /\ disk' = disk /\ residue' = residue /\ told' = told
      /\ told' \subseteq told \cup {"vetoed"} /\ \E dir \in Dirs : disk[dir] # NoDoc
    BY DEF Stop, Asked
<1>3. VetoKept'
    BY <1>2, VetoKeptSame DEF Guarded
<1>4. "stop" \in Operations /\ "inflight" \in Dirs /\ "done" \in Dirs
    BY DEF Operations, Dirs
<1>5. /\ th'[h].op = "stop" /\ th'[h].pc \in {"inflight", "write"}
      /\ \A u \in Threads \ {h} : th'[u] = th[u]
    <2>1. CASE disk["pending"] = NoDoc
        <3>1. Goes(h, "stop", "inflight", NoDoc, "inflight")
            BY <2>1 DEF Stop
        <3> QED BY <1>1, <1>4, <3>1, GoesTo DEF Layered, Typed
    <2>2. CASE disk["pending"] # NoDoc
        <3> DEFINE e == [disk["pending"] EXCEPT !.ending = "stopped"]
        <3>1. Goes(h, "stop", "write", e, "done") /\ e \in Doc
            BY <2>2, StoppedFits DEF Stop, Layered
        <3> HIDE DEF e
        <3> QED BY <1>1, <1>4, <3>1, GoesTo DEF Layered, Typed
    <2> QED BY <2>1, <2>2
<1>6. Section(h)'
    BY <1>5 DEF Section, Stamping, Holding, Releasing, Reopening, Placing, Vetoing, Cleaning
<1> QED BY <1>1, <1>2, <1>3, <1>5, <1>6, QuietGuarded

\* The second read of a stop keeps what the sections rely on.
LEMMA StopHeldGuarded ==
    ASSUME Layered, Guarded, NEW h \in Handlers, Turn(h), StopHeld(h)
    PROVE  Guarded'
<1>1. h \in Threads /\ h # Sweeper
    BY HandlersAre
<1>2. /\ Turn(h) /\ disk' = disk /\ residue' = residue /\ told' = told
      /\ told' \subseteq told \cup {"vetoed"}
    BY DEF StopHeld
<1>3. VetoKept'
    BY <1>2, VetoKeptSame DEF Guarded
<1>4. \E dir \in Dirs : disk[dir] # NoDoc
    BY <1>1, IdleIs, Somewhere DEF Guarded, StopHeld
<1>5. Section(h)' /\ \A u \in Threads \ {h} : th'[u] = th[u]
    <2>1. CASE disk["inflight"] = NoDoc
        BY <1>1, <2>1, RestsNow, IdleSection DEF StopHeld, Layered, Typed
    <2>2. CASE disk["inflight"] # NoDoc
        <3> DEFINE e == [disk["inflight"] EXCEPT !.stop = "requested"]
        <3>1. Goes(h, "record", "place", e, "inflight") /\ e \in Doc
            BY <2>2, RecordedFits DEF StopHeld, Layered
        <3>2. e = [disk'["inflight"] EXCEPT !.stop = "requested"]
            BY <1>2
        <3> HIDE DEF e
        <3>3. "record" \in Operations /\ "inflight" \in Dirs
            BY DEF Operations, Dirs
        <3>4. /\ th'[h].op = "record" /\ th'[h].pc = "place" /\ th'[h].doc = e
              /\ th'[h].to = "inflight" /\ \A u \in Threads \ {h} : th'[u] = th[u]
            BY <1>1, <3>1, <3>3, GoesTo DEF Layered, Typed
        <3>5. Placing(h)'
            BY <1>2, <2>2, <3>2, <3>4 DEF Placing
        <3>6. Section(h)'
            BY <3>4, <3>5 DEF Section, Stamping, Holding, Releasing, Reopening, Vetoing, Cleaning
        <3> QED BY <3>4, <3>6
    <2> QED BY <2>1, <2>2
<1> QED BY <1>1, <1>2, <1>3, <1>4, <1>5, QuietGuarded

\* The first read of a veto keeps what the sections rely on.
LEMMA VetoGuarded ==
    ASSUME Layered, Guarded, NEW h \in Handlers, Turn(h), Veto(h)
    PROVE  Guarded'
<1>1. h \in Threads /\ h # Sweeper
    BY HandlersAre
<1>2. /\ Turn(h) /\ disk' = disk /\ residue' = residue /\ told' = told
      /\ told' \subseteq told \cup {"vetoed"} /\ \E dir \in Dirs : disk[dir] # NoDoc
    BY DEF Veto, Asked
<1>3. VetoKept'
    BY <1>2, VetoKeptSame DEF Guarded
<1>4. "veto" \in Operations /\ "inflight" \in Dirs /\ "pending" \in Dirs
    BY DEF Operations, Dirs
<1>5. Section(h)' /\ \A u \in Threads \ {h} : th'[u] = th[u]
    <2>1. CASE disk["pending"] # NoDoc /\ disk["pending"].unpause = "pending"
        <3> DEFINE e == Vetoed(disk["pending"])
        <3>1. Goes(h, "veto", "place", e, "pending") /\ e \in Doc
            BY <2>1, VetoedFits DEF Veto, Layered
        <3>2. e = Vetoed(disk["pending"])'
            BY <1>2 DEF Vetoed
        <3> HIDE DEF e
        <3>3. /\ th'[h].op = "veto" /\ th'[h].pc = "place" /\ th'[h].doc = e
              /\ th'[h].to = "pending" /\ \A u \in Threads \ {h} : th'[u] = th[u]
            BY <1>1, <1>4, <3>1, GoesTo DEF Layered, Typed
        <3>4. Placing(h)'
            BY <1>2, <2>1, <3>2, <3>3 DEF Placing
        <3>5. Section(h)'
            BY <3>3, <3>4 DEF Section, Stamping, Holding, Releasing, Reopening, Vetoing, Cleaning
        <3> QED BY <3>3, <3>5
    <2>2. CASE ~(disk["pending"] # NoDoc /\ disk["pending"].unpause = "pending")
        <3>1. Goes(h, "veto", "inflight", NoDoc, "inflight")
            BY <2>2 DEF Veto
        <3>2. /\ th'[h].op = "veto" /\ th'[h].pc = "inflight"
              /\ \A u \in Threads \ {h} : th'[u] = th[u]
            BY <1>1, <1>4, <3>1, GoesTo DEF Layered, Typed
        <3>3. Vetoing(h)'
            BY <1>2, <2>2 DEF Vetoing
        <3>4. Section(h)'
            BY <3>2, <3>3 DEF Section, Stamping, Holding, Releasing, Reopening, Placing, Cleaning
        <3> QED BY <3>2, <3>4
    <2> QED BY <2>1, <2>2
<1> QED BY <1>1, <1>2, <1>3, <1>5, QuietGuarded

\* The second read of a veto keeps what the sections rely on.
LEMMA VetoHeldGuarded ==
    ASSUME Layered, Guarded, NEW h \in Handlers, Turn(h), VetoHeld(h)
    PROVE  Guarded'
<1>1. h \in Threads /\ h # Sweeper
    BY HandlersAre
<1>2. /\ Turn(h) /\ th[h].op = "veto" /\ th[h].pc = "inflight"
      /\ disk' = disk /\ residue' = residue /\ told' \subseteq told \cup {"vetoed"}
    BY DEF VetoHeld
<1>3. \E dir \in Dirs : disk[dir] # NoDoc
    BY <1>1, <1>2, IdleIs, Somewhere DEF Guarded
<1>4. disk["pending"] # NoDoc => disk["pending"].unpause # "pending"
    BY <1>1, <1>2 DEF Guarded, Section, Vetoing
<1>5. CASE disk["inflight"] = NoDoc
    <2>1. Section(h)' /\ \A u \in Threads \ {h} : th'[u] = th[u]
        BY <1>1, <1>5, RestsNow, IdleSection DEF VetoHeld, Layered, Typed
    <2>2. VetoKept'
        BY <1>2, <1>4, <1>5 DEF VetoKept, Vetted
    <2> QED BY <1>1, <1>2, <1>3, <2>1, <2>2, QuietGuarded
<1>6. CASE disk["inflight"] # NoDoc
    <2>1. told' = told
        BY <1>6 DEF VetoHeld
    <2>2. VetoKept'
        BY <1>2, <2>1, VetoKeptSame DEF Guarded
    <2> DEFINE e == [Vetoed(disk["inflight"]) EXCEPT !.veto = "requested"]
    <2>3. Goes(h, "veto", "place", e, "inflight") /\ e \in Doc
        BY <1>6, VetoedFits DEF VetoHeld, Layered
    <2>4. e = [Vetoed(disk["inflight"])' EXCEPT !.veto = "requested"]
        BY <1>2 DEF Vetoed
    <2> HIDE DEF e
    <2>5. "veto" \in Operations /\ "inflight" \in Dirs
        BY DEF Operations, Dirs
    <2>6. /\ th'[h].op = "veto" /\ th'[h].pc = "place" /\ th'[h].doc = e
          /\ th'[h].to = "inflight" /\ \A u \in Threads \ {h} : th'[u] = th[u]
        BY <1>1, <2>3, <2>5, GoesTo DEF Layered, Typed
    <2>7. Placing(h)'
        BY <1>2, <1>6, <2>4, <2>6 DEF Placing
    <2>8. Vetoing(h)'
        BY <1>2, <1>4 DEF Vetoing
    <2>9. Section(h)'
        BY <2>6, <2>7, <2>8 DEF Section, Stamping, Holding, Releasing, Reopening, Cleaning
    <2> QED BY <1>1, <1>2, <1>3, <2>2, <2>6, <2>9, QuietGuarded
<1> QED BY <1>5, <1>6

\* The read of a keep-waiting keeps what the sections rely on.
LEMMA ReopenGuarded ==
    ASSUME Layered, Guarded, NEW h \in Handlers, Turn(h), Reopen(h)
    PROVE  Guarded'
<1>1. h \in Threads /\ h # Sweeper
    BY HandlersAre
<1>2. /\ Turn(h) /\ disk' = disk /\ residue' = residue /\ told' = told \ {"vetoed"}
      /\ told' \subseteq told \cup {"vetoed"} /\ \E dir \in Dirs : disk[dir] # NoDoc
      /\ disk["pending"] = NoDoc /\ disk["inflight"] = NoDoc
      /\ disk["done"] # NoDoc /\ disk["done"].ending = "expired"
    BY DEF Reopen, Asked
<1>3. VetoKept'
    BY <1>2 DEF VetoKept
<1> DEFINE e == [disk["done"] EXCEPT !.ending = "none",
                                     !.unpause = IF @ = "elapsed" THEN "pending" ELSE @]
<1>4. Goes(h, "reopen", "write", e, "pending")
    BY DEF Reopen
<1>5. e \in Doc /\ e.stop = disk["done"].stop
    BY <1>2, ReopenedFits DEF Layered
<1> HIDE DEF e
<1>6. "reopen" \in Operations /\ "pending" \in Dirs
    BY DEF Operations, Dirs
<1>7. /\ th'[h].op = "reopen" /\ th'[h].pc = "write" /\ th'[h].doc = e
      /\ \A u \in Threads \ {h} : th'[u] = th[u]
    BY <1>1, <1>4, <1>5, <1>6, GoesTo DEF Layered, Typed
<1>8. Reopening(h)'
    BY <1>2, <1>5, <1>7 DEF Reopening
<1>9. Section(h)'
    BY <1>7, <1>8 DEF Section, Stamping, Holding, Releasing, Placing, Vetoing, Cleaning
<1> QED BY <1>1, <1>2, <1>3, <1>7, <1>9, QuietGuarded

\* A write in place keeps what the sections rely on.
LEMMA PlaceGuarded ==
    ASSUME Layered, Guarded, NEW h \in Handlers, Turn(h), Place(h)
    PROVE  Guarded'
<1> Sweeper \in Threads
    BY DEF Threads
<1> DEFINE my == th[h]
<1>1. h \in Threads /\ h # Sweeper
    BY HandlersAre
<1>2. /\ Turn(h) /\ my.pc = "place" /\ my \in Thread /\ my.to \in Dirs /\ my.doc \in Doc
      /\ my.doc # NoDoc /\ residue' = residue
      /\ \/ my.op = "veto" /\ my.to = "pending"
         \/ my.op \in {"veto", "record"} /\ my.to = "inflight"
    BY <1>1, IdleIs, StoreAssumption DEF Place, Layered, Shape, Typed, Thread, Fits
<1>3. /\ disk'[my.to] = my.doc /\ \A o \in Dirs \ {my.to} : disk'[o] = disk[o]
    BY <1>2 DEF Place, Layered, Typed
<1>4. disk[my.to] # NoDoc /\ Placing(h)
    BY <1>1, <1>2 DEF Guarded, Section, Placing
<1>5. ~residue => disk["pending"] = NoDoc \/ disk["inflight"] = NoDoc
    BY <1>1, <1>2, SweeperOut DEF Guarded, TwoCopies
<1> HIDE DEF my
<1>6. Kept'
    BY <1>2, <1>3 DEF Kept
<1>7. CASE my.to = "pending"
    <2>1. /\ my.doc.unpause # "pending" /\ my.doc.stop = disk["pending"].stop
          /\ disk["pending"] # NoDoc
        <3>1. my.doc = Vetoed(disk["pending"]) /\ disk["pending"] # NoDoc
            BY <1>2, <1>4, <1>7 DEF Placing, my
        <3> QED BY <3>1, VetoedFits DEF Layered
    <2>2. /\ disk'["pending"] = my.doc /\ disk'["inflight"] = disk["inflight"]
          /\ disk'["done"] = disk["done"]
        BY <1>3, <1>7 DEF Dirs
    <2>3. /\ th'[h].op = "veto" /\ th'[h].pc = "inflight" /\ told' = told
          /\ \A u \in Threads \ {h} : th'[u] = th[u]
        <3>1. Goes(h, "veto", "inflight", NoDoc, "inflight") /\ told' = told
            BY <1>7 DEF Place, my
        <3>2. "veto" \in Operations /\ "inflight" \in Dirs
            BY DEF Operations, Dirs
        <3> QED BY <1>1, <3>1, <3>2, GoesTo DEF Layered, Typed
    <2>4. Section(h)'
        <3>1. Vetoing(h)'
            BY <2>1, <2>2 DEF Vetoing
        <3> QED BY <2>3, <3>1 DEF Section, Stamping, Holding, Releasing, Reopening, Placing, Cleaning
    <2>5. Alone' /\ \A u \in Threads : Section(u)'
        <3>1. Holding(Sweeper)'
            BY <1>1, <2>2, <2>3, HolderBehind DEF Guarded, Section
        <3> QED BY <3>1, <1>1, <1>2, <2>3, <2>4, OneMoves
    <2>6. TwoCopies'
        BY <1>2, <1>5, <2>1, <2>2 DEF TwoCopies
    <2>7. StopKept' /\ VetoKept' /\ StopHolds'
        BY <1>2, <2>1, <2>2, <2>3 DEF Guarded, StopKept, VetoKept, StopHolds, Vetted
    <2> QED BY <1>6, <2>5, <2>6, <2>7 DEF Guarded
<1>8. CASE my.to = "inflight"
    <2>1. /\ disk["inflight"] # NoDoc /\ my.doc.token = disk["inflight"].token
          /\ \/ /\ my.op = "record" /\ my.doc.stop = "requested"
                /\ my.doc.unpause = disk["inflight"].unpause /\ my.doc.veto = disk["inflight"].veto
             \/ my.op = "veto" /\ my.doc.veto = "requested" /\ my.doc.stop = disk["inflight"].stop
        <3>1. CASE my.op = "record"
            <4>1. /\ my.doc = [disk["inflight"] EXCEPT !.stop = "requested"]
                  /\ disk["inflight"] # NoDoc
                BY <1>2, <1>4, <1>8, <3>1 DEF Placing, my
            <4> QED BY <3>1, <4>1, RecordedFits DEF Layered
        <3>2. CASE my.op = "veto"
            <4>1. /\ my.doc = [Vetoed(disk["inflight"]) EXCEPT !.veto = "requested"]
                  /\ disk["inflight"] # NoDoc
                BY <1>2, <1>4, <1>8, <3>2 DEF Placing, my
            <4> QED BY <3>2, <4>1, VetoedFits DEF Layered
        <3> QED BY <1>2, <1>8, <3>1, <3>2
    <2>2. /\ disk'["inflight"] = my.doc /\ disk'["pending"] = disk["pending"]
          /\ disk'["done"] = disk["done"]
        BY <1>3, <1>8 DEF Dirs
    <2>3. Rests(h) /\ told' = told \cup {IF my.op = "veto" THEN "vetoed" ELSE "requested"}
        BY <1>8 DEF Place, my
    <2>4. Section(h)' /\ \A u \in Threads \ {h} : th'[u] = th[u]
        BY <1>1, <2>3, RestsNow, IdleSection DEF Layered, Typed
    <2>5. Alone' /\ \A u \in Threads : Section(u)'
        <3>1. Holding(Sweeper)'
            BY <1>1, <2>1, <2>2, <2>4 DEF Guarded, Section, Holding, Behind
        <3> QED BY <3>1, <1>1, <1>2, <2>4, OneMoves
    <2>6. TwoCopies'
        BY <1>2, <1>5, <2>1, <2>2 DEF TwoCopies
    <2>7. StopHolds'
        BY <1>2, <2>1, <2>3 DEF Guarded, StopHolds
    <2>8. StopKept' /\ VetoKept'
        <3>1. CASE my.op = "record"
            <4>1. told' = told \cup {"requested"}
                BY <2>3, <3>1
            <4> QED BY <1>2, <1>5, <2>1, <2>2, <3>1, <4>1 DEF Guarded, StopKept, VetoKept, Vetted
        <3>2. CASE my.op = "veto"
            <4>1. told' = told \cup {"vetoed"}
                BY <2>3, <3>2
            <4> QED BY <1>2, <1>5, <2>1, <2>2, <3>2, <4>1 DEF Guarded, StopKept, VetoKept, Vetted
        <3> QED BY <1>2, <3>1, <3>2
    <2> QED BY <1>6, <2>5, <2>6, <2>7, <2>8 DEF Guarded
<1> QED BY <1>2, <1>7, <1>8

\* A step that crosses nobody keeps layer 2.
LEMMA GuardedInductive ==
    ASSUME Layered, ~crossed => Guarded, [Next]_vars, ~crossed'
    PROVE  Guarded'
<1>1. Guarded
    BY DEF Next, vars, Put, Restart, By, Claim, ClaimRead, ClaimStamp, Advance, Reclaim, Check,
           Write, WriteFails, Unlink, UnlinkFails, Asked, Stop, StopHeld, Veto, VetoHeld, Place,
           Reopen
<1>2. ASSUME NEW t, By(t)
      PROVE  Turn(t)
    BY <1>2 DEF By
<1>3. CASE UNCHANGED vars
    BY <1>1, <1>3 DEF vars, Guarded, Alone, Section, Stamping, Holding, Releasing, Reopening,
                      Placing, Vetoing, Vetoed, Cleaning, Kept, TwoCopies, StopKept, VetoKept,
                      StopHolds
<1>4. ASSUME NEW t \in Threads,
             Check(t) \/ Write(t) \/ WriteFails(t) \/ Unlink(t) \/ UnlinkFails(t)
      PROVE  Guarded'
    <2>1. Turn(t)
        BY <1>2, <1>4 DEF Check, Write, WriteFails, Unlink, UnlinkFails
    <2> QED BY <1>1, <1>4, <2>1, CheckGuarded, WriteGuarded, WriteFailsGuarded, UnlinkGuarded,
               UnlinkFailsGuarded
<1>5. ASSUME NEW h \in Handlers,
             Stop(h) \/ StopHeld(h) \/ Veto(h) \/ VetoHeld(h) \/ Place(h) \/ Reopen(h)
      PROVE  Guarded'
    <2>1. Turn(h)
        BY <1>2, <1>5 DEF Asked, Stop, StopHeld, Veto, VetoHeld, Place, Reopen
    <2> QED BY <1>1, <1>5, <2>1, StopGuarded, StopHeldGuarded, VetoGuarded, VetoHeldGuarded,
               PlaceGuarded, ReopenGuarded
<1>6. ASSUME Claim \/ ClaimRead \/ ClaimStamp \/ Advance \/ Reclaim
      PROVE  Guarded'
    <2>1. Turn(Sweeper)
        BY <1>2, <1>6 DEF Claim, ClaimRead, ClaimStamp, Advance, Reclaim
    <2> QED BY <1>1, <1>6, <2>1, ClaimGuarded, ClaimReadGuarded, ClaimStampGuarded,
               AdvanceGuarded, ReclaimGuarded
<1> QED BY <1>1, <1>3, <1>4, <1>5, <1>6, PutGuarded, RestartGuarded DEF Next

\* Both layers hold in every state, the second until somebody crossed.
LEMMA StoreInvAlways == Spec => []StoreInv
<1>1. Init => StoreInv
    BY InitLayered, InitGuarded DEF StoreInv
<1>2. StoreInv /\ [Next]_vars => StoreInv'
    BY LayeredInductive, GuardedInductive DEF StoreInv
<1> QED BY <1>1, <1>2, PTL DEF Spec

\* As long as no thread acts inside another's open section, a stop that was answered
\* "finished" is not undone by however many requests, sweeps and crashes: the sweep that
\* claimed the entry before it wrote loses (request_stop, _move_out).
THEOREM StopAlwaysWins == Spec => []StopWins
<1>1. StoreInv => StopWins
    BY DEF StoreInv, Guarded, StopHolds, StopWins
<1> QED BY <1>1, StoreInvAlways, PTL

\* In the same behaviours a cancel or a pause that was answered is in the copy that counts
\* until it is honoured: the merge in _move_out loses none.
THEOREM RequestsAlwaysKept == Spec => []RequestsKept
<1>1. StoreInv => RequestsKept
    <2> SUFFICES ASSUME Layered, Guarded, ~residue
                 PROVE  /\ "requested" \in told => Current.stop # "absent" \/ Current.ending # "none"
                        /\ "vetoed" \in told /\ Current.ending = "none" =>
                              Current.unpause # "pending" \/ Current.veto = "requested"
        BY DEF RequestsKept, StoreInv
    <2>1. CASE told = {}
        BY <2>1
    <2>2. CASE told # {}
        <3>1. \E dir \in Dirs : disk[dir] # NoDoc
            BY <2>2, Somewhere DEF Guarded
        <3>2. CASE disk["inflight"] # NoDoc
            BY <3>2 DEF Current, Guarded, StopKept, VetoKept, Vetted
        <3>3. CASE disk["inflight"] = NoDoc /\ disk["pending"] # NoDoc
            BY <3>3 DEF Current, Guarded, StopKept, VetoKept, Vetted
        <3>4. CASE disk["inflight"] = NoDoc /\ disk["pending"] = NoDoc
            <4>1. disk["done"] # NoDoc /\ Current = disk["done"]
                BY <3>1, <3>4 DEF Dirs, Current
            <4>2. disk["done"].ending # "none"
                BY <4>1 DEF Layered, Files, Dirs
            <4> QED BY <4>1, <4>2
        <3> QED BY <3>2, <3>3, <3>4
    <2> QED BY <2>1, <2>2
<1> QED BY <1>1, StoreInvAlways, PTL

\* In the same behaviours two copies to be worked on are not left behind, also by a crash
\* (_move_out, resume).
THEOREM OneCopyIsLeft == Spec => []OneOpenCopy
<1>1. StoreInv => OneOpenCopy
    BY IdleIs DEF StoreInv, Guarded, TwoCopies, OneOpenCopy, Threads
<1> QED BY <1>1, StoreInvAlways, PTL

-----------------------------------------------------------------------------
(* The files implement EntryLife. *)

\* What a step may do to the files, as far as an entry's life is concerned.
LifeMove ==
    \/ Open /\ Open'
    \/ ~Open /\ ~Open' /\ disk'["done"] = disk["done"]
    \/ ~Open /\ disk["done"] = NoDoc /\ Open'
    \/ Open /\ ~Open' /\ disk'["done"] # NoDoc
    \/ /\ ~Open /\ ~Open' /\ disk["done"] # NoDoc
       /\ disk'["done"] # NoDoc /\ disk'["done"].ending = "stopped"
    \/ ~Open /\ disk["done"] # NoDoc /\ disk["done"].ending = "expired" /\ Open'

\* Each of them is a step of EntryLife, or none.
LEMMA LifeMoves ==
    ASSUME Layered, Layered', LifeMove
    PROVE  Life!Next \/ UNCHANGED <<LifeNow, EndingNow>>
<1> DEFINE l == LifeNow
           e == EndingNow
           l2 == LifeNow'
           e2 == EndingNow'
           Endings == {"completed", "expired", "stopped"}
<1>1. /\ Open => l = "open" /\ e = "none"
      /\ ~Open /\ disk["done"] # NoDoc => l = "closed" /\ e = disk["done"].ending
      /\ ~Open /\ disk["done"] = NoDoc => l = "absent" /\ e = "none"
    BY DEF LifeNow, EndingNow
<1>2. /\ Open' => l2 = "open" /\ e2 = "none"
      /\ ~Open' /\ disk'["done"] # NoDoc => l2 = "closed" /\ e2 = disk'["done"].ending
      /\ ~Open' /\ disk'["done"] = NoDoc => l2 = "absent" /\ e2 = "none"
    BY DEF LifeNow, EndingNow
<1>3. disk'["done"] # NoDoc => disk'["done"].ending \in Endings
    BY DEF Layered, Typed, Files, Dirs, Doc
<1>4. \/ l2 = l /\ e2 = e
      \/ l = "absent" /\ l2 = "open" /\ e2 = "none"
      \/ l = "closed" /\ e = "expired" /\ l2 = "open" /\ e2 = "none"
      \/ \E x \in Endings :
            /\ l = "open" \/ (l = "closed" /\ e # "stopped" /\ x = "stopped")
            /\ l2 = "closed" /\ e2 = x
    <2> HIDE DEF l, e, l2, e2
    <2> QED BY <1>1, <1>2, <1>3 DEF LifeMove
<1> QED BY <1>4 DEF Life!Next, Life!Put, Life!Reopen, Life!Close, Life!Endings

\* What each operation does to an entry's life.
LEMMA StepsMove ==
    ASSUME Layered, Guarded, [Next]_vars
    PROVE  LifeMove
<1>1. CASE disk' = disk
    BY <1>1 DEF LifeMove, Open
<1>2. CASE Put
    <2>1. ~Open /\ disk["done"] = NoDoc
        BY <1>2 DEF Put, Open, Dirs
    <2>2. NewDoc # NoDoc
        <3>1. NewDoc \in Doc
            BY StoreAssumption DEF NewDoc, Doc
        <3> QED BY <3>1, StoreAssumption
    <2>3. disk'["pending"] # NoDoc
        BY <1>2, <2>2 DEF Put, Layered, Typed, Dirs
    <2> QED BY <2>1, <2>3 DEF LifeMove, Open
<1>3. CASE Claim
    BY <1>3 DEF Claim, Layered, Typed, Dirs, LifeMove, Open
<1>4. CASE ClaimStamp
    <2>1. disk["inflight"] # NoDoc
        BY <1>4 DEF ClaimStamp, Guarded, Section, Stamping, Threads
    <2>2. th[Sweeper].doc # NoDoc
        BY <1>4, IdleIs, StoreAssumption DEF ClaimStamp, Layered, Shape, Fits, Threads
    <2>3. disk'["inflight"] = th[Sweeper].doc
        BY <1>4 DEF ClaimStamp, Layered, Typed, Dirs
    <2> QED BY <2>1, <2>2, <2>3 DEF LifeMove, Open
<1>5. CASE disk["inflight"] # NoDoc /\ disk' = Resumed
    BY <1>5, FileResumed DEF Layered, LifeMove, Open
<1>6. ASSUME NEW t \in Threads, Write(t)
      PROVE  LifeMove
    <2> DEFINE my == th[t]
    <2>1. /\ my \in Thread /\ my.pc = "write" /\ my.doc # NoDoc
          /\ \/ my.op = "release" /\ my.to \in {"pending", "done"}
             \/ my.op = "stop" /\ my.to = "done" /\ my.doc.ending = "stopped"
             \/ my.op = "reopen" /\ my.to = "pending"
        BY <1>6, IdleIs, StoreAssumption DEF Write, Layered, Shape, Typed, Fits, Thread, Dirs
    <2>2. disk'[my.to] = my.doc /\ \A o \in Dirs \ {my.to} : disk'[o] = disk[o]
        BY <1>6, <2>1 DEF Write, Layered, Typed, Dirs
    <2>3. \E dir \in Dirs : disk[dir] # NoDoc
        BY <2>1, IdleIs, Somewhere DEF Guarded
    <2>4. /\ my.op = "release" => disk["inflight"] # NoDoc
          /\ my.op = "reopen" => /\ disk["inflight"] = NoDoc /\ disk["pending"] = NoDoc
                                 /\ disk["done"] # NoDoc /\ disk["done"].ending = "expired"
        BY <2>1 DEF Guarded, Section, Releasing, Reopening
    <2> HIDE DEF my
    <2>5. CASE my.op = "release"
        BY <2>1, <2>2, <2>4, <2>5 DEF LifeMove, Open, Dirs
    <2>6. CASE my.op = "stop"
        BY <2>1, <2>2, <2>3, <2>6 DEF LifeMove, Open, Dirs
    <2>7. CASE my.op = "reopen"
        BY <2>1, <2>2, <2>4, <2>7 DEF LifeMove, Open, Dirs
    <2> QED BY <2>1, <2>5, <2>6, <2>7
<1>7. ASSUME NEW t \in Threads, Unlink(t)
      PROVE  LifeMove
    <2> DEFINE my == th[t]
               dir == Head(th[t].rest)
    <2>1. /\ my.pc = "unlink" /\ my.to \in {"pending", "done"} /\ my.to # dir /\ dir \in Dirs
          /\ dir = "done" => my.to = "pending"
        BY <1>7, NextCopy DEF Unlink, Dirs
    <2>2. disk[my.to] # NoDoc
        <3>1. my.doc # NoDoc
            BY <1>7, IdleIs, StoreAssumption DEF Unlink, Layered, Shape, Fits
        <3> QED BY <3>1, <2>1 DEF Guarded, Section, Cleaning
    <2>3. disk'[dir] = NoDoc /\ \A o \in Dirs \ {dir} : disk'[o] = disk[o]
        BY <1>7, <2>1 DEF Unlink, Layered, Typed
    <2> HIDE DEF my, dir
    <2> QED BY <2>1, <2>2, <2>3 DEF LifeMove, Open, Dirs
<1>8. ASSUME NEW h \in Handlers, Place(h)
      PROVE  LifeMove
    <2> DEFINE my == th[h]
    <2>1. h \in Threads /\ h # Sweeper
        BY HandlersAre
    <2>2. my.pc = "place" /\ my.to \in {"pending", "inflight"} /\ my.doc # NoDoc
        BY <1>8, <2>1, IdleIs, StoreAssumption DEF Place, Layered, Shape, Fits
    <2>3. disk[my.to] # NoDoc
        BY <2>1, <2>2 DEF Guarded, Section, Placing
    <2>4. disk'[my.to] = my.doc /\ \A o \in Dirs \ {my.to} : disk'[o] = disk[o]
        BY <1>8, <2>2 DEF Place, Layered, Typed, Dirs
    <2> HIDE DEF my
    <2> QED BY <2>2, <2>3, <2>4 DEF LifeMove, Open, Dirs
<1> QED BY <1>1, <1>2, <1>3, <1>4, <1>5, <1>6, <1>7, <1>8
        DEF Next, vars, ClaimRead, Advance, Reclaim, Restart, Check, WriteFails, UnlinkFails,
            Stop, StopHeld, Veto, VetoHeld, Reopen

\* As long as no thread acts inside another's open section, the files keep what the journal
\* promises of an entry: put once, never lost, closed for good unless it expired, and a stop
\* overrules every other ending.
THEOREM FilesKeepThePromise == Spec => LifePromised
<1>1. Init => Life!Init
    BY DEF Init, Life!Init, LifeNow, EndingNow, Open, Dirs
<1>2. StoreInv /\ StoreInv' /\ crossed \in BOOLEAN /\ [Next]_vars =>
          crossed' \/ Life!Next \/ UNCHANGED <<LifeNow, EndingNow>>
    <2> SUFFICES ASSUME StoreInv, StoreInv', crossed \in BOOLEAN, [Next]_vars, ~crossed'
                 PROVE  Life!Next \/ UNCHANGED <<LifeNow, EndingNow>>
        OBVIOUS
    <2>1. ~crossed
        BY CrossedStays
    <2> QED BY <2>1, StepsMove, LifeMoves DEF StoreInv
<1>3. Spec => [](crossed \in BOOLEAN)
    <2>1. TypeOK => crossed \in BOOLEAN
        BY DEF TypeOK
    <2> QED BY <2>1, TypeCorrect, PTL
<1> QED BY <1>1, <1>2, <1>3, StoreInvAlways, PTL DEF Spec, LifePromised

=============================================================================
