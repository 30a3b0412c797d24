------------------------- MODULE DeployLifecycle_proofs ------------------------
(***************************************************************************)
(* Type correctness and commit-last, for any number of DAGs and deploys,   *)
(* any bounds and any budget.  IndInv is shown inductive: the journal, the *)
(* copy the sweep holds and the history of what was destroyed stay in step *)
(* through every handler, every step of a sweep, every failure and crash.  *)
(* On top of it: what is recorded in the journal lasts and what is         *)
(* reported is true (AccountInv), a flow keeps a DAG (FlowInv), and what a *)
(* deploy has quiesced sleeps until somebody wakes it (SleepInv).          *)
(***************************************************************************)
EXTENDS DeployLifecycle, DeployEntry_proofs

\* The parts of TypeOK that the steps of different actors disturb.
WorldOK ==
    /\ file \in [Dags -> FileStates] /\ row \in [Dags -> RowStates]
    /\ unparsed \subseteq Dags /\ importErr \subseteq Dags
    /\ runs \subseteq Deploys
    /\ woken \in [Deploys -> SUBSET Dags]

ServerOK ==
    /\ now \in Nat /\ faults \in Nat /\ interventions \in Nat
    /\ role \in {"editor", "viewer"}

RequestOK ==
    /\ pausing \subseteq Dags
    /\ stage \in [Deploys -> {"new", "written", "scanned", "settled"}]
    /\ orphans \in [Deploys -> SUBSET Deploys]

\* TypeOK in the parts that the steps of the handlers and the sweep disturb.
LEMMA TypeParts == TypeOK => WorldOK /\ ServerOK /\ RequestOK
  BY DEF TypeOK, WorldOK, ServerOK, RequestOK

-----------------------------------------------------------------------------
(* The initial states. *)

\* No deploy has been written: nothing is journaled and nothing is destroyed.
LEMMA Initially == Init => IndInv
  <1> SUFFICES ASSUME Init PROVE IndInv
    OBVIOUS
  <1>1. TypeOK
    BY LifecycleAssumption DEF Init, TypeOK
  <1>2. JournalOK
    BY DEF Init, JournalOK
  <1>3. HeldOK
    BY DEF Init, HeldOK, Holding
  <1>4. CommitLast
    BY DEF Init, CommitLast
  <1> QED
    BY <1>1, <1>2, <1>3, <1>4 DEF IndInv

-----------------------------------------------------------------------------
(* Request handlers, the clock and the world. *)

\* Steps that leave the sweep alone: whatever they write to the journal, a deploy on
\* whose behalf something was destroyed stays licensed (the request handlers).
LEMMA JournalStep ==
    ASSUME IndInv, WorldOK', ServerOK', RequestOK', UNCHANGED <<sweep, removed>>,
           loc' \in [Deploys -> {"none", "pending", "inflight", "done"}],
           copy' \in [Deploys -> Entry \cup {NoEntry}],
           \A d \in Deploys :
              /\ loc'[d] # "none" \/ stage'[d] \in {"written", "scanned"} => Phased(copy'[d])
              /\ loc[d] # "none" => Keeps(copy[d], copy'[d]) /\ loc'[d] # "none"
              /\ stage'[d] # "settled" => loc'[d] = "none"
              /\ loc[d] = "inflight" => loc'[d] = "inflight"
    PROVE  IndInv'
  <1> USE DEF IndInv
  <1>1. TypeOK'
    BY DEF TypeOK, WorldOK, ServerOK, RequestOK, sweep
  <1>2. JournalOK'
    BY DEF JournalOK, sweep
  <1>3. HeldOK'
    <2>1. Holding' <=> Holding
      BY DEF Holding, sweep
    <2>2. CASE Holding
      <3>1. hd \in Deploys /\ loc[hd] = "inflight"
        BY <2>2 DEF HeldOK
      <3>2. loc'[hd] = "inflight" /\ Keeps(copy[hd], copy'[hd])
        BY <3>1
      <3> QED
        BY <2>1, <2>2, <3>1, <3>2 DEF HeldOK, sweep, Keeps
    <2>3. CASE ~Holding
      BY <2>1, <2>3 DEF HeldOK, Holding, sweep
    <2> QED
      BY <2>2, <2>3
  <1>4. CommitLast'
    BY DEF CommitLast, JournalOK, Keeps
  <1> QED
    BY <1>1, <1>2, <1>3, <1>4

\* Steps that touch neither the journal nor what is held.
LEMMA WorldStep ==
    ASSUME IndInv, WorldOK', ServerOK', RequestOK', stage' = stage,
           UNCHANGED <<journal, sweep, removed>>
    PROVE  IndInv'
  <1>1. TypeOK'
    BY DEF IndInv, TypeOK, WorldOK, ServerOK, RequestOK, sweep, journal
  <1>2. JournalOK'
    BY DEF IndInv, JournalOK, journal
  <1>3. HeldOK' /\ CommitLast'
    BY DEF IndInv, HeldOK, Holding, CommitLast, journal, sweep
  <1> QED
    BY <1>1, <1>2, <1>3 DEF IndInv

\* An entry that is not written to keeps its licence.
LEMMA Reflexive == \A e : Phased(e) => Keeps(e, e)
  BY DEF Keeps

\* A stored entry that is stopped keeps its licence (request_stop).
LEMMA StoppedKeeps ==
    ASSUME NEW d \in Deploys, Phased(copy[d]), NEW outcome \in {"cancelled", "superseded"}
    PROVE  Keeps(copy[d], Stopped(d, outcome))
  <1>1. Keeps(copy[d], Finished(copy[d], outcome))
    BY FinishedKeeps DEF Outcomes
  <1>2. Keeps(copy[d], [copy[d] EXCEPT !.stop = outcome])
    BY RequestKeeps DEF StopRequests, VetoRequests
  <1> QED
    BY <1>1, <1>2 DEF Stopped

\* deploy_dag writes the file and drafts an entry nobody has journaled.
LEMMA DeployWriteStep ==
    ASSUME IndInv, NEW d \in Deploys, DeployWrite(d)
    PROVE  IndInv'
  <1> USE DEF DeployWrite, server, world, journal, request, sweep
  <1>1. PICK r \in Requests :
            /\ file' = [file EXCEPT ![r.dag] = [by |-> d, flow |-> r.flow]]
            /\ unparsed' = unparsed \cup {r.dag}
            /\ copy' = [copy EXCEPT ![d] = NewEntry(r.dag, r.flow, r.run, r.retire, r.purge)]
    OBVIOUS
  <1>2. r \in Request
    BY LifecycleAssumption
  <1>3. Phased(NewEntry(r.dag, r.flow, r.run, r.retire, r.purge))
    BY <1>2, NewEntryPhased DEF Request
  <1>4. TypeOK /\ WorldOK /\ ServerOK /\ RequestOK /\ loc[d] = "none"
    BY TypeParts DEF IndInv, JournalOK, RequestOK
  <1>5. WorldOK'
    <2>1. [by |-> d, flow |-> r.flow] \in FileStates
      BY <1>2 DEF FileStates, StudioFile, Request
    <2> QED
      BY <1>1, <1>2, <1>4, <2>1 DEF WorldOK, Request
  <1>6. ServerOK' /\ RequestOK'
    BY <1>4 DEF ServerOK, RequestOK
  <1>7. copy' \in [Deploys -> Entry \cup {NoEntry}]
    BY <1>1, <1>3, <1>4 DEF TypeOK, Phased
  <1>8. \A o \in Deploys \ {d} : copy'[o] = copy[o] /\ stage'[o] = stage[o]
    BY <1>1, <1>4 DEF TypeOK
  <1>9. copy'[d] = NewEntry(r.dag, r.flow, r.run, r.retire, r.purge)
    BY <1>1, <1>4 DEF TypeOK
  <1> QED
    BY <1>3, <1>4, <1>5, <1>6, <1>7, <1>8, <1>9, JournalStep, Reflexive
       DEF IndInv, JournalOK, TypeOK

\* Superseding stops older entries and widens the draft's queue; no licence is lost
\* (journal.supersede, _journal_deploy).
LEMMA SupersedeStep ==
    ASSUME IndInv, NEW d \in Deploys, Supersede(d)
    PROVE  IndInv'
  <1> DEFINE e        == copy[d]
             older    == OpenFor(e.flow, e.dag) \ {d}
             stranded == {o \in Deploys : /\ loc[o] = "done" /\ OwesRetire(copy[o])
                                          /\ IF e.flow # NoFlow THEN copy[o].flow = e.flow
                                                                ELSE copy[o].dag = e.dag}
             heirs    == {o \in older : Pending(copy[o], "retire")} \cup stranded
             queue    == e.retire \cup UNION {copy[o].retire : o \in heirs}
             purged   == e.purge \cup (UNION {copy[o].purge : o \in heirs} \ e.retire)
             draft    == [e EXCEPT !.retire = queue, !.purge = purged]
  <1>1. /\ stage[d] = "written" /\ stage' = [stage EXCEPT ![d] = "scanned"]
        /\ copy' = [o \in Deploys |-> IF o = d THEN draft
                                      ELSE IF o \in older THEN Stopped(o, "superseded")
                                      ELSE copy[o]]
        /\ loc' = [o \in Deploys |-> IF o \in older THEN StoppedLoc(o) ELSE loc[o]]
        /\ orphans' = [orphans EXCEPT ![d] = stranded]
        /\ UNCHANGED <<now, server, world, pausing, sweep, removed>>
    BY DEF Supersede
  <1>2. TypeOK /\ WorldOK /\ ServerOK /\ RequestOK /\ loc[d] = "none" /\ Phased(e)
    BY <1>1, TypeParts DEF IndInv, JournalOK, RequestOK
  <1>3. older \subseteq {o \in Deploys : loc[o] \in {"pending", "inflight"}}
    BY DEF OpenFor
  <1>4. stranded \subseteq {o \in Deploys : loc[o] = "done"}
    OBVIOUS
  <1>5. queue \in SUBSET Dags /\ purged \in SUBSET Dags
    <2>1. \A o \in heirs : copy[o] \in Entry
      BY <1>3, <1>4 DEF IndInv, JournalOK, Phased
    <2> HIDE DEF heirs
    <2> QED
      BY <1>2, <2>1 DEF Phased, Entry
  <1>6. Keeps(e, draft)
    <2>1. 0 \in Nat /\ 0 \in 0 .. MinPolls /\ FALSE \in BOOLEAN
      BY BoundsAssumption
    <2> HIDE DEF queue, purged, e
    <2> QED
      BY <1>2, <1>5, <2>1, FieldsKeep
  <1>7. \A o \in older : Keeps(copy[o], Stopped(o, "superseded"))
    BY <1>3, StoppedKeeps DEF IndInv, JournalOK
  <1>8. \A o \in older : StoppedLoc(o) = IF loc[o] = "pending" THEN "done" ELSE "inflight"
    BY <1>3 DEF StoppedLoc
  <1>9. d \notin older
    OBVIOUS
  <1> HIDE DEF older, stranded, draft
  <1>10. WorldOK' /\ ServerOK' /\ RequestOK'
    BY <1>1, <1>2, <1>4 DEF WorldOK, ServerOK, RequestOK, world, server
  <1>11. loc' \in [Deploys -> {"none", "pending", "inflight", "done"}]
    BY <1>1, <1>2, <1>8 DEF TypeOK
  <1>12. copy' \in [Deploys -> Entry \cup {NoEntry}]
    BY <1>1, <1>2, <1>6, <1>7 DEF TypeOK, Keeps, Phased
  <1>13. ASSUME NEW o \in Deploys
         PROVE  /\ loc'[o] # "none" \/ stage'[o] \in {"written", "scanned"} => Phased(copy'[o])
                /\ loc[o] # "none" => Keeps(copy[o], copy'[o]) /\ loc'[o] # "none"
                /\ stage'[o] # "settled" => loc'[o] = "none"
                /\ loc[o] = "inflight" => loc'[o] = "inflight"
    <2>1. CASE o = d
      BY <1>1, <1>2, <1>6, <1>9, <2>1 DEF Keeps
    <2>2. CASE o \in older
      BY <1>1, <1>2, <1>3, <1>7, <1>8, <1>9, <2>2 DEF Keeps, IndInv, JournalOK, RequestOK
    <2>3. CASE o # d /\ o \notin older
      BY <1>1, <1>2, <2>3, Reflexive DEF IndInv, JournalOK, RequestOK
    <2> QED
      BY <2>1, <2>2, <2>3
  <1> QED
    BY <1>1, <1>10, <1>11, <1>12, <1>13, JournalStep

\* A retire step that a newer deploy takes over keeps the licence of its entry.
LEMMA InheritedKeeps ==
    ASSUME NEW e, Phased(e)
    PROVE  Keeps(e, [e EXCEPT !.steps["retire"] = "inherited"])
  <1> DEFINE s == [e.steps EXCEPT !["retire"] = "inherited"]
             f == [e EXCEPT !.steps = s]
  <1>1. /\ s \in [StepNames -> StepStates]
        /\ \A name \in {"registered", "unpause", "trigger"} : s[name] = e.steps[name]
    BY DEF Phased, Entry, StepNames, StepStates
  <1> HIDE DEF s
  <1>2. f \in Entry /\ f.steps = s /\ f.phase = e.phase
    BY <1>1 DEF Phased, Entry
  <1>3. f = [e EXCEPT !.steps["retire"] = "inherited"]
    BY DEF s
  <1> QED
    BY <1>1, <1>2, <1>3, SameSteps

\* Making the draft durable, and consuming the intents it inherited, gives and takes no
\* licence (journal.put, consume_orphaned_retire).
LEMMA PutStep ==
    ASSUME IndInv, NEW d \in Deploys, Put(d)
    PROVE  IndInv'
  <1> DEFINE draft == [copy[d] EXCEPT !.deadline = now + Budget, !.actDeadline = now + Budget]
  <1>1. /\ stage[d] = "scanned" /\ stage' = [stage EXCEPT ![d] = "settled"]
        /\ loc' = [loc EXCEPT ![d] = "pending"]
        /\ copy' = [o \in Deploys |->
                      IF o = d THEN draft
                      ELSE IF o \in orphans[d] /\ loc[o] = "done" /\ OwesRetire(copy[o])
                      THEN [copy[o] EXCEPT !.steps["retire"] = "inherited"]
                      ELSE copy[o]]
        /\ orphans' = [orphans EXCEPT ![d] = {}]
        /\ UNCHANGED <<now, server, world, pausing, sweep, removed>>
    BY DEF Put
  <1>2. TypeOK /\ WorldOK /\ ServerOK /\ RequestOK /\ loc[d] = "none" /\ Phased(copy[d])
    BY <1>1, TypeParts DEF IndInv, JournalOK, RequestOK
  <1>3. Keeps(copy[d], draft)
    <2>1. now + Budget \in Nat
      BY <1>2, LifecycleAssumption DEF ServerOK
    <2>2. {} \in SUBSET Dags /\ 0 \in 0 .. MinPolls /\ FALSE \in BOOLEAN
      BY BoundsAssumption
    <2> QED
      BY <1>2, <2>1, <2>2, FieldsKeep
  <1>4. \A o \in Deploys : loc[o] = "done" =>
            Keeps(copy[o], [copy[o] EXCEPT !.steps["retire"] = "inherited"])
    BY InheritedKeeps DEF IndInv, JournalOK
  <1> HIDE DEF draft
  <1>5. WorldOK' /\ ServerOK' /\ RequestOK'
    BY <1>1, <1>2 DEF WorldOK, ServerOK, RequestOK, world, server
  <1>6. loc' \in [Deploys -> {"none", "pending", "inflight", "done"}]
    BY <1>1, <1>2 DEF TypeOK
  <1>7. copy' \in [Deploys -> Entry \cup {NoEntry}]
    BY <1>1, <1>2, <1>3, <1>4 DEF TypeOK, Keeps, Phased
  <1>8. ASSUME NEW o \in Deploys
        PROVE  /\ loc'[o] # "none" \/ stage'[o] \in {"written", "scanned"} => Phased(copy'[o])
               /\ loc[o] # "none" => Keeps(copy[o], copy'[o]) /\ loc'[o] # "none"
               /\ stage'[o] # "settled" => loc'[o] = "none"
               /\ loc[o] = "inflight" => loc'[o] = "inflight"
    <2>1. CASE o = d
      BY <1>1, <1>2, <1>3, <2>1 DEF Keeps, RequestOK, TypeOK
    <2>2. CASE o # d
      <3>1. loc'[o] = loc[o] /\ stage'[o] = stage[o]
        BY <1>1, <1>2, <2>2 DEF TypeOK
      <3>2. copy'[o] = copy[o]
            \/ (loc[o] = "done" /\ copy'[o] = [copy[o] EXCEPT !.steps["retire"] = "inherited"])
        BY <1>1, <2>2
      <3> QED
        BY <1>4, <3>1, <3>2, Reflexive DEF IndInv, JournalOK, Keeps
    <2> QED
      BY <2>1, <2>2
  <1> QED
    BY <1>1, <1>5, <1>6, <1>7, <1>8, JournalStep

\* A draft that could not be written was never licensed (_journal_deploy).
LEMMA PutFailsStep ==
    ASSUME IndInv, NEW d \in Deploys, PutFails(d)
    PROVE  IndInv'
  <1> USE DEF PutFails, Fault, server, world, sweep
  <1>1. TypeOK /\ WorldOK /\ ServerOK /\ RequestOK /\ loc[d] = "none"
    BY TypeParts DEF IndInv, JournalOK, RequestOK
  <1>2. WorldOK' /\ ServerOK' /\ RequestOK'
    BY <1>1 DEF WorldOK, ServerOK, RequestOK
  <1>3. copy' \in [Deploys -> Entry \cup {NoEntry}] /\ loc' = loc
    BY <1>1 DEF TypeOK
  <1>4. \A o \in Deploys \ {d} : copy'[o] = copy[o] /\ stage'[o] = stage[o]
    BY <1>1 DEF TypeOK
  <1>5. stage'[d] = "settled"
    BY <1>1 DEF TypeOK
  <1> QED
    BY <1>1, <1>2, <1>3, <1>4, <1>5, JournalStep, Reflexive DEF IndInv, JournalOK, TypeOK

\* A cancel finishes the entry or marks the stored copy (request_stop).
LEMMA CancelStep ==
    ASSUME IndInv, NEW d \in Deploys, Cancel(d)
    PROVE  IndInv'
  <1> USE DEF Cancel, Intervention, server, world, request, sweep
  <1>1. TypeOK /\ WorldOK /\ ServerOK /\ RequestOK /\ Phased(copy[d])
    BY TypeParts DEF IndInv, JournalOK
  <1>2. WorldOK' /\ ServerOK' /\ RequestOK'
    BY <1>1 DEF WorldOK, ServerOK, RequestOK
  <1>3. Keeps(copy[d], Stopped(d, "cancelled"))
    BY <1>1, StoppedKeeps
  <1>4. StoppedLoc(d) = IF loc[d] = "pending" THEN "done" ELSE "inflight"
    BY DEF StoppedLoc
  <1>5. copy' = [copy EXCEPT ![d] = Stopped(d, "cancelled")] /\ loc' = [loc EXCEPT ![d] = StoppedLoc(d)]
    OBVIOUS
  <1>6. /\ loc' \in [Deploys -> {"none", "pending", "inflight", "done"}]
        /\ copy' \in [Deploys -> Entry \cup {NoEntry}]
    BY <1>1, <1>3, <1>4 DEF TypeOK, Keeps, Phased
  <1>7. \A o \in Deploys \ {d} : copy'[o] = copy[o] /\ loc'[o] = loc[o]
    BY <1>1 DEF TypeOK
  <1>8. copy'[d] = Stopped(d, "cancelled") /\ loc'[d] = StoppedLoc(d)
    BY <1>1, <1>5 DEF TypeOK
  <1>9. stage' = stage /\ loc[d] \in {"pending", "inflight"}
    OBVIOUS
  <1>10. UNCHANGED <<sweep, removed>>
    OBVIOUS
  <1>11. stage[d] = "settled"
    BY <1>9, <1>1 DEF IndInv, JournalOK
  <1> HIDE DEF Cancel, sweep
  <1>12. ASSUME NEW o \in Deploys
        PROVE  /\ loc'[o] # "none" \/ stage'[o] \in {"written", "scanned"} => Phased(copy'[o])
               /\ loc[o] # "none" => Keeps(copy[o], copy'[o]) /\ loc'[o] # "none"
               /\ stage'[o] # "settled" => loc'[o] = "none"
               /\ loc[o] = "inflight" => loc'[o] = "inflight"
    <2>1. CASE o = d
      BY <1>3, <1>4, <1>8, <1>9, <1>11, <2>1 DEF Keeps
    <2>2. CASE o # d
      BY <1>7, <1>9, <2>2, Reflexive DEF IndInv, JournalOK
    <2> QED
      BY <2>1, <2>2
  <1> QED
    BY <1>2, <1>6, <1>10, <1>12, JournalStep

\* "Keep waiting" re-arms an entry without a licence lost (reopen_expired).
LEMMA ResumeStep ==
    ASSUME IndInv, NEW d \in Deploys, Resume(d)
    PROVE  IndInv'
  <1> DEFINE armed == Reopened(copy[d], now + Budget)
  <1>1. /\ loc[d] = "done" /\ loc' = [loc EXCEPT ![d] = "pending"]
        /\ copy' = [copy EXCEPT ![d] = armed]
        /\ interventions' = interventions + 1
        /\ UNCHANGED <<now, role, faults, world, request, sweep, removed>>
    BY DEF Resume, Intervention
  <1>2. TypeOK /\ WorldOK /\ ServerOK /\ RequestOK /\ Phased(copy[d]) /\ stage[d] = "settled"
    BY <1>1, TypeParts DEF IndInv, JournalOK
  <1>3. Keeps(copy[d], armed)
    BY <1>2, ReopenedKeeps, LifecycleAssumption DEF ServerOK
  <1> HIDE DEF armed
  <1>4. WorldOK' /\ ServerOK' /\ RequestOK'
    BY <1>1, <1>2 DEF WorldOK, ServerOK, RequestOK, world, request
  <1>5. /\ loc' \in [Deploys -> {"none", "pending", "inflight", "done"}]
        /\ copy' \in [Deploys -> Entry \cup {NoEntry}]
    BY <1>1, <1>2, <1>3 DEF TypeOK, Keeps, Phased
  <1>6. copy'[d] = armed /\ loc'[d] = "pending" /\ stage' = stage
    BY <1>1, <1>2 DEF TypeOK, request
  <1>7. ASSUME NEW o \in Deploys
        PROVE  /\ loc'[o] # "none" \/ stage'[o] \in {"written", "scanned"} => Phased(copy'[o])
               /\ loc[o] # "none" => Keeps(copy[o], copy'[o]) /\ loc'[o] # "none"
               /\ stage'[o] # "settled" => loc'[o] = "none"
               /\ loc[o] = "inflight" => loc'[o] = "inflight"
    <2>1. CASE o = d
      BY <1>1, <1>2, <1>3, <1>6, <2>1 DEF Keeps
    <2>2. CASE o # d
      <3>1. copy'[o] = copy[o] /\ loc'[o] = loc[o]
        BY <1>1, <1>2, <2>2 DEF TypeOK
      <3> QED
        BY <1>6, <3>1, Reflexive DEF IndInv, JournalOK
    <2> QED
      BY <2>1, <2>2
  <1> QED
    BY <1>1, <1>4, <1>5, <1>7, JournalStep

\* A veto recorded on the stored copies, held ones included (veto_unpause).
LEMMA PauseVetoStep ==
    ASSUME IndInv, NEW g \in Dags, PauseVeto(g)
    PROVE  IndInv'
  <1> DEFINE hit(d) == loc[d] \in {"pending", "inflight"} /\ copy[d].dag = g
             noted(d) == [UnpauseVetoed(copy[d]) EXCEPT !.veto = "requested"]
  <1>1. /\ copy' = [d \in Deploys |->
                      IF ~hit(d) THEN copy[d]
                      ELSE IF loc[d] = "inflight" THEN noted(d)
                      ELSE UnpauseVetoed(copy[d])]
        /\ pausing' = pausing \cup {g} /\ interventions' = interventions + 1
        /\ UNCHANGED <<now, role, faults, world, loc, stage, orphans, sweep, removed>>
    BY DEF PauseVeto, Intervention
  <1>2. TypeOK /\ WorldOK /\ ServerOK /\ RequestOK
    BY TypeParts DEF IndInv
  <1>3. WorldOK' /\ ServerOK' /\ RequestOK'
    BY <1>1, <1>2 DEF WorldOK, ServerOK, RequestOK, world
  <1>4. ASSUME NEW d \in Deploys, loc[d] # "none"
        PROVE  Keeps(copy[d], UnpauseVetoed(copy[d])) /\ Keeps(copy[d], noted(d))
    <2>1. Phased(copy[d])
      BY <1>4 DEF IndInv, JournalOK
    <2>2. Keeps(copy[d], UnpauseVetoed(copy[d]))
      BY <2>1, UnpauseVetoedKeeps
    <2>3. Keeps(UnpauseVetoed(copy[d]), noted(d))
      BY <2>2, RequestKeeps DEF Keeps, VetoRequests, StopRequests
    <2> QED
      BY <2>2, <2>3 DEF Keeps
  <1> HIDE DEF noted
  <1>5. ASSUME NEW d \in Deploys
        PROVE  copy'[d] = copy[d]
               \/ (loc[d] # "none" /\ copy'[d] \in {UnpauseVetoed(copy[d]), noted(d)})
    BY <1>1
  <1>6. copy' \in [Deploys -> Entry \cup {NoEntry}]
    <2>1. \A d \in Deploys : copy'[d] \in Entry \cup {NoEntry}
      BY <1>2, <1>4, <1>5 DEF TypeOK, Keeps, Phased
    <2> QED
      BY <1>1, <2>1
  <1>7. ASSUME NEW o \in Deploys
        PROVE  /\ loc'[o] # "none" \/ stage'[o] \in {"written", "scanned"} => Phased(copy'[o])
               /\ loc[o] # "none" => Keeps(copy[o], copy'[o]) /\ loc'[o] # "none"
               /\ stage'[o] # "settled" => loc'[o] = "none"
               /\ loc[o] = "inflight" => loc'[o] = "inflight"
    <2>1. loc' = loc /\ stage' = stage
      BY <1>1
    <2>2. loc[o] # "none" => Keeps(copy[o], copy'[o])
      BY <1>4, <1>5, Reflexive DEF IndInv, JournalOK
    <2>3. loc[o] = "none" => copy'[o] = copy[o]
      BY <1>5
    <2> QED
      BY <2>1, <2>2, <2>3 DEF IndInv, JournalOK, Keeps
  <1> QED
    BY <1>1, <1>2, <1>3, <1>6, <1>7, JournalStep DEF TypeOK

\* A pause in Airflow is nothing to the journal (DagPauseHandler).
LEMMA PausePatchStep ==
    ASSUME IndInv, NEW g \in Dags, PausePatch(g)
    PROVE  IndInv'
  <1>1. WorldOK /\ ServerOK /\ RequestOK
    BY TypeParts DEF IndInv
  <1>2. WorldOK' /\ ServerOK' /\ RequestOK'
    BY <1>1 DEF WorldOK, ServerOK, RequestOK, PausePatch, PausedRow, server, RowStates
  <1> QED
    BY <1>2, WorldStep DEF PausePatch

\* Whoever unpauses a DAG, the world stays one.
LEMMA WakesType ==
    ASSUME WorldOK, NEW g \in Dags, Wakes(g)
    PROVE  row' \in [Dags -> RowStates] /\ woken' \in [Deploys -> SUBSET Dags]
  BY DEF WorldOK, Wakes, RowStates

\* Nor is a user's unpausing (DagPauseHandler).
LEMMA UserUnpauseStep ==
    ASSUME IndInv, NEW g \in Dags, UserUnpause(g)
    PROVE  IndInv'
  <1>1. WorldOK /\ ServerOK /\ RequestOK
    BY TypeParts DEF IndInv
  <1>2. WorldOK'
    BY <1>1, WakesType DEF WorldOK, UserUnpause
  <1>3. ServerOK' /\ RequestOK'
    BY <1>1 DEF ServerOK, RequestOK, UserUnpause, Intervention, request
  <1> QED
    BY <1>2, <1>3, WorldStep DEF UserUnpause, request

\* Nor is an undeploy (purge_dag).
LEMMA UndeployStep ==
    ASSUME IndInv, NEW g \in Dags, Undeploy(g)
    PROVE  IndInv'
  <1>1. WorldOK /\ ServerOK /\ RequestOK
    BY TypeParts DEF IndInv
  <1>2. WorldOK' /\ ServerOK' /\ RequestOK'
    BY <1>1 DEF WorldOK, ServerOK, RequestOK, Undeploy, Intervention, request, RowStates, FileStates
  <1> QED
    BY <1>2, WorldStep DEF Undeploy, request

\* Time passes.
LEMMA TickStep ==
    ASSUME IndInv, Tick
    PROVE  IndInv'
  <1>1. WorldOK /\ ServerOK /\ RequestOK
    BY TypeParts DEF IndInv
  <1>2. WorldOK' /\ ServerOK' /\ RequestOK'
    BY <1>1 DEF WorldOK, ServerOK, RequestOK, Tick, world, server, request
  <1> QED
    BY <1>2, WorldStep DEF Tick, request

\* The dag-processor reads a file.
LEMMA ParseStep ==
    ASSUME IndInv, NEW g \in Dags, Parse(g)
    PROVE  IndInv'
  <1>1. WorldOK /\ ServerOK /\ RequestOK
    BY TypeParts DEF IndInv
  <1>2. row' \in [Dags -> RowStates] /\ importErr' \subseteq Dags
    BY <1>1 DEF WorldOK, Parse, RowStates
  <1>3. WorldOK' /\ ServerOK' /\ RequestOK'
    BY <1>1, <1>2 DEF WorldOK, ServerOK, RequestOK, Parse, server, request
  <1> QED
    BY <1>3, WorldStep DEF Parse, request

-----------------------------------------------------------------------------
(* Steps of a sweep that hold nothing before or after. *)

\* A move between the journal's directories while nothing is held.
LEMMA IdleStep ==
    ASSUME IndInv, ~Holding, ~Holding', WorldOK', ServerOK', RequestOK', stage' = stage,
           UNCHANGED <<hd, hc, todo, removed>>,
           at' \in {"idle", "sweep"}, clock' \in Nat, due' \subseteq Deploys,
           loc' \in [Deploys -> {"none", "pending", "inflight", "done"}],
           copy' \in [Deploys -> Entry \cup {NoEntry}],
           \A d \in Deploys : /\ loc'[d] = "none" <=> loc[d] = "none"
                              /\ copy'[d] = copy[d]
                                 \/ (loc[d] # "none" /\ Keeps(copy[d], copy'[d]))
    PROVE  IndInv'
  <1>1. TypeOK'
    BY DEF IndInv, TypeOK, WorldOK, ServerOK, RequestOK
  <1>2. JournalOK'
    BY DEF IndInv, JournalOK, Keeps
  <1>3. HeldOK'
    BY DEF HeldOK, Holding
  <1>4. CommitLast'
    BY DEF IndInv, CommitLast, JournalOK, Keeps
  <1> QED
    BY <1>1, <1>2, <1>3, <1>4 DEF IndInv

\* A sweep starts: old claims are moved back (sweep_once, reclaim_stale).
LEMMA SweepStartStep ==
    ASSUME IndInv, NEW reclaimed \in SUBSET Deploys, NEW listed \in SUBSET Deploys,
           SweepStart(reclaimed, listed)
    PROVE  IndInv'
  <1> USE DEF SweepStart, server, world, request
  <1>1. TypeOK /\ WorldOK /\ ServerOK /\ RequestOK
    BY TypeParts DEF IndInv
  <1>2. WorldOK' /\ ServerOK' /\ RequestOK'
    BY <1>1 DEF WorldOK, ServerOK, RequestOK
  <1>3. loc' \in [Deploys -> {"none", "pending", "inflight", "done"}]
    BY <1>1 DEF TypeOK
  <1>4. \A d \in Deploys : loc'[d] = "none" <=> loc[d] = "none"
    OBVIOUS
  <1>5. /\ ~Holding /\ ~Holding' /\ at' = "sweep"
        /\ clock' \in Nat /\ due' \subseteq Deploys /\ copy' = copy
        /\ copy' \in [Deploys -> Entry \cup {NoEntry}]
        /\ UNCHANGED <<stage, hd, hc, todo, removed>>
    BY <1>1 DEF Holding, TypeOK
  <1> HIDE DEF SweepStart, server, world, request
  <1> QED
    BY <1>2, <1>3, <1>4, <1>5, IdleStep

\* A viewer's server closes what it finds (_deny_all).
LEMMA DenyAllStep ==
    ASSUME IndInv, DenyAll
    PROVE  IndInv'
  <1> USE DEF DenyAll, server, world, request, sweep
  <1>1. TypeOK /\ WorldOK /\ ServerOK /\ RequestOK
    BY TypeParts DEF IndInv
  <1>2. WorldOK' /\ ServerOK' /\ RequestOK'
    BY <1>1 DEF WorldOK, ServerOK, RequestOK
  <1>3. loc' \in [Deploys -> {"none", "pending", "inflight", "done"}]
    BY <1>1 DEF TypeOK
  <1>4. \A d \in Deploys : loc'[d] = "none" <=> loc[d] = "none"
    OBVIOUS
  <1>5. \A d \in Deploys : loc[d] = "pending" => Keeps(copy[d], Finished(copy[d], "denied"))
    BY FinishedKeeps DEF IndInv, JournalOK, Outcomes
  <1>6. \A d \in Deploys : \/ copy'[d] = copy[d]
                           \/ /\ loc[d] = "pending"
                              /\ copy'[d] = Finished(copy[d], "denied")
    OBVIOUS
  <1>7. copy' \in [Deploys -> Entry \cup {NoEntry}]
    BY <1>1, <1>5 DEF TypeOK, Keeps, Phased
  <1>8. /\ ~Holding /\ ~Holding' /\ at' = "idle"
        /\ clock' \in Nat /\ due' \subseteq Deploys
        /\ UNCHANGED <<stage, hd, hc, todo, removed>>
    BY <1>1 DEF Holding, TypeOK
  <1> HIDE DEF DenyAll, server, world, request, sweep
  <1> QED
    BY <1>2, <1>3, <1>4, <1>5, <1>6, <1>7, <1>8, IdleStep

\* A sweep ends.
LEMMA SweepEndStep ==
    ASSUME IndInv, SweepEnd
    PROVE  IndInv'
  <1> USE DEF SweepEnd, server, world, request, journal
  <1>1. TypeOK /\ WorldOK /\ ServerOK /\ RequestOK
    BY TypeParts DEF IndInv
  <1>2. WorldOK' /\ ServerOK' /\ RequestOK'
    BY <1>1 DEF WorldOK, ServerOK, RequestOK
  <1>3. /\ ~Holding /\ ~Holding' /\ at' = "idle"
        /\ clock' \in Nat /\ due' \subseteq Deploys /\ copy' = copy /\ loc' = loc
        /\ loc' \in [Deploys -> {"none", "pending", "inflight", "done"}]
        /\ copy' \in [Deploys -> Entry \cup {NoEntry}]
        /\ UNCHANGED <<stage, hd, hc, todo, removed>>
    BY <1>1 DEF Holding, TypeOK
  <1> HIDE DEF SweepEnd, server, world, request, journal
  <1> QED
    BY <1>2, <1>3, IdleStep

\* A claim that could not be stamped moves the file and nothing else (claim).
LEMMA ClaimFailsStep ==
    ASSUME IndInv, NEW d \in Deploys, ClaimFails(d)
    PROVE  IndInv'
  <1> USE DEF ClaimFails, Fault, world, request
  <1>1. TypeOK /\ WorldOK /\ ServerOK /\ RequestOK
    BY TypeParts DEF IndInv
  <1>2. WorldOK' /\ ServerOK' /\ RequestOK'
    BY <1>1 DEF WorldOK, ServerOK, RequestOK
  <1>3. /\ ~Holding /\ ~Holding' /\ at' = "sweep"
        /\ clock' \in Nat /\ due' \subseteq Deploys /\ copy' = copy
        /\ loc' \in [Deploys -> {"none", "pending", "inflight", "done"}]
        /\ copy' \in [Deploys -> Entry \cup {NoEntry}]
        /\ UNCHANGED <<stage, hd, hc, todo, removed>>
    BY <1>1 DEF Holding, TypeOK
  <1>4. \A o \in Deploys : loc'[o] = "none" <=> loc[o] = "none"
    BY <1>1 DEF TypeOK
  <1> HIDE DEF ClaimFails, Fault, world, request
  <1> QED
    BY <1>2, <1>3, <1>4, IdleStep

-----------------------------------------------------------------------------
(* Taking an entry up and putting it down. *)

\* A claim takes the stored copy: what it licensed, the copy in memory licenses (claim).
LEMMA ClaimStep ==
    ASSUME IndInv, NEW d \in Deploys, Claim(d)
    PROVE  IndInv'
  <1> USE DEF server, world, request
  <1>1. TypeOK /\ WorldOK /\ ServerOK /\ RequestOK /\ JournalOK /\ CommitLast
    BY TypeParts DEF IndInv
  <1>2. WorldOK' /\ ServerOK' /\ RequestOK'
    BY <1>1 DEF WorldOK, ServerOK, RequestOK, Claim
  <1>3. CASE loc[d] = "pending"
    <2>1. /\ loc' = [loc EXCEPT ![d] = "inflight"] /\ at' = "claimed" /\ hd' = d
          /\ hc' = copy[d] /\ due' = due \ {d}
          /\ UNCHANGED <<now, server, world, copy, request, clock, todo, removed>>
      BY <1>3 DEF Claim
    <2>2. Phased(copy[d])
      BY <1>1, <1>3 DEF JournalOK
    <2>3. TypeOK'
      BY <1>1, <1>2, <2>1, <2>2 DEF TypeOK, WorldOK, ServerOK, RequestOK, Phased
    <2>4. JournalOK'
      BY <1>1, <1>3, <2>1 DEF JournalOK, TypeOK
    <2>5. HeldOK'
      BY <1>1, <2>1, <2>2 DEF HeldOK, Holding, TypeOK, CommitLast
    <2>6. CommitLast'
      BY <1>1, <2>1 DEF CommitLast
    <2> QED
      BY <2>3, <2>4, <2>5, <2>6 DEF IndInv
  <1>4. CASE loc[d] # "pending"
    <2>1. /\ at' = at /\ at = "sweep" /\ loc' = loc /\ copy' = copy /\ due' \subseteq Deploys
          /\ UNCHANGED <<stage, clock, hd, hc, todo, removed>>
      BY <1>1, <1>4 DEF Claim, TypeOK
    <2> QED
      BY <1>1, <1>2, <2>1, IdleStep DEF Holding, TypeOK
  <1> QED
    BY <1>3, <1>4

\* The holder's copy, licensed for whatever its calls destroyed, becomes the stored one
\* (release, finish, _move_out).
LEMMA WriteBackStep ==
    ASSUME IndInv, WriteBack
    PROVE  IndInv'
  <1> DEFINE f == Merged(hc, copy[hd])
  <1>1. /\ at = "write" /\ loc[hd] = "inflight"
        /\ copy' = [copy EXCEPT ![hd] = f]
        /\ loc' = [loc EXCEPT ![hd] = IF Open(hc) THEN "pending" ELSE "done"]
        /\ at' = "sweep" /\ hd' = NoDeploy /\ hc' = NoEntry /\ todo' = {}
        /\ UNCHANGED <<now, server, world, request, clock, due, removed>>
    BY DEF WriteBack
  <1>2. TypeOK /\ WorldOK /\ ServerOK /\ RequestOK /\ JournalOK /\ CommitLast
    BY TypeParts DEF IndInv
  <1>3. hd \in Deploys /\ Phased(hc) /\ (removed[hd] # {} => ReadyToRetire(hc))
    BY <1>1 DEF IndInv, HeldOK, Holding
  <1>4. Phased(copy[hd])
    BY <1>1, <1>2, <1>3 DEF JournalOK
  <1>5. Keeps(hc, f)
    BY <1>3, <1>4, MergedKeeps DEF Phased
  <1> HIDE DEF f
  <1>6. WorldOK' /\ ServerOK' /\ RequestOK'
    BY <1>1, <1>2 DEF WorldOK, ServerOK, RequestOK, server, world, request
  <1>7. /\ \A d \in Deploys \ {hd} : copy'[d] = copy[d] /\ loc'[d] = loc[d]
        /\ copy'[hd] = f /\ loc'[hd] \in {"pending", "done"}
    BY <1>1, <1>2, <1>3 DEF TypeOK
  <1>8. TypeOK'
    BY <1>1, <1>2, <1>3, <1>5, <1>6 DEF TypeOK, WorldOK, ServerOK, RequestOK, Keeps, Phased
  <1>9. JournalOK'
    <2>1. stage' = stage /\ removed' = removed
      BY <1>1 DEF request
    <2>2. Phased(f)
      BY <1>5 DEF Keeps
    <2> QED
      BY <1>1, <1>2, <1>3, <1>7, <2>1, <2>2 DEF JournalOK
  <1>10. HeldOK'
    BY <1>1 DEF HeldOK, Holding
  <1>11. CommitLast'
    BY <1>1, <1>2, <1>3, <1>5, <1>7 DEF CommitLast, Keeps
  <1> QED
    BY <1>8, <1>9, <1>10, <1>11 DEF IndInv

\* A write-back that fails leaves the stored copy, licensed since the claim.
LEMMA WriteBackFailsStep ==
    ASSUME IndInv, WriteBackFails
    PROVE  IndInv'
  <1> USE DEF WriteBackFails, Fault, world, request, journal
  <1>1. TypeOK /\ WorldOK /\ ServerOK /\ RequestOK /\ JournalOK /\ CommitLast
    BY TypeParts DEF IndInv
  <1>2. TypeOK'
    BY <1>1 DEF TypeOK
  <1>3. JournalOK'
    BY <1>1 DEF JournalOK
  <1>4. HeldOK'
    BY DEF HeldOK, Holding
  <1>5. CommitLast'
    BY <1>1 DEF CommitLast
  <1> QED
    BY <1>2, <1>3, <1>4, <1>5 DEF IndInv

\* A crash leaves the stored copies, and they are licensed for whatever was destroyed.
LEMMA RestartStep ==
    ASSUME IndInv, Restart
    PROVE  IndInv'
  <1> DEFINE resumed(d) == loc[d] \in {"pending", "inflight"}
             late(d)    == resumed(d) /\ now > copy[d].deadline
  <1>1. /\ loc' = [d \in Deploys |->
                     IF late(d) THEN "done" ELSE IF resumed(d) THEN "pending" ELSE loc[d]]
        /\ copy' = [d \in Deploys |->
                      IF loc[d] = "none" THEN NoEntry
                      ELSE IF late(d) THEN ExpiredRegistration(copy[d]) ELSE copy[d]]
        /\ stage' = [d \in Deploys |-> IF stage[d] = "new" THEN "new" ELSE "settled"]
        /\ orphans' = [d \in Deploys |-> {}] /\ pausing' = {}
        /\ at' = "idle" /\ clock' = 0 /\ due' = {} /\ hd' = NoDeploy /\ hc' = NoEntry /\ todo' = {}
        /\ role' \in {"editor", "viewer"} /\ faults' = faults + 1
        /\ UNCHANGED <<now, interventions, world, removed>>
    BY DEF Restart, Fault
  <1>2. TypeOK /\ WorldOK /\ ServerOK /\ RequestOK /\ JournalOK /\ CommitLast
    BY TypeParts DEF IndInv
  <1>3. ASSUME NEW d \in Deploys, loc[d] # "none"
        PROVE  Keeps(copy[d], copy'[d])
    <2>1. Phased(copy[d])
      BY <1>2, <1>3 DEF JournalOK
    <2> HIDE DEF late
    <2> QED
      BY <1>1, <1>3, <2>1, ExpiredRegistrationKeeps, Reflexive
  <1>4. \A d \in Deploys : /\ loc'[d] \in {"none", "pending", "inflight", "done"}
                           /\ loc'[d] = "none" <=> loc[d] = "none"
                           /\ loc[d] = "none" => copy'[d] = NoEntry
    BY <1>1, <1>2 DEF TypeOK
  <1>5. /\ loc' \in [Deploys -> {"none", "pending", "inflight", "done"}]
        /\ copy' \in [Deploys -> Entry \cup {NoEntry}]
    <2>1. \A d \in Deploys : copy'[d] \in Entry \cup {NoEntry}
      BY <1>3, <1>4 DEF Keeps, Phased
    <2> HIDE DEF late, resumed
    <2> QED
      BY <1>1, <1>4, <2>1
  <1>6. /\ stage' \in [Deploys -> {"new", "settled"}]
        /\ \A d \in Deploys : stage'[d] = "new" => stage[d] = "new"
    BY <1>1
  <1> HIDE DEF late, resumed
  <1>7. WorldOK' /\ ServerOK' /\ RequestOK'
    BY <1>1, <1>2, <1>6 DEF WorldOK, ServerOK, RequestOK, world
  <1>8. TypeOK'
    BY <1>1, <1>2, <1>5, <1>7 DEF TypeOK, WorldOK, ServerOK, RequestOK
  <1>9. JournalOK'
    BY <1>1, <1>2, <1>3, <1>4, <1>6 DEF JournalOK, Keeps
  <1>10. HeldOK'
    BY <1>1 DEF HeldOK, Holding
  <1>11. CommitLast'
    BY <1>1, <1>2, <1>3, <1>4 DEF CommitLast, JournalOK, Keeps
  <1> QED
    BY <1>8, <1>9, <1>10, <1>11 DEF IndInv

-----------------------------------------------------------------------------
(* Steps of advance, on the entry the sweep holds. *)

\* A handler that ends in e: what it destroyed, it destroyed in the retire step.
LEMMA YieldStep ==
    ASSUME IndInv, Holding, NEW e, Yield(e), Keeps(hc, e), WorldOK',
           removed' \in [Deploys -> SUBSET Dags],
           \A d \in Deploys : removed'[d] # {} => removed[d] # {} \/ (d = hd /\ at = "retire")
    PROVE  IndInv'
  <1>1. TypeOK /\ ServerOK /\ RequestOK /\ JournalOK /\ HeldOK /\ CommitLast
    BY TypeParts DEF IndInv
  <1>2. /\ hc' = e /\ at' = "write" /\ hd' = hd /\ loc' = loc /\ copy' = copy
        /\ UNCHANGED <<now, server, request, clock, due, todo>>
    BY DEF Yield, journal
  <1>3. Phased(e) /\ (ReadyToRetire(hc) => ReadyToRetire(e))
    BY DEF Keeps
  <1>4. hd \in Deploys /\ loc[hd] = "inflight" /\ (removed[hd] # {} => ReadyToRetire(hc))
        /\ (at = "retire" => ReadyToRetire(hc) /\ ReadyToRetire(copy[hd]))
    BY <1>1 DEF HeldOK
  <1>5. TypeOK'
    BY <1>1, <1>2, <1>3 DEF TypeOK, WorldOK, server, request, Phased
  <1>6. JournalOK'
    BY <1>1, <1>2, <1>4 DEF JournalOK, request
  <1>7. HeldOK'
    BY <1>2, <1>3, <1>4 DEF HeldOK, Holding
  <1>8. CommitLast'
    BY <1>1, <1>2, <1>4 DEF CommitLast
  <1> QED
    BY <1>5, <1>6, <1>7, <1>8 DEF IndInv

\* The common case: the handler has destroyed nothing.
LEMMA QuietYieldStep ==
    ASSUME IndInv, Holding, NEW e, Yield(e), Keeps(hc, e), WorldOK', removed' = removed
    PROVE  IndInv'
  BY YieldStep DEF IndInv, TypeOK

\* The same for a handler that changed nothing outside either.
LEMMA StillYieldStep ==
    ASSUME IndInv, Holding, NEW e, Yield(e), Keeps(hc, e), StillWorld
    PROVE  IndInv'
  <1>1. WorldOK /\ WorldOK' /\ removed' = removed
    BY TypeParts DEF IndInv, StillWorld, WorldOK, world
  <1> QED
    BY <1>1, QuietYieldStep

\* In "retiring" there is nothing left for a veto to skip.
LEMMA VetoKeepsRetiring ==
    ASSUME NEW e, Phased(e), e.phase = "retiring", ReadyToRetire(VetoHonoured(e))
    PROVE  ReadyToRetire(e)
  <1> DEFINE f == UnpauseVetoed(e)
  <1>1. \A name \in {"registered", "unpause", "trigger"} : f.steps[name] = e.steps[name]
    BY DEF UnpauseVetoed, Skipped, Phased, Entry, Pending, StepNames
  <1>2. f \in Entry
    BY UnpauseVetoedKeeps DEF Keeps, Phased
  <1> HIDE DEF f
  <1>3. [f EXCEPT !.veto = "consumed"].steps = f.steps
    BY <1>2 DEF Entry
  <1>4. VetoHonoured(e) \in {e, [f EXCEPT !.veto = "consumed"]}
    BY DEF VetoHonoured, f
  <1> QED
    BY <1>1, <1>3, <1>4 DEF ReadyToRetire

\* A handler that goes on to its calls.
LEMMA EnterStep ==
    ASSUME IndInv, at = "claimed", NEW targets \in SUBSET Dags,
           NEW step \in {"quiesce", "unpause", "trigger", "retire"}, Enter(step, targets),
           step \in {"unpause", "trigger"} => Pending(Now, step),
           step = "retire" => hc.phase = "retiring" /\ ReadyToRetire(Now)
    PROVE  IndInv'
  <1>1. TypeOK /\ WorldOK /\ ServerOK /\ RequestOK /\ JournalOK /\ HeldOK /\ CommitLast
    BY TypeParts DEF IndInv
  <1>2. /\ hc' = Now /\ at' = step /\ todo' = targets /\ hd' = hd /\ loc' = loc /\ copy' = copy
        /\ UNCHANGED <<now, server, world, request, clock, due, removed>>
    BY DEF Enter, journal
  <1>3. Phased(hc) /\ hd \in Deploys /\ loc[hd] = "inflight"
        /\ (removed[hd] # {} => ReadyToRetire(hc))
        /\ (ReadyToRetire(hc) => ReadyToRetire(copy[hd]))
    BY <1>1 DEF HeldOK, Holding
  <1>4. Keeps(hc, Now)
    BY <1>3, VetoHonouredKeeps DEF Now
  <1>5. step = "retire" => ReadyToRetire(hc)
    BY <1>3, VetoKeepsRetiring DEF Now
  <1> HIDE DEF Now
  <1>6. TypeOK'
    BY <1>1, <1>2, <1>4 DEF TypeOK, server, world, request, Keeps, Phased
  <1>7. JournalOK' /\ CommitLast'
    BY <1>1, <1>2 DEF JournalOK, CommitLast, request
  <1>8. HeldOK'
    BY <1>2, <1>3, <1>4, <1>5 DEF HeldOK, Holding, Keeps, Pending
  <1> QED
    BY <1>6, <1>7, <1>8 DEF IndInv

\* An error is retried or closes the entry; only the retire step may meet one with a
\* licence in hand (_fail_step, _backoff).
LEMMA StumbleKeeps ==
    ASSUME NEW e, Phased(e), NEW name \in StepNames, name = "retire" \/ ~ReadyToRetire(e),
           NEW f \in Stumble(e, name)
    PROVE  Keeps(e, f)
  BY StepFailedKeeps, BackedOffKeeps DEF Stumble

\* Licences are kept along a chain of changes.
LEMMA Transitive ==
    \A e, f, g : Keeps(e, f) /\ Keeps(f, g) => Keeps(e, g)
  BY DEF Keeps

\* The entry as a phase handler finds it.
LEMMA NowPhased ==
    ASSUME IndInv, at = "claimed"
    PROVE  /\ Holding /\ Phased(hc) /\ Phased(Now) /\ Keeps(hc, Now) /\ Now.phase = hc.phase
           /\ hd \in Deploys
  BY VetoHonouredKeeps DEF IndInv, HeldOK, Holding, Now, Keeps

\* A phase handler that ends without a call to Airflow.
LEMMA HandlerStep ==
    ASSUME IndInv, at = "claimed", NEW f, Yield(f), Keeps(Now, f), StillWorld
    PROVE  IndInv'
  BY NowPhased, Transitive, StillYieldStep

\* A superseded file, and a target that could not be read.
LEMMA SupersededKeeps ==
    ASSUME NEW e, Phased(e)
    PROVE  Keeps(e, Finished(e, "superseded"))
  BY FinishedKeeps DEF Outcomes

\* advance honours a stop before any phase.
LEMMA StopAdvanceStep ==
    ASSUME IndInv, StopAdvance
    PROVE  IndInv'
  BY NowPhased, StopHonouredKeeps, StillYieldStep DEF StopAdvance

\* _do_registration: expired, import error, registered, or polled again.
LEMMA PollStep ==
    ASSUME IndInv, Poll
    PROVE  IndInv'
  <1> DEFINE n == IF Now.polls < MinPolls THEN Now.polls + 1 ELSE Now.polls
             polled == [Now EXCEPT !.polls = n]
  <1>1. at = "claimed" /\ StillWorld /\ hc.phase = "awaiting_registration"
    BY DEF Poll, InPhase
  <1>2. Phased(Now) /\ ~ReadyToRetire(Now)
    BY <1>1, NowPhased DEF Phased, ReadyToRetire
  <1>3. n \in 0 .. MinPolls
    <2>1. Now.polls \in 0 .. MinPolls
      BY <1>2 DEF Phased, Entry
    <2> QED
      BY <2>1, BoundsAssumption
  <1> HIDE DEF n
  <1>4. Keeps(Now, polled) /\ polled.steps = Now.steps
    <2>1. {} \in SUBSET Dags /\ 0 \in Nat /\ FALSE \in BOOLEAN
      OBVIOUS
    <2>2. Keeps(Now, polled)
      BY <1>2, <1>3, <2>1, FieldsKeep
    <2>3. polled.steps = Now.steps
      BY <1>2 DEF Phased, Entry
    <2> QED
      BY <2>2, <2>3
  <1>5. Phased(polled) /\ ~ReadyToRetire(polled)
    BY <1>2, <1>4 DEF Keeps, ReadyToRetire
  <1>6. \/ Yield(ExpiredRegistration(Now))
        \/ Yield(ImportFailed(polled))
        \/ Yield(Registered(polled, clock, Grace))
        \/ Yield(BackedOff(polled, "registered"))
        \/ \E f \in Stumble(polled, "registered") : Yield(f)
    BY DEF Poll, n
  <1> HIDE DEF polled
  <1>7. Keeps(Now, ExpiredRegistration(Now))
    BY <1>2, ExpiredRegistrationKeeps
  <1>8. Keeps(Now, ImportFailed(polled))
    BY <1>4, <1>5, ImportFailedKeeps, Transitive
  <1>9. Keeps(Now, Registered(polled, clock, Grace))
    <2>1. clock \in Nat /\ Grace \in Nat
      BY LifecycleAssumption DEF IndInv, TypeOK
    <2> QED
      BY <1>4, <1>5, <2>1, RegisteredKeeps, Transitive
  <1>10. Keeps(Now, BackedOff(polled, "registered"))
    BY <1>4, <1>5, BackedOffKeeps, Transitive DEF StepNames
  <1>11. \A f \in Stumble(polled, "registered") : Keeps(Now, f)
    BY <1>4, <1>5, StumbleKeeps, Transitive DEF StepNames
  <1> HIDE DEF Now
  <1> QED
    BY <1>1, <1>6, <1>7, <1>8, <1>9, <1>10, <1>11, HandlerStep

\* _do_quiesce up to its calls.
LEMMA QuiesceStep ==
    ASSUME IndInv, Quiesce
    PROVE  IndInv'
  <1>1. at = "claimed" /\ Phased(Now)
    BY NowPhased DEF Quiesce, InPhase
  <1>2. \/ /\ StillWorld
           /\ \E f \in {[Now EXCEPT !.phase = NextPhase(Now)], Finished(Now, "superseded"),
                        QuiesceSettled(Now, "elapsed"), QuiesceSettled(Now, "unobserved"),
                        QuiesceSettled(Now, "failed"), BackedOff(Now, "quiesce")} : Yield(f)
        \/ Enter("quiesce", OldDags(Now))
    BY DEF Quiesce
  <1>3. Keeps(Now, [Now EXCEPT !.phase = NextPhase(Now)])
    BY <1>1, NextPhaseKeeps DEF Phased
  <1>4. Keeps(Now, Finished(Now, "superseded"))
    BY <1>1, SupersededKeeps
  <1>5. /\ Keeps(Now, QuiesceSettled(Now, "elapsed"))
        /\ Keeps(Now, QuiesceSettled(Now, "unobserved"))
        /\ Keeps(Now, QuiesceSettled(Now, "failed"))
    BY <1>1, QuiesceSettledKeeps DEF StepStates, BudgetSkips
  <1>6. Keeps(Now, BackedOff(Now, "quiesce"))
    BY <1>1, BackedOffKeeps DEF StepNames
  <1>7. OldDags(Now) \in SUBSET Dags
    BY <1>1 DEF OldDags, Phased, Entry
  <1> HIDE DEF Now
  <1>8. CASE Enter("quiesce", OldDags(Now))
    BY <1>1, <1>7, <1>8, EnterStep
  <1>9. CASE ~Enter("quiesce", OldDags(Now))
    BY <1>1, <1>2, <1>3, <1>4, <1>5, <1>6, <1>9, HandlerStep
  <1> QED
    BY <1>8, <1>9

\* _do_unpause up to its call.
LEMMA UnpauseStep ==
    ASSUME IndInv, Unpause
    PROVE  IndInv'
  <1> DEFINE skipped == Skipped(Now, {"unpause", "trigger"}, "elapsed")
             vetoed == Skipped(Now, {"trigger"}, Now.steps["unpause"])
  <1>1. at = "claimed" /\ Phased(Now)
    BY NowPhased DEF Unpause, InPhase
  <1>2. \/ /\ StillWorld
           /\ \E f \in {Terminated(skipped, "expired"), [Now EXCEPT !.phase = "triggering"],
                        Finished(Now, "superseded"), BackedOff(Now, "unpause")} : Yield(f)
        \/ /\ StillWorld /\ Yield(Finished(vetoed, "completed"))
           /\ Now.steps["unpause"] \in BudgetSkips \cup {"vetoed"}
        \/ Enter("unpause", {}) /\ Pending(Now, "unpause")
    BY DEF Unpause
  <1>3. Keeps(Now, Terminated(skipped, "expired"))
    <2>1. Keeps(Now, skipped)
      BY <1>1, SkippedKeeps DEF StepNames, StepStates, BudgetSkips
    <2> QED
      BY <2>1, TerminatedKeeps, Transitive DEF Keeps, Outcomes
  <1>4. ASSUME Now.steps["unpause"] \in BudgetSkips \cup {"vetoed"}
        PROVE  Keeps(Now, Finished(vetoed, "completed"))
    <2>1. Keeps(Now, vetoed)
      BY <1>1, <1>4, SkippedKeeps DEF StepNames, StepStates, BudgetSkips, DeliberateSkips
    <2> QED
      BY <2>1, FinishedKeeps, Transitive DEF Keeps, Outcomes
  <1>5. Keeps(Now, [Now EXCEPT !.phase = "triggering"])
    <2>1. {} \in SUBSET Dags /\ 0 \in Nat /\ 0 \in 0 .. MinPolls /\ FALSE \in BOOLEAN
      BY BoundsAssumption
    <2> QED
      BY <1>1, <2>1, FieldsKeep
  <1>6. Keeps(Now, Finished(Now, "superseded")) /\ Keeps(Now, BackedOff(Now, "unpause"))
    BY <1>1, SupersededKeeps, BackedOffKeeps DEF StepNames
  <1> HIDE DEF Now, skipped, vetoed
  <1>7. CASE Enter("unpause", {}) /\ Pending(Now, "unpause")
    BY <1>1, <1>7, EnterStep
  <1>8. CASE ~(Enter("unpause", {}) /\ Pending(Now, "unpause"))
    BY <1>1, <1>2, <1>3, <1>4, <1>5, <1>6, <1>8, HandlerStep
  <1> QED
    BY <1>7, <1>8

\* _do_trigger up to its call.
LEMMA TriggerStep ==
    ASSUME IndInv, Trigger
    PROVE  IndInv'
  <1> DEFINE off == Skipped(Now, {"trigger"}, "run_off")
             skipped == Skipped(Now, {"trigger"}, "elapsed")
  <1>1. at = "claimed" /\ Phased(Now)
    BY NowPhased DEF Trigger, InPhase
  <1>2. \/ /\ StillWorld
           /\ \E f \in {Finished(off, "completed"), Terminated(skipped, "expired"),
                        Finished(Now, "superseded"), BackedOff(Now, "trigger")} : Yield(f)
        \/ Enter("trigger", {}) /\ Pending(Now, "trigger")
    BY DEF Trigger
  <1>3. Keeps(Now, Finished(off, "completed"))
    <2>1. Keeps(Now, off)
      BY <1>1, SkippedKeeps DEF StepNames, StepStates, DeliberateSkips
    <2> QED
      BY <2>1, FinishedKeeps, Transitive DEF Keeps, Outcomes
  <1>4. Keeps(Now, Terminated(skipped, "expired"))
    <2>1. Keeps(Now, skipped)
      BY <1>1, SkippedKeeps DEF StepNames, StepStates, BudgetSkips
    <2> QED
      BY <2>1, TerminatedKeeps, Transitive DEF Keeps, Outcomes
  <1>5. Keeps(Now, Finished(Now, "superseded")) /\ Keeps(Now, BackedOff(Now, "trigger"))
    BY <1>1, SupersededKeeps, BackedOffKeeps DEF StepNames
  <1> HIDE DEF Now, skipped, off
  <1>6. CASE Enter("trigger", {}) /\ Pending(Now, "trigger")
    BY <1>1, <1>6, EnterStep
  <1>7. CASE ~(Enter("trigger", {}) /\ Pending(Now, "trigger"))
    BY <1>1, <1>2, <1>3, <1>4, <1>5, <1>7, HandlerStep
  <1> QED
    BY <1>6, <1>7

\* _do_retire up to its calls: it goes on to them only with a licence.
LEMMA RetireStep ==
    ASSUME IndInv, Retire
    PROVE  IndInv'
  <1> DEFINE skipped == Skipped(Now, {"retire", "unpause", "trigger"}, "elapsed")
             blocked == Settled(Now, "retire", "blocked")
             refused == Settled(Now, "retire", "refused")
             targets == OldDags(Now) \ Now.retired
  <1>1. at = "claimed" /\ Phased(Now) /\ hc.phase = "retiring"
    BY NowPhased DEF Retire, InPhase
  <1>2. \/ /\ StillWorld
           /\ \E f \in {Terminated(blocked, "expired"), [Now EXCEPT !.phase = "unpausing"],
                        Terminated(skipped, "expired"), Terminated(refused, "completed"),
                        Finished(Now, "superseded"), BackedOff(Now, "retire"),
                        StepFailed(Now, "retire")} : Yield(f)
        \/ Enter("retire", targets) /\ ReadyToRetire(Now)
    BY DEF Retire
  <1>3. Keeps(Now, Terminated(skipped, "expired"))
    <2>1. Keeps(Now, skipped)
      BY <1>1, SkippedKeeps DEF StepNames, StepStates, BudgetSkips
    <2> QED
      BY <2>1, TerminatedKeeps, Transitive DEF Keeps, Outcomes
  <1>4. Keeps(Now, Terminated(blocked, "expired")) /\ Keeps(Now, Terminated(refused, "completed"))
    <2>1. Keeps(Now, blocked) /\ Keeps(Now, refused)
      BY <1>1, SettledKeeps DEF StepStates
    <2> QED
      BY <2>1, TerminatedKeeps, Transitive DEF Keeps, Outcomes
  <1>5. Keeps(Now, [Now EXCEPT !.phase = "unpausing"])
    <2>1. {} \in SUBSET Dags /\ 0 \in Nat /\ 0 \in 0 .. MinPolls /\ FALSE \in BOOLEAN
      BY BoundsAssumption
    <2> QED
      BY <1>1, <2>1, FieldsKeep
  <1>6. /\ Keeps(Now, Finished(Now, "superseded")) /\ Keeps(Now, BackedOff(Now, "retire"))
        /\ Keeps(Now, StepFailed(Now, "retire"))
    BY <1>1, SupersededKeeps, BackedOffKeeps, StepFailedKeeps DEF StepNames
  <1>7. targets \in SUBSET Dags
    BY <1>1 DEF OldDags, Phased, Entry
  <1> HIDE DEF Now, skipped, blocked, refused, targets
  <1>8. CASE Enter("retire", targets) /\ ReadyToRetire(Now)
    BY <1>1, <1>7, <1>8, EnterStep
  <1>9. CASE ~(Enter("retire", targets) /\ ReadyToRetire(Now))
    BY <1>1, <1>2, <1>3, <1>4, <1>5, <1>6, <1>9, HandlerStep
  <1> QED
    BY <1>8, <1>9

\* advance on an entry with nothing left to do.
LEMMA ConcludeStep ==
    ASSUME IndInv, Conclude
    PROVE  IndInv'
  <1>1. at = "claimed" /\ Phased(Now) /\ Yield(Terminated(Now, "completed")) /\ StillWorld
    BY NowPhased DEF Conclude, InPhase
  <1>2. Keeps(Now, Terminated(Now, "completed"))
    BY <1>1, TerminatedKeeps DEF Outcomes
  <1> QED
    BY <1>1, <1>2, HandlerStep

-----------------------------------------------------------------------------
(* The calls of a step. *)

\* Between its calls the quiesce step changes the world and its own list only; so
\* does a retire target that is left alone.
LEMMA CallStep ==
    ASSUME IndInv, WorldOK', todo' \subseteq Dags,
           UNCHANGED <<now, server, journal, request, at, clock, due, hd, hc, removed>>
    PROVE  IndInv'
  <1>1. TypeOK /\ ServerOK /\ RequestOK
    BY TypeParts DEF IndInv
  <1>2. TypeOK'
    BY <1>1 DEF TypeOK, WorldOK, server, journal, request
  <1>3. JournalOK' /\ HeldOK' /\ CommitLast'
    BY DEF IndInv, JournalOK, HeldOK, Holding, CommitLast, journal, request
  <1> QED
    BY <1>2, <1>3 DEF IndInv

\* A paused row is a row.
LEMMA PausedRowType ==
    ASSUME WorldOK, NEW g \in Dags
    PROVE  PausedRow(g) \in [Dags -> RowStates]
  BY DEF WorldOK, PausedRow, RowStates

\* The entry in memory at a call.
LEMMA HeldParts ==
    ASSUME IndInv, at \in {"quiesce", "unpause", "trigger", "retire"}
    PROVE  /\ Holding /\ Phased(hc) /\ hd \in Deploys /\ WorldOK /\ todo \subseteq Dags
           /\ at \in {"unpause", "trigger"} => ~ReadyToRetire(hc)
           /\ at = "retire" => ReadyToRetire(hc) /\ ReadyToRetire(copy[hd])
  <1>1. Holding /\ HeldOK /\ TypeOK
    BY DEF IndInv, Holding
  <1> QED
    BY <1>1, TypeParts DEF HeldOK, Pending, ReadyToRetire, DeliberateSkips, TypeOK

\* One old DAG is paused.
LEMMA QuiesceOneStep ==
    ASSUME IndInv, NEW g \in Dags, QuiesceOne(g)
    PROVE  IndInv'
  <1>1. WorldOK /\ hd \in Deploys /\ todo \subseteq Dags
    BY HeldParts DEF QuiesceOne
  <1>2. woken' \in [Deploys -> SUBSET Dags]
    BY <1>1 DEF QuiesceOne, WorldOK
  <1>3. WorldOK' /\ todo' \subseteq Dags
    BY <1>1, <1>2, PausedRowType DEF QuiesceOne, WorldOK
  <1> QED
    BY <1>3, CallStep DEF QuiesceOne

\* Pausing an old DAG fails.
LEMMA QuiesceFailsStep ==
    ASSUME IndInv, NEW g \in Dags, QuiesceFails(g)
    PROVE  IndInv'
  <1>1. Holding /\ Phased(hc) /\ WorldOK
    BY HeldParts DEF QuiesceFails
  <1>2. WorldOK' /\ removed' = removed
    BY <1>1, PausedRowType DEF QuiesceFails, WorldOK
  <1>3. Keeps(hc, BackedOff(hc, "quiesce")) /\ Keeps(hc, QuiesceSettled(hc, "failed"))
    BY <1>1, BackedOffKeeps, QuiesceSettledKeeps DEF StepNames, StepStates
  <1>4. Yield(BackedOff(hc, "quiesce")) \/ Yield(QuiesceSettled(hc, "failed"))
    BY DEF QuiesceFails
  <1> QED
    BY <1>1, <1>2, <1>3, <1>4, QuietYieldStep

\* Every old DAG is paused.
LEMMA QuiesceDoneStep ==
    ASSUME IndInv, QuiesceDone
    PROVE  IndInv'
  <1>1. Holding /\ Phased(hc)
    BY HeldParts DEF QuiesceDone
  <1>2. Keeps(hc, QuiesceSettled(hc, "done"))
    BY <1>1, QuiesceSettledKeeps DEF StepStates
  <1> QED
    BY <1>1, <1>2, StillYieldStep DEF QuiesceDone

\* The new DAG is unpaused: an entry that was still to be unpaused had no licence.
LEMMA UnpauseOKStep ==
    ASSUME IndInv, UnpauseOK
    PROVE  IndInv'
  <1>1. Holding /\ Phased(hc) /\ WorldOK /\ ~ReadyToRetire(hc) /\ hc.dag \in Dags
    BY HeldParts DEF UnpauseOK, Phased, Entry
  <1>2. WorldOK' /\ removed' = removed
    BY <1>1, WakesType DEF UnpauseOK, WorldOK
  <1> QED
    BY <1>1, <1>2, UnpausedKeeps, QuietYieldStep DEF UnpauseOK

\* Unpausing fails: the entry closes or tries again, still without a licence.
LEMMA UnpauseFailsStep ==
    ASSUME IndInv, UnpauseFails
    PROVE  IndInv'
  <1>1. Holding /\ Phased(hc) /\ WorldOK /\ ~ReadyToRetire(hc) /\ hc.dag \in Dags
    BY HeldParts DEF UnpauseFails, Phased, Entry
  <1>2. WorldOK' /\ removed' = removed
    BY <1>1, WakesType DEF UnpauseFails, WorldOK
  <1>3. PICK f \in Stumble(hc, "unpause") : Yield(f)
    BY DEF UnpauseFails
  <1>4. Keeps(hc, f)
    BY <1>1, <1>3, StumbleKeeps DEF StepNames
  <1> QED
    BY <1>1, <1>2, <1>3, <1>4, QuietYieldStep

\* The new DAG is triggered.
LEMMA TriggerOKStep ==
    ASSUME IndInv, TriggerOK
    PROVE  IndInv'
  <1>1. Holding /\ Phased(hc) /\ WorldOK /\ hd \in Deploys /\ ~ReadyToRetire(hc)
    BY HeldParts DEF TriggerOK
  <1>2. WorldOK' /\ removed' = removed
    BY <1>1 DEF TriggerOK, WorldOK
  <1> QED
    BY <1>1, <1>2, TriggeredKeeps, QuietYieldStep DEF TriggerOK

\* Triggering fails.
LEMMA TriggerFailsStep ==
    ASSUME IndInv, TriggerFails
    PROVE  IndInv'
  <1>1. Holding /\ Phased(hc) /\ WorldOK /\ hd \in Deploys /\ ~ReadyToRetire(hc)
    BY HeldParts DEF TriggerFails
  <1>2. WorldOK' /\ removed' = removed
    BY <1>1 DEF TriggerFails, WorldOK
  <1>3. PICK f \in Stumble(hc, "trigger") : Yield(f)
    BY DEF TriggerFails
  <1>4. Keeps(hc, f)
    BY <1>1, <1>3, StumbleKeeps DEF StepNames
  <1> QED
    BY <1>1, <1>2, <1>3, <1>4, QuietYieldStep

-----------------------------------------------------------------------------
(* The irreversible step. *)

\* What removing one file and one history leaves is a world.
LEMMA RemovalTypes ==
    ASSUME WorldOK, NEW g \in Dags
    PROVE  /\ [file EXCEPT ![g] = NoFile] \in [Dags -> FileStates]
           /\ RetiredRow(g) \in [Dags -> RowStates] /\ RetiredRuns(g) \subseteq Deploys
  BY PausedRowType DEF WorldOK, FileStates, RetiredRow, RetiredRuns, RowStates

\* One old DAG is destroyed: both the copy in memory and the stored one are licensed for
\* it, so that a crash finds the licence on disk (retire_old_dag).
LEMMA RetireOneStep ==
    ASSUME IndInv, NEW g \in Dags, RetireOne(g)
    PROVE  IndInv'
  <1> DEFINE R == hc.retired \cup {g}
             c == hc.committed \/ Destroys(g)
             f == [hc EXCEPT !.retired = R, !.committed = c]
  <1>1. /\ at = "retire" /\ RemoveFile(g) /\ row' = RetiredRow(g) /\ runs' = RetiredRuns(g)
        /\ Removes(g) /\ hc' = f /\ todo' = todo \ {g}
        /\ UNCHANGED <<now, server, importErr, woken, journal, request, at, clock, due, hd>>
    BY DEF RetireOne
  <1>2. /\ TypeOK /\ ServerOK /\ RequestOK /\ JournalOK /\ HeldOK /\ CommitLast
        /\ Phased(hc) /\ hd \in Deploys /\ WorldOK /\ loc[hd] = "inflight"
        /\ ReadyToRetire(hc) /\ ReadyToRetire(copy[hd])
    BY <1>1, HeldParts, TypeParts DEF IndInv, HeldOK, Holding
  <1>3. Keeps(hc, f)
    <2>1. R \in SUBSET Dags
      BY <1>2 DEF Phased, Entry
    <2>2. c \in BOOLEAN
      <3>1. hc.committed \in BOOLEAN
        BY <1>2 DEF Phased, Entry
      <3> QED
        BY <3>1, Zenon DEF Destroys
    <2>3. {} \in SUBSET Dags /\ 0 \in Nat /\ 0 \in 0 .. MinPolls
      BY BoundsAssumption
    <2> HIDE DEF R, c
    <2> QED
      BY <1>2, <2>1, <2>2, <2>3, FieldsKeep
  <1> HIDE DEF f
  <1>4. Phased(f) /\ ReadyToRetire(f)
    BY <1>2, <1>3 DEF Keeps
  <1>5. WorldOK'
    BY <1>1, <1>2, RemovalTypes DEF WorldOK, RemoveFile
  <1>6. /\ removed' \in [Deploys -> SUBSET Dags]
        /\ \A d \in Deploys \ {hd} : removed'[d] = removed[d]
    BY <1>1, <1>2 DEF Removes, TypeOK
  <1>7. TypeOK'
    BY <1>1, <1>2, <1>4, <1>5, <1>6 DEF TypeOK, WorldOK, server, journal, request, Phased
  <1>8. JournalOK'
    BY <1>1, <1>2, <1>6 DEF JournalOK, journal, request
  <1>9. HeldOK'
    BY <1>1, <1>2, <1>4 DEF HeldOK, Holding, journal
  <1>10. CommitLast'
    BY <1>1, <1>2, <1>6 DEF CommitLast, journal
  <1> QED
    BY <1>7, <1>8, <1>9, <1>10 DEF IndInv

\* A target that belongs to somebody else is left alone (_retire_ownership_block).
LEMMA RetireSkipsStep ==
    ASSUME IndInv, NEW g \in Dags, RetireSkips(g)
    PROVE  IndInv'
  <1>1. WorldOK /\ WorldOK' /\ todo' \subseteq Dags
    BY HeldParts DEF RetireSkips, WorldOK, world
  <1> QED
    BY <1>1, CallStep DEF RetireSkips

\* An error before anything was destroyed.
LEMMA RetireFailsStep ==
    ASSUME IndInv, NEW g \in Dags, RetireFails(g)
    PROVE  IndInv'
  <1>1. Holding /\ Phased(hc)
    BY HeldParts DEF RetireFails
  <1>2. PICK f \in Stumble(hc, "retire") : Yield(f)
    BY DEF RetireFails
  <1>3. Keeps(hc, f)
    BY <1>1, <1>2, StumbleKeeps DEF StepNames
  <1> QED
    BY <1>1, <1>2, <1>3, StillYieldStep DEF RetireFails

\* An error after the file is gone: the licence was there before the call.
LEMMA RetireBreaksStep ==
    ASSUME IndInv, NEW g \in Dags, RetireBreaks(g)
    PROVE  IndInv'
  <1>1. at = "retire" /\ Holding /\ Phased(hc) /\ WorldOK /\ hd \in Deploys
    BY HeldParts DEF RetireBreaks
  <1>2. removed \in [Deploys -> SUBSET Dags]
    BY DEF IndInv, TypeOK
  <1>3. WorldOK'
    BY <1>1, RemovalTypes DEF WorldOK, RemoveFile, RetireBreaks
  <1>4. \E S \in SUBSET Dags : removed' = [removed EXCEPT ![hd] = S]
    <2>1. removed[hd] \subseteq Dags
      BY <1>1, <1>2
    <2>2. removed' \in {[removed EXCEPT ![hd] = removed[hd]],
                        [removed EXCEPT ![hd] = removed[hd] \cup {g}]}
      BY <1>1, <1>2 DEF RetireBreaks, Removes
    <2> QED
      BY <2>1, <2>2
  <1>5. /\ removed' \in [Deploys -> SUBSET Dags]
        /\ \A d \in Deploys : removed'[d] # {} => removed[d] # {} \/ d = hd
    BY <1>1, <1>2, <1>4
  <1>6. PICK f \in Stumble(hc, "retire") : Yield(f)
    BY DEF RetireBreaks
  <1>7. Keeps(hc, f)
    BY <1>1, <1>6, StumbleKeeps DEF StepNames
  <1> QED
    BY <1>1, <1>3, <1>5, <1>6, <1>7, YieldStep

\* The queue of old DAGs is worked off.
LEMMA RetireDoneStep ==
    ASSUME IndInv, RetireDone
    PROVE  IndInv'
  <1>1. Holding /\ Phased(hc)
    BY HeldParts DEF RetireDone
  <1> QED
    BY <1>1, RetireSettledKeeps, StillYieldStep DEF RetireDone

-----------------------------------------------------------------------------
(* The theorems. *)

\* No handler, no step of a sweep, no crash and no tick of the clock breaks IndInv.
LEMMA Inductive == IndInv /\ [Next]_vars => IndInv'
  <1> SUFFICES ASSUME IndInv, [Next]_vars PROVE IndInv'
    OBVIOUS
  <1>1. CASE Handlers
    <2>1. UserDags \subseteq Dags
      BY LifecycleAssumption
    <2> QED
      BY <1>1, <2>1, DeployWriteStep, SupersedeStep, PutStep, PutFailsStep, CancelStep, ResumeStep,
         PauseVetoStep, PausePatchStep, UserUnpauseStep, UndeployStep DEF Handlers
  <1>2. CASE Advance
    <2>1. CASE \E g \in Dags : \/ QuiesceOne(g) \/ QuiesceFails(g) \/ RetireOne(g)
                               \/ RetireSkips(g) \/ RetireFails(g) \/ RetireBreaks(g)
      BY <2>1, QuiesceOneStep, QuiesceFailsStep, RetireOneStep, RetireSkipsStep, RetireFailsStep,
         RetireBreaksStep
    <2>2. CASE StopAdvance \/ Poll \/ Quiesce \/ QuiesceDone \/ Unpause \/ UnpauseOK
               \/ UnpauseFails
      BY <2>2, StopAdvanceStep, PollStep, QuiesceStep, QuiesceDoneStep, UnpauseStep, UnpauseOKStep,
         UnpauseFailsStep
    <2>3. CASE Trigger \/ TriggerOK \/ TriggerFails \/ Retire \/ RetireDone \/ Conclude
      BY <2>3, TriggerStep, TriggerOKStep, TriggerFailsStep, RetireStep, RetireDoneStep,
         ConcludeStep
    <2> QED
      BY <1>2, <2>1, <2>2, <2>3 DEF Advance
  <1>3. CASE Sweep /\ ~Advance
    BY <1>3, SweepStartStep, ClaimStep, ClaimFailsStep, DenyAllStep, SweepEndStep, WriteBackStep,
       WriteBackFailsStep DEF Sweep
  <1>4. CASE Restart \/ Tick \/ \E g \in Dags : Parse(g)
    BY <1>4, RestartStep, TickStep, ParseStep
  <1>5. CASE UNCHANGED vars
    <2>1. WorldOK /\ ServerOK /\ RequestOK
      BY TypeParts DEF IndInv
    <2>2. WorldOK' /\ ServerOK' /\ RequestOK'
      BY <1>5, <2>1 DEF vars, WorldOK, ServerOK, RequestOK, server, world, request
    <2> QED
      BY <1>5, <2>2, WorldStep DEF vars, request
  <1> QED
    BY <1>1, <1>2, <1>3, <1>4, <1>5 DEF Next

\* The stored entry, the copy a sweep holds and the history of what was destroyed
\* agree on the licence to destroy, through every interleaving and crash (_do_retire,
\* Journal._move_out, reopen_expired).
THEOREM IndInvHolds == Spec => []IndInv
  BY Initially, Inductive, PTL DEF Spec

\* Every variable keeps its type: through every handler the journal holds entries whose
\* phase, outcome and steps are ones the code knows, and the world stays a world.
THEOREM TypeCorrect == Spec => []TypeOK
  <1>1. IndInv => TypeOK
    BY DEF IndInv
  <1> QED
    BY <1>1, IndInvHolds, PTL

\* Commit-last, invariant I1 of reconciler.py: nothing is destroyed on behalf of a
\* deploy whose registration, unpause and trigger are not over, for any number of
\* deploys and DAGs and any budget.
THEOREM CommitsLast == Spec => []CommitLast
  <1>1. IndInv => CommitLast
    BY DEF IndInv
  <1> QED
    BY <1>1, IndInvHolds, PTL

-----------------------------------------------------------------------------
(* What is recorded lasts, and what is reported is true. *)

\* f is of the same DAG and the same flow as e.
SameFlow(e, f) == f.dag = e.dag /\ f.flow = e.flow

\* A journaled entry, or the draft of one, accounts for what it says.
Written(d) == loc[d] # "none" \/ stage[d] \in {"written", "scanned"}

JournalAccounts ==
    \A d \in Deploys :
        /\ Written(d) => Accounted(copy[d])
        /\ loc[d] \in {"pending", "inflight"} => Open(copy[d])
        /\ stage[d] \in {"written", "scanned"} =>
              Open(copy[d]) /\ copy[d].phase = "awaiting_registration"

\* So does the entry in memory, and it is in the phase whose calls are being made.
HeldAccounts ==
    /\ Holding => Accounted(hc)
    /\ Holding /\ at # "write" => Open(hc)
    /\ at = "quiesce" => hc.phase = "quiescing" /\ Pending(hc, "quiesce")
    /\ at = "unpause" => hc.phase = "unpausing"
    /\ at = "trigger" => hc.phase = "triggering"
    /\ at = "retire" => hc.phase = "retiring" /\ Pending(hc, "retire")

\* It is the deploy that was claimed, and there is one only while it is worked on.
HeldSame ==
    /\ Holding => SameFlow(copy[hd], hc)
    /\ ~Holding => hd = NoDeploy

\* The inductive invariant behind RequestsSurvive, DecisionsAreFinal and
\* CompletedIsEarned.
AccountInv == IndInv /\ JournalAccounts /\ HeldAccounts /\ HeldSame

\* f has the requests of e, or has honoured them.
Carries(e, f) ==
    /\ StopRequested(e) => StopRequested(f) \/ ~Open(f)
    /\ e.veto = "requested" =>
          f.veto = "requested" \/ (~Pending(f, "unpause") /\ ~Pending(f, "trigger"))

\* What a step does to d's place in the journal.
Lasting(d) ==
    /\ Written(d)' => Accounted(copy'[d])
    /\ loc'[d] \in {"pending", "inflight"} => Open(copy'[d])
    /\ stage'[d] \in {"written", "scanned"} =>
          Open(copy'[d]) /\ copy'[d].phase = "awaiting_registration"
    /\ Written(d)' => Written(d) \/ DeployWrite(d)
    /\ Written(d) /\ Written(d)' => SameFlow(copy[d], copy'[d])
    /\ loc[d] # "none" => Carries(copy[d], copy'[d])
    /\ loc[d] # "none" => Decided(copy[d], copy'[d]) \/ (WriteBack /\ d = hd)

\* Every place in the journal.
JournalLasts == \A d \in Deploys : Lasting(d)

-----------------------------------------------------------------------------
(* The operators. *)

\* An entry that keeps its requests and its steps.
LEMMA SameRequests ==
    ASSUME NEW e, NEW f, f.steps = e.steps, f.veto = e.veto,
           f.stop = e.stop \/ StopRequested(f) \/ ~Open(f)
    PROVE  Carries(e, f) /\ Decided(e, f)
  BY DEF Carries, Decided, StopRequested

\* Closing an entry keeps its requests and decisions (_finish).
LEMMA FinishedLasts ==
    ASSUME NEW e \in Entry, NEW outcome
    PROVE  Carries(e, Finished(e, outcome)) /\ Decided(e, Finished(e, outcome))
  BY FinishedFields, SameRequests

\* A stored entry that is stopped (request_stop).
LEMMA StoppedLasts ==
    ASSUME AccountInv, NEW d \in Deploys, loc[d] \in {"pending", "inflight"},
           NEW outcome \in {"cancelled", "superseded"}
    PROVE  /\ Follows(copy[d], Stopped(d, outcome))
           /\ StoppedLoc(d) = IF loc[d] = "pending" THEN "done" ELSE "inflight"
           /\ loc[d] = "inflight" => Open(Stopped(d, outcome))
           /\ Carries(copy[d], Stopped(d, outcome))
  <1>1. Phased(copy[d]) /\ Accounted(copy[d]) /\ Open(copy[d])
    BY DEF AccountInv, IndInv, JournalOK, JournalAccounts, Written
  <1>2. CASE loc[d] = "pending"
    <2>1. Follows(copy[d], Finished(copy[d], outcome))
      BY <1>1, FinishedAccounts DEF Phased, Accounted, Outcomes
    <2> QED
      BY <1>1, <1>2, <2>1, FinishedLasts DEF Stopped, StoppedLoc, Phased
  <1>3. CASE loc[d] = "inflight"
    <2> DEFINE f == [copy[d] EXCEPT !.stop = outcome]
    <2>1. /\ Follows(copy[d], f) /\ f.outcome = copy[d].outcome /\ f.stop = outcome
          /\ f.veto = copy[d].veto /\ f.steps = copy[d].steps
      BY <1>1, StopRecorded
    <2>2. Stopped(d, outcome) = f /\ StoppedLoc(d) = "inflight"
      BY <1>3 DEF Stopped, StoppedLoc
    <2> HIDE DEF f
    <2>3. StopRequested(f) /\ Open(f)
      BY <1>1, <2>1 DEF StopRequested, Open
    <2> QED
      BY <1>3, <2>1, <2>2, <2>3, SameRequests
  <1> QED
    BY <1>2, <1>3

\* An expiry keeps the requests (_expire_registration).
LEMMA ExpiredRegistrationLasts ==
    ASSUME NEW e, Phased(e), Accounted(e), Open(e)
    PROVE  Carries(e, ExpiredRegistration(e))
  <1> DEFINE s == Skipped(e, {"retire"}, "never_registered")
             f == IF e.retire # {} THEN s ELSE e
  <1>1. e \in Entry /\ s \in Entry /\ s.veto = e.veto
    <2>1. "never_registered" \in BudgetSkips
      BY DEF BudgetSkips
    <2>2. e \in Entry
      BY DEF Phased
    <2>3. s.veto = e.veto
      BY <2>2 DEF Skipped, Entry
    <2> QED
      BY <2>1, <2>2, <2>3, SkippedAccounts
  <1> HIDE DEF s
  <1>2. f \in Entry /\ f.veto = e.veto
    BY <1>1
  <1>3. ExpiredRegistration(e) = Finished(f, "expired")
    BY DEF ExpiredRegistration, s
  <1> HIDE DEF f
  <1>4. Finished(f, "expired").veto = f.veto /\ Finished(f, "expired").outcome = "expired"
    BY <1>2, FinishedFields
  <1> QED
    BY <1>2, <1>3, <1>4 DEF Carries, Open

\* An entry as a request drafts it (_journal_deploy).
LEMMA NewEntryAccounts ==
    ASSUME NEW dag, NEW flow, NEW run, NEW retire, NEW purge
    PROVE  LET e == NewEntry(dag, flow, run, retire, purge)
           IN  Accounted(e) /\ Open(e) /\ e.phase = "awaiting_registration"
  <1> DEFINE e == NewEntry(dag, flow, run, retire, purge)
  <1>1. /\ e.steps = [name \in StepNames |-> "pending"] /\ e.phase = "awaiting_registration"
        /\ e.outcome = "none" /\ e.stop = "absent" /\ e.veto = "absent"
    BY DEF NewEntry, NewSteps
  <1> HIDE DEF e
  <1>2. Accounted(e) /\ Open(e)
    BY <1>1 DEF Accounted, Workable, InOrder, VetoHeld, CompletedIsTrue, Open, BudgetSkips, StepNames
  <1> QED
    BY <1>1, <1>2 DEF e

-----------------------------------------------------------------------------
(* The steps that write to the journal. *)

\* An entry that is not written to.
LEMMA UntouchedLasts ==
    ASSUME AccountInv, NEW d \in Deploys, copy'[d] = copy[d],
           loc'[d] = loc[d] \/ {loc[d], loc'[d]} \subseteq {"pending", "inflight"},
           stage'[d] \in {stage[d], "settled", "new"}
    PROVE  Lasting(d)
  BY DEF Lasting, AccountInv, JournalAccounts, Written, SameFlow, Carries, Decided

\* deploy_dag drafts an entry.
LEMMA DeployWriteLasts ==
    ASSUME AccountInv, NEW d \in Deploys, DeployWrite(d)
    PROVE  JournalLasts
  <1>1. PICK r \in Requests :
            copy' = [copy EXCEPT ![d] = NewEntry(r.dag, r.flow, r.run, r.retire, r.purge)]
    BY DEF DeployWrite
  <1>2. /\ TypeOK /\ loc[d] = "none" /\ loc' = loc
        /\ stage[d] = "new" /\ stage' = [stage EXCEPT ![d] = "written"]
    BY DEF DeployWrite, AccountInv, IndInv, JournalOK
  <1>3. /\ copy'[d] = NewEntry(r.dag, r.flow, r.run, r.retire, r.purge)
        /\ \A o \in Deploys \ {d} : copy'[o] = copy[o] /\ stage'[o] = stage[o]
    BY <1>1, <1>2 DEF TypeOK
  <1>4. Lasting(d)
    BY <1>2, <1>3, NewEntryAccounts DEF Lasting, Written
  <1>5. \A o \in Deploys \ {d} : Lasting(o)
    BY <1>2, <1>3, UntouchedLasts
  <1> QED
    BY <1>4, <1>5 DEF JournalLasts

\* The draft of a request keeps what it accounts for whatever its queue.
LEMMA DraftLasts ==
    ASSUME AccountInv, NEW d \in Deploys, stage[d] \in {"written", "scanned"},
           NEW f, f.steps = copy[d].steps, f.phase = copy[d].phase, f.outcome = copy[d].outcome,
           f.stop = copy[d].stop, f.veto = copy[d].veto
    PROVE  Accounted(f) /\ Open(f) /\ f.phase = "awaiting_registration" /\ loc[d] = "none"
  <1>1. /\ Accounted(copy[d]) /\ Open(copy[d]) /\ copy[d].phase = "awaiting_registration"
        /\ loc[d] = "none"
    BY DEF AccountInv, IndInv, JournalOK, JournalAccounts, Written
  <1>2. Accounted(f)
    BY <1>1, DraftAccounts DEF Accounted
  <1> QED
    BY <1>1, <1>2 DEF Open

\* Superseding closes what it stops, or leaves word of it (journal.supersede).
LEMMA SupersedeLasts ==
    ASSUME AccountInv, NEW d \in Deploys, Supersede(d)
    PROVE  JournalLasts
  <1> DEFINE older == OpenFor(copy[d].flow, copy[d].dag) \ {d}
  <1>1. PICK R, P :
           /\ copy' = [o \in Deploys |-> IF o = d THEN [copy[d] EXCEPT !.retire = R, !.purge = P]
                                         ELSE IF o \in older THEN Stopped(o, "superseded")
                                         ELSE copy[o]]
           /\ loc' = [o \in Deploys |-> IF o \in older THEN StoppedLoc(o) ELSE loc[o]]
    BY DEF Supersede
  <1>2. stage[d] = "written" /\ stage' = [stage EXCEPT ![d] = "scanned"]
    BY DEF Supersede
  <1>3. /\ TypeOK /\ Phased(copy[d]) /\ loc[d] = "none"
        /\ \A o \in Deploys : loc[o] # "none" => stage[o] = "settled"
    BY <1>2 DEF AccountInv, IndInv, JournalOK
  <1>4. d \notin older /\ \A o \in older : o \in Deploys /\ loc[o] \in {"pending", "inflight"}
    BY DEF OpenFor
  <1> HIDE DEF older
  <1>5. stage'[d] = "scanned" /\ \A o \in Deploys \ {d} : stage'[o] = stage[o]
    BY <1>2, <1>3 DEF TypeOK
  <1>6. Lasting(d)
    <2> DEFINE f == [copy[d] EXCEPT !.retire = R, !.purge = P]
    <2>1. /\ f.steps = copy[d].steps /\ f.phase = copy[d].phase /\ f.outcome = copy[d].outcome
          /\ f.stop = copy[d].stop /\ f.veto = copy[d].veto
          /\ f.dag = copy[d].dag /\ f.flow = copy[d].flow
      BY <1>3 DEF Phased, Entry
    <2>2. copy'[d] = f /\ loc'[d] = "none"
      BY <1>1, <1>3, <1>4
    <2> HIDE DEF f
    <2>3. Accounted(f) /\ Open(f) /\ f.phase = "awaiting_registration"
      BY <1>2, <2>1, DraftLasts
    <2> QED
      BY <1>2, <1>3, <2>1, <2>2, <2>3 DEF Lasting, Written, SameFlow, SameDeploy
  <1>7. ASSUME NEW o \in older PROVE Lasting(o)
    <2>1. copy'[o] = Stopped(o, "superseded") /\ loc'[o] = StoppedLoc(o) /\ stage'[o] = "settled"
      BY <1>1, <1>3, <1>4, <1>5
    <2> QED
      BY <1>4, <2>1, StoppedLasts DEF Lasting, Follows, Written, SameFlow, SameDeploy
  <1>8. ASSUME NEW o \in Deploys \ {d}, o \notin older PROVE Lasting(o)
    BY <1>1, <1>5, <1>8, UntouchedLasts
  <1> QED
    BY <1>6, <1>7, <1>8 DEF JournalLasts

\* The draft becomes an entry, and what it inherits is consumed (journal.put,
\* consume_orphaned_retire).
LEMMA PutLasts ==
    ASSUME AccountInv, NEW d \in Deploys, Put(d)
    PROVE  JournalLasts
  <1>1. /\ stage[d] = "scanned" /\ stage' = [stage EXCEPT ![d] = "settled"]
        /\ loc' = [loc EXCEPT ![d] = "pending"]
    BY DEF Put
  <1>2. PICK x, y : \A o \in Deploys :
            copy'[o] = IF o = d THEN [copy[d] EXCEPT !.deadline = x, !.actDeadline = y]
                       ELSE IF o \in orphans[d] /\ loc[o] = "done" /\ OwesRetire(copy[o])
                       THEN [copy[o] EXCEPT !.steps["retire"] = "inherited"]
                       ELSE copy[o]
    <2>1. \A o \in Deploys :
            copy'[o] = IF o = d THEN [copy[d] EXCEPT !.deadline = now + Budget,
                                                     !.actDeadline = now + Budget]
                       ELSE IF o \in orphans[d] /\ loc[o] = "done" /\ OwesRetire(copy[o])
                       THEN [copy[o] EXCEPT !.steps["retire"] = "inherited"]
                       ELSE copy[o]
      BY DEF Put
    <2> QED
      BY <2>1
  <1>3. /\ TypeOK /\ Phased(copy[d]) /\ loc[d] = "none"
    BY <1>1 DEF AccountInv, IndInv, JournalOK
  <1>4. /\ stage'[d] = "settled" /\ loc'[d] = "pending"
        /\ \A o \in Deploys \ {d} : stage'[o] = stage[o] /\ loc'[o] = loc[o]
    BY <1>1, <1>3 DEF TypeOK
  <1>5. Lasting(d)
    <2> DEFINE f == [copy[d] EXCEPT !.deadline = x, !.actDeadline = y]
    <2>1. /\ f.steps = copy[d].steps /\ f.phase = copy[d].phase /\ f.outcome = copy[d].outcome
          /\ f.stop = copy[d].stop /\ f.veto = copy[d].veto
          /\ f.dag = copy[d].dag /\ f.flow = copy[d].flow
      BY <1>3 DEF Phased, Entry
    <2>2. copy'[d] = f
      BY <1>2
    <2> HIDE DEF f
    <2> QED
      BY <1>1, <1>3, <1>4, <2>1, <2>2, DraftLasts DEF Lasting, Written, SameFlow, SameDeploy
  <1>6. ASSUME NEW o \in Deploys \ {d} PROVE Lasting(o)
    <2>1. CASE copy'[o] = copy[o]
      BY <1>4, <2>1, UntouchedLasts
    <2>2. CASE copy'[o] # copy[o]
      <3> DEFINE f == [copy[o] EXCEPT !.steps["retire"] = "inherited"]
      <3>1. loc[o] = "done" /\ OwesRetire(copy[o]) /\ copy'[o] = f
        BY <1>2, <2>2
      <3>2. Phased(copy[o]) /\ Accounted(copy[o]) /\ stage[o] = "settled"
        BY <3>1 DEF AccountInv, IndInv, JournalOK, JournalAccounts, Written
      <3>3. /\ Follows(copy[o], f) /\ f.outcome = copy[o].outcome /\ f.stop = copy[o].stop
            /\ f.veto = copy[o].veto
            /\ \A name \in StepNames :
                  f.steps[name] = copy[o].steps[name] \/ copy[o].steps[name] \in BudgetSkips
            /\ \A name \in StepNames \ {"retire"} : f.steps[name] = copy[o].steps[name]
        BY <3>1, <3>2, InheritedAccounts
      <3> HIDE DEF f
      <3>4. Carries(copy[o], f)
        BY <3>3 DEF Carries, StopRequested
      <3> QED
        BY <1>4, <3>1, <3>2, <3>3, <3>4 DEF Lasting, Follows, Written, SameFlow, SameDeploy
    <2> QED
      BY <2>1, <2>2
  <1> QED
    BY <1>5, <1>6 DEF JournalLasts

\* A draft that could not be written leaves nothing behind.
LEMMA PutFailsLasts ==
    ASSUME AccountInv, NEW d \in Deploys, PutFails(d)
    PROVE  JournalLasts
  <1>1. /\ TypeOK /\ loc[d] = "none" /\ loc' = loc
        /\ stage' = [stage EXCEPT ![d] = "settled"] /\ copy' = [copy EXCEPT ![d] = NoEntry]
    BY DEF PutFails, AccountInv, IndInv, JournalOK
  <1>2. /\ stage'[d] = "settled"
        /\ \A o \in Deploys \ {d} : copy'[o] = copy[o] /\ stage'[o] = stage[o]
    BY <1>1 DEF TypeOK
  <1>3. Lasting(d)
    BY <1>1, <1>2 DEF Lasting, Written
  <1>4. \A o \in Deploys \ {d} : Lasting(o)
    BY <1>1, <1>2, UntouchedLasts
  <1> QED
    BY <1>3, <1>4 DEF JournalLasts

\* request_stop, on a user's behalf.
LEMMA CancelLasts ==
    ASSUME AccountInv, NEW d \in Deploys, Cancel(d)
    PROVE  JournalLasts
  <1>1. /\ TypeOK /\ loc[d] \in {"pending", "inflight"} /\ stage' = stage
        /\ copy' = [copy EXCEPT ![d] = Stopped(d, "cancelled")]
        /\ loc' = [loc EXCEPT ![d] = StoppedLoc(d)] /\ stage[d] = "settled"
    BY DEF Cancel, AccountInv, IndInv, JournalOK, request
  <1>2. /\ copy'[d] = Stopped(d, "cancelled") /\ loc'[d] = StoppedLoc(d)
        /\ \A o \in Deploys \ {d} : copy'[o] = copy[o] /\ loc'[o] = loc[o]
    BY <1>1 DEF TypeOK
  <1>3. Lasting(d)
    BY <1>1, <1>2, StoppedLasts DEF Lasting, Follows, Written, SameFlow, SameDeploy
  <1>4. \A o \in Deploys \ {d} : Lasting(o)
    BY <1>1, <1>2, UntouchedLasts
  <1> QED
    BY <1>3, <1>4 DEF JournalLasts

\* reopen_expired.
LEMMA ResumeLasts ==
    ASSUME AccountInv, NEW d \in Deploys, Resume(d)
    PROVE  JournalLasts
  <1> DEFINE f == Reopened(copy[d], now + Budget)
  <1>1. /\ TypeOK /\ loc[d] = "done" /\ copy[d].outcome = "expired" /\ stage' = stage
        /\ copy' = [copy EXCEPT ![d] = f] /\ loc' = [loc EXCEPT ![d] = "pending"]
        /\ stage[d] = "settled"
    BY DEF Resume, AccountInv, IndInv, JournalOK, request
  <1>2. /\ copy'[d] = f /\ loc'[d] = "pending"
        /\ \A o \in Deploys \ {d} : copy'[o] = copy[o] /\ loc'[o] = loc[o]
    BY <1>1 DEF TypeOK
  <1>3. Phased(copy[d]) /\ Accounted(copy[d]) /\ now + Budget \in Nat
    BY <1>1, LifecycleAssumption DEF AccountInv, IndInv, JournalOK, JournalAccounts, Written, TypeOK
  <1>4. /\ Follows(copy[d], f) /\ Open(f) /\ f.stop = copy[d].stop /\ f.veto = copy[d].veto
    BY <1>1, <1>3, ReopenedAccounts
  <1> HIDE DEF f
  <1>5. Carries(copy[d], f)
    BY <1>4 DEF Carries, StopRequested
  <1>6. Lasting(d)
    BY <1>1, <1>2, <1>4, <1>5 DEF Lasting, Follows, Written, SameFlow, SameDeploy
  <1>7. \A o \in Deploys \ {d} : Lasting(o)
    BY <1>1, <1>2, UntouchedLasts
  <1> QED
    BY <1>6, <1>7 DEF JournalLasts

\* veto_unpause, on stored copies, held ones included.
LEMMA PauseVetoLasts ==
    ASSUME AccountInv, NEW g, PauseVeto(g)
    PROVE  JournalLasts
  <1>1. loc' = loc /\ stage' = stage
    BY DEF PauseVeto
  <1>2. ASSUME NEW d \in Deploys, copy'[d] = copy[d] PROVE Lasting(d)
    BY <1>1, <1>2, UntouchedLasts
  <1>3. ASSUME NEW d \in Deploys, copy'[d] # copy[d] PROVE Lasting(d)
    <2> DEFINE f == UnpauseVetoed(copy[d])
               h == [f EXCEPT !.veto = "requested"]
    <2>1. loc[d] \in {"pending", "inflight"} /\ copy'[d] = IF loc[d] = "inflight" THEN h ELSE f
      BY <1>3 DEF PauseVeto
    <2>2. Phased(copy[d]) /\ Accounted(copy[d]) /\ Open(copy[d]) /\ stage[d] = "settled"
      BY <2>1 DEF AccountInv, IndInv, JournalOK, JournalAccounts, Written
    <2>3. /\ Follows(copy[d], f) /\ Open(f) /\ f.stop = copy[d].stop /\ f.veto = copy[d].veto
          /\ Follows(copy[d], h) /\ Open(h) /\ h.stop = copy[d].stop /\ h.veto = "requested"
          /\ \A name \in {"unpause", "trigger"} : ~Pending(f, name) /\ ~Pending(h, name)
      BY <2>2, UnpauseVetoedAccounts DEF VetoRequests
    <2> HIDE DEF f, h
    <2>4. Carries(copy[d], f) /\ Carries(copy[d], h)
      BY <2>3 DEF Carries, StopRequested
    <2> QED
      BY <1>1, <2>1, <2>2, <2>3, <2>4 DEF Lasting, Follows, Written, SameFlow, SameDeploy
  <1> QED
    BY <1>2, <1>3 DEF JournalLasts

\* _deny_all.
LEMMA DenyAllLasts ==
    ASSUME AccountInv, DenyAll
    PROVE  JournalLasts
  <1>1. stage' = stage
    BY DEF DenyAll, request
  <1>2. ASSUME NEW d \in Deploys, loc[d] # "pending" PROVE Lasting(d)
    BY <1>1, <1>2, UntouchedLasts DEF DenyAll
  <1>3. ASSUME NEW d \in Deploys, loc[d] = "pending" PROVE Lasting(d)
    <2> DEFINE f == Finished(copy[d], "denied")
    <2>1. copy'[d] = f /\ loc'[d] = "done"
      BY <1>3 DEF DenyAll
    <2>2. Phased(copy[d]) /\ Accounted(copy[d]) /\ stage[d] = "settled"
      BY <1>3 DEF AccountInv, IndInv, JournalOK, JournalAccounts, Written
    <2>3. Follows(copy[d], f) /\ Carries(copy[d], f)
      BY <2>2, FinishedAccounts, FinishedLasts DEF Phased, Accounted, Outcomes
    <2> HIDE DEF f
    <2> QED
      BY <1>1, <1>3, <2>1, <2>2, <2>3 DEF Lasting, Follows, Written, SameFlow, SameDeploy
  <1> QED
    BY <1>2, <1>3 DEF JournalLasts

\* A holder's write merges the requests it did not see (_move_out).
LEMMA WriteBackLasts ==
    ASSUME AccountInv, WriteBack
    PROVE  JournalLasts
  <1> DEFINE f == Merged(hc, copy[hd])
  <1>1. /\ TypeOK /\ stage' = stage /\ loc[hd] = "inflight" /\ hd \in Deploys
        /\ copy' = [copy EXCEPT ![hd] = f]
        /\ loc' = [loc EXCEPT ![hd] = IF Open(hc) THEN "pending" ELSE "done"]
        /\ stage[hd] = "settled" /\ Phased(copy[hd]) /\ Phased(hc) /\ Accounted(hc)
        /\ SameFlow(copy[hd], hc)
    BY DEF WriteBack, HeldSame, AccountInv, IndInv, HeldOK, Holding, HeldAccounts, JournalOK, request
  <1>2. /\ copy'[hd] = f /\ loc'[hd] = IF Open(hc) THEN "pending" ELSE "done"
        /\ \A o \in Deploys \ {hd} : copy'[o] = copy[o] /\ loc'[o] = loc[o]
    BY <1>1 DEF TypeOK
  <1>3. /\ Follows(hc, f) /\ f.outcome = hc.outcome
        /\ StopRequested(copy[hd]) => StopRequested(f) \/ ~Open(f)
        /\ copy[hd].veto = "requested" =>
              f.veto = "requested" \/ (~Pending(f, "unpause") /\ ~Pending(f, "trigger"))
    BY <1>1, MergedAccounts DEF Phased
  <1> HIDE DEF f
  <1>4. Lasting(hd)
    BY <1>1, <1>2, <1>3 DEF Lasting, Follows, Open, Carries, Written, SameFlow, SameDeploy
  <1>5. \A o \in Deploys \ {hd} : Lasting(o)
    BY <1>1, <1>2, UntouchedLasts
  <1> QED
    BY <1>4, <1>5 DEF JournalLasts

\* It is the decisions of its own copy that a holder writes.
LEMMA WriteBackDecides ==
    ASSUME AccountInv, WriteBack
    PROVE  Decided(hc, copy'[hd])
  <1>1. /\ hd \in Deploys /\ Phased(hc) /\ Phased(copy[hd]) /\ Accounted(hc)
        /\ copy'[hd] = Merged(hc, copy[hd])
    BY DEF WriteBack, AccountInv, IndInv, TypeOK, JournalOK, HeldOK, Holding, HeldAccounts
  <1> QED
    BY <1>1, MergedAccounts DEF Phased, Follows

\* resume and _finalize_expired.
LEMMA RestartLasts ==
    ASSUME AccountInv, Restart
    PROVE  JournalLasts
  <1>1. ASSUME NEW d \in Deploys
        PROVE  /\ stage'[d] \in {"new", "settled"}
               /\ loc'[d] \in {loc[d], "pending", "done"}
               /\ loc[d] \in {"none", "done"} => loc'[d] = loc[d]
               /\ \/ loc[d] # "none" /\ copy'[d] = copy[d]
                     /\ (loc[d] # "done" => loc'[d] = "pending")
                  \/ /\ loc[d] \in {"pending", "inflight"} /\ loc'[d] = "done"
                     /\ copy'[d] = ExpiredRegistration(copy[d])
                  \/ loc[d] = "none"
    BY DEF Restart, AccountInv, IndInv, TypeOK
  <1>2. ASSUME NEW d \in Deploys PROVE Lasting(d)
    <2>1. CASE loc[d] = "none"
      BY <1>1, <2>1 DEF Lasting, Written
    <2>2. CASE loc[d] # "none" /\ copy'[d] = copy[d] /\ (loc[d] # "done" => loc'[d] = "pending")
      BY <1>1, <2>2, UntouchedLasts DEF AccountInv, IndInv, TypeOK
    <2>3. CASE /\ loc[d] \in {"pending", "inflight"} /\ loc'[d] = "done"
               /\ copy'[d] = ExpiredRegistration(copy[d])
      <3>1. Phased(copy[d]) /\ Accounted(copy[d]) /\ Open(copy[d])
        BY <2>3 DEF AccountInv, IndInv, JournalOK, JournalAccounts, Written
      <3>2. /\ Follows(copy[d], copy'[d])
            /\ Carries(copy[d], copy'[d])
        BY <2>3, <3>1, ExpiredRegistrationAccounts, ExpiredRegistrationLasts
      <3> QED
        BY <1>1, <2>3, <3>2 DEF Lasting, Follows, Written, SameFlow, SameDeploy
    <2> QED
      BY <1>1, <2>1, <2>2, <2>3
  <1> QED
    BY <1>2 DEF JournalLasts

\* A step that moves entries between pending and inflight, or leaves the journal alone.
LEMMA QuietLasts ==
    ASSUME AccountInv, copy' = copy, stage' = stage,
           \A d \in Deploys : loc'[d] = loc[d] \/ {loc[d], loc'[d]} \subseteq {"pending", "inflight"}
    PROVE  JournalLasts
  BY UntouchedLasts DEF JournalLasts

-----------------------------------------------------------------------------
(* The steps of the sweep, on the entry it holds. *)

\* Steps that leave the sweep alone, and those that end it.
LEMMA SweepAside ==
    ASSUME HeldAccounts, UNCHANGED sweep \/ at' \in {"idle", "sweep"}
    PROVE  HeldAccounts'
  BY DEF HeldAccounts, Holding, sweep

\* What is claimed is what was stored.
LEMMA ClaimAccounts ==
    ASSUME AccountInv, NEW d \in Deploys, Claim(d)
    PROVE  HeldAccounts'
  <1>1. CASE loc[d] = "pending"
    <2>1. Accounted(copy[d]) /\ Open(copy[d])
      BY <1>1 DEF AccountInv, JournalAccounts, Written
    <2> QED
      BY <1>1, <2>1 DEF Claim, HeldAccounts, Holding
  <1>2. CASE loc[d] # "pending"
    BY <1>2 DEF Claim, AccountInv, HeldAccounts, Holding
  <1> QED
    BY <1>1, <1>2

\* The entry as a phase handler finds it, and what it may leave it as.
LEMMA NowAccounts ==
    ASSUME AccountInv, at = "claimed"
    PROVE  /\ Phased(Now) /\ Accounted(Now) /\ Open(Now) /\ Now.phase = hc.phase
           /\ SameDeploy(hc, Now) /\ Decided(hc, Now)
           /\ Phased(hc) /\ Accounted(hc) /\ Open(hc) /\ Holding
  <1>1. Phased(hc) /\ Accounted(hc) /\ Open(hc) /\ Holding /\ Phased(Now)
    BY NowPhased DEF AccountInv, HeldAccounts
  <1> QED
    BY <1>1, VetoHonouredAccounts DEF Now, Follows

\* What a step of advance leaves in memory.
HeldFollows == HeldAccounts' /\ SameDeploy(hc, hc') /\ Decided(hc, hc')

\* A handler that ends: what it yields accounts for what it says.
LEMMA YieldFollows ==
    ASSUME NEW e, Yield(e), Follows(hc, e)
    PROVE  HeldFollows
  BY DEF HeldFollows, Yield, Follows, HeldAccounts, Holding

\* A phase handler that ends without a call.
LEMMA HandlerFollows ==
    ASSUME AccountInv, at = "claimed", NEW f, Yield(f), Follows(Now, f)
    PROVE  HeldFollows
  BY NowAccounts, FollowsOn, YieldFollows

\* A handler that goes on to the calls of its phase.
LEMMA EnterFollows ==
    ASSUME AccountInv, at = "claimed", NEW targets, NEW step, Enter(step, targets),
           \/ step = "quiesce" /\ hc.phase = "quiescing" /\ Pending(Now, "quiesce")
           \/ step = "unpause" /\ hc.phase = "unpausing"
           \/ step = "trigger" /\ hc.phase = "triggering"
           \/ step = "retire" /\ hc.phase = "retiring" /\ Pending(Now, "retire")
    PROVE  HeldFollows
  <1>1. hc' = Now /\ at' = step
    BY DEF Enter
  <1>2. /\ Accounted(Now) /\ Open(Now) /\ Now.phase = hc.phase
        /\ SameDeploy(hc, Now) /\ Decided(hc, Now)
    BY NowAccounts
  <1> HIDE DEF Now
  <1> QED
    BY <1>1, <1>2 DEF HeldFollows, HeldAccounts, Holding

\* A call that moves neither the entry nor the phase.
LEMMA CallFollows ==
    ASSUME AccountInv, at' = at, hc' = hc
    PROVE  HeldFollows
  BY DEF HeldFollows, AccountInv, HeldAccounts, Holding, SameDeploy, Decided

\* An error is retried or closes the entry (_fail_step, _backoff).
LEMMA StumbleAccounts ==
    ASSUME NEW e, Phased(e), Accounted(e), NEW name \in StepNames, Pending(e, name),
           NEW f \in Stumble(e, name)
    PROVE  Follows(e, f)
  <1>1. Follows(e, StepFailed(e, name))
    BY StepFailedAccounts
  <1>2. Follows(e, BackedOff(e, name))
    BY BackedOffAccounts
  <1>3. f \in {StepFailed(e, name), BackedOff(e, name)}
    BY DEF Stumble
  <1> QED
    BY <1>1, <1>2, <1>3

\* A file that is not this deploy's any more (_superseded).
LEMMA SupersededAccounts ==
    ASSUME NEW e, Phased(e), Accounted(e)
    PROVE  Follows(e, Finished(e, "superseded"))
  BY FinishedAccounts DEF Phased, Accounted, Outcomes

\* A lifecycle whose action budget is over (_terminate).
LEMMA ElapsedAccounts ==
    ASSUME NEW e, Phased(e), Accounted(e), Open(e),
           NEW names \in SUBSET {"retire", "unpause", "trigger"}
    PROVE  Follows(e, Terminated(Skipped(e, names, "elapsed"), "expired"))
  <1> DEFINE f == Skipped(e, names, "elapsed")
  <1>1. f \in Entry /\ SameDeploy(e, f) /\ Decided(e, f) /\ VetoHeld(f) /\ Workable(f)
    BY SkippedAccounts DEF BudgetSkips
  <1> HIDE DEF f
  <1>2. Follows(f, Terminated(f, "expired"))
    BY <1>1, TerminatedAccounts DEF Outcomes
  <1>3. Follows(e, Terminated(f, "expired"))
    BY <1>1, <1>2, FollowsOn
  <1> QED
    BY <1>3 DEF f

\* advance honours a stop before any phase.
LEMMA StopAdvanceFollows ==
    ASSUME AccountInv, StopAdvance
    PROVE  HeldFollows
  BY NowAccounts, StopHonouredAccounts, YieldFollows DEF StopAdvance

\* _do_registration.
LEMMA PollFollows ==
    ASSUME AccountInv, Poll
    PROVE  HeldFollows
  <1> DEFINE n == IF Now.polls < MinPolls THEN Now.polls + 1 ELSE Now.polls
             polled == [Now EXCEPT !.polls = n]
  <1>1. at = "claimed" /\ hc.phase = "awaiting_registration"
    BY DEF Poll, InPhase
  <1>2. /\ Phased(Now) /\ Accounted(Now) /\ Open(Now) /\ Now.phase = "awaiting_registration"
        /\ Pending(Now, "registered")
    BY <1>1, NowAccounts DEF Phased, Accounted, Workable, Pending
  <1>3. n \in 0 .. MinPolls
    <2>1. Now.polls \in 0 .. MinPolls
      BY <1>2 DEF Phased, Entry
    <2> QED
      BY <2>1, BoundsAssumption
  <1>4. \/ Yield(ExpiredRegistration(Now))
        \/ Yield(ImportFailed(polled))
        \/ Yield(Registered(polled, clock, Grace))
        \/ Yield(BackedOff(polled, "registered"))
        \/ \E f \in Stumble(polled, "registered") : Yield(f)
    BY DEF Poll
  <1> HIDE DEF n
  <1>5. Phased(polled)
    BY <1>2, <1>3, FieldsKeep DEF Keeps
  <1>6. /\ SameDeploy(Now, polled) /\ polled.steps = Now.steps /\ polled.phase = Now.phase
        /\ polled.outcome = Now.outcome /\ polled.stop = Now.stop /\ polled.veto = Now.veto
        /\ Decided(Now, polled)
    BY <1>2 DEF Phased, Entry, SameDeploy, Decided
  <1> HIDE DEF polled
  <1>7. Accounted(polled) /\ Open(polled) /\ Pending(polled, "registered")
    BY <1>2, <1>6, AccountedAlike DEF Follows, Open, Pending
  <1>8. Follows(Now, ExpiredRegistration(Now))
    BY <1>2, ExpiredRegistrationAccounts
  <1>9. Follows(polled, ImportFailed(polled))
    BY <1>5, <1>7, ImportFailedAccounts
  <1>10. Follows(polled, Registered(polled, clock, Grace))
    BY <1>5, <1>7, RegisteredAccounts, LifecycleAssumption DEF AccountInv, IndInv, TypeOK
  <1>11. Follows(polled, BackedOff(polled, "registered"))
    BY <1>5, <1>7, BackedOffAccounts
  <1>12. \A f \in Stumble(polled, "registered") : Follows(polled, f)
    BY <1>5, <1>7, StumbleAccounts DEF StepNames
  <1>13. \A f : Follows(polled, f) => Follows(Now, f)
    BY <1>6, FollowsOn
  <1> HIDE DEF Now
  <1> QED
    BY <1>1, <1>4, <1>8, <1>9, <1>10, <1>11, <1>12, <1>13, HandlerFollows

\* _do_quiesce up to its calls.
LEMMA QuiesceFollows ==
    ASSUME AccountInv, Quiesce
    PROVE  HeldFollows
  <1>1. at = "claimed" /\ hc.phase = "quiescing"
    BY DEF Quiesce, InPhase
  <1>2. Phased(Now) /\ Accounted(Now) /\ Open(Now) /\ Now.phase = "quiescing"
    BY <1>1, NowAccounts
  <1>3. \/ Yield([Now EXCEPT !.phase = NextPhase(Now)])
        \/ /\ Pending(Now, "quiesce")
           /\ \/ \E f \in {Finished(Now, "superseded"), QuiesceSettled(Now, "elapsed"),
                            QuiesceSettled(Now, "unobserved"), QuiesceSettled(Now, "failed"),
                            BackedOff(Now, "quiesce")} : Yield(f)
              \/ Enter("quiesce", OldDags(Now))
    BY DEF Quiesce
  <1>4. Follows(Now, [Now EXCEPT !.phase = NextPhase(Now)])
    BY <1>2, PassedOver
  <1>5. Follows(Now, Finished(Now, "superseded"))
    BY <1>2, SupersededAccounts
  <1>6. ASSUME Pending(Now, "quiesce")
        PROVE  /\ Follows(Now, QuiesceSettled(Now, "elapsed"))
               /\ Follows(Now, QuiesceSettled(Now, "unobserved"))
               /\ Follows(Now, QuiesceSettled(Now, "failed"))
    BY <1>2, <1>6, QuiesceSettledAccounts DEF StepStates, BudgetSkips
  <1>7. Follows(Now, BackedOff(Now, "quiesce"))
    BY <1>2, BackedOffAccounts
  <1> HIDE DEF Now
  <1>8. CASE Pending(Now, "quiesce") /\ Enter("quiesce", OldDags(Now))
    BY <1>1, <1>8, EnterFollows
  <1>9. CASE ~(Pending(Now, "quiesce") /\ Enter("quiesce", OldDags(Now)))
    BY <1>1, <1>3, <1>4, <1>5, <1>6, <1>7, <1>9, HandlerFollows
  <1> QED
    BY <1>8, <1>9

\* _do_unpause up to its call.
LEMMA UnpauseFollows ==
    ASSUME AccountInv, Unpause
    PROVE  HeldFollows
  <1> DEFINE skipped == Skipped(Now, {"unpause", "trigger"}, "elapsed")
             vetoed == Skipped(Now, {"trigger"}, Now.steps["unpause"])
  <1>1. at = "claimed" /\ hc.phase = "unpausing"
    BY DEF Unpause, InPhase
  <1>2. Phased(Now) /\ Accounted(Now) /\ Open(Now) /\ Now.phase = "unpausing"
    BY <1>1, NowAccounts
  <1>3. \/ \E f \in {Terminated(skipped, "expired"), Finished(Now, "superseded"),
                     BackedOff(Now, "unpause")} : Yield(f)
        \/ Yield(Finished(vetoed, "completed")) /\ Now.steps["unpause"] \in BudgetSkips \cup {"vetoed"}
        \/ /\ Yield([Now EXCEPT !.phase = "triggering"]) /\ ~Pending(Now, "unpause")
           /\ Now.steps["unpause"] \notin BudgetSkips \cup {"vetoed"}
        \/ Enter("unpause", {})
    BY DEF Unpause
  <1>4. Follows(Now, Terminated(skipped, "expired"))
    BY <1>2, ElapsedAccounts
  <1>5. Follows(Now, Finished(Now, "superseded")) /\ Follows(Now, BackedOff(Now, "unpause"))
    BY <1>2, SupersededAccounts, BackedOffAccounts
  <1>6. ASSUME Now.steps["unpause"] \in BudgetSkips \cup {"vetoed"}
        PROVE  Follows(Now, Finished(vetoed, "completed"))
    <2>1. Now.steps["unpause"] = "vetoed" /\ Now.steps["registered"] = "done"
      BY <1>2, <1>6 DEF Accounted, InOrder
    <2>2. vetoed = Skipped(Now, {"trigger"}, "vetoed")
      BY <2>1
    <2> HIDE DEF vetoed
    <2>3. /\ vetoed \in Entry /\ SameDeploy(Now, vetoed) /\ Decided(Now, vetoed)
          /\ VetoHeld(vetoed) /\ vetoed.steps["registered"] = "done"
      BY <1>2, <2>1, <2>2, SkippedAccounts DEF DeliberateSkips
    <2>4. /\ vetoed.steps["unpause"] = "vetoed"
          /\ vetoed.steps["trigger"] = IF Now.steps["trigger"] = "pending" THEN "vetoed"
                                                                          ELSE Now.steps["trigger"]
      <3>1. Now \in Entry
        BY <1>2 DEF Phased
      <3>2. vetoed.steps = [name \in StepNames |-> IF name \in {"trigger"} /\ Now.steps[name] = "pending"
                                                   THEN "vetoed" ELSE Now.steps[name]]
        BY <2>2, <3>1, SkippedFields
      <3> QED
        BY <2>1, <3>2 DEF StepNames
    <2>5. CutShort(vetoed) /\ ReadyToRetire(vetoed)
      BY <1>2, <2>1, <2>3, <2>4 DEF CutShort, ReadyToRetire, DeliberateSkips, Accounted, Workable,
           InOrder
    <2> QED
      BY <2>3, <2>5, FinishedAccounts, FollowsOn DEF Outcomes
  <1>7. ASSUME ~Pending(Now, "unpause"), Now.steps["unpause"] \notin BudgetSkips \cup {"vetoed"}
        PROVE  Follows(Now, [Now EXCEPT !.phase = "triggering"])
    <2>1. Now.steps["unpause"] = "done" /\ (Now.steps["trigger"] = "done" => ~Owed(Now))
      BY <1>2, <1>7 DEF Accounted, Workable, InOrder, Pending
    <2> QED
      BY <1>2, <2>1, PassedOver
  <1> HIDE DEF Now, skipped, vetoed
  <1>8. CASE Enter("unpause", {})
    BY <1>1, <1>8, EnterFollows
  <1>9. CASE ~Enter("unpause", {})
    BY <1>1, <1>3, <1>4, <1>5, <1>6, <1>7, <1>9, HandlerFollows
  <1> QED
    BY <1>8, <1>9

\* _do_trigger up to its call.
LEMMA TriggerFollows ==
    ASSUME AccountInv, Trigger
    PROVE  HeldFollows
  <1> DEFINE off == Skipped(Now, {"trigger"}, "run_off")
             skipped == Skipped(Now, {"trigger"}, "elapsed")
  <1>1. at = "claimed" /\ hc.phase = "triggering"
    BY DEF Trigger, InPhase
  <1>2. /\ Phased(Now) /\ Accounted(Now) /\ Open(Now) /\ Now.phase = "triggering"
        /\ Now.steps["registered"] = "done"
    BY <1>1, NowAccounts DEF Accounted, InOrder
  <1>3. \/ \E f \in {Finished(off, "completed"), Terminated(skipped, "expired"),
                     Finished(Now, "superseded"), BackedOff(Now, "trigger")} : Yield(f)
        \/ Enter("trigger", {})
    BY DEF Trigger
  <1>4. Follows(Now, Finished(off, "completed"))
    <2>1. /\ off \in Entry /\ SameDeploy(Now, off) /\ Decided(Now, off) /\ VetoHeld(off)
          /\ off.steps["registered"] = "done"
      BY <1>2, SkippedAccounts DEF DeliberateSkips
    <2>2. Now \in Entry
      BY <1>2 DEF Phased
    <2>3. off.steps = [name \in StepNames |-> IF name \in {"trigger"} /\ Now.steps[name] = "pending"
                                              THEN "run_off" ELSE Now.steps[name]]
      BY <2>2, SkippedFields
    <2> HIDE DEF off
    <2>4. /\ off.steps["retire"] = Now.steps["retire"] /\ off.steps["unpause"] = Now.steps["unpause"]
          /\ off.steps["trigger"] = IF Now.steps["trigger"] = "pending" THEN "run_off"
                                                                       ELSE Now.steps["trigger"]
      BY <2>3 DEF StepNames
    <2>5. Owed(off) => CutShort(off)
      BY <1>2, <2>1, <2>4 DEF Owed, CutShort, Pending, OldDags, SameDeploy, Accounted, InOrder
    <2>6. ReadyToRetire(off)
      BY <1>2, <2>1, <2>4 DEF ReadyToRetire, Accounted, Workable, InOrder, DeliberateSkips
    <2> QED
      BY <2>1, <2>5, <2>6, FinishedAccounts, FollowsOn DEF Outcomes
  <1>5. Follows(Now, Terminated(skipped, "expired"))
    BY <1>2, ElapsedAccounts
  <1>6. Follows(Now, Finished(Now, "superseded")) /\ Follows(Now, BackedOff(Now, "trigger"))
    BY <1>2, SupersededAccounts, BackedOffAccounts
  <1> HIDE DEF Now, skipped, off
  <1>7. CASE Enter("trigger", {})
    BY <1>1, <1>7, EnterFollows
  <1>8. CASE ~Enter("trigger", {})
    BY <1>1, <1>3, <1>4, <1>5, <1>6, <1>8, HandlerFollows
  <1> QED
    BY <1>7, <1>8

\* _do_retire up to its calls.
LEMMA RetireFollows ==
    ASSUME AccountInv, Retire
    PROVE  HeldFollows
  <1> DEFINE skipped == Skipped(Now, {"retire", "unpause", "trigger"}, "elapsed")
             blocked == Settled(Now, "retire", "blocked")
             refused == Settled(Now, "retire", "refused")
             targets == OldDags(Now) \ Now.retired
  <1>1. at = "claimed" /\ hc.phase = "retiring"
    BY DEF Retire, InPhase
  <1>2. /\ Phased(Now) /\ Accounted(Now) /\ Open(Now) /\ Now.phase = "retiring"
        /\ Now.steps["registered"] = "done"
    BY <1>1, NowAccounts DEF Accounted, InOrder
  <1>3. \/ /\ Yield([Now EXCEPT !.phase = "unpausing"])
           /\ Now.retire = {} \/ ~Pending(Now, "retire")
        \/ Pending(Now, "retire") /\ Yield(Terminated(blocked, "expired"))
        \/ /\ Pending(Now, "retire") /\ ReadyToRetire(Now)
           /\ \/ \E f \in {Terminated(skipped, "expired"), Terminated(refused, "completed"),
                            Finished(Now, "superseded"), BackedOff(Now, "retire"),
                            StepFailed(Now, "retire")} : Yield(f)
              \/ Enter("retire", targets)
    BY DEF Retire
  <1>4. Follows(Now, Terminated(skipped, "expired"))
    BY <1>2, ElapsedAccounts
  <1>5. ASSUME Pending(Now, "retire")
        PROVE  /\ Follows(Now, Terminated(blocked, "expired"))
               /\ ReadyToRetire(Now) => Follows(Now, Terminated(refused, "completed"))
               /\ Follows(Now, StepFailed(Now, "retire"))
    BY <1>2, <1>5, RetireEndsAccounts, StepFailedAccounts DEF StepStates, StepNames
  <1>6. ASSUME Now.retire = {} \/ ~Pending(Now, "retire")
        PROVE  Follows(Now, [Now EXCEPT !.phase = "unpausing"])
    <2>1. ~Owed(Now)
      BY <1>6 DEF Owed, OldDags
    <2> QED
      BY <1>2, <2>1, PassedOver
  <1>7. Follows(Now, Finished(Now, "superseded")) /\ Follows(Now, BackedOff(Now, "retire"))
    BY <1>2, SupersededAccounts, BackedOffAccounts
  <1> HIDE DEF Now, skipped, blocked, refused, targets
  <1>8. CASE Pending(Now, "retire") /\ Enter("retire", targets)
    BY <1>1, <1>8, EnterFollows
  <1>9. CASE ~(Pending(Now, "retire") /\ Enter("retire", targets))
    BY <1>1, <1>3, <1>4, <1>5, <1>6, <1>7, <1>9, HandlerFollows
  <1> QED
    BY <1>8, <1>9

\* advance on an entry with nothing left to do: nothing is owed.
LEMMA ConcludeFollows ==
    ASSUME AccountInv, Conclude
    PROVE  HeldFollows
  <1>1. at = "claimed" /\ hc.phase = "terminal" /\ Yield(Terminated(Now, "completed"))
    BY DEF Conclude, InPhase
  <1>2. Phased(Now) /\ VetoHeld(Now) /\ ~Owed(Now) /\ ReadyToRetire(Now)
    BY <1>1, NowAccounts DEF Accounted, Workable, InOrder, ReadyToRetire, Pending, DeliberateSkips
  <1>3. Follows(Now, Terminated(Now, "completed"))
    BY <1>2, TerminatedAccounts DEF Phased, Outcomes
  <1> QED
    BY <1>1, <1>3, HandlerFollows

-----------------------------------------------------------------------------
(* The calls of a step. *)

\* The entry in memory at a call.
LEMMA CallAccounts ==
    ASSUME AccountInv, at \in {"quiesce", "unpause", "trigger", "retire"}
    PROVE  /\ Phased(hc) /\ Accounted(hc) /\ Open(hc) /\ hc.steps["registered"] = "done"
           /\ Pending(hc, at)
           /\ at = "quiesce" => hc.phase = "quiescing"
           /\ at = "unpause" => hc.phase = "unpausing"
           /\ at = "trigger" => hc.phase = "triggering"
           /\ at = "retire" => hc.phase = "retiring" /\ ReadyToRetire(hc)
  <1>1. Phased(hc) /\ Accounted(hc) /\ Open(hc)
    BY DEF AccountInv, IndInv, HeldOK, HeldAccounts, Holding
  <1>2. /\ Pending(hc, at)
        /\ at = "quiesce" => hc.phase = "quiescing"
        /\ at = "unpause" => hc.phase = "unpausing"
        /\ at = "trigger" => hc.phase = "triggering"
        /\ at = "retire" => hc.phase = "retiring" /\ ReadyToRetire(hc)
    BY DEF AccountInv, IndInv, HeldOK, HeldAccounts
  <1> QED
    BY <1>1, <1>2 DEF Accounted, InOrder

\* Whichever call it is, and however it ends.
LEMMA CallsFollow ==
    ASSUME AccountInv,
           \/ QuiesceDone \/ UnpauseOK \/ UnpauseFails \/ TriggerOK \/ TriggerFails \/ RetireDone
           \/ \E g \in Dags : \/ QuiesceOne(g) \/ QuiesceFails(g)
                              \/ RetireOne(g) \/ RetireSkips(g) \/ RetireFails(g) \/ RetireBreaks(g)
    PROVE  HeldFollows
  <1>1. CASE QuiesceDone \/ \E g \in Dags : QuiesceFails(g)
    <2>1. at = "quiesce" /\ \E f \in {QuiesceSettled(hc, "done"), QuiesceSettled(hc, "failed"),
                                      BackedOff(hc, "quiesce")} : Yield(f)
      BY <1>1 DEF QuiesceDone, QuiesceFails
    <2>2. Phased(hc) /\ Accounted(hc) /\ Open(hc) /\ hc.phase = "quiescing" /\ Pending(hc, "quiesce")
      BY <2>1, CallAccounts
    <2>3. /\ Follows(hc, QuiesceSettled(hc, "done")) /\ Follows(hc, QuiesceSettled(hc, "failed"))
          /\ Follows(hc, BackedOff(hc, "quiesce"))
      BY <2>2, QuiesceSettledAccounts, BackedOffAccounts DEF StepStates
    <2> QED
      BY <2>1, <2>3, YieldFollows
  <1>2. CASE UnpauseOK \/ UnpauseFails
    <2>1. at = "unpause" /\ (Yield(Unpaused(hc)) \/ \E f \in Stumble(hc, "unpause") : Yield(f))
      BY <1>2 DEF UnpauseOK, UnpauseFails
    <2>2. Phased(hc) /\ Accounted(hc) /\ Open(hc) /\ hc.phase = "unpausing" /\ Pending(hc, "unpause")
      BY <2>1, CallAccounts
    <2>3. Follows(hc, Unpaused(hc)) /\ \A f \in Stumble(hc, "unpause") : Follows(hc, f)
      BY <2>2, UnpausedAccounts, StumbleAccounts DEF StepNames
    <2> QED
      BY <2>1, <2>3, YieldFollows
  <1>3. CASE TriggerOK \/ TriggerFails
    <2>1. at = "trigger" /\ (Yield(Triggered(hc)) \/ \E f \in Stumble(hc, "trigger") : Yield(f))
      BY <1>3 DEF TriggerOK, TriggerFails
    <2>2. Phased(hc) /\ Accounted(hc) /\ Open(hc) /\ hc.phase = "triggering" /\ Pending(hc, "trigger")
      BY <2>1, CallAccounts
    <2>3. Follows(hc, Triggered(hc)) /\ \A f \in Stumble(hc, "trigger") : Follows(hc, f)
      BY <2>2, TriggeredAccounts, StumbleAccounts DEF StepNames
    <2> QED
      BY <2>1, <2>3, YieldFollows
  <1>4. CASE RetireDone \/ \E g \in Dags : RetireFails(g) \/ RetireBreaks(g)
    <2>1. at = "retire" /\ (Yield(RetireSettled(hc)) \/ \E f \in Stumble(hc, "retire") : Yield(f))
      BY <1>4 DEF RetireDone, RetireFails, RetireBreaks
    <2>2. Phased(hc) /\ Accounted(hc) /\ Open(hc) /\ Pending(hc, "retire") /\ ReadyToRetire(hc)
      BY <2>1, CallAccounts
    <2>3. Follows(hc, RetireSettled(hc)) /\ \A f \in Stumble(hc, "retire") : Follows(hc, f)
      BY <2>2, RetireEndsAccounts, StumbleAccounts DEF RetireSettled, StepNames, StepStates
    <2> QED
      BY <2>1, <2>3, YieldFollows
  <1>5. CASE \E g \in Dags : QuiesceOne(g) \/ RetireSkips(g)
    BY <1>5, CallFollows DEF QuiesceOne, RetireSkips
  <1>6. ASSUME NEW g \in Dags, RetireOne(g) PROVE HeldFollows
    <2>1. PICK R, c : at = "retire" /\ at' = at /\ hc' = [hc EXCEPT !.retired = R, !.committed = c]
      BY <1>6 DEF RetireOne
    <2>2. Phased(hc) /\ Accounted(hc) /\ Open(hc) /\ hc.phase = "retiring" /\ Pending(hc, "retire")
      BY <2>1, CallAccounts
    <2>3. /\ SameDeploy(hc, hc') /\ hc'.steps = hc.steps /\ hc'.phase = hc.phase
          /\ hc'.outcome = hc.outcome /\ hc'.stop = hc.stop /\ hc'.veto = hc.veto
      BY <2>1, <2>2 DEF Phased, Entry, SameDeploy
    <2>4. Follows(hc, hc')
      BY <2>2, <2>3, AccountedAlike
    <2> QED
      BY <2>1, <2>2, <2>3, <2>4 DEF HeldFollows, HeldAccounts, Holding, Follows, Open, Pending
  <1> QED
    BY <1>1, <1>2, <1>3, <1>4, <1>5, <1>6

\* Every step of advance.
LEMMA AdvanceFollows ==
    ASSUME AccountInv, Advance
    PROVE  HeldFollows
  <1>1. CASE StopAdvance \/ Poll \/ Quiesce \/ Unpause \/ Trigger \/ Retire \/ Conclude
    BY <1>1, StopAdvanceFollows, PollFollows, QuiesceFollows, UnpauseFollows, TriggerFollows,
       RetireFollows, ConcludeFollows
  <1>2. CASE ~(StopAdvance \/ Poll \/ Quiesce \/ Unpause \/ Trigger \/ Retire \/ Conclude)
    BY <1>2, CallsFollow DEF Advance
  <1> QED
    BY <1>1, <1>2

\* advance works on the entry the sweep holds.
LEMMA AdvanceHolds == Advance => Holding /\ Holding'
  <1>1. Advance => Holding
    BY DEF Advance, StopAdvance, Poll, Quiesce, Unpause, Trigger, Retire, Conclude, InPhase,
           QuiesceDone, UnpauseOK, UnpauseFails, TriggerOK, TriggerFails, RetireDone,
           QuiesceOne, QuiesceFails, RetireOne, RetireSkips, RetireFails, RetireBreaks, Holding
  <1>2. (\E e : Yield(e)) \/ (\E t : Enter("quiesce", t) \/ Enter("unpause", t)
                                    \/ Enter("trigger", t) \/ Enter("retire", t)) => Holding'
    BY DEF Yield, Enter, Holding
  <1>3. StopAdvance \/ Poll \/ Quiesce \/ Unpause \/ Trigger \/ Retire \/ Conclude => Holding'
    BY <1>2 DEF StopAdvance, Poll, Quiesce, Unpause, Trigger, Retire, Conclude
  <1>4. QuiesceDone \/ UnpauseOK \/ UnpauseFails \/ TriggerOK \/ TriggerFails \/ RetireDone
           => Holding'
    BY <1>2 DEF QuiesceDone, UnpauseOK, UnpauseFails, TriggerOK, TriggerFails, RetireDone
  <1>5. ASSUME NEW g \in Dags, \/ QuiesceOne(g) \/ QuiesceFails(g) \/ RetireOne(g) \/ RetireSkips(g)
                               \/ RetireFails(g) \/ RetireBreaks(g)
        PROVE  Holding'
    BY <1>2, <1>5 DEF QuiesceOne, QuiesceFails, RetireOne, RetireSkips, RetireFails, RetireBreaks,
       Holding
  <1> QED
    BY <1>1, <1>3, <1>4, <1>5 DEF Advance

\* advance holds its entry in memory: the journal is not written to.
LEMMA AdvanceQuiet == Advance => UNCHANGED <<journal, request, hd, interventions>>
  <1>1. ASSUME StopAdvance \/ Poll \/ Quiesce \/ Unpause
        PROVE  UNCHANGED <<journal, request, hd, interventions>>
    BY <1>1 DEF StopAdvance, Poll, Quiesce, Unpause, Yield, Enter, server
  <1>2. ASSUME Trigger \/ Retire \/ Conclude
        PROVE  UNCHANGED <<journal, request, hd, interventions>>
    BY <1>2 DEF Trigger, Retire, Conclude, Yield, Enter, server
  <1>3. ASSUME QuiesceDone \/ UnpauseOK \/ UnpauseFails \/ TriggerOK \/ TriggerFails \/ RetireDone
        PROVE  UNCHANGED <<journal, request, hd, interventions>>
    BY <1>3 DEF QuiesceDone, UnpauseOK, UnpauseFails, TriggerOK, TriggerFails, RetireDone, Yield,
         server
  <1>4. ASSUME NEW g \in Dags, \/ QuiesceOne(g) \/ QuiesceFails(g) \/ RetireOne(g) \/ RetireSkips(g)
                               \/ RetireFails(g) \/ RetireBreaks(g)
        PROVE  UNCHANGED <<journal, request, hd, interventions>>
    BY <1>4 DEF QuiesceOne, QuiesceFails, RetireOne, RetireSkips, RetireFails, RetireBreaks, Yield,
         server
  <1> QED
    BY <1>1, <1>2, <1>3, <1>4 DEF Advance

-----------------------------------------------------------------------------
(* The theorems on what lasts. *)

\* Nothing is journaled and nothing is held.
LEMMA AccountInitially == Init => AccountInv
  BY Initially DEF Init, AccountInv, JournalAccounts, Written, HeldAccounts, HeldSame, Holding

\* A step leaves what is held alone, or ends the hold, or is one of the sweep's.
LEMMA SweepMoves ==
    ASSUME [Next]_vars
    PROVE  \/ UNCHANGED sweep
           \/ at' \in {"idle", "sweep"} /\ hd' = hd /\ ~Holding
           \/ at' = "idle" /\ hd' = NoDeploy
           \/ WriteBack
           \/ Advance
           \/ \E d \in Deploys : Claim(d)
  <1> DEFINE Moves == \/ UNCHANGED sweep
                      \/ at' \in {"idle", "sweep"} /\ hd' = hd /\ ~Holding
                      \/ at' = "idle" /\ hd' = NoDeploy
                      \/ WriteBack
  <1>1. ASSUME Handlers PROVE UNCHANGED sweep
    BY <1>1 DEF Handlers, DeployWrite, Supersede, Put, PutFails, Cancel, Resume, PauseVeto,
         PausePatch, UserUnpause, Undeploy
  <1>2. ASSUME Sweep, ~Advance, \A d \in Deploys : ~Claim(d)
        PROVE  Moves
    BY <1>2 DEF Sweep, SweepStart, ClaimFails, DenyAll, SweepEnd, WriteBackFails, Holding
  <1>3. ASSUME Restart \/ Tick \/ \E g \in Dags : Parse(g)
        PROVE  Moves
    BY <1>3 DEF Restart, Tick, Parse
  <1>4. UNCHANGED vars => UNCHANGED sweep
    BY DEF vars
  <1> QED
    BY <1>1, <1>2, <1>3, <1>4 DEF Next

\* Every step leaves a journal that lasts.
LEMMA EveryStepLasts ==
    ASSUME AccountInv, [Next]_vars
    PROVE  JournalLasts
  <1> USE DEF journal, request
  <1>1. CASE Handlers
    <2>1. CASE \E d \in Deploys : \/ DeployWrite(d) \/ Supersede(d) \/ Put(d) \/ PutFails(d)
                                  \/ Cancel(d) \/ Resume(d)
      BY <2>1, DeployWriteLasts, SupersedeLasts, PutLasts, PutFailsLasts, CancelLasts, ResumeLasts
    <2>2. ASSUME NEW g \in UserDags, PauseVeto(g) PROVE JournalLasts
      BY <2>2, PauseVetoLasts
    <2>3. ASSUME NEW g \in UserDags, PausePatch(g) \/ UserUnpause(g) \/ Undeploy(g)
          PROVE  JournalLasts
      BY <2>3, QuietLasts DEF PausePatch, UserUnpause, Undeploy
    <2> QED
      BY <1>1, <2>1, <2>2, <2>3 DEF Handlers
  <1>2. CASE Advance
    BY <1>2, AdvanceQuiet, QuietLasts
  <1>3. CASE Sweep /\ ~Advance
    <2>1. ASSUME NEW r \in SUBSET Deploys, NEW l \in SUBSET Deploys, SweepStart(r, l)
          PROVE  JournalLasts
      <3>1. \A d \in Deploys : loc'[d] = loc[d] \/ {loc[d], loc'[d]} \subseteq {"pending", "inflight"}
        BY <2>1 DEF SweepStart
      <3> QED
        BY <2>1, <3>1, QuietLasts DEF SweepStart
    <2>2. ASSUME NEW d \in Deploys, Claim(d) \/ ClaimFails(d) PROVE JournalLasts
      <3>1. \A o \in Deploys : loc'[o] = loc[o] \/ {loc[o], loc'[o]} \subseteq {"pending", "inflight"}
        BY <2>2 DEF Claim, ClaimFails, AccountInv, IndInv, TypeOK
      <3> QED
        BY <2>2, <3>1, QuietLasts DEF Claim, ClaimFails
    <2>3. ASSUME SweepEnd \/ WriteBackFails PROVE JournalLasts
      BY <2>3, QuietLasts DEF SweepEnd, WriteBackFails
    <2> QED
      BY <1>3, <2>1, <2>2, <2>3, DenyAllLasts, WriteBackLasts DEF Sweep
  <1>4. CASE Restart
    BY <1>4, RestartLasts
  <1>5. CASE Tick \/ \E g \in Dags : Parse(g)
    BY <1>5, QuietLasts DEF Tick, Parse
  <1>6. CASE UNCHANGED vars
    BY <1>6, QuietLasts DEF vars
  <1> QED
    BY <1>1, <1>2, <1>3, <1>4, <1>5, <1>6 DEF Next

\* The journal, and the copy in memory, account for what they say after every step.
LEMMA AccountInductive == AccountInv /\ [Next]_vars => AccountInv'
  <1> SUFFICES ASSUME AccountInv, [Next]_vars PROVE AccountInv'
    OBVIOUS
  <1>1. IndInv' /\ JournalAccounts'
    BY Inductive, EveryStepLasts DEF AccountInv, JournalLasts, Lasting, JournalAccounts
  <1>2. HeldAccounts' /\ HeldSame'
    <2>1. CASE UNCHANGED sweep
      <3>1. HeldSame'
        <4>1. CASE Holding
          <5>1. hd' = hd /\ hc' = hc /\ hd \in Deploys /\ loc[hd] = "inflight" /\ loc'[hd] = "inflight"
            BY <1>1, <2>1, <4>1 DEF AccountInv, IndInv, HeldOK, Holding, sweep
          <5>2. Written(hd) /\ Written(hd)'
            BY <5>1 DEF Written
          <5>3. SameFlow(copy[hd], copy'[hd])
            BY <5>1, <5>2, EveryStepLasts DEF JournalLasts, Lasting
          <5>4. SameFlow(copy[hd], hc) /\ Holding'
            BY <2>1, <4>1 DEF AccountInv, HeldSame, Holding, sweep
          <5> QED
            BY <5>1, <5>3, <5>4 DEF HeldSame, SameFlow
        <4>2. CASE ~Holding
          BY <2>1, <4>2 DEF AccountInv, HeldSame, Holding, sweep
        <4> QED
          BY <4>1, <4>2
      <3> QED
        BY <2>1, <3>1, SweepAside DEF AccountInv
    <2>2. CASE \/ at' \in {"idle", "sweep"} /\ hd' = hd /\ ~Holding
               \/ at' = "idle" /\ hd' = NoDeploy
               \/ WriteBack
      <3>1. at' \in {"idle", "sweep"} /\ hd' = NoDeploy
        BY <2>2 DEF AccountInv, HeldSame, WriteBack
      <3> QED
        BY <3>1, SweepAside DEF AccountInv, HeldSame, Holding
    <2>3. CASE Advance
      <3>1. HeldAccounts' /\ SameDeploy(hc, hc') /\ copy' = copy /\ hd' = hd
        BY <2>3, AdvanceFollows, AdvanceQuiet DEF HeldFollows, journal
      <3>2. Holding /\ Holding'
        BY <2>3, AdvanceHolds
      <3> QED
        BY <3>1, <3>2 DEF AccountInv, HeldSame, SameFlow, SameDeploy
    <2>4. ASSUME NEW d \in Deploys, Claim(d) PROVE HeldAccounts' /\ HeldSame'
      <3>1. HeldAccounts'
        BY <2>4, ClaimAccounts
      <3>2. HeldSame'
        BY <2>4 DEF Claim, AccountInv, HeldSame, Holding, SameFlow
      <3> QED
        BY <3>1, <3>2
    <2> QED
      BY <2>1, <2>2, <2>3, <2>4, SweepMoves
  <1> QED
    BY <1>1, <1>2 DEF AccountInv

\* What an entry says of itself is true, in the journal and in the sweep's memory: an
\* open one is in a phase whose predecessors are over, no honoured veto leaves anything
\* to unpause, and "completed" owes nothing (advance, _next_phase, reopen_expired).
THEOREM AccountsHold == Spec => []AccountInv
  BY AccountInitially, AccountInductive, PTL DEF Spec

\* "completed" is earned: the DAG was registered, and unpaused and triggered unless a
\* person decided otherwise; where both were done the old DAG was dealt with too
\* (_finish, _terminate and their callers).
THEOREM CompletedIsDeserved == Spec => []CompletedIsEarned
  <1>1. AccountInv => CompletedIsEarned
    BY DEF AccountInv, JournalAccounts, Written, Accounted, CompletedIsTrue, Owed, CutShort,
       CompletedIsEarned
  <1> QED
    BY <1>1, AccountsHold, PTL

\* A stop or a veto recorded on an entry is on it until it has been honoured, whoever
\* writes the entry, reclaims or re-arms it, or finds it after a crash (_move_out).
THEOREM RequestsLast == Spec => RequestsSurvive
  <1>1. AccountInv /\ [Next]_vars =>
          [\A d \in Deploys : loc[d] # "none" =>
              /\ StopRequested(copy[d]) => StopRequested(copy[d]') \/ ~Open(copy[d]')
              /\ copy[d].veto = "requested" =>
                    \/ copy[d]'.veto = "requested"
                    \/ ~Pending(copy[d]', "unpause") /\ ~Pending(copy[d]', "trigger")]_vars
    BY EveryStepLasts DEF JournalLasts, Lasting, Carries
  <1> QED
    BY <1>1, AccountsHold, PTL DEF Spec, RequestsSurvive

\* The last word on an entry is moved by the sweep that holds it, or by nobody.
LEMMA LatestLasts ==
    ASSUME AccountInv, [Next]_vars, NEW d \in Deploys, loc[d] # "none", hd # d \/ at' # "idle"
    PROVE  Decided(Latest(d), Latest(d)')
  <1>1. Decided(copy[d], copy'[d]) \/ (WriteBack /\ d = hd)
    BY EveryStepLasts DEF JournalLasts, Lasting
  <1>2. NoDeploy \notin Deploys /\ \A e : Decided(e, e)
    BY LifecycleAssumption DEF Decided
  <1>3. CASE hd # d
    <2>1. Latest(d) = copy[d] /\ Decided(copy[d], copy'[d])
      BY <1>1, <1>3 DEF Latest
    <2>2. hd' # d \/ hc' = copy[d]
      BY <1>2, <1>3, SweepMoves, AdvanceQuiet DEF sweep, WriteBack, Claim
    <2> QED
      BY <1>2, <2>1, <2>2 DEF Latest
  <1>4. CASE hd = d
    <2>1. Holding /\ Latest(d) = hc /\ at' # "idle"
      BY <1>2, <1>4 DEF AccountInv, HeldSame, Latest
    <2>2. CASE UNCHANGED sweep
      BY <1>2, <1>4, <2>1, <2>2 DEF Latest, sweep
    <2>3. CASE WriteBack
      <3>1. Decided(hc, copy'[d]) /\ hd' # d
        BY <1>2, <1>4, <2>3, WriteBackDecides DEF WriteBack
      <3> QED
        BY <2>1, <3>1 DEF Latest
    <2>4. CASE Advance
      BY <1>4, <2>1, <2>4, AdvanceFollows, AdvanceQuiet DEF HeldFollows, Latest
    <2>5. ASSUME NEW o \in Deploys, Claim(o) PROVE FALSE
      BY <2>1, <2>5 DEF Claim, Holding
    <2> QED
      BY <2>1, <2>2, <2>3, <2>4, <2>5, SweepMoves
  <1> QED
    BY <1>3, <1>4

\* No step that was decided is put back to work, on disk or in the sweep's memory: not
\* by "Keep waiting", by any step of a sweep or its write back, nor by a restart as far
\* as it had been written (reopen_expired, advance, _move_out, _finalize_expired).
THEOREM DecisionsLast == Spec => DecisionsAreFinal
  <1>1. ASSUME AccountInv, [Next]_vars, NEW d \in Deploys, NEW name \in StepNames, loc[d] # "none"
        PROVE  /\ (hd # d \/ at' # "idle") /\ Latest(d).steps[name] \in Decisions =>
                     Latest(d)'.steps[name] \in {Latest(d).steps[name], "import_failed"}
               /\ at' = "idle" /\ copy[d].steps[name] \in Decisions =>
                     copy[d]'.steps[name] \in {copy[d].steps[name], "import_failed"}
    <2>1. at' = "idle" => Decided(copy[d], copy'[d])
      BY <1>1, EveryStepLasts DEF JournalLasts, Lasting, WriteBack
    <2>2. (hd # d \/ at' # "idle") => Decided(Latest(d), Latest(d)')
      BY <1>1, LatestLasts
    <2> QED
      BY <1>1, <2>1, <2>2 DEF Decided
  <1>2. AccountInv /\ [Next]_vars =>
          [\A d \in Deploys, name \in StepNames : loc[d] # "none" =>
              /\ (hd # d \/ at' # "idle") /\ Latest(d).steps[name] \in Decisions =>
                    Latest(d)'.steps[name] \in {Latest(d).steps[name], "import_failed"}
              /\ at' = "idle" /\ copy[d].steps[name] \in Decisions =>
                    copy[d]'.steps[name] \in {copy[d].steps[name], "import_failed"}]_vars
    BY <1>1
  <1> QED
    BY <1>2, AccountsHold, PTL DEF Spec, DecisionsAreFinal

-----------------------------------------------------------------------------
(* A flow keeps a DAG. *)

\* What stands where a deploy wrote its file, under its name, is of its flow.
FilesNamed ==
    \A d \in Deploys :
        Written(d) /\ Managed(copy[d].dag) /\ file[copy[d].dag].by = d =>
            file[copy[d].dag].flow = copy[d].flow

\* The retire step leaves the DAG of the deploy itself alone, and that one stands.
HeldTargets == at = "retire" => todo \subseteq OldDags(hc)

HeldStands ==
    at = "retire" /\ interventions = 0 /\ hc.flow # NoFlow =>
        Managed(hc.dag) /\ file[hc.dag].flow = hc.flow

\* The inductive invariant behind FlowKeepsADag.
FlowInv == AccountInv /\ FilesNamed /\ HeldTargets /\ HeldStands /\ FlowKeepsADag

\* What a step does to the files that are some flow's.
FilesSpared ==
    \A h \in Dags : Managed(h) /\ file[h].flow # NoFlow =>
        \/ Managed(h)' /\ file'[h].flow = file[h].flow
        \/ at = "retire" /\ h # hc.dag /\ file[h].flow = hc.flow
        \/ interventions' # 0

\* A deploy overwrites a file of its own flow only, and the retire step removes such
\* a file only, and not its own DAG's; else people remove files (deploy_dag,
\* retire_old_dag, purge_dag).
LEMMA FilesStep ==
    ASSUME FlowInv, [Next]_vars
    PROVE  /\ FilesSpared
           /\ \/ file' = file
              \/ \E d \in Deploys : DeployWrite(d)
              \/ \E g \in Dags : file' = [file EXCEPT ![g] = NoFile]
  <1>1. file \in [Dags -> FileStates]
    BY DEF FlowInv, AccountInv, IndInv, TypeOK
  <1>2. CASE file' = file
    BY <1>2 DEF FilesSpared, Managed
  <1>3. ASSUME NEW d \in Deploys, DeployWrite(d) PROVE FilesSpared
    <2>1. PICK r \in Requests :
             ~Foreign(r.dag, r.flow) /\ file' = [file EXCEPT ![r.dag] = [by |-> d, flow |-> r.flow]]
      BY <1>3 DEF DeployWrite
    <2>2. r \in Request
      BY LifecycleAssumption
    <2> DEFINE new == [by |-> d, flow |-> r.flow]
    <2>3. new \notin {NoFile, HandWritten} /\ new.flow = r.flow
      <3>1. new \in StudioFile
        BY <2>2 DEF StudioFile, Request
      <3> QED
        BY <3>1, LifecycleAssumption
    <2>4. file'[r.dag] = new /\ \A h \in Dags \ {r.dag} : file'[h] = file[h]
      BY <1>1, <2>1, <2>2 DEF Request
    <2> HIDE DEF new
    <2> QED
      BY <2>1, <2>3, <2>4 DEF FilesSpared, Managed, Foreign
  <1>4. ASSUME NEW g \in UserDags, Undeploy(g)
        PROVE  FilesSpared /\ file' = [file EXCEPT ![g] = NoFile] /\ g \in Dags
    <2>1. interventions' = interventions + 1 /\ interventions \in Nat
      BY <1>4 DEF Undeploy, Intervention, FlowInv, AccountInv, IndInv, TypeOK
    <2> QED
      BY <1>4, <2>1, LifecycleAssumption DEF FilesSpared, Undeploy
  <1>5. ASSUME NEW g \in Dags, RetireOne(g) \/ RetireBreaks(g)
        PROVE  FilesSpared /\ file' = [file EXCEPT ![g] = NoFile]
    <2>1. /\ at = "retire" /\ g \in todo /\ ~Foreign(g, hc.flow)
          /\ file' = [file EXCEPT ![g] = NoFile]
      BY <1>5 DEF RetireOne, RetireBreaks, RemoveFile
    <2>2. g # hc.dag
      BY <2>1 DEF FlowInv, HeldTargets, OldDags
    <2>3. \A h \in Dags \ {g} : file'[h] = file[h]
      BY <2>1
    <2> QED
      BY <2>1, <2>2, <2>3 DEF FilesSpared, Managed, Foreign
  <1>6. \/ file' = file
        \/ \E d \in Deploys : DeployWrite(d)
        \/ \E g \in UserDags : Undeploy(g)
        \/ \E g \in Dags : RetireOne(g) \/ RetireBreaks(g)
    <2> USE DEF world
    <2>1. ASSUME Handlers, \A d \in Deploys : ~DeployWrite(d), \A g \in UserDags : ~Undeploy(g)
          PROVE  file' = file
      BY <2>1 DEF Handlers, Supersede, Put, PutFails, Cancel, Resume, PauseVeto, PausePatch,
           UserUnpause
    <2>2. ASSUME Advance, \A g \in Dags : ~(RetireOne(g) \/ RetireBreaks(g)) PROVE file' = file
      <3>1. ASSUME StopAdvance \/ Poll \/ Quiesce \/ Unpause PROVE file' = file
        BY <3>1 DEF StopAdvance, Poll, Quiesce, Unpause, StillWorld, Enter
      <3>2. ASSUME Trigger \/ Retire \/ Conclude PROVE file' = file
        BY <3>2 DEF Trigger, Retire, Conclude, StillWorld, Enter
      <3>3. ASSUME QuiesceDone \/ UnpauseOK \/ UnpauseFails \/ TriggerOK \/ TriggerFails \/ RetireDone
            PROVE  file' = file
        BY <3>3 DEF QuiesceDone, UnpauseOK, UnpauseFails, TriggerOK, TriggerFails, RetireDone,
             StillWorld
      <3>4. ASSUME NEW g \in Dags, QuiesceOne(g) \/ QuiesceFails(g) \/ RetireSkips(g) \/ RetireFails(g)
            PROVE  file' = file
        BY <3>4 DEF QuiesceOne, QuiesceFails, RetireSkips, RetireFails, StillWorld
      <3> QED
        BY <2>2, <3>1, <3>2, <3>3, <3>4 DEF Advance
    <2>3. ASSUME Sweep, ~Advance PROVE file' = file
      BY <2>3 DEF Sweep, SweepStart, Claim, ClaimFails, DenyAll, SweepEnd, WriteBack, WriteBackFails
    <2>4. ASSUME Restart \/ Tick \/ \E g \in Dags : Parse(g) PROVE file' = file
      BY <2>4 DEF Restart, Tick, Parse
    <2>5. UNCHANGED vars => file' = file
      BY DEF vars
    <2> QED
      BY <2>1, <2>2, <2>3, <2>4, <2>5 DEF Next
  <1> QED
    BY <1>2, <1>3, <1>4, <1>5, <1>6

\* The interventions are counted up.
LEMMA InterventionsGrow ==
    ASSUME FlowInv, [Next]_vars, interventions' = 0
    PROVE  interventions = 0
  <1>1. interventions \in Nat
    BY DEF FlowInv, AccountInv, IndInv, TypeOK
  <1>2. interventions' \in {interventions, interventions + 1}
    <2> USE DEF server
    <2>1. ASSUME Handlers PROVE interventions' \in {interventions, interventions + 1}
      BY <2>1 DEF Handlers, DeployWrite, Supersede, Put, PutFails, Cancel, Resume, PauseVeto,
           PausePatch, UserUnpause, Undeploy, Intervention
    <2>2. ASSUME Sweep PROVE interventions' = interventions
      BY <2>2, AdvanceQuiet DEF Sweep, SweepStart, Claim, ClaimFails, DenyAll, SweepEnd, WriteBack,
           WriteBackFails, Fault
    <2>3. ASSUME Restart \/ Tick \/ \E g \in Dags : Parse(g) PROVE interventions' = interventions
      BY <2>3 DEF Restart, Tick, Parse
    <2>4. UNCHANGED vars => interventions' = interventions
      BY DEF vars
    <2> QED
      BY <2>1, <2>2, <2>3, <2>4 DEF Next
  <1> QED
    BY <1>1, <1>2

\* The sweep enters the retire step on a file it found to be this deploy's, and works
\* its queue off.
LEMMA RetireEntered ==
    ASSUME FlowInv, [Next]_vars, at' = "retire"
    PROVE  \/ at = "retire" /\ SameDeploy(hc, hc') /\ todo' \subseteq todo
           \/ /\ at = "claimed" /\ file' = file /\ SameDeploy(hc, hc')
              /\ Managed(hc.dag) /\ file[hc.dag].by = hd
              /\ todo' \subseteq OldDags(hc')
  <1>1. CASE UNCHANGED sweep
    BY <1>1 DEF sweep, SameDeploy
  <1>2. CASE Advance
    <2>1. SameDeploy(hc, hc')
      BY <1>2, AdvanceFollows DEF FlowInv, HeldFollows
    <2>2. \/ at = "retire" /\ todo' \subseteq todo
          \/ /\ at = "claimed" /\ Enter("retire", OldDags(Now) \ Now.retired)
             /\ "live" \in Verdicts(hd, Now)
      <3>1. ~(StopAdvance \/ Poll \/ Quiesce \/ Unpause \/ Trigger \/ Conclude)
        BY DEF StopAdvance, Poll, Quiesce, Unpause, Trigger, Conclude, Yield, Enter
      <3>2. ~(QuiesceDone \/ UnpauseOK \/ UnpauseFails \/ TriggerOK \/ TriggerFails \/ RetireDone)
        BY DEF QuiesceDone, UnpauseOK, UnpauseFails, TriggerOK, TriggerFails, RetireDone, Yield
      <3>3. \A g \in Dags : ~(QuiesceOne(g) \/ QuiesceFails(g) \/ RetireFails(g) \/ RetireBreaks(g))
        BY DEF QuiesceOne, QuiesceFails, RetireFails, RetireBreaks, Yield
      <3>4. ASSUME NEW g \in Dags, RetireOne(g) \/ RetireSkips(g)
            PROVE  at = "retire" /\ todo' \subseteq todo
        BY <3>4 DEF RetireOne, RetireSkips
      <3>5. ASSUME Retire
            PROVE  at = "claimed" /\ Enter("retire", OldDags(Now) \ Now.retired)
                     /\ "live" \in Verdicts(hd, Now)
        BY <3>5 DEF Retire, InPhase, Yield
      <3> QED
        BY <1>2, <3>1, <3>2, <3>3, <3>4, <3>5 DEF Advance
    <2>3. CASE at = "claimed"
      <3>1. hc' = Now /\ todo' = OldDags(Now) \ Now.retired /\ file' = file
        BY <2>2, <2>3 DEF Enter, world
      <3>2. SameDeploy(hc, Now)
        BY <2>3, NowAccounts DEF FlowInv
      <3>3. Managed(Now.dag) /\ file[Now.dag].by = hd
        BY <2>2, <2>3 DEF Verdicts
      <3> HIDE DEF Now
      <3> QED
        BY <2>1, <2>3, <3>1, <3>2, <3>3 DEF SameDeploy
    <2> QED
      BY <2>1, <2>2, <2>3
  <1>3. ASSUME NEW d \in Deploys, Claim(d) PROVE at = "retire" /\ FALSE
    BY <1>3 DEF Claim
  <1> QED
    BY <1>1, <1>2, <1>3, SweepMoves DEF WriteBack

\* No step leaves a flow without its DAG.
LEMMA FlowInductive == FlowInv /\ [Next]_vars => FlowInv'
  <1> SUFFICES ASSUME FlowInv, [Next]_vars PROVE FlowInv'
    OBVIOUS
  <1>1. AccountInv /\ AccountInv' /\ JournalLasts /\ FilesSpared
    BY AccountInductive, EveryStepLasts, FilesStep DEF FlowInv
  <1>2. file \in [Dags -> FileStates] /\ copy \in [Deploys -> Entry \cup {NoEntry}]
    BY DEF FlowInv, AccountInv, IndInv, TypeOK
  <1>3. FilesNamed'
    <2>1. ASSUME NEW d \in Deploys, DeployWrite(d) PROVE FilesNamed'
      <3>1. PICK r \in Requests :
               /\ file' = [file EXCEPT ![r.dag] = [by |-> d, flow |-> r.flow]]
               /\ copy' = [copy EXCEPT ![d] = NewEntry(r.dag, r.flow, r.run, r.retire, r.purge)]
        BY <2>1 DEF DeployWrite
      <3>2. r.dag \in Dags
        BY LifecycleAssumption DEF Request
      <3>3. /\ copy'[d].dag = r.dag /\ copy'[d].flow = r.flow
            /\ file'[r.dag] = [by |-> d, flow |-> r.flow]
            /\ \A h \in Dags \ {r.dag} : file'[h] = file[h]
            /\ \A o \in Deploys \ {d} : copy'[o] = copy[o]
        BY <1>2, <3>1, <3>2 DEF NewEntry
      <3>4. ASSUME NEW o \in Deploys \ {d}, Written(o)', Managed(copy[o].dag)',
                   file'[copy'[o].dag].by = o
            PROVE  file'[copy'[o].dag].flow = copy'[o].flow
        <4>1. Written(o)
          BY <2>1, <3>4 DEF Written, DeployWrite, FlowInv, AccountInv, IndInv, TypeOK
        <4>2. copy[o].dag \in Dags \ {r.dag}
          BY <3>3, <3>4, <4>1 DEF FlowInv, AccountInv, IndInv, JournalOK, Written, Phased, Entry
        <4> QED
          BY <3>3, <3>4, <4>1, <4>2 DEF FlowInv, FilesNamed, Managed
      <3> QED
        BY <3>3, <3>4 DEF FilesNamed, Managed
    <2>2. ASSUME \A d \in Deploys : ~DeployWrite(d),
                 file' = file \/ \E g \in Dags : file' = [file EXCEPT ![g] = NoFile]
          PROVE  FilesNamed'
      <3>1. ASSUME NEW d \in Deploys, Written(d)', Managed(copy[d].dag)', file'[copy'[d].dag].by = d
            PROVE  file'[copy'[d].dag].flow = copy'[d].flow
        <4>1. Written(d) /\ copy'[d].dag = copy[d].dag /\ copy'[d].flow = copy[d].flow
          BY <1>1, <2>2, <3>1 DEF JournalLasts, Lasting, SameFlow
        <4>2. copy[d].dag \in Dags
          BY <4>1 DEF FlowInv, AccountInv, IndInv, JournalOK, Written, Phased, Entry
        <4>3. file'[copy[d].dag] \in {file[copy[d].dag], NoFile}
          BY <1>2, <2>2, <4>2
        <4>4. file'[copy[d].dag] = file[copy[d].dag]
          BY <3>1, <4>1, <4>3 DEF Managed
        <4> QED
          BY <3>1, <4>1, <4>4 DEF FlowInv, FilesNamed, Managed
      <3> QED
        BY <3>1 DEF FilesNamed
    <2> QED
      BY <2>1, <2>2, FilesStep
  <1>4. HeldTargets'
    BY RetireEntered DEF FlowInv, HeldTargets, OldDags, SameDeploy
  <1>5. HeldStands'
    <2>1. SUFFICES ASSUME at' = "retire", interventions' = 0, hc'.flow # NoFlow
                   PROVE  Managed(hc.dag)' /\ file'[hc'.dag].flow = hc'.flow
      BY DEF HeldStands
    <2>2. SameDeploy(hc, hc') /\ hc'.dag = hc.dag /\ hc'.flow = hc.flow
      BY <2>1, RetireEntered DEF SameDeploy
    <2>3. interventions = 0
      BY <2>1, InterventionsGrow
    <2>4. CASE at = "retire"
      <3>1. Managed(hc.dag) /\ file[hc.dag].flow = hc.flow /\ hc.dag \in Dags
        BY <2>1, <2>2, <2>3, <2>4 DEF FlowInv, HeldStands, AccountInv, IndInv, HeldOK, Holding,
             Phased, Entry
      <3> QED
        BY <1>1, <2>1, <2>2, <3>1 DEF FilesSpared
    <2>5. CASE at = "claimed" /\ file' = file /\ Managed(hc.dag) /\ file[hc.dag].by = hd
      <3>1. hd \in Deploys /\ Written(hd) /\ SameFlow(copy[hd], hc)
        BY <2>5 DEF FlowInv, AccountInv, HeldSame, IndInv, HeldOK, Holding, Written
      <3> QED
        BY <2>2, <2>5, <3>1 DEF FlowInv, FilesNamed, SameFlow, Managed
    <2> QED
      BY <2>1, <2>4, <2>5, RetireEntered
  <1>6. FlowKeepsADag'
    <2>1. SUFFICES ASSUME interventions' = 0,
                          NEW g \in Dags, InitFile[g] \in StudioFile, InitFile[g].flow # NoFlow
                   PROVE  \E h \in Dags : Managed(h)' /\ file'[h].flow = InitFile[g].flow
      BY DEF FlowKeepsADag
    <2>2. interventions = 0
      BY <2>1, InterventionsGrow
    <2>3. PICK h \in Dags : Managed(h) /\ file[h].flow = InitFile[g].flow
      BY <2>1, <2>2 DEF FlowInv, FlowKeepsADag
    <2>4. CASE at = "retire" /\ h # hc.dag /\ file[h].flow = hc.flow
      <3>1. Managed(hc.dag) /\ file[hc.dag].flow = hc.flow /\ hc.dag \in Dags
        BY <2>1, <2>2, <2>3, <2>4 DEF FlowInv, HeldStands, AccountInv, IndInv, HeldOK, Holding,
             Phased, Entry
      <3> QED
        BY <1>1, <2>1, <2>3, <2>4, <3>1 DEF FilesSpared
    <2> QED
      BY <1>1, <2>1, <2>3, <2>4 DEF FilesSpared
  <1> QED
    BY <1>1, <1>3, <1>4, <1>5, <1>6 DEF FlowInv

\* Unless somebody intervenes, a flow that has a DAG in the folder keeps one, however
\* many renames are chained or overlap and wherever the server crashes
\* (_journal_deploy, _do_retire, retire_old_dag).
THEOREM FlowsKeepTheirDags == Spec => []FlowKeepsADag
  <1>1. Init => FlowInv
    <2>1. ASSUME Init PROVE FilesNamed /\ HeldTargets /\ HeldStands
      BY <2>1 DEF Init, FilesNamed, Written, HeldTargets, HeldStands
    <2>2. ASSUME Init PROVE FlowKeepsADag
      BY <2>2, LifecycleAssumption DEF Init, FlowKeepsADag, Managed
    <2> QED
      BY <2>1, <2>2, AccountInitially DEF FlowInv
  <1>2. FlowInv => FlowKeepsADag
    BY DEF FlowInv
  <1> QED
    BY <1>1, <1>2, FlowInductive, PTL DEF Spec

-----------------------------------------------------------------------------
(* What was quiesced stays quiet, unless somebody wakes it. *)

\* For d, g is asleep: it is not live, or it was woken since d last paused it.
Quiet(d, g) == row[g] # "live" \/ g \in woken[d]

\* What d's entry says it has paused is asleep.
Asleep(d, e) == e.steps["quiesce"] = "done" => \A o \in OldDags(e) : Quiet(d, o)

JournalAsleep ==
    \A d \in Deploys :
        /\ Written(d) => Asleep(d, copy[d])
        /\ stage[d] \in {"written", "scanned"} => copy[d].steps["quiesce"] # "done"

\* So does the entry in memory, and its calls leave asleep what they have been through.
HeldAsleep ==
    /\ Holding => Asleep(hd, hc)
    /\ at = "quiesce" => \A o \in OldDags(hc) \ todo : Quiet(hd, o)

\* The inductive invariant behind QuiescedBeforeLive.
SleepInv == AccountInv /\ JournalAsleep /\ HeldAsleep

\* A DAG becomes live by a person's unpause or by an unpause step, and then every
\* deploy knows that it was woken.
LEMMA OneWakes ==
    ASSUME AccountInv, [Next]_vars, NEW g \in Dags, row[g] # "live", row'[g] = "live"
    PROVE  \A d \in Deploys : g \in woken'[d]
  <1>1. row \in [Dags -> RowStates]
    BY DEF AccountInv, IndInv, TypeOK
  <1>2. \A h \in Dags : PausedRow(h)[g] # "live" /\ RetiredRow(h)[g] # "live"
    BY <1>1 DEF PausedRow, RetiredRow
  <1>3. row' # row
    OBVIOUS
  <1>4. ASSUME NEW h \in Dags, Wakes(h) PROVE \A d \in Deploys : g \in woken'[d]
    <2>1. g = h
      BY <1>1, <1>4 DEF Wakes
    <2> QED
      BY <1>4, <2>1 DEF Wakes
  <1>5. CASE Handlers
    <2>1. ASSUME NEW h \in UserDags, PausePatch(h) \/ Undeploy(h) PROVE FALSE
      BY <1>1, <1>2, <2>1, LifecycleAssumption DEF PausePatch, Undeploy
    <2>2. ASSUME NEW h \in UserDags, UserUnpause(h) PROVE \A d \in Deploys : g \in woken'[d]
      BY <1>4, <2>2, LifecycleAssumption DEF UserUnpause
    <2>3. ASSUME \A h \in UserDags : ~(PausePatch(h) \/ UserUnpause(h) \/ Undeploy(h)) PROVE FALSE
      BY <1>3, <1>5, <2>3 DEF Handlers, DeployWrite, Supersede, Put, PutFails, Cancel, Resume, PauseVeto,
           world
    <2> QED
      BY <2>1, <2>2, <2>3
  <1>6. CASE Advance
    <2>1. ASSUME StopAdvance \/ Poll \/ Quiesce \/ Unpause PROVE FALSE
      BY <1>3, <2>1 DEF StopAdvance, Poll, Quiesce, Unpause, StillWorld, Enter, world
    <2>2. ASSUME Trigger \/ Retire \/ Conclude PROVE FALSE
      BY <1>3, <2>2 DEF Trigger, Retire, Conclude, StillWorld, Enter, world
    <2>3. ASSUME QuiesceDone \/ TriggerOK \/ TriggerFails \/ RetireDone PROVE FALSE
      BY <1>3, <2>3 DEF QuiesceDone, TriggerOK, TriggerFails, RetireDone, StillWorld, world
    <2>4. ASSUME NEW h \in Dags, QuiesceOne(h) \/ QuiesceFails(h) PROVE FALSE
      BY <1>2, <1>3, <2>4 DEF QuiesceOne, QuiesceFails
    <2>5. ASSUME NEW h \in Dags, RetireOne(h) \/ RetireBreaks(h) PROVE FALSE
      BY <1>2, <1>3, <2>5 DEF RetireOne, RetireBreaks
    <2>6. ASSUME NEW h \in Dags, RetireSkips(h) \/ RetireFails(h) PROVE FALSE
      BY <1>3, <2>6 DEF RetireSkips, RetireFails, StillWorld, world
    <2>7. ASSUME UnpauseOK \/ UnpauseFails PROVE \A d \in Deploys : g \in woken'[d]
      <3>1. at = "unpause" /\ Wakes(hc.dag)
        BY <1>3, <2>7 DEF UnpauseOK, UnpauseFails
      <3>2. hc.dag \in Dags
        BY <3>1 DEF AccountInv, IndInv, HeldOK, Holding, Phased, Entry
      <3> QED
        BY <1>4, <3>1, <3>2
    <2> QED
      BY <1>6, <2>1, <2>2, <2>3, <2>4, <2>5, <2>6, <2>7 DEF Advance
  <1>7. CASE Sweep /\ ~Advance
    BY <1>3, <1>7 DEF Sweep, SweepStart, Claim, ClaimFails, DenyAll, SweepEnd, WriteBack, WriteBackFails,
         world
  <1>8. ASSUME NEW h \in Dags, Parse(h) PROVE FALSE
    <2>1. row' = [row EXCEPT ![h] = IF row[h] = "none" THEN "paused" ELSE row[h]]
      BY <1>3, <1>8 DEF Parse
    <2> QED
      BY <1>1, <2>1
  <1>9. CASE Restart \/ Tick \/ UNCHANGED vars
    BY <1>3, <1>9 DEF Restart, Tick, vars, world
  <1> QED
    BY <1>5, <1>6, <1>7, <1>8, <1>9 DEF Next

\* A deploy forgets that a DAG was woken when it pauses it, and then only.
LEMMA OneForgets ==
    ASSUME AccountInv, [Next]_vars, NEW d \in Deploys, NEW g \in Dags,
           g \in woken[d], g \notin woken'[d]
    PROVE  row'[g] # "live"
  <1>1. /\ row \in [Dags -> RowStates] /\ woken \in [Deploys -> SUBSET Dags]
        /\ Holding => hd \in Deploys
    BY DEF AccountInv, IndInv, TypeOK, HeldOK
  <1>2. woken' # woken
    OBVIOUS
  <1>3. \A h \in Dags : ~Wakes(h)
    BY <1>1 DEF Wakes
  <1>4. CASE Handlers
    <2>1. \A h \in UserDags : ~UserUnpause(h)
      BY <1>3, LifecycleAssumption DEF UserUnpause
    <2> QED
      BY <1>2, <1>4, <2>1 DEF Handlers, DeployWrite, Supersede, Put, PutFails, Cancel, Resume,
           PauseVeto, PausePatch, Undeploy, world
  <1>5. CASE Advance
    <2>1. ASSUME StopAdvance \/ Poll \/ Quiesce \/ Unpause PROVE FALSE
      BY <1>2, <2>1 DEF StopAdvance, Poll, Quiesce, Unpause, StillWorld, Enter, world
    <2>2. ASSUME Trigger \/ Retire \/ Conclude PROVE FALSE
      BY <1>2, <2>2 DEF Trigger, Retire, Conclude, StillWorld, Enter, world
    <2>3. ASSUME QuiesceDone \/ TriggerOK \/ TriggerFails \/ RetireDone PROVE FALSE
      BY <1>2, <2>3 DEF QuiesceDone, TriggerOK, TriggerFails, RetireDone, StillWorld, world
    <2>4. ASSUME UnpauseOK \/ UnpauseFails PROVE FALSE
      <3>1. at = "unpause" /\ Wakes(hc.dag)
        BY <1>2, <2>4 DEF UnpauseOK, UnpauseFails
      <3>2. hc.dag \in Dags
        BY <3>1 DEF AccountInv, IndInv, HeldOK, Holding, Phased, Entry
      <3> QED
        BY <1>3, <3>1, <3>2
    <2>5. ASSUME NEW h \in Dags, \/ QuiesceFails(h) \/ RetireOne(h) \/ RetireSkips(h)
                                 \/ RetireFails(h) \/ RetireBreaks(h)
          PROVE  FALSE
      BY <1>2, <2>5 DEF QuiesceFails, RetireOne, RetireSkips, RetireFails, RetireBreaks, StillWorld,
           world
    <2>6. ASSUME NEW h \in Dags, QuiesceOne(h) PROVE row'[g] # "live"
      <3>1. row' = PausedRow(h) /\ woken' = [woken EXCEPT ![hd] = woken[hd] \ {h}]
        BY <2>6 DEF QuiesceOne
      <3>2. g = h
        BY <1>1, <3>1
      <3> QED
        BY <1>1, <3>1, <3>2 DEF PausedRow
    <2> QED
      BY <1>5, <2>1, <2>2, <2>3, <2>4, <2>5, <2>6 DEF Advance
  <1>6. CASE Sweep /\ ~Advance
    BY <1>2, <1>6 DEF Sweep, SweepStart, Claim, ClaimFails, DenyAll, SweepEnd, WriteBack, WriteBackFails,
         world
  <1>7. CASE Restart \/ Tick \/ (\E h \in Dags : Parse(h)) \/ UNCHANGED vars
    BY <1>2, <1>7 DEF Restart, Tick, Parse, vars, world
  <1> QED
    BY <1>4, <1>5, <1>6, <1>7 DEF Next

\* What is asleep for a deploy stays so.
LEMMA StaysQuiet ==
    ASSUME AccountInv, [Next]_vars, NEW d \in Deploys, NEW g \in Dags, Quiet(d, g)
    PROVE  Quiet(d, g)'
  BY OneWakes, OneForgets DEF Quiet

\* So do the old DAGs of an entry.
LEMMA StaysAsleep ==
    ASSUME AccountInv, [Next]_vars
    PROVE  /\ \A d \in Deploys : Written(d) =>
                 \A o \in OldDags(copy[d]) : Quiet(d, o) => Quiet(d, o)'
           /\ Holding => \E d \in Deploys :
                            d = hd /\ \A o \in OldDags(hc) : Quiet(d, o) => Quiet(d, o)'
  <1>1. ASSUME Holding PROVE hd \in Deploys /\ OldDags(hc) \subseteq Dags
    BY <1>1 DEF AccountInv, IndInv, HeldOK, Phased, Entry, OldDags
  <1>2. ASSUME NEW d \in Deploys, Written(d) PROVE OldDags(copy[d]) \subseteq Dags
    BY <1>2 DEF AccountInv, IndInv, JournalOK, Written, Phased, Entry, OldDags
  <1>3. \A d \in Deploys, g \in Dags : Quiet(d, g) => Quiet(d, g)'
    BY StaysQuiet
  <1>4. ASSUME Holding
        PROVE  \E d \in Deploys : d = hd /\ \A o \in OldDags(hc) : Quiet(d, o) => Quiet(d, o)'
    BY <1>1, <1>3, <1>4
  <1>5. ASSUME NEW d \in Deploys, Written(d)
        PROVE  \A o \in OldDags(copy[d]) : Quiet(d, o) => Quiet(d, o)'
    BY <1>2, <1>3, <1>5
  <1> QED
    BY <1>4, <1>5

-----------------------------------------------------------------------------
(* What the steps say of the quiesce. *)

\* What a step may do to the account a journaled entry gives of its quiesce.
Retells(d) ==
    \/ copy'[d].retire = copy[d].retire /\ SaysNoMore(copy[d], copy'[d])
    \/ stage[d] = "written" /\ copy'[d].steps = copy[d].steps
    \/ Holding /\ d = hd /\ copy'[d].retire = hc.retire /\ SaysNoMore(hc, copy'[d])

\* An entry that is not written to.
LEMMA UntouchedRetells ==
    ASSUME NEW d, copy'[d] = copy[d]
    PROVE  Retells(d)
  BY DEF Retells, SaysNoMore

\* A stored entry that is stopped (request_stop).
LEMMA StoppedRetells ==
    ASSUME AccountInv, NEW d \in Deploys, loc[d] \in {"pending", "inflight"},
           NEW outcome \in {"cancelled", "superseded"}, copy'[d] = Stopped(d, outcome)
    PROVE  Retells(d)
  <1>1. copy[d] \in Entry
    BY DEF AccountInv, IndInv, JournalOK, Phased
  <1>2. SaysNoMore(copy[d], Stopped(d, outcome))
    BY <1>1, FinishedSaysNoMore, RequestSaysNoMore DEF Stopped, StepNames
  <1>3. SameDeploy(copy[d], Stopped(d, outcome))
    BY StoppedLasts DEF Follows
  <1> QED
    BY <1>2, <1>3 DEF Retells, SameDeploy

\* The requests that write to the journal.
LEMMA HandlersRetell ==
    ASSUME SleepInv, Handlers, NEW d \in Deploys, Written(d), Written(d)'
    PROVE  Retells(d)
  <1>1. AccountInv /\ TypeOK /\ Phased(copy[d]) /\ copy[d] \in Entry
    BY DEF SleepInv, AccountInv, IndInv, JournalOK, Written, Phased
  <1>2. ASSUME NEW o \in Deploys, DeployWrite(o) PROVE Retells(d)
    <2>1. d # o
      BY <1>1, <1>2 DEF DeployWrite, Written, AccountInv, IndInv, JournalOK
    <2> QED
      BY <1>1, <1>2, <2>1, UntouchedRetells DEF DeployWrite, TypeOK
  <1>3. ASSUME NEW o \in Deploys, Supersede(o) PROVE Retells(d)
    <2> DEFINE older == OpenFor(copy[o].flow, copy[o].dag) \ {o}
               stranded == {x \in Deploys :
                              /\ loc[x] = "done" /\ OwesRetire(copy[x])
                              /\ IF copy[o].flow # NoFlow THEN copy[x].flow = copy[o].flow
                                                          ELSE copy[x].dag = copy[o].dag}
               heirs == {x \in older : Pending(copy[x], "retire")} \cup stranded
               queue == copy[o].retire \cup UNION {copy[x].retire : x \in heirs}
    <2>1. PICK P :
             copy' = [x \in Deploys |-> IF x = o THEN [copy[o] EXCEPT !.retire = queue, !.purge = P]
                                        ELSE IF x \in older THEN Stopped(x, "superseded")
                                        ELSE copy[x]]
      BY <1>3 DEF Supersede
    <2>2. stage[o] = "written"
      BY <1>3 DEF Supersede
    <2>3. \A x \in older : x \in Deploys /\ loc[x] \in {"pending", "inflight"}
      BY DEF OpenFor
    <2> HIDE DEF queue, heirs, older
    <2>6. CASE d = o
      <3>1. copy'[d] = [copy[d] EXCEPT !.retire = queue, !.purge = P]
        BY <2>1, <2>6
      <3>2. copy'[d].steps = copy[d].steps
        BY <1>1, <3>1 DEF Entry
      <3> QED
        BY <2>2, <2>6, <3>2 DEF Retells
    <2>7. CASE d # o /\ d \in older
      BY <1>1, <2>1, <2>3, <2>7, StoppedRetells
    <2>8. CASE d # o /\ d \notin older
      BY <2>1, <2>8, UntouchedRetells
    <2> QED
      BY <2>6, <2>7, <2>8
  <1>4. ASSUME NEW o \in Deploys, Put(o) PROVE Retells(d)
    <2>1. \/ \E x, y : copy'[d] = [copy[d] EXCEPT !.deadline = x, !.actDeadline = y]
          \/ copy'[d] = [copy[d] EXCEPT !.steps["retire"] = "inherited"]
          \/ copy'[d] = copy[d]
      BY <1>4 DEF Put
    <2>2. ASSUME NEW x, NEW y, copy'[d] = [copy[d] EXCEPT !.deadline = x, !.actDeadline = y]
          PROVE  Retells(d)
      BY <1>1, <2>2 DEF Retells, SaysNoMore, Entry
    <2>3. CASE copy'[d] = [copy[d] EXCEPT !.steps["retire"] = "inherited"]
      BY <1>1, <2>3 DEF Retells, SaysNoMore, Entry
    <2> QED
      BY <2>1, <2>2, <2>3, UntouchedRetells
  <1>5. ASSUME NEW o \in Deploys, PutFails(o) PROVE Retells(d)
    <2>1. d # o
      BY <1>1, <1>5 DEF PutFails, Written, AccountInv, IndInv, JournalOK, TypeOK
    <2> QED
      BY <1>1, <1>5, <2>1, UntouchedRetells DEF PutFails, TypeOK
  <1>6. ASSUME NEW o \in Deploys, Cancel(o) PROVE Retells(d)
    <2>1. CASE d = o
      BY <1>1, <1>6, <2>1, StoppedRetells DEF Cancel, TypeOK
    <2>2. CASE d # o
      BY <1>1, <1>6, <2>2, UntouchedRetells DEF Cancel, TypeOK
    <2> QED
      BY <2>1, <2>2
  <1>7. ASSUME NEW o \in Deploys, Resume(o) PROVE Retells(d)
    <2>1. CASE d = o
      <3> DEFINE f == Reopened(copy[d], now + Budget)
      <3>1. copy'[d] = f /\ loc[d] = "done" /\ copy[d].outcome = "expired"
        BY <1>1, <1>7, <2>1 DEF Resume, TypeOK
      <3>2. Accounted(copy[d]) /\ now + Budget \in Nat
        BY <1>1, <3>1, LifecycleAssumption DEF AccountInv, JournalAccounts, Written, TypeOK
      <3>3. SameDeploy(copy[d], f)
        BY <1>1, <3>1, <3>2, ReopenedAccounts DEF Follows
      <3>4. SaysNoMore(copy[d], f)
        BY <1>1, ReopenedSaysNoMore
      <3> HIDE DEF f
      <3> QED
        BY <3>1, <3>3, <3>4 DEF Retells, SameDeploy
    <2>2. CASE d # o
      BY <1>1, <1>7, <2>2, UntouchedRetells DEF Resume, TypeOK
    <2> QED
      BY <2>1, <2>2
  <1>8. ASSUME NEW g \in UserDags, PauseVeto(g) PROVE Retells(d)
    <2> DEFINE f == UnpauseVetoed(copy[d])
               h == [f EXCEPT !.veto = "requested"]
    <2>1. copy'[d] \in {copy[d], f, h}
      BY <1>8 DEF PauseVeto
    <2>2. SaysNoMore(copy[d], f) /\ SaysNoMore(copy[d], h)
      BY <1>1, RequestSaysNoMore
    <2>3. f.retire = copy[d].retire /\ h.retire = copy[d].retire
      BY <1>1 DEF UnpauseVetoed, Skipped, Entry
    <2> HIDE DEF f, h
    <2> QED
      BY <2>1, <2>2, <2>3, UntouchedRetells DEF Retells
  <1>9. ASSUME NEW g \in UserDags, PausePatch(g) \/ UserUnpause(g) \/ Undeploy(g) PROVE Retells(d)
    BY <1>9, UntouchedRetells DEF PausePatch, UserUnpause, Undeploy, journal
  <1> QED
    BY <1>2, <1>3, <1>4, <1>5, <1>6, <1>7, <1>8, <1>9 DEF Handlers

\* Every step.
LEMMA EveryStepRetells ==
    ASSUME SleepInv, [Next]_vars, NEW d \in Deploys, Written(d), Written(d)'
    PROVE  Retells(d)
  <1>1. AccountInv /\ TypeOK /\ Phased(copy[d]) /\ copy[d] \in Entry
    BY DEF SleepInv, AccountInv, IndInv, JournalOK, Written, Phased
  <1>2. CASE Advance
    BY <1>2, AdvanceQuiet, UntouchedRetells DEF journal
  <1>3. CASE DenyAll
    <2>1. copy'[d] \in {copy[d], Finished(copy[d], "denied")}
      BY <1>3 DEF DenyAll
    <2>2. SaysNoMore(copy[d], Finished(copy[d], "denied"))
      BY <1>1, FinishedSaysNoMore DEF StepNames
    <2>3. SameDeploy(copy[d], Finished(copy[d], "denied"))
      BY <1>1, FinishedFields
    <2> QED
      BY <2>1, <2>2, <2>3, UntouchedRetells DEF Retells, SameDeploy
  <1>4. CASE WriteBack
    <2>1. /\ at = "write" /\ Holding /\ hd \in Deploys /\ hc \in Entry
          /\ copy' = [copy EXCEPT ![hd] = Merged(hc, copy[hd])]
      BY <1>1, <1>4 DEF WriteBack, AccountInv, IndInv, HeldOK, Holding, Phased
    <2>2. CASE d = hd
      <3>1. copy'[d] = Merged(hc, copy[hd])
        BY <1>1, <2>1, <2>2 DEF TypeOK
      <3>2. Merged(hc, copy[hd]).retire = hc.retire
        BY <2>1 DEF Merged, Entry
      <3>3. SaysNoMore(hc, Merged(hc, copy[hd]))
        BY <2>1, RequestSaysNoMore
      <3> QED
        BY <2>1, <2>2, <3>1, <3>2, <3>3 DEF Retells
    <2>3. CASE d # hd
      BY <1>1, <2>1, <2>3, UntouchedRetells DEF TypeOK
    <2> QED
      BY <2>2, <2>3
  <1>5. CASE Sweep /\ ~Advance /\ ~DenyAll /\ ~WriteBack
    <2>1. copy' = copy
      BY <1>5 DEF Sweep, SweepStart, Claim, ClaimFails, SweepEnd, WriteBackFails, journal
    <2> QED
      BY <2>1, UntouchedRetells
  <1>6. CASE Restart
    <2>1. loc[d] # "none"
      BY <1>6 DEF Restart, Written
    <2>2. copy'[d] \in {copy[d], ExpiredRegistration(copy[d])}
      BY <1>6, <2>1 DEF Restart
    <2>3. SaysNoMore(copy[d], ExpiredRegistration(copy[d]))
      BY <1>1, PolledSaysNoMore
    <2>4. ExpiredRegistration(copy[d]).retire = copy[d].retire
      BY <1>1 DEF ExpiredRegistration, Finished, Skipped, Entry
    <2> QED
      BY <2>2, <2>3, <2>4, UntouchedRetells DEF Retells
  <1>7. CASE Tick \/ (\E g \in Dags : Parse(g)) \/ UNCHANGED vars
    BY <1>7, UntouchedRetells DEF Tick, Parse, vars, journal
  <1> QED
    BY <1>2, <1>3, <1>4, <1>5, <1>6, <1>7, HandlersRetell DEF Next

-----------------------------------------------------------------------------
(* The sweep, on the entry it holds. *)

\* What a handler or a call of the sweep leaves in memory.
LEMMA NowSaysNoMore ==
    ASSUME AccountInv, at = "claimed"
    PROVE  Now \in Entry /\ SaysNoMore(hc, Now)
  <1>1. Phased(hc) /\ Phased(Now)
    BY NowAccounts
  <1> QED
    BY <1>1, RequestSaysNoMore DEF Now, Phased

\* The handlers that end, or go on to their calls.
LEMMA PhasesSayNoMore ==
    ASSUME AccountInv, StopAdvance \/ Poll \/ Quiesce \/ Unpause \/ Trigger \/ Retire \/ Conclude
    PROVE  SaysNoMore(hc, hc')
  <1> DEFINE n == IF Now.polls < MinPolls THEN Now.polls + 1 ELSE Now.polls
             polled == [Now EXCEPT !.polls = n]
  <1>1. at = "claimed" /\ hc \in Entry
    <2>1. at = "claimed"
      BY DEF StopAdvance, Poll, Quiesce, Unpause, Trigger, Retire, Conclude, InPhase
    <2> QED
      BY <2>1, NowAccounts DEF Phased
  <1>2. Now \in Entry /\ SaysNoMore(hc, Now)
    BY <1>1, NowSaysNoMore
  <1>3. polled \in Entry /\ polled.steps = Now.steps
    <2>1. n \in 0 .. MinPolls
      BY <1>2, BoundsAssumption DEF Entry
    <2> HIDE DEF n, Now
    <2> QED
      BY <1>2, <2>1 DEF Entry
  <1>4. \A f : \A e \in {Now, polled} : SaysNoMore(e, f) => SaysNoMore(hc, f)
    BY <1>2, <1>3 DEF SaysNoMore
  <1>5. \A f : \A e \in {Now, polled} : Yield(f) /\ SaysNoMore(e, f) => SaysNoMore(hc, hc')
    BY <1>4 DEF Yield
  <1>6. \A step, targets : Enter(step, targets) => SaysNoMore(hc, hc')
    BY <1>2 DEF Enter
  <1>7. CASE StopAdvance
    BY <1>1, <1>7, RequestSaysNoMore DEF StopAdvance, Yield
  <1>8. CASE Poll
    <2>1. \/ Yield(ExpiredRegistration(Now)) \/ Yield(ImportFailed(polled))
          \/ Yield(Registered(polled, clock, Grace)) \/ Yield(BackedOff(polled, "registered"))
          \/ Yield(StepFailed(polled, "registered"))
      BY <1>8 DEF Poll, Stumble
    <2> HIDE DEF Now, polled
    <2>2. SaysNoMore(Now, ExpiredRegistration(Now)) /\ SaysNoMore(polled, ImportFailed(polled))
      BY <1>2, <1>3, PolledSaysNoMore
    <2>3. SaysNoMore(polled, Registered(polled, clock, Grace))
      BY <1>3, PolledSaysNoMore
    <2>4. /\ SaysNoMore(polled, BackedOff(polled, "registered"))
          /\ SaysNoMore(polled, StepFailed(polled, "registered"))
      BY <1>3, FinishedSaysNoMore, AnsweredSaysNoMore DEF StepNames
    <2> QED
      BY <1>5, <2>1, <2>2, <2>3, <2>4
  <1>9. CASE Quiesce
    <2>1. \/ Yield([Now EXCEPT !.phase = NextPhase(Now)]) \/ Yield(Finished(Now, "superseded"))
          \/ \E s \in {"elapsed", "unobserved", "failed"} : Yield(QuiesceSettled(Now, s))
          \/ Yield(BackedOff(Now, "quiesce"))
          \/ Enter("quiesce", OldDags(Now))
      BY <1>9 DEF Quiesce
    <2> HIDE DEF Now, polled
    <2>2. /\ SaysNoMore(Now, [Now EXCEPT !.phase = NextPhase(Now)])
          /\ SaysNoMore(Now, Finished(Now, "superseded")) /\ SaysNoMore(Now, BackedOff(Now, "quiesce"))
      BY <1>2, FinishedSaysNoMore DEF StepNames
    <2>3. \A s \in {"elapsed", "unobserved", "failed"} : SaysNoMore(Now, QuiesceSettled(Now, s))
      BY <1>2, AnsweredSaysNoMore DEF StepNames
    <2> QED
      BY <1>5, <1>6, <2>1, <2>2, <2>3
  <1>10. CASE Unpause
    <2>1. \/ Yield(Terminated(Skipped(Now, {"unpause", "trigger"}, "elapsed"), "expired"))
          \/ Yield(Finished(Skipped(Now, {"trigger"}, Now.steps["unpause"]), "completed"))
          \/ Yield([Now EXCEPT !.phase = "triggering"])
          \/ Yield(Finished(Now, "superseded")) \/ Yield(BackedOff(Now, "unpause"))
          \/ Enter("unpause", {})
      BY <1>10 DEF Unpause
    <2> HIDE DEF Now, polled
    <2>2. /\ SaysNoMore(Now, [Now EXCEPT !.phase = "triggering"])
          /\ SaysNoMore(Now, Finished(Now, "superseded")) /\ SaysNoMore(Now, BackedOff(Now, "unpause"))
      BY <1>2, FinishedSaysNoMore DEF StepNames
    <2>3. SaysNoMore(Now, Terminated(Skipped(Now, {"unpause", "trigger"}, "elapsed"), "expired"))
      BY <1>2, SkippedSaysNoMore
    <2>4. SaysNoMore(Now, Finished(Skipped(Now, {"trigger"}, Now.steps["unpause"]), "completed"))
      BY <1>2, SkippedSaysNoMore
    <2> QED
      BY <1>5, <1>6, <2>1, <2>2, <2>3, <2>4
  <1>11. CASE Trigger
    <2>1. \/ Yield(Finished(Skipped(Now, {"trigger"}, "run_off"), "completed"))
          \/ Yield(Terminated(Skipped(Now, {"trigger"}, "elapsed"), "expired"))
          \/ Yield(Finished(Now, "superseded")) \/ Yield(BackedOff(Now, "trigger"))
          \/ Enter("trigger", {})
      BY <1>11 DEF Trigger
    <2> HIDE DEF Now, polled
    <2>2. /\ SaysNoMore(Now, Finished(Now, "superseded"))
          /\ SaysNoMore(Now, BackedOff(Now, "trigger"))
      BY <1>2, FinishedSaysNoMore DEF StepNames
    <2>3. /\ SaysNoMore(Now, Finished(Skipped(Now, {"trigger"}, "run_off"), "completed"))
          /\ SaysNoMore(Now, Terminated(Skipped(Now, {"trigger"}, "elapsed"), "expired"))
      BY <1>2, SkippedSaysNoMore
    <2> QED
      BY <1>5, <1>6, <2>1, <2>2, <2>3
  <1>12. CASE Retire
    <2>1. \/ Yield(Terminated(Settled(Now, "retire", "blocked"), "expired"))
          \/ Yield([Now EXCEPT !.phase = "unpausing"])
          \/ Yield(Terminated(Skipped(Now, {"retire", "unpause", "trigger"}, "elapsed"), "expired"))
          \/ Yield(Terminated(Settled(Now, "retire", "refused"), "completed"))
          \/ Yield(Finished(Now, "superseded")) \/ Yield(BackedOff(Now, "retire"))
          \/ Yield(StepFailed(Now, "retire"))
          \/ Enter("retire", OldDags(Now) \ Now.retired)
      BY <1>12 DEF Retire
    <2> HIDE DEF Now, polled
    <2>2. /\ SaysNoMore(Now, [Now EXCEPT !.phase = "unpausing"])
          /\ SaysNoMore(Now, Finished(Now, "superseded")) /\ SaysNoMore(Now, BackedOff(Now, "retire"))
      BY <1>2, FinishedSaysNoMore DEF StepNames
    <2>3. /\ SaysNoMore(Now, Terminated(Settled(Now, "retire", "blocked"), "expired"))
          /\ SaysNoMore(Now, Terminated(Settled(Now, "retire", "refused"), "completed"))
      BY <1>2, SettledSaysNoMore DEF StepNames
    <2>4. SaysNoMore(Now, Terminated(Skipped(Now, {"retire", "unpause", "trigger"}, "elapsed"), "expired"))
      BY <1>2, SkippedSaysNoMore
    <2>5. SaysNoMore(Now, StepFailed(Now, "retire"))
      BY <1>2, AnsweredSaysNoMore DEF StepNames
    <2> QED
      BY <1>5, <1>6, <2>1, <2>2, <2>3, <2>4, <2>5
  <1>13. CASE Conclude
    <2>1. Yield(Terminated(Now, "completed"))
      BY <1>13 DEF Conclude
    <2> HIDE DEF Now, polled
    <2>2. SaysNoMore(Now, Terminated(Now, "completed"))
      BY <1>2, FinishedSaysNoMore DEF StepNames
    <2> QED
      BY <1>5, <2>1, <2>2
  <1> QED
    BY <1>7, <1>8, <1>9, <1>10, <1>11, <1>12, <1>13

\* Only the last call of the quiesce step makes it done.
LEMMA AdvanceSaysNoMore ==
    ASSUME AccountInv, Advance
    PROVE  QuiesceDone \/ SaysNoMore(hc, hc')
  <1>1. hc \in Entry
    BY AdvanceHolds DEF AccountInv, IndInv, HeldOK, Phased
  <1>2. \A f : Yield(f) /\ SaysNoMore(hc, f) => SaysNoMore(hc, hc')
    BY DEF Yield
  <1>3. \A name \in StepNames : \A f \in Stumble(hc, name) : SaysNoMore(hc, f)
    <2>1. \A name \in StepNames : SaysNoMore(hc, StepFailed(hc, name))
      BY <1>1, AnsweredSaysNoMore
    <2>2. \A name \in StepNames : SaysNoMore(hc, BackedOff(hc, name))
      BY <1>1, FinishedSaysNoMore
    <2> QED
      BY <2>1, <2>2 DEF Stumble
  <1>4. ASSUME UnpauseOK \/ TriggerOK \/ RetireDone PROVE SaysNoMore(hc, hc')
    <2>1. Yield(Unpaused(hc)) \/ Yield(Triggered(hc)) \/ Yield(RetireSettled(hc))
      BY <1>4 DEF UnpauseOK, TriggerOK, RetireDone
    <2>2. /\ SaysNoMore(hc, Unpaused(hc)) /\ SaysNoMore(hc, Triggered(hc))
          /\ SaysNoMore(hc, RetireSettled(hc))
      BY <1>1, AnsweredSaysNoMore DEF StepNames
    <2> QED
      BY <1>2, <2>1, <2>2
  <1>5. ASSUME UnpauseFails \/ TriggerFails PROVE SaysNoMore(hc, hc')
    BY <1>2, <1>3, <1>5 DEF UnpauseFails, TriggerFails, StepNames
  <1>6. ASSUME NEW g \in Dags, RetireFails(g) \/ RetireBreaks(g) PROVE SaysNoMore(hc, hc')
    BY <1>2, <1>3, <1>6 DEF RetireFails, RetireBreaks, StepNames
  <1>7. ASSUME NEW g \in Dags, QuiesceFails(g) PROVE SaysNoMore(hc, hc')
    <2>1. Yield(BackedOff(hc, "quiesce")) \/ Yield(QuiesceSettled(hc, "failed"))
      BY <1>7 DEF QuiesceFails
    <2>2. SaysNoMore(hc, QuiesceSettled(hc, "failed"))
      BY <1>1, AnsweredSaysNoMore DEF StepNames
    <2>3. SaysNoMore(hc, BackedOff(hc, "quiesce"))
      BY <1>1, FinishedSaysNoMore DEF StepNames
    <2> QED
      BY <1>2, <2>1, <2>2, <2>3
  <1>8. ASSUME NEW g \in Dags, QuiesceOne(g) \/ RetireSkips(g) PROVE SaysNoMore(hc, hc')
    BY <1>8 DEF QuiesceOne, RetireSkips, SaysNoMore
  <1>9. ASSUME NEW g \in Dags, RetireOne(g) PROVE SaysNoMore(hc, hc')
    <2>1. PICK R, c : hc' = [hc EXCEPT !.retired = R, !.committed = c]
      BY <1>9 DEF RetireOne
    <2> QED
      BY <1>1, <2>1 DEF SaysNoMore, Entry
  <1> QED
    BY <1>4, <1>5, <1>6, <1>7, <1>8, <1>9, PhasesSayNoMore DEF Advance

\* What the sweep has still to quiesce: all of it, or one less than before.
LEMMA QuiesceEntered ==
    ASSUME AccountInv, [Next]_vars, at' = "quiesce"
    PROVE  \/ OldDags(hc') \subseteq todo'
           \/ at = "quiesce" /\ hd' = hd /\ OldDags(hc') = OldDags(hc) /\ todo' = todo
           \/ /\ at = "quiesce" /\ hd' = hd /\ OldDags(hc') = OldDags(hc)
              /\ \E g \in Dags : todo' = todo \ {g} /\ row' = PausedRow(g)
  <1>1. CASE UNCHANGED sweep
    BY <1>1 DEF sweep
  <1>2. CASE Advance
    <2>1. ~(StopAdvance \/ Poll \/ Unpause \/ Trigger \/ Retire \/ Conclude)
      BY DEF StopAdvance, Poll, Unpause, Trigger, Retire, Conclude, Yield, Enter
    <2>2. ~(QuiesceDone \/ UnpauseOK \/ UnpauseFails \/ TriggerOK \/ TriggerFails \/ RetireDone)
      BY DEF QuiesceDone, UnpauseOK, UnpauseFails, TriggerOK, TriggerFails, RetireDone, Yield
    <2>3. \A g \in Dags : ~(QuiesceFails(g) \/ RetireFails(g) \/ RetireBreaks(g))
      BY DEF QuiesceFails, RetireFails, RetireBreaks, Yield
    <2>4. \A g \in Dags : ~(RetireOne(g) \/ RetireSkips(g))
      BY DEF RetireOne, RetireSkips
    <2>5. CASE Quiesce
      <3>1. Enter("quiesce", OldDags(Now))
        BY <2>5 DEF Quiesce, Yield
      <3> QED
        BY <3>1 DEF Enter
    <2>6. ASSUME NEW g \in Dags, QuiesceOne(g)
          PROVE  /\ at = "quiesce" /\ hd' = hd /\ OldDags(hc') = OldDags(hc)
                 /\ todo' = todo \ {g} /\ row' = PausedRow(g)
      BY <2>6 DEF QuiesceOne
    <2> QED
      BY <1>2, <2>1, <2>2, <2>3, <2>4, <2>5, <2>6 DEF Advance
  <1>3. ASSUME NEW d \in Deploys, Claim(d) PROVE OldDags(hc') = OldDags(hc) /\ at = "quiesce" /\ FALSE
    BY <1>3 DEF Claim
  <1> QED
    BY <1>1, <1>2, <1>3, SweepMoves DEF WriteBack

\* A draft has not quiesced anything.
LEMMA DraftsWait ==
    ASSUME SleepInv, [Next]_vars, NEW d \in Deploys, stage'[d] \in {"written", "scanned"}
    PROVE  copy'[d].steps["quiesce"] # "done"
  <1>1. AccountInv /\ TypeOK
    BY DEF SleepInv, AccountInv, IndInv
  <1>2. ASSUME NEW o \in Deploys, DeployWrite(o) PROVE copy'[d].steps["quiesce"] # "done"
    <2>1. PICK r \in Requests :
             /\ copy' = [copy EXCEPT ![o] = NewEntry(r.dag, r.flow, r.run, r.retire, r.purge)]
             /\ stage' = [stage EXCEPT ![o] = "written"]
      BY <1>2 DEF DeployWrite
    <2>2. CASE d = o
      BY <1>1, <2>1, <2>2 DEF TypeOK, NewEntry, NewSteps, StepNames
    <2>3. CASE d # o
      <3>1. copy'[d] = copy[d] /\ stage'[d] = stage[d]
        BY <1>1, <2>1, <2>3 DEF TypeOK
      <3> QED
        BY <3>1 DEF SleepInv, JournalAsleep
    <2> QED
      BY <2>2, <2>3
  <1>3. ASSUME \A o \in Deploys : ~DeployWrite(o)
        PROVE  stage[d] \in {"written", "scanned"}
    <2> USE DEF request
    <2>1. CASE Handlers
      <3>1. ASSUME NEW o \in Deploys, Supersede(o) \/ Put(o) \/ PutFails(o)
            PROVE  stage[d] \in {"written", "scanned"}
        BY <1>1, <3>1 DEF Supersede, Put, PutFails, TypeOK
      <3>2. ASSUME NEW o \in Deploys, Cancel(o) \/ Resume(o) PROVE stage' = stage
        BY <3>2 DEF Cancel, Resume
      <3>3. ASSUME NEW g \in UserDags, \/ PauseVeto(g) \/ PausePatch(g)
                                       \/ UserUnpause(g) \/ Undeploy(g)
            PROVE  stage' = stage
        BY <3>3 DEF PauseVeto, PausePatch, UserUnpause, Undeploy
      <3> QED
        BY <1>3, <2>1, <3>1, <3>2, <3>3 DEF Handlers
    <2>2. CASE Advance
      BY <2>2, AdvanceQuiet
    <2>3. CASE Sweep /\ ~Advance
      BY <2>3 DEF Sweep, SweepStart, Claim, ClaimFails, DenyAll, SweepEnd, WriteBack, WriteBackFails
    <2>4. CASE Restart
      BY <2>4 DEF Restart
    <2>5. CASE Tick \/ (\E g \in Dags : Parse(g)) \/ UNCHANGED vars
      BY <2>5 DEF Tick, Parse, vars
    <2> QED
      BY <2>1, <2>2, <2>3, <2>4, <2>5 DEF Next
  <1>4. ASSUME \A o \in Deploys : ~DeployWrite(o) PROVE copy'[d].steps["quiesce"] # "done"
    <2>1. Written(d) /\ copy[d].steps["quiesce"] # "done" /\ loc[d] = "none"
      BY <1>1, <1>3, <1>4 DEF SleepInv, JournalAsleep, Written, AccountInv, IndInv, JournalOK
    <2>2. Retells(d)
      BY <2>1, EveryStepRetells DEF Written
    <2>3. ~(Holding /\ d = hd)
      BY <1>1, <2>1 DEF AccountInv, IndInv, HeldOK
    <2> QED
      BY <2>1, <2>2, <2>3 DEF Retells, SaysNoMore
  <1> QED
    BY <1>2, <1>4

-----------------------------------------------------------------------------
(* The invariant. *)

\* What is journaled stays asleep.
LEMMA JournalStaysAsleep ==
    ASSUME SleepInv, [Next]_vars
    PROVE  JournalAsleep'
  <1>1. AccountInv /\ TypeOK /\ AccountInv' /\ JournalLasts
    BY AccountInductive, EveryStepLasts DEF SleepInv, AccountInv, IndInv
  <1>2. ASSUME NEW d \in Deploys, Written(d)', Written(d) PROVE Asleep(d, copy[d])'
    <2>1. Asleep(d, copy[d]) /\ Retells(d)
      BY <1>2, EveryStepRetells DEF SleepInv, JournalAsleep
    <2>2. copy'[d].dag = copy[d].dag
      BY <1>1, <1>2 DEF JournalLasts, Lasting, SameFlow
    <2>3. CASE copy'[d].retire = copy[d].retire /\ SaysNoMore(copy[d], copy'[d])
      <3>1. OldDags(copy'[d]) = OldDags(copy[d])
        BY <2>2, <2>3 DEF OldDags
      <3> QED
        BY <1>1, <1>2, <2>1, <2>3, <3>1, StaysAsleep DEF Asleep, SaysNoMore
    <2>4. CASE stage[d] = "written" /\ copy'[d].steps = copy[d].steps
      BY <2>4 DEF SleepInv, JournalAsleep, Asleep
    <2>5. CASE Holding /\ d = hd /\ copy'[d].retire = hc.retire /\ SaysNoMore(hc, copy'[d])
      <3>1. Asleep(hd, hc) /\ hc.dag = copy[d].dag
        BY <1>1, <2>5 DEF SleepInv, HeldAsleep, AccountInv, HeldSame, SameFlow
      <3>2. OldDags(copy'[d]) = OldDags(hc)
        BY <2>2, <2>5, <3>1 DEF OldDags
      <3>3. \A o \in OldDags(hc) : Quiet(d, o) => Quiet(d, o)'
        BY <1>1, <2>5, StaysAsleep
      <3> QED
        BY <2>5, <3>1, <3>2, <3>3 DEF Asleep, SaysNoMore
    <2> QED
      BY <2>1, <2>3, <2>4, <2>5 DEF Retells
  <1>3. ASSUME NEW d \in Deploys, Written(d)', ~Written(d) PROVE Asleep(d, copy[d])'
    <2>1. DeployWrite(d)
      BY <1>1, <1>3 DEF JournalLasts, Lasting
    <2>2. stage'[d] = "written"
      BY <1>1, <2>1 DEF TypeOK, DeployWrite
    <2> QED
      BY <2>2, DraftsWait DEF Asleep
  <1> QED
    BY <1>2, <1>3, DraftsWait DEF JournalAsleep

\* What the sweep holds stays asleep.
LEMMA HeldStaysAsleep ==
    ASSUME SleepInv, [Next]_vars
    PROVE  HeldAsleep'
  <1>1. AccountInv
    BY DEF SleepInv
  <1>2. ASSUME Holding' PROVE Asleep(hd, hc)'
    <2>1. CASE UNCHANGED sweep
      <3>1. Holding /\ hc' = hc /\ hd' = hd
        BY <1>2, <2>1 DEF Holding, sweep
      <3>2. Asleep(hd, hc)
        BY <3>1 DEF SleepInv, HeldAsleep
      <3>3. PICK d \in Deploys : d = hd /\ \A o \in OldDags(hc) : Quiet(d, o) => Quiet(d, o)'
        BY <1>1, <3>1, StaysAsleep
      <3> QED
        BY <3>1, <3>2, <3>3 DEF Asleep
    <2>2. ASSUME NEW d \in Deploys, Claim(d) PROVE Asleep(hd, hc)'
      <3>1. Written(d) /\ hc' = copy[d] /\ hd' = d /\ row' = row /\ woken' = woken
        BY <1>2, <2>2 DEF Claim, Holding, Written, world
      <3>2. Asleep(d, copy[d])
        BY <3>1 DEF SleepInv, JournalAsleep
      <3> QED
        BY <3>1, <3>2 DEF Asleep, Quiet
    <2>3. CASE Advance
      <3>1. Holding /\ SameDeploy(hc, hc') /\ hd' = hd
        BY <1>1, <2>3, AdvanceHolds, AdvanceFollows, AdvanceQuiet DEF HeldFollows
      <3>2. Asleep(hd, hc) /\ OldDags(hc') = OldDags(hc)
        BY <3>1 DEF SleepInv, HeldAsleep, OldDags, SameDeploy
      <3>3. CASE SaysNoMore(hc, hc')
        <4>1. PICK d \in Deploys : d = hd /\ \A o \in OldDags(hc) : Quiet(d, o) => Quiet(d, o)'
          BY <1>1, <3>1, StaysAsleep
        <4> QED
          BY <3>1, <3>2, <3>3, <4>1 DEF Asleep, SaysNoMore
      <3>4. CASE QuiesceDone
        <4>1. at = "quiesce" /\ todo = {} /\ row' = row /\ woken' = woken
          BY <3>4 DEF QuiesceDone, StillWorld, world
        <4> QED
          BY <3>1, <3>2, <4>1 DEF SleepInv, HeldAsleep, Asleep, Quiet
      <3> QED
        BY <1>1, <2>3, <3>3, <3>4, AdvanceSaysNoMore
    <2> QED
      BY <1>2, <2>1, <2>2, <2>3, SweepMoves DEF Holding, WriteBack
  <1>3. ASSUME at' = "quiesce" PROVE \A o \in OldDags(hc') \ todo' : Quiet(hd, o)'
    <2>1. CASE OldDags(hc') \subseteq todo'
      BY <2>1
    <2>2. CASE at = "quiesce" /\ OldDags(hc') = OldDags(hc) /\ hd' = hd
      <3>1. Holding /\ \A o \in OldDags(hc) \ todo : Quiet(hd, o)
        BY <2>2 DEF SleepInv, HeldAsleep, Holding
      <3>2. \A o \in OldDags(hc) \ todo : Quiet(hd, o)'
        <4>1. PICK d \in Deploys : d = hd /\ \A o \in OldDags(hc) : Quiet(d, o) => Quiet(d, o)'
          BY <1>1, <3>1, StaysAsleep
        <4> QED
          BY <2>2, <3>1, <4>1
      <3>3. CASE todo' = todo
        BY <2>2, <3>2, <3>3
      <3>4. ASSUME NEW g \in Dags, todo' = todo \ {g}, row' = PausedRow(g)
            PROVE  \A o \in OldDags(hc') \ todo' : Quiet(hd, o)'
        <4>1. row'[g] # "live"
          BY <1>1, <3>4 DEF PausedRow, AccountInv, IndInv, TypeOK
        <4>2. Quiet(hd, g)'
          BY <4>1 DEF Quiet
        <4> QED
          BY <2>2, <3>2, <3>4, <4>2
      <3> QED
        BY <1>1, <1>3, <2>2, <3>3, <3>4, QuiesceEntered
    <2> QED
      BY <1>1, <1>3, <2>1, <2>2, QuiesceEntered
  <1> QED
    BY <1>2, <1>3 DEF HeldAsleep

\* No step wakes what a deploy has put to sleep.
LEMMA SleepInductive == SleepInv /\ [Next]_vars => SleepInv'
  BY AccountInductive, JournalStaysAsleep, HeldStaysAsleep DEF SleepInv

\* Nobody has quiesced anything.
LEMMA SleepInitially == Init => SleepInv
  BY AccountInitially DEF Init, SleepInv, JournalAsleep, HeldAsleep, Written, Holding

\* A rename that quiesced never runs beside what it replaces, through every crash, retry,
\* stop, veto and re-arming and however many deploys overlap, unless a person or another
\* deploy's lifecycle has unpaused the old DAG since (_do_quiesce, _do_unpause).
THEOREM QuiescedFirst == Spec => QuiescedBeforeLive
  <1>1. SleepInv /\ [Next]_vars =>
          [\A g \in Dags : at = "unpause" /\ row[g] # "live" /\ row'[g] = "live" =>
              (hc.steps["quiesce"] = "done" =>
                    \A o \in OldDags(hc) : row[o] # "live" \/ o \in woken[hd])]_vars
    BY DEF SleepInv, HeldAsleep, Asleep, Quiet, Holding
  <1>2. SleepInv /\ [Next]_vars => SleepInv'
    BY SleepInductive
  <1> QED
    BY <1>1, <1>2, SleepInitially, PTL DEF Spec, QuiescedBeforeLive
=============================================================================
