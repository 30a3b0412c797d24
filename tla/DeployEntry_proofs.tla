--------------------------- MODULE DeployEntry_proofs --------------------------
(* What the operators of DeployEntry do to an entry's type, its phase and its *)
(* licence to retire, for every value of the constants.                       *)
EXTENDS DeployEntry, TLAPS

\* f may follow e: it is an entry in a phase its steps allow, and if e was ready to
\* retire then f still is.
Keeps(e, f) == Phased(f) /\ (ReadyToRetire(e) => ReadyToRetire(f))

\* A skip touches pending steps only, so a licence to retire is never lost to one
\* (_do_unpause, _do_retire, apply_unpause_veto).
LEMMA SkippedKeeps ==
    ASSUME NEW e, Phased(e), NEW names \in SUBSET StepNames,
           NEW reason \in StepStates \ {"pending", "done"}
    PROVE  Keeps(e, Skipped(e, names, reason))
  <1> DEFINE f == Skipped(e, names, reason)
  <1>1. f \in Entry
    <2> DEFINE s == [name \in StepNames |-> IF name \in names /\ e.steps[name] = "pending"
                                           THEN reason ELSE e.steps[name]]
               t == [name \in StepNames |-> IF name \in names /\ e.steps[name] = "pending"
                                           THEN 0 ELSE e.tries[name]]
    <2>1. e \in Entry /\ e.steps \in [StepNames -> StepStates]
                     /\ e.tries \in [StepNames -> 0 .. MaxAttempts]
      BY DEF Phased, Entry
    <2>2. s \in [StepNames -> StepStates]
      BY <2>1
    <2>3. t \in [StepNames -> 0 .. MaxAttempts]
      BY <2>1, BoundsAssumption
    <2>4. f = [e EXCEPT !.steps = s, !.tries = t]
      BY DEF Skipped
    <2> HIDE DEF s, t, f
    <2> QED
      BY <2>1, <2>2, <2>3, <2>4 DEF Entry
  <1>2. /\ f.phase = e.phase
        /\ \A name \in StepNames :
              f.steps[name] = e.steps[name] \/ (e.steps[name] = "pending" /\ f.steps[name] = reason)
    BY DEF Phased, Entry, Skipped
  <1>3. QED
    BY <1>1, <1>2 DEF Keeps, Phased, ReadyToRetire, Pending, StepNames, DeliberateSkips, StepStates, BudgetSkips

\* An entry whose licensing steps are not touched keeps its licence.
LEMMA SameSteps ==
    ASSUME NEW e, Phased(e), NEW f \in Entry,
           \A name \in {"registered", "unpause", "trigger"} : f.steps[name] = e.steps[name],
           f.phase \in {e.phase, "terminal", "unpausing", "triggering", "quiescing"}
    PROVE  Keeps(e, f)
  BY DEF Keeps, Phased, ReadyToRetire, Pending

\* NextPhase leads to "retiring" only when everything else is over (_next_phase).
LEMMA NextPhaseIsLast ==
    ASSUME NEW e
    PROVE  /\ NextPhase(e) \in Phases \ {"awaiting_registration"}
           /\ NextPhase(e) = "retiring" => e.steps["unpause"] = "done" /\ ~Pending(e, "trigger")
  BY DEF NextPhase, Phases

\* An entry that is given its next phase keeps its licence.
LEMMA NextPhaseKeeps ==
    ASSUME NEW e, e \in Entry
    PROVE  Keeps(e, [e EXCEPT !.phase = NextPhase(e)])
  <1> DEFINE f == [e EXCEPT !.phase = NextPhase(e)]
  <1>1. f \in Entry /\ f.steps = e.steps /\ f.phase = NextPhase(e)
    BY NextPhaseIsLast DEF Entry
  <1>2. Keeps(e, f)
    <2> HIDE DEF f
    <2> QED
      BY <1>1, NextPhaseIsLast DEF Keeps, Phased, ReadyToRetire, Pending
  <1> QED
    BY <1>2

\* Closing an entry changes neither its steps nor what was done.
LEMMA FinishedKeeps ==
    ASSUME NEW e, Phased(e), NEW outcome \in Outcomes
    PROVE  Keeps(e, Finished(e, outcome))
  <1> DEFINE f == Finished(e, outcome)
  <1>1. e \in Entry
    BY DEF Phased
  <1>2. f \in Entry
    BY <1>1 DEF Entry, Finished, Phases, Outcomes
  <1>3. f.steps = e.steps /\ f.phase = "terminal"
    BY <1>1 DEF Entry, Finished
  <1> QED
    BY <1>2, <1>3, SameSteps

\* Nor does closing it through _terminate, whatever outcome that chooses.
LEMMA TerminatedKeeps ==
    ASSUME NEW e, Phased(e), NEW outcome \in Outcomes
    PROVE  Keeps(e, Terminated(e, outcome))
  BY FinishedKeeps DEF Terminated, Outcomes

\* Settling a step gives an entry; settling quiesce or retire keeps the licence.
LEMMA SettledType ==
    ASSUME NEW e, e \in Entry, NEW name \in StepNames, NEW state \in StepStates
    PROVE  /\ Settled(e, name, state) \in Entry
           /\ Settled(e, name, state).steps = [e.steps EXCEPT ![name] = state]
           /\ Settled(e, name, state).phase = e.phase
           /\ Settled(e, name, state).retire = e.retire
           /\ Settled(e, name, state).deadline = e.deadline
  <1> DEFINE s == [e.steps EXCEPT ![name] = state]
             t == [e.tries EXCEPT ![name] = 0]
  <1>1. s \in [StepNames -> StepStates] /\ t \in [StepNames -> 0 .. MaxAttempts]
    BY BoundsAssumption DEF Entry
  <1>2. Settled(e, name, state) = [e EXCEPT !.steps = s, !.tries = t]
    BY DEF Settled
  <1> HIDE DEF s, t
  <1>3. /\ [e EXCEPT !.steps = s, !.tries = t] \in Entry
        /\ [e EXCEPT !.steps = s, !.tries = t].steps = s
        /\ [e EXCEPT !.steps = s, !.tries = t].phase = e.phase
        /\ [e EXCEPT !.steps = s, !.tries = t].retire = e.retire
        /\ [e EXCEPT !.steps = s, !.tries = t].deadline = e.deadline
    BY <1>1 DEF Entry
  <1> QED
    BY <1>2, <1>3 DEF s

\* Settling the quiesce or the retire step keeps the licence (_do_quiesce, _do_retire).
LEMMA SettledKeeps ==
    ASSUME NEW e, Phased(e), NEW name \in {"quiesce", "retire"}, NEW state \in StepStates
    PROVE  Keeps(e, Settled(e, name, state))
  <1> DEFINE f == Settled(e, name, state)
  <1>1. f \in Entry /\ f.steps = [e.steps EXCEPT ![name] = state] /\ f.phase = e.phase
    BY SettledType DEF Phased, StepNames
  <1>2. \A n \in {"registered", "unpause", "trigger"} : f.steps[n] = e.steps[n]
    BY <1>1 DEF Phased, Entry, StepNames
  <1> QED
    BY <1>1, <1>2, SameSteps

\* A step that fails closes the entry; the licence is lost only if it was a step
\* the licence needs (_fail_step).
LEMMA StepFailedKeeps ==
    ASSUME NEW e, Phased(e), NEW name \in StepNames, name = "retire" \/ ~ReadyToRetire(e)
    PROVE  Keeps(e, StepFailed(e, name))
  <1> DEFINE f == Settled(e, name, "failed")
  <1>1. f \in Entry /\ f.steps = [e.steps EXCEPT ![name] = "failed"]
    BY SettledType DEF Phased, StepStates
  <1>2. StepFailed(e, name) = [f EXCEPT !.outcome = "failed", !.phase = "terminal"]
    BY DEF StepFailed, Finished
  <1>3. ReadyToRetire(e) => ReadyToRetire(f)
    BY <1>1 DEF ReadyToRetire, Phased, Entry, StepNames
  <1> HIDE DEF f
  <1> DEFINE g == [f EXCEPT !.outcome = "failed", !.phase = "terminal"]
  <1>4. g \in Entry /\ g.steps = f.steps /\ g.phase = "terminal"
    BY <1>1 DEF Entry, Outcomes, Phases
  <1>5. Keeps(e, g)
    <2> HIDE DEF g
    <2> QED
      BY <1>3, <1>4 DEF Keeps, Phased, ReadyToRetire
  <1> QED
    BY <1>2, <1>5

\* A back-off moves no step (_backoff).
LEMMA BackedOffKeeps ==
    ASSUME NEW e, Phased(e), NEW name \in StepNames
    PROVE  Keeps(e, BackedOff(e, name))
  <1> DEFINE t == [e.tries EXCEPT ![name] = IF @ < MaxAttempts THEN @ + 1 ELSE @]
             f == [e EXCEPT !.tries = t]
  <1>1. t \in [StepNames -> 0 .. MaxAttempts]
    <2>1. e.tries \in [StepNames -> 0 .. MaxAttempts]
      BY DEF Phased, Entry
    <2>2. e.tries[name] \in 0 .. MaxAttempts
      BY <2>1
    <2>3. (IF e.tries[name] < MaxAttempts THEN e.tries[name] + 1 ELSE e.tries[name])
             \in 0 .. MaxAttempts
      BY <2>2, BoundsAssumption
    <2> QED
      BY <2>1, <2>3
  <1> HIDE DEF t
  <1>2. f \in Entry /\ f.steps = e.steps /\ f.phase = e.phase
    BY <1>1 DEF Phased, Entry
  <1>3. f = BackedOff(e, name)
    BY DEF BackedOff, t
  <1> QED
    BY <1>2, <1>3, SameSteps

\* Expiring an entry skips its retire and keeps whatever licence it had
\* (_expire_registration, _finalize_expired).
LEMMA ExpiredRegistrationKeeps ==
    ASSUME NEW e, Phased(e)
    PROVE  Keeps(e, ExpiredRegistration(e))
  <1>1. Keeps(e, Skipped(e, {"retire"}, "never_registered"))
    BY SkippedKeeps DEF StepNames, StepStates, BudgetSkips
  <1>2. CASE e.retire # {}
    BY <1>1, <1>2, FinishedKeeps DEF ExpiredRegistration, Keeps, Outcomes
  <1>3. CASE e.retire = {}
    BY <1>3, FinishedKeeps DEF ExpiredRegistration, Outcomes
  <1> QED
    BY <1>2, <1>3

\* An import error closes an entry that has no licence yet (_do_registration).
LEMMA ImportFailedKeeps ==
    ASSUME NEW e, Phased(e), ~ReadyToRetire(e)
    PROVE  Keeps(e, ImportFailed(e))
  <1> DEFINE f == Settled(e, "registered", "failed")
             r == IF e.retire # {} THEN "import_failed" ELSE f.steps["retire"]
             s == [f.steps EXCEPT !["retire"] = r]
             g == [f EXCEPT !.steps = s]
             h == [g EXCEPT !.outcome = "import_failed", !.phase = "terminal"]
  <1>1. f \in Entry
    BY SettledType DEF Phased, StepNames, StepStates
  <1>2. h = ImportFailed(e)
    BY DEF ImportFailed, Finished
  <1> HIDE DEF f
  <1>3. f.steps["retire"] \in StepStates /\ f.steps \in [StepNames -> StepStates]
    BY <1>1 DEF Entry, StepNames
  <1>4. s \in [StepNames -> StepStates]
    BY <1>3 DEF StepStates
  <1> HIDE DEF s
  <1>5. g \in Entry
    BY <1>1, <1>4 DEF Entry
  <1> HIDE DEF g
  <1>6. h \in Entry /\ h.phase = "terminal"
    BY <1>5 DEF Entry, Outcomes, Phases
  <1> HIDE DEF h
  <1>7. Keeps(e, h)
    BY <1>6 DEF Keeps, Phased
  <1> QED
    BY <1>2, <1>7

\* A registration that is seen gives the phase its steps allow (_do_registration).
LEMMA RegisteredKeeps ==
    ASSUME NEW e, Phased(e), ~ReadyToRetire(e), NEW at \in Nat, NEW grace \in Nat
    PROVE  Keeps(e, Registered(e, at, grace))
  <1> DEFINE s == Settled(e, "registered", "done")
             n == IF s.deadline < at + grace THEN at + grace ELSE s.deadline
             f == [s EXCEPT !.deadline = n]
  <1>1. s \in Entry
    BY SettledType DEF Phased, StepNames, StepStates
  <1>2. Registered(e, at, grace) = [f EXCEPT !.phase = NextPhase(f)]
    BY DEF Registered
  <1> HIDE DEF s
  <1>3. n \in Nat
    BY <1>1 DEF Entry
  <1> HIDE DEF n
  <1>4. f \in Entry
    BY <1>1, <1>3 DEF Entry
  <1> HIDE DEF f
  <1>5. Keeps(f, [f EXCEPT !.phase = NextPhase(f)])
    BY <1>4, NextPhaseKeeps
  <1> QED
    BY <1>2, <1>5 DEF Keeps

\* Quiesce ends, done, failed or passed over, without a licence won or lost
\* (_do_quiesce).
LEMMA QuiesceSettledKeeps ==
    ASSUME NEW e, Phased(e), NEW state \in StepStates
    PROVE  Keeps(e, QuiesceSettled(e, state))
  <1> DEFINE f == Settled(e, "quiesce", state)
  <1>1. Keeps(e, f)
    BY SettledKeeps
  <1>2. Keeps(f, [f EXCEPT !.phase = NextPhase(f)])
    BY <1>1, NextPhaseKeeps DEF Keeps, Phased
  <1> QED
    BY <1>1, <1>2 DEF QuiesceSettled, Keeps

\* Unpausing leads to "triggering" and loses no licence (_do_unpause).
LEMMA UnpausedKeeps ==
    ASSUME NEW e, Phased(e), ~ReadyToRetire(e)
    PROVE  Keeps(e, Unpaused(e))
  <1> DEFINE f == Settled(e, "unpause", "done")
             g == [f EXCEPT !.phase = "triggering"]
  <1>1. f \in Entry
    BY SettledType DEF Phased, StepNames, StepStates
  <1>2. g = Unpaused(e)
    BY DEF Unpaused
  <1> HIDE DEF f
  <1>3. g \in Entry /\ g.phase = "triggering"
    BY <1>1 DEF Entry, Phases
  <1> HIDE DEF g
  <1> QED
    BY <1>2, <1>3 DEF Keeps, Phased

\* Triggering leads to "retiring" only over an unpause that is done (_do_trigger).
LEMMA TriggeredKeeps ==
    ASSUME NEW e, Phased(e), ~ReadyToRetire(e)
    PROVE  Keeps(e, Triggered(e))
  <1> DEFINE f == Settled(e, "trigger", "done")
             g == [f EXCEPT !.phase = NextPhase(f)]
  <1>1. f \in Entry
    BY SettledType DEF Phased, StepNames, StepStates
  <1>2. Keeps(f, g)
    BY <1>1, NextPhaseKeeps
  <1>3. Keeps(g, Terminated(g, "completed"))
    BY <1>2, TerminatedKeeps DEF Keeps, Outcomes
  <1>4. Triggered(e) \in {g, Terminated(g, "completed")}
    BY DEF Triggered
  <1> HIDE DEF g
  <1> QED
    BY <1>2, <1>3, <1>4 DEF Keeps

\* The end of the retire step keeps the licence it acted on (_do_retire).
LEMMA RetireSettledKeeps ==
    ASSUME NEW e, Phased(e)
    PROVE  Keeps(e, RetireSettled(e))
  <1> DEFINE state == IF e.retired \cap OldDags(e) # {} THEN "done" ELSE "refused"
             f == Settled(e, "retire", state)
  <1>1. Keeps(e, f)
    BY SettledKeeps DEF StepStates
  <1>2. Keeps(f, Terminated(f, "completed"))
    BY <1>1, TerminatedKeeps DEF Keeps, Outcomes
  <1> QED
    BY <1>1, <1>2 DEF RetireSettled, Keeps

\* A veto is a deliberate skip: it takes no licence and moves no phase
\* (apply_unpause_veto).
LEMMA UnpauseVetoedKeeps ==
    ASSUME NEW e, Phased(e)
    PROVE  Keeps(e, UnpauseVetoed(e)) /\ UnpauseVetoed(e).phase = e.phase
  <1>1. Keeps(e, UnpauseVetoed(e))
    BY SkippedKeeps DEF UnpauseVetoed, StepNames, StepStates, DeliberateSkips
  <1>2. UnpauseVetoed(e).phase = e.phase
    BY DEF UnpauseVetoed, Skipped, Phased, Entry
  <1> QED
    BY <1>1, <1>2

\* Requests are bookkeeping: recording or consuming one moves no step.
LEMMA RequestKeeps ==
    ASSUME NEW e, Phased(e), NEW stop \in StopRequests, NEW veto \in VetoRequests
    PROVE  /\ Keeps(e, [e EXCEPT !.stop = stop])
           /\ Keeps(e, [e EXCEPT !.veto = veto])
           /\ Keeps(e, [e EXCEPT !.stop = stop, !.veto = veto])
           /\ [e EXCEPT !.veto = veto].phase = e.phase
           /\ [e EXCEPT !.stop = stop].phase = e.phase
  <1>1. /\ [e EXCEPT !.stop = stop] \in Entry
        /\ [e EXCEPT !.stop = stop].steps = e.steps
        /\ [e EXCEPT !.stop = stop].phase = e.phase
    BY DEF Phased, Entry
  <1>2. /\ [e EXCEPT !.veto = veto] \in Entry
        /\ [e EXCEPT !.veto = veto].steps = e.steps
        /\ [e EXCEPT !.veto = veto].phase = e.phase
    BY DEF Phased, Entry
  <1>3. /\ [e EXCEPT !.stop = stop, !.veto = veto] \in Entry
        /\ [e EXCEPT !.stop = stop, !.veto = veto].steps = e.steps
        /\ [e EXCEPT !.stop = stop, !.veto = veto].phase = e.phase
    BY DEF Phased, Entry
  <1>4. \A f \in Entry : f.steps = e.steps /\ f.phase = e.phase => Keeps(e, f)
    BY SameSteps
  <1> QED
    BY <1>1, <1>2, <1>3, <1>4

\* The same of a veto that advance finds recorded and honours (advance).
LEMMA VetoHonouredKeeps ==
    ASSUME NEW e, Phased(e)
    PROVE  Keeps(e, VetoHonoured(e)) /\ VetoHonoured(e).phase = e.phase
  <1> DEFINE f == UnpauseVetoed(e)
  <1>1. Keeps(e, f) /\ f.phase = e.phase
    BY UnpauseVetoedKeeps
  <1>2. Keeps(f, [f EXCEPT !.veto = "consumed"]) /\ [f EXCEPT !.veto = "consumed"].phase = f.phase
    BY <1>1, RequestKeeps DEF Keeps, VetoRequests, StopRequests
  <1>3. Keeps(e, e)
    BY DEF Keeps
  <1> QED
    BY <1>1, <1>2, <1>3 DEF VetoHonoured, Keeps

\* A stop that advance honours closes the entry and moves no step (advance).
LEMMA StopHonouredKeeps ==
    ASSUME NEW e, Phased(e), StopRequested(e)
    PROVE  Keeps(e, StopHonoured(e))
  <1> DEFINE f == [e EXCEPT !.stop = "consumed"]
  <1>1. Keeps(e, f)
    BY RequestKeeps DEF StopRequests, VetoRequests
  <1>2. Keeps(f, Terminated(f, e.stop))
    BY <1>1, TerminatedKeeps DEF Keeps, StopRequested, Outcomes
  <1> QED
    BY <1>1, <1>2 DEF StopHonoured, Keeps

\* What a holder writes back is licensed by what it held (_move_out).
LEMMA MergedKeeps ==
    ASSUME NEW held, Phased(held), NEW stored, stored \in Entry
    PROVE  Keeps(held, Merged(held, stored))
  <1> DEFINE stop == IF held.stop = "absent" /\ StopRequested(stored) THEN stored.stop ELSE held.stop
             veto == IF held.veto = "absent" /\ stored.veto = "requested" THEN "requested" ELSE held.veto
  <1>1. stop \in StopRequests /\ veto \in VetoRequests
    BY DEF Phased, Entry, VetoRequests
  <1>2. Merged(held, stored) = [held EXCEPT !.stop = stop, !.veto = veto]
    BY DEF Merged
  <1> HIDE DEF stop, veto
  <1>3. Keeps(held, [held EXCEPT !.stop = stop, !.veto = veto])
    BY <1>1, RequestKeeps
  <1> QED
    BY <1>2, <1>3

\* Re-arming puts back budget skips alone, so what was licensed stays licensed and
\* the phase it starts in is one its steps allow (reopen_expired).
LEMMA ReopenedKeeps ==
    ASSUME NEW e, Phased(e), NEW deadline \in Nat
    PROVE  Keeps(e, Reopened(e, deadline))
  <1> DEFINE owed(name) == name \in {"retire", "unpause", "trigger"}
                             /\ e.steps[name] \in BudgetSkips
             s == [name \in StepNames |-> IF owed(name) THEN "pending" ELSE e.steps[name]]
             f == [e EXCEPT !.steps = s, !.outcome = "none", !.polls = 0,
                            !.deadline = deadline, !.actDeadline = deadline]
             n == IF f.steps["registered"] # "done" THEN "awaiting_registration"
                  ELSE NextPhase(f)
             g == [f EXCEPT !.phase = n]
  <1>1. g = Reopened(e, deadline)
    BY DEF Reopened
  <1>2. s \in [StepNames -> StepStates]
    BY DEF Phased, Entry, StepStates
  <1>3. ReadyToRetire(e) => \A name \in {"registered", "unpause", "trigger"} :
                                s[name] = e.steps[name]
    BY DEF ReadyToRetire, StepNames, BudgetSkips, DeliberateSkips
  <1> HIDE DEF s
  <1>4. f \in Entry /\ f.steps = s
    <2>1. 0 \in 0 .. MinPolls /\ e \in Entry
      BY BoundsAssumption DEF Phased
    <2>2. \A p \in 0 .. MinPolls, o \in Outcomes \cup {"none"} :
              LET h == [e EXCEPT !.steps = s, !.outcome = o, !.polls = p,
                                 !.deadline = deadline, !.actDeadline = deadline]
              IN  h \in Entry /\ h.steps = s
      BY <1>2, <2>1 DEF Entry
    <2> QED
      BY <2>1, <2>2
  <1> HIDE DEF f
  <1>5. /\ n \in Phases
        /\ n = "awaiting_registration" => f.steps["registered"] # "done"
        /\ n = "retiring" => f.steps["unpause"] = "done" /\ ~Pending(f, "trigger")
    BY NextPhaseIsLast DEF Phases
  <1> HIDE DEF n
  <1>6. g \in Entry /\ g.steps = f.steps /\ g.phase = n
    BY <1>4, <1>5 DEF Entry
  <1> HIDE DEF g
  <1>7. Phased(g)
    BY <1>5, <1>6 DEF Phased, Pending
  <1>8. ReadyToRetire(e) => ReadyToRetire(g)
    BY <1>3, <1>4, <1>6 DEF ReadyToRetire
  <1> QED
    BY <1>1, <1>7, <1>8 DEF Keeps

\* An entry as a deploy request drafts it (_journal_deploy).
LEMMA NewEntryPhased ==
    ASSUME NEW dag \in Dags, NEW flow \in Flows \cup {NoFlow}, NEW run \in BOOLEAN,
           NEW retire \in SUBSET Dags, NEW purge \in SUBSET Dags
    PROVE  Phased(NewEntry(dag, flow, run, retire, purge))
  <1> DEFINE t == [name \in StepNames |-> 0]
  <1>1. NewSteps \in [StepNames -> StepStates] /\ NewSteps["registered"] = "pending"
    BY DEF NewSteps, StepStates, StepNames
  <1>2. t \in [StepNames -> 0 .. MaxAttempts]
    BY BoundsAssumption
  <1> HIDE DEF t
  <1>3. NewEntry(dag, flow, run, retire, purge)
          = [dag |-> dag, flow |-> flow, run |-> run, retire |-> retire, purge |-> purge,
             phase |-> "awaiting_registration", outcome |-> "none",
             steps |-> NewSteps, tries |-> t, polls |-> 0,
             deadline |-> 0, actDeadline |-> 0, retired |-> {}, committed |-> FALSE,
             stop |-> "absent", veto |-> "absent"]
    BY DEF NewEntry, t
  <1> QED
    BY <1>1, <1>2, <1>3, BoundsAssumption
       DEF Phased, Entry, Phases, StopRequests, VetoRequests

\* The fields that are not steps: the queue a draft inherits, the deadlines, the
\* polls, what retire has got done, and the stop recorded on a stored copy.
LEMMA FieldsKeep ==
    ASSUME NEW e, Phased(e), NEW R \in SUBSET Dags, NEW P \in SUBSET Dags,
           NEW x \in Nat, NEW y \in Nat, NEW n \in 0 .. MinPolls, NEW c \in BOOLEAN
    PROVE  /\ Keeps(e, [e EXCEPT !.retire = R, !.purge = P])
           /\ Keeps(e, [e EXCEPT !.deadline = x, !.actDeadline = y])
           /\ Keeps(e, [e EXCEPT !.polls = n])
           /\ Keeps(e, [e EXCEPT !.retired = R, !.committed = c])
           /\ Keeps(e, [e EXCEPT !.phase = "unpausing"])
           /\ Keeps(e, [e EXCEPT !.phase = "triggering"])
  <1>1. \A f \in Entry : f.steps = e.steps /\ f.phase \in {e.phase, "unpausing", "triggering"}
                           => Keeps(e, f)
    BY SameSteps
  <1>2. /\ [e EXCEPT !.retire = R, !.purge = P] \in Entry
        /\ [e EXCEPT !.retire = R, !.purge = P].steps = e.steps
        /\ [e EXCEPT !.retire = R, !.purge = P].phase = e.phase
    BY DEF Phased, Entry
  <1>3. /\ [e EXCEPT !.deadline = x, !.actDeadline = y] \in Entry
        /\ [e EXCEPT !.deadline = x, !.actDeadline = y].steps = e.steps
        /\ [e EXCEPT !.deadline = x, !.actDeadline = y].phase = e.phase
    BY DEF Phased, Entry
  <1>4. /\ [e EXCEPT !.polls = n] \in Entry
        /\ [e EXCEPT !.polls = n].steps = e.steps
        /\ [e EXCEPT !.polls = n].phase = e.phase
    BY DEF Phased, Entry
  <1>5. /\ [e EXCEPT !.retired = R, !.committed = c] \in Entry
        /\ [e EXCEPT !.retired = R, !.committed = c].steps = e.steps
        /\ [e EXCEPT !.retired = R, !.committed = c].phase = e.phase
    BY DEF Phased, Entry
  <1>6. \A p \in {"unpausing", "triggering"} :
            /\ [e EXCEPT !.phase = p] \in Entry
            /\ [e EXCEPT !.phase = p].steps = e.steps
            /\ [e EXCEPT !.phase = p].phase = p
    BY DEF Phased, Entry, Phases
  <1>7. /\ Keeps(e, [e EXCEPT !.retire = R, !.purge = P])
        /\ Keeps(e, [e EXCEPT !.deadline = x, !.actDeadline = y])
    BY <1>1, <1>2, <1>3
  <1>8. /\ Keeps(e, [e EXCEPT !.polls = n])
        /\ Keeps(e, [e EXCEPT !.retired = R, !.committed = c])
    BY <1>1, <1>4, <1>5
  <1>9. /\ Keeps(e, [e EXCEPT !.phase = "unpausing"])
        /\ Keeps(e, [e EXCEPT !.phase = "triggering"])
    BY <1>1, <1>6
  <1> QED
    BY <1>7, <1>8, <1>9

-----------------------------------------------------------------------------
(* What an entry accounts for. *)

\* The retire step is still to be done, and there is something for it to do.
Owed(e) == Pending(e, "retire") /\ OldDags(e) # {}

\* The lifecycle ended before its retire.
CutShort(e) == \E name \in {"unpause", "trigger"} : e.steps[name] # "done"

\* What the sweep may find in the steps it has still to take.
Workable(e) ==
    /\ e.stop # "consumed"
    /\ e.steps["registered"] \in {"pending", "done"}
    /\ e.steps["unpause"] \in {"pending", "done", "vetoed"} \cup BudgetSkips
    /\ e.steps["trigger"] \in {"pending", "done", "vetoed"} \cup BudgetSkips
    /\ e.steps["trigger"] = "done" => e.steps["unpause"] = "done"

\* An open entry is in a phase whose predecessors are over.
InOrder(e) ==
    /\ \A name \in {"unpause", "trigger"} : e.steps[name] \notin BudgetSkips
    /\ e.phase # "awaiting_registration" => e.steps["registered"] = "done"
    /\ e.phase = "triggering" => e.steps["unpause"] = "done"
    /\ e.phase \in {"unpausing", "triggering"} /\ e.steps["trigger"] = "done" => ~Owed(e)
    /\ e.phase = "terminal" =>
          e.steps["unpause"] = "done" /\ ~Pending(e, "trigger") /\ ~Owed(e)

\* A veto that was honoured leaves nothing to unpause or to trigger.
VetoHeld(e) ==
    e.veto = "consumed" =>
        \A name \in {"unpause", "trigger"} : e.steps[name] \notin {"pending"} \cup BudgetSkips

\* Who is told "completed" has what the deploy was for.
CompletedIsTrue(e) ==
    e.outcome = "completed" => ReadyToRetire(e) /\ (Owed(e) => CutShort(e))

Accounted(e) ==
    /\ Open(e) \/ e.outcome = "expired" => Workable(e)
    /\ Open(e) => InOrder(e)
    /\ VetoHeld(e)
    /\ CompletedIsTrue(e)

\* f is about the same deploy as e.
SameDeploy(e, f) == f.dag = e.dag /\ f.flow = e.flow /\ f.retire = e.retire

\* f has the decisions of e.
Decided(e, f) ==
    \A name \in StepNames : e.steps[name] \in Decisions =>
        f.steps[name] \in {e.steps[name], "import_failed"}

\* f may be written for e by whoever holds it.
Follows(e, f) == Accounted(f) /\ SameDeploy(e, f) /\ Decided(e, f)

-----------------------------------------------------------------------------
(* The fields an operator leaves alone. *)

\* Skipping steps moves nothing but steps and their attempts (apply_unpause_veto).
LEMMA SkippedFields ==
    ASSUME NEW e \in Entry, NEW names, NEW reason
    PROVE  /\ SameDeploy(e, Skipped(e, names, reason))
           /\ Skipped(e, names, reason).steps
                = [name \in StepNames |-> IF name \in names /\ e.steps[name] = "pending"
                                          THEN reason ELSE e.steps[name]]
           /\ Skipped(e, names, reason).phase = e.phase
           /\ Skipped(e, names, reason).outcome = e.outcome
           /\ Skipped(e, names, reason).stop = e.stop
           /\ Skipped(e, names, reason).veto = e.veto
           /\ Skipped(e, names, reason).committed = e.committed
           /\ Decided(e, Skipped(e, names, reason))
  <1> DEFINE f == Skipped(e, names, reason)
  <1>1. /\ SameDeploy(e, f)
        /\ f.steps = [name \in StepNames |-> IF name \in names /\ e.steps[name] = "pending"
                                             THEN reason ELSE e.steps[name]]
        /\ f.phase = e.phase /\ f.outcome = e.outcome /\ f.stop = e.stop /\ f.veto = e.veto
        /\ f.committed = e.committed
    BY DEF Skipped, Entry, SameDeploy
  <1> HIDE DEF f
  <1>2. \A name \in StepNames : e.steps[name] # "pending" => f.steps[name] = e.steps[name]
    BY <1>1
  <1>3. "pending" \notin Decisions
    BY DEF Decisions, DeliberateSkips
  <1>4. Decided(e, f)
    BY <1>2, <1>3 DEF Decided
  <1> QED
    BY <1>1, <1>4 DEF f

\* Nor does settling one (_do_quiesce, _do_trigger).
LEMMA SettledFields ==
    ASSUME NEW e \in Entry, NEW name, NEW state
    PROVE  /\ SameDeploy(e, Settled(e, name, state))
           /\ Settled(e, name, state).steps = [e.steps EXCEPT ![name] = state]
           /\ Settled(e, name, state).phase = e.phase
           /\ Settled(e, name, state).outcome = e.outcome
           /\ Settled(e, name, state).stop = e.stop
           /\ Settled(e, name, state).veto = e.veto
           /\ Settled(e, name, state).committed = e.committed
           /\ e.steps[name] \notin Decisions => Decided(e, Settled(e, name, state))
  <1> DEFINE f == Settled(e, name, state)
  <1>1. /\ SameDeploy(e, f) /\ f.steps = [e.steps EXCEPT ![name] = state]
        /\ f.phase = e.phase /\ f.outcome = e.outcome /\ f.stop = e.stop /\ f.veto = e.veto
        /\ f.committed = e.committed
    BY DEF Settled, Entry, SameDeploy
  <1>2. e.steps \in [StepNames -> StepStates]
    BY DEF Entry
  <1> HIDE DEF f
  <1>3. e.steps[name] \notin Decisions => Decided(e, f)
    BY <1>1, <1>2 DEF Decided
  <1> QED
    BY <1>1, <1>3 DEF f

\* Closing an entry moves its outcome and its phase (_finish).
LEMMA FinishedFields ==
    ASSUME NEW e \in Entry, NEW outcome
    PROVE  /\ SameDeploy(e, Finished(e, outcome))
           /\ Finished(e, outcome).steps = e.steps
           /\ Finished(e, outcome).outcome = outcome
           /\ Finished(e, outcome).stop = e.stop
           /\ Finished(e, outcome).veto = e.veto
           /\ Decided(e, Finished(e, outcome))
  BY DEF Finished, Entry, SameDeploy, Decided

\* A back-off counts an attempt (_backoff).
LEMMA BackedOffFields ==
    ASSUME NEW e \in Entry, NEW name
    PROVE  /\ SameDeploy(e, BackedOff(e, name))
           /\ BackedOff(e, name).steps = e.steps
           /\ BackedOff(e, name).phase = e.phase
           /\ BackedOff(e, name).outcome = e.outcome
           /\ BackedOff(e, name).stop = e.stop
           /\ BackedOff(e, name).veto = e.veto
           /\ Decided(e, BackedOff(e, name))
  BY DEF BackedOff, Entry, SameDeploy, Decided

\* A handler that passes an entry on moves its phase.
LEMMA PhaseFields ==
    ASSUME NEW e \in Entry, NEW phase
    PROVE  /\ SameDeploy(e, [e EXCEPT !.phase = phase])
           /\ [e EXCEPT !.phase = phase].steps = e.steps
           /\ [e EXCEPT !.phase = phase].phase = phase
           /\ [e EXCEPT !.phase = phase].outcome = e.outcome
           /\ [e EXCEPT !.phase = phase].stop = e.stop
           /\ [e EXCEPT !.phase = phase].veto = e.veto
           /\ Decided(e, [e EXCEPT !.phase = phase])
  BY DEF Entry, SameDeploy, Decided

\* A step that is pending is not decided.
LEMMA PendingUndecided == \A e, name : Pending(e, name) => e.steps[name] \notin Decisions
  BY DEF Pending, Decisions, DeliberateSkips

\* Every step of an entry is in some state.
LEMMA StepsType == \A e \in Entry : e.steps \in [StepNames -> StepStates]
  BY DEF Entry

-----------------------------------------------------------------------------
(* What the operators leave accounted for. *)

\* What is accounted for is decided by six fields.
LEMMA AccountedAlike ==
    ASSUME NEW e, Accounted(e), NEW f, SameDeploy(e, f), f.steps = e.steps, f.phase = e.phase,
           f.outcome = e.outcome, f.stop = e.stop, f.veto = e.veto
    PROVE  Follows(e, f)
  BY DEF Accounted, Workable, InOrder, VetoHeld, CompletedIsTrue, ReadyToRetire, Follows,
         SameDeploy, Decided, Open, Owed, CutShort, Pending, OldDags

\* What is written for an entry may be written for one of the same deploy.
LEMMA FollowsOn ==
    ASSUME NEW e, NEW f, NEW g, SameDeploy(e, f), Decided(e, f), Follows(f, g)
    PROVE  Follows(e, g)
  <1>1. "import_failed" \in Decisions
    BY DEF Decisions
  <1>2. Decided(e, g)
    BY <1>1 DEF Follows, Decided
  <1> QED
    BY <1>2 DEF Follows, SameDeploy

\* Closing an entry, whatever for.
LEMMA FinishedAccounts ==
    ASSUME NEW e \in Entry, VetoHeld(e), NEW outcome \in Outcomes,
           outcome = "expired" => Workable(e),
           outcome = "completed" => ReadyToRetire(e) /\ (Owed(e) => CutShort(e))
    PROVE  Follows(e, Finished(e, outcome)) /\ ~Open(Finished(e, outcome))
  <1> DEFINE f == Finished(e, outcome)
  <1>1. /\ SameDeploy(e, f) /\ f.steps = e.steps /\ f.outcome = outcome
        /\ f.stop = e.stop /\ f.veto = e.veto /\ Decided(e, f)
    BY FinishedFields
  <1>2. outcome # "none"
    BY DEF Outcomes
  <1> HIDE DEF f
  <1>3. Follows(e, f) /\ ~Open(f)
    BY <1>1, <1>2 DEF Accounted, Workable, VetoHeld, CompletedIsTrue, ReadyToRetire, Follows,
         SameDeploy, Open, Owed, CutShort, Pending, OldDags
  <1> QED
    BY <1>3 DEF f

\* The same through _terminate, whatever outcome it chooses.
LEMMA TerminatedAccounts ==
    ASSUME NEW e \in Entry, VetoHeld(e), NEW outcome \in Outcomes,
           outcome = "expired" => Workable(e),
           outcome = "completed" => ReadyToRetire(e) /\ (Owed(e) => CutShort(e))
    PROVE  Follows(e, Terminated(e, outcome)) /\ ~Open(Terminated(e, outcome))
  BY FinishedAccounts DEF Terminated, Outcomes

\* A skip of pending steps.
LEMMA SkippedAccounts ==
    ASSUME NEW e, Phased(e), Accounted(e), Open(e),
           NEW names \in SUBSET {"retire", "unpause", "trigger"},
           NEW reason \in BudgetSkips \cup DeliberateSkips
    PROVE  LET f == Skipped(e, names, reason)
           IN  /\ f \in Entry /\ SameDeploy(e, f) /\ Decided(e, f) /\ VetoHeld(f)
               /\ reason # "run_off" => Workable(f)
               /\ f.steps["registered"] = e.steps["registered"]
  <1> DEFINE f == Skipped(e, names, reason)
  <1>1. e \in Entry /\ e.steps \in [StepNames -> StepStates]
    BY StepsType DEF Phased
  <1>2. f \in Entry
    <2>1. names \in SUBSET StepNames /\ reason \in StepStates \ {"pending", "done"}
      BY DEF StepNames, StepStates, BudgetSkips, DeliberateSkips
    <2> QED
      BY <2>1, SkippedKeeps DEF Keeps, Phased
  <1>3. /\ SameDeploy(e, f) /\ Decided(e, f) /\ f.stop = e.stop /\ f.veto = e.veto
        /\ f.steps = [name \in StepNames |-> IF name \in names /\ e.steps[name] = "pending"
                                             THEN reason ELSE e.steps[name]]
    BY <1>1, SkippedFields
  <1>4. /\ f.steps["registered"] = e.steps["registered"]
        /\ \A name \in {"unpause", "trigger"} :
              f.steps[name] = e.steps[name] \/ (e.steps[name] = "pending" /\ f.steps[name] = reason)
    BY <1>3 DEF StepNames
  <1>5. Workable(e) /\ VetoHeld(e)
    BY DEF Accounted
  <1> HIDE DEF f
  <1>6. VetoHeld(f)
    BY <1>3, <1>4, <1>5 DEF VetoHeld
  <1>7. reason # "run_off" => Workable(f)
    BY <1>3, <1>4, <1>5 DEF Workable, BudgetSkips, DeliberateSkips
  <1> QED
    BY <1>2, <1>3, <1>4, <1>6, <1>7 DEF f

\* The veto of an open entry skips what is pending and keeps its phase in order.
LEMMA UnpauseVetoedAccounts ==
    ASSUME NEW e, Phased(e), Accounted(e), Open(e), NEW veto \in VetoRequests
    PROVE  LET f == UnpauseVetoed(e)
               g == [f EXCEPT !.veto = veto]
           IN  /\ Follows(e, f) /\ Open(f) /\ f.stop = e.stop /\ f.veto = e.veto /\ f.phase = e.phase
               /\ Follows(e, g) /\ Open(g) /\ g.stop = e.stop /\ g.veto = veto /\ g.phase = e.phase
               /\ \A name \in {"unpause", "trigger"} :
                     ~Pending(f, name) /\ ~Pending(g, name)
  <1> DEFINE f == UnpauseVetoed(e)
             g == [f EXCEPT !.veto = veto]
  <1>1. e \in Entry /\ e.steps \in [StepNames -> StepStates] /\ f \in Entry
    BY StepsType, UnpauseVetoedKeeps DEF Phased, Keeps
  <1>2. /\ SameDeploy(e, f) /\ Decided(e, f)
        /\ f.stop = e.stop /\ f.veto = e.veto /\ f.phase = e.phase /\ f.outcome = e.outcome
        /\ f.steps = [name \in StepNames |-> IF name \in {"unpause", "trigger"} /\ e.steps[name] = "pending"
                                             THEN "vetoed" ELSE e.steps[name]]
    BY <1>1, SkippedFields DEF UnpauseVetoed
  <1>3. /\ f.steps["registered"] = e.steps["registered"] /\ f.steps["retire"] = e.steps["retire"]
        /\ \A name \in {"unpause", "trigger"} :
              f.steps[name] = IF e.steps[name] = "pending" THEN "vetoed" ELSE e.steps[name]
    BY <1>2 DEF StepNames
  <1> HIDE DEF f
  <1>4. /\ SameDeploy(f, g) /\ g.stop = f.stop /\ g.veto = veto /\ g.phase = f.phase
        /\ g.outcome = f.outcome /\ g.steps = f.steps
    BY <1>1 DEF Entry, SameDeploy
  <1>10. Decided(e, g)
    BY <1>2, <1>4 DEF Decided
  <1> HIDE DEF g
  <1>5. Workable(f) /\ InOrder(f) /\ Open(f)
    BY <1>2, <1>3 DEF Accounted, Workable, InOrder, Open, SameDeploy, Owed, Pending, OldDags,
         BudgetSkips
  <1>6. \A name \in {"unpause", "trigger"} : f.steps[name] \notin {"pending"} \cup BudgetSkips
    BY <1>3, <1>5 DEF InOrder, BudgetSkips
  <1>7. Accounted(f)
    BY <1>2, <1>5, <1>6 DEF Accounted, VetoHeld, CompletedIsTrue, Open
  <1>8. Accounted(g) /\ Open(g)
    BY <1>4, <1>5, <1>6 DEF Accounted, VetoHeld, CompletedIsTrue, Open, Workable, InOrder, Owed,
         SameDeploy, Pending, OldDags
  <1>9. \A name \in {"unpause", "trigger"} : ~Pending(f, name) /\ ~Pending(g, name)
    BY <1>4, <1>6 DEF Pending
  <1> QED
    BY <1>2, <1>4, <1>5, <1>7, <1>8, <1>9, <1>10 DEF f, g, Follows, SameDeploy

\* The entry as the phase handlers see it.
LEMMA VetoHonouredAccounts ==
    ASSUME NEW e, Phased(e), Accounted(e), Open(e)
    PROVE  /\ Follows(e, VetoHonoured(e)) /\ Open(VetoHonoured(e))
           /\ VetoHonoured(e).phase = e.phase /\ VetoHonoured(e).stop = e.stop
           /\ VetoHonoured(e).veto # "requested"
  <1>1. "consumed" \in VetoRequests
    BY DEF VetoRequests
  <1>2. SameDeploy(e, e) /\ Decided(e, e)
    BY DEF SameDeploy, Decided
  <1>3. CASE e.veto = "requested"
    BY <1>1, <1>3, UnpauseVetoedAccounts DEF VetoHonoured
  <1>4. CASE e.veto # "requested"
    BY <1>2, <1>4 DEF VetoHonoured, Follows
  <1> QED
    BY <1>3, <1>4

\* A stop that is honoured closes the entry.
LEMMA StopHonouredAccounts ==
    ASSUME NEW e, Phased(e), Accounted(e), StopRequested(e)
    PROVE  Follows(e, StopHonoured(e)) /\ ~Open(StopHonoured(e))
  <1> DEFINE f == [e EXCEPT !.stop = "consumed"]
  <1>1. f \in Entry /\ SameDeploy(e, f) /\ Decided(e, f) /\ f.steps = e.steps /\ f.veto = e.veto
    BY DEF Phased, Entry, SameDeploy, Decided, StopRequests
  <1> HIDE DEF f
  <1>2. VetoHeld(f)
    BY <1>1 DEF Accounted, VetoHeld
  <1>3. e.stop \in Outcomes /\ e.stop \notin {"expired", "completed"}
    BY DEF StopRequested, Outcomes
  <1>4. Follows(f, Terminated(f, e.stop)) /\ ~Open(Terminated(f, e.stop))
    BY <1>1, <1>2, <1>3, TerminatedAccounts
  <1> QED
    BY <1>1, <1>4, FollowsOn DEF StopHonoured, f

\* A step that fails closes the entry as failed.
LEMMA StepFailedAccounts ==
    ASSUME NEW e, Phased(e), Accounted(e), NEW name \in StepNames, Pending(e, name)
    PROVE  Follows(e, StepFailed(e, name)) /\ ~Open(StepFailed(e, name))
  <1> DEFINE f == Settled(e, name, "failed")
  <1>1. /\ f \in Entry /\ SameDeploy(e, f) /\ f.steps = [e.steps EXCEPT ![name] = "failed"]
        /\ f.veto = e.veto /\ e.steps \in [StepNames -> StepStates] /\ Decided(e, f)
    BY SettledType, SettledFields, StepsType, PendingUndecided DEF Phased, StepStates
  <1> HIDE DEF f
  <1>2. VetoHeld(f)
    BY <1>1 DEF Accounted, VetoHeld, BudgetSkips, StepNames
  <1>3. Follows(f, Finished(f, "failed")) /\ ~Open(Finished(f, "failed"))
    BY <1>1, <1>2, FinishedAccounts DEF Outcomes
  <1> QED
    BY <1>1, <1>3, FollowsOn DEF StepFailed, f

\* A back-off.
LEMMA BackedOffAccounts ==
    ASSUME NEW e, Phased(e), Accounted(e), NEW name
    PROVE  Follows(e, BackedOff(e, name))
  <1> DEFINE f == BackedOff(e, name)
  <1>1. /\ SameDeploy(e, f) /\ f.steps = e.steps /\ f.phase = e.phase /\ f.outcome = e.outcome
        /\ f.stop = e.stop /\ f.veto = e.veto
    BY BackedOffFields DEF Phased
  <1> HIDE DEF f
  <1>2. Follows(e, f)
    BY <1>1, AccountedAlike
  <1> QED
    BY <1>2 DEF f

\* An open entry whose registration is over is given its next phase.
LEMMA NextPhaseAccounts ==
    ASSUME NEW e \in Entry, Open(e), Workable(e), VetoHeld(e), e.steps["registered"] = "done",
           \A name \in {"unpause", "trigger"} : e.steps[name] \notin BudgetSkips
    PROVE  LET f == [e EXCEPT !.phase = NextPhase(e)] IN Follows(e, f) /\ (Open(f)) /\ f.veto = e.veto
  <1> DEFINE f == [e EXCEPT !.phase = NextPhase(e)]
  <1>1. /\ SameDeploy(e, f) /\ f.steps = e.steps /\ f.phase = NextPhase(e)
        /\ f.outcome = e.outcome /\ f.stop = e.stop /\ f.veto = e.veto /\ Decided(e, f)
    BY PhaseFields
  <1>2. /\ NextPhase(e) = "triggering" => e.steps["unpause"] = "done"
        /\ NextPhase(e) \in {"unpausing", "triggering"} /\ e.steps["trigger"] = "done" => e.steps["unpause"] # "done"
        /\ NextPhase(e) = "terminal" =>
              e.steps["unpause"] = "done" /\ ~Pending(e, "trigger") /\ ~Owed(e)
    BY DEF NextPhase, Pending, Owed, OldDags
  <1>3. /\ Owed(f) <=> Owed(e)
        /\ Workable(f) /\ VetoHeld(f) /\ Open(f)
    BY <1>1 DEF Owed, Pending, OldDags, SameDeploy, Workable, VetoHeld, Open
  <1>4. InOrder(f)
    BY <1>1, <1>2, <1>3 DEF InOrder, Workable, Pending
  <1>5. CompletedIsTrue(f)
    BY <1>3 DEF CompletedIsTrue, Open
  <1> HIDE DEF f
  <1>6. Follows(e, f) /\ Open(f) /\ f.veto = e.veto
    BY <1>1, <1>3, <1>4, <1>5 DEF Follows, Accounted
  <1> QED
    BY <1>6 DEF f

\* An expiry is told of an open entry.
LEMMA ExpiredRegistrationAccounts ==
    ASSUME NEW e, Phased(e), Accounted(e), Open(e)
    PROVE  Follows(e, ExpiredRegistration(e)) /\ ~Open(ExpiredRegistration(e))
  <1> DEFINE f == IF e.retire # {} THEN Skipped(e, {"retire"}, "never_registered") ELSE e
  <1>1. /\ f \in Entry /\ SameDeploy(e, f) /\ Decided(e, f) /\ VetoHeld(f) /\ Workable(f)
    <2>1. "never_registered" \in BudgetSkips /\ "never_registered" # "run_off"
      BY DEF BudgetSkips
    <2>2. e \in Entry /\ SameDeploy(e, e) /\ Decided(e, e) /\ VetoHeld(e) /\ Workable(e)
      BY DEF Phased, SameDeploy, Decided, Accounted
    <2> QED
      BY <2>1, <2>2, SkippedAccounts
  <1> HIDE DEF f
  <1>2. Follows(f, Finished(f, "expired")) /\ ~Open(Finished(f, "expired"))
    BY <1>1, FinishedAccounts DEF Outcomes
  <1> QED
    BY <1>1, <1>2, FollowsOn DEF ExpiredRegistration, f

\* An import error closes the entry as failed.
LEMMA ImportFailedAccounts ==
    ASSUME NEW e, Phased(e), Accounted(e), Pending(e, "registered")
    PROVE  Follows(e, ImportFailed(e)) /\ ~Open(ImportFailed(e))
  <1> DEFINE f == Settled(e, "registered", "failed")
             r == IF e.retire # {} THEN "import_failed" ELSE f.steps["retire"]
             s == [f.steps EXCEPT !["retire"] = r]
             g == [f EXCEPT !.steps = s]
  <1>1. /\ f \in Entry /\ SameDeploy(e, f) /\ f.steps = [e.steps EXCEPT !["registered"] = "failed"]
        /\ f.veto = e.veto /\ e.steps \in [StepNames -> StepStates]
    BY SettledType, SettledFields, StepsType DEF Phased, StepNames, StepStates
  <1> HIDE DEF f
  <1>2. /\ f.steps \in [StepNames -> StepStates] /\ s \in [StepNames -> StepStates]
        /\ \A name \in {"unpause", "trigger"} : s[name] = e.steps[name]
    BY <1>1, StepsType DEF StepNames, StepStates
  <1> HIDE DEF s
  <1>3. g \in Entry /\ SameDeploy(f, g) /\ g.steps = s /\ g.veto = f.veto
    BY <1>1, <1>2 DEF Entry, SameDeploy
  <1>7. Decided(e, g)
    <2>1. /\ s["registered"] = "failed" /\ s["retire"] \in {e.steps["retire"], "import_failed"}
          /\ \A name \in {"quiesce", "unpause", "trigger"} : s[name] = e.steps[name]
      BY <1>1, <1>2 DEF s, StepNames
    <2> QED
      BY <1>3, <2>1, PendingUndecided DEF Decided, StepNames
  <1>4. g = [f EXCEPT !.steps["retire"] = IF e.retire # {} THEN "import_failed" ELSE @]
    BY DEF s
  <1> HIDE DEF g
  <1>5. VetoHeld(g) /\ SameDeploy(e, g)
    BY <1>1, <1>2, <1>3 DEF Accounted, VetoHeld, SameDeploy
  <1>6. Follows(g, Finished(g, "import_failed")) /\ ~Open(Finished(g, "import_failed"))
    BY <1>3, <1>5, FinishedAccounts DEF Outcomes
  <1> QED
    BY <1>4, <1>5, <1>6, <1>7, FollowsOn DEF ImportFailed, f

\* A registration that is seen.
LEMMA RegisteredAccounts ==
    ASSUME NEW e, Phased(e), Accounted(e), Open(e), Pending(e, "registered"),
           NEW at \in Nat, NEW grace \in Nat
    PROVE  Follows(e, Registered(e, at, grace))
  <1> DEFINE s == Settled(e, "registered", "done")
             n == IF s.deadline < at + grace THEN at + grace ELSE s.deadline
             f == [s EXCEPT !.deadline = n]
  <1>1. /\ s \in Entry /\ SameDeploy(e, s) /\ s.steps = [e.steps EXCEPT !["registered"] = "done"]
        /\ s.veto = e.veto /\ s.stop = e.stop /\ s.outcome = e.outcome
        /\ e.steps \in [StepNames -> StepStates] /\ Decided(e, s)
    BY SettledType, SettledFields, StepsType, PendingUndecided DEF Phased, StepNames, StepStates
  <1> HIDE DEF s
  <1>2. n \in Nat
    BY <1>1 DEF Entry
  <1> HIDE DEF n
  <1>3. /\ f \in Entry /\ SameDeploy(s, f) /\ f.steps = s.steps
        /\ f.veto = s.veto /\ f.stop = s.stop /\ f.outcome = s.outcome
    BY <1>1, <1>2 DEF Entry, SameDeploy
  <1>4. [f EXCEPT !.phase = NextPhase(f)] = Registered(e, at, grace)
    BY DEF Registered, s, n
  <1> HIDE DEF f
  <1>5. /\ f.steps["registered"] = "done"
        /\ \A name \in {"unpause", "trigger"} : f.steps[name] = e.steps[name]
    BY <1>1, <1>3 DEF StepNames
  <1>6. Open(f) /\ Workable(f) /\ VetoHeld(f) /\ SameDeploy(e, f) /\ Decided(e, f)
        /\ \A name \in {"unpause", "trigger"} : f.steps[name] \notin BudgetSkips
    BY <1>1, <1>3, <1>5 DEF Accounted, Workable, InOrder, VetoHeld, Open, SameDeploy, Decided
  <1>7. Follows(f, [f EXCEPT !.phase = NextPhase(f)])
    BY <1>3, <1>5, <1>6, NextPhaseAccounts
  <1> QED
    BY <1>4, <1>6, <1>7, FollowsOn

\* The quiesce step ends.
LEMMA QuiesceSettledAccounts ==
    ASSUME NEW e, Phased(e), Accounted(e), Open(e), e.phase = "quiescing", Pending(e, "quiesce"),
           NEW state \in StepStates
    PROVE  Follows(e, QuiesceSettled(e, state))
  <1> DEFINE f == Settled(e, "quiesce", state)
  <1>1. /\ f \in Entry /\ SameDeploy(e, f) /\ f.steps = [e.steps EXCEPT !["quiesce"] = state]
        /\ f.veto = e.veto /\ f.stop = e.stop /\ f.outcome = e.outcome
        /\ e.steps \in [StepNames -> StepStates] /\ Decided(e, f)
    BY SettledType, SettledFields, StepsType, PendingUndecided DEF Phased, StepNames, StepStates
  <1> HIDE DEF f
  <1>2. \A name \in {"registered", "unpause", "trigger"} : f.steps[name] = e.steps[name]
    BY <1>1 DEF StepNames
  <1>3. /\ Open(f) /\ Workable(f) /\ VetoHeld(f) /\ f.steps["registered"] = "done"
        /\ \A name \in {"unpause", "trigger"} : f.steps[name] \notin BudgetSkips
    BY <1>1, <1>2 DEF Accounted, Workable, InOrder, VetoHeld, Open
  <1>4. Follows(f, [f EXCEPT !.phase = NextPhase(f)])
    BY <1>1, <1>3, NextPhaseAccounts
  <1> QED
    BY <1>1, <1>4, FollowsOn DEF QuiesceSettled, f

\* An entry is found not to need a phase.
LEMMA PassedOver ==
    ASSUME NEW e, Phased(e), Accounted(e), Open(e), e.phase # "awaiting_registration"
    PROVE  /\ Follows(e, [e EXCEPT !.phase = NextPhase(e)])
           /\ e.steps["unpause"] = "done" /\ (e.steps["trigger"] = "done" => ~Owed(e))
                 => Follows(e, [e EXCEPT !.phase = "triggering"])
           /\ ~Owed(e) => Follows(e, [e EXCEPT !.phase = "unpausing"])
  <1>1. e \in Entry /\ Workable(e) /\ VetoHeld(e) /\ InOrder(e)
    BY DEF Phased, Accounted
  <1>2. Follows(e, [e EXCEPT !.phase = NextPhase(e)])
    BY <1>1, NextPhaseAccounts DEF InOrder
  <1>3. \A phase \in {"triggering", "unpausing"} :
            LET f == [e EXCEPT !.phase = phase]
            IN  /\ SameDeploy(e, f) /\ f.steps = e.steps /\ f.phase = phase
                /\ f.outcome = e.outcome /\ f.stop = e.stop /\ f.veto = e.veto
                /\ Decided(e, f)
    BY <1>1, PhaseFields
  <1>4. ASSUME e.steps["unpause"] = "done", e.steps["trigger"] = "done" => ~Owed(e)
        PROVE  Follows(e, [e EXCEPT !.phase = "triggering"])
    BY <1>1, <1>3, <1>4 DEF Accounted, Workable, InOrder, VetoHeld, CompletedIsTrue, Follows,
         SameDeploy, Open, Owed, CutShort, Pending, OldDags
  <1>5. ASSUME ~Owed(e) PROVE Follows(e, [e EXCEPT !.phase = "unpausing"])
    BY <1>1, <1>3, <1>5 DEF Accounted, Workable, InOrder, VetoHeld, CompletedIsTrue, Follows,
         SameDeploy, Open, Owed, CutShort, Pending, OldDags
  <1> QED
    BY <1>2, <1>4, <1>5

\* The new DAG runs.
LEMMA UnpausedAccounts ==
    ASSUME NEW e, Phased(e), Accounted(e), Open(e), e.phase = "unpausing", Pending(e, "unpause")
    PROVE  Follows(e, Unpaused(e))
  <1> DEFINE f == Settled(e, "unpause", "done")
             g == [f EXCEPT !.phase = "triggering"]
  <1>1. /\ f \in Entry /\ SameDeploy(e, f) /\ f.steps = [e.steps EXCEPT !["unpause"] = "done"]
        /\ f.veto = e.veto /\ f.stop = e.stop /\ f.outcome = e.outcome
        /\ e.steps \in [StepNames -> StepStates] /\ Decided(e, f)
    BY SettledType, SettledFields, StepsType, PendingUndecided DEF Phased, StepNames, StepStates
  <1> HIDE DEF f
  <1>2. /\ SameDeploy(f, g) /\ g.steps = f.steps /\ g.phase = "triggering"
        /\ g.outcome = f.outcome /\ g.stop = f.stop /\ g.veto = f.veto
    BY <1>1, PhaseFields
  <1>6. Decided(e, g)
    BY <1>1, <1>2 DEF Decided
  <1> HIDE DEF g
  <1>3. /\ g.steps["unpause"] = "done"
        /\ \A name \in StepNames \ {"unpause"} : g.steps[name] = e.steps[name]
    BY <1>1, <1>2 DEF StepNames
  <1>4. e.steps["trigger"] # "done"
    BY DEF Accounted, Workable, Pending
  <1>5. Accounted(g)
    BY <1>1, <1>2, <1>3, <1>4 DEF Accounted, Workable, InOrder, VetoHeld, CompletedIsTrue,
         SameDeploy, Open, Owed, Pending, OldDags, BudgetSkips, StepNames
  <1> QED
    BY <1>1, <1>2, <1>5, <1>6 DEF Unpaused, Follows, SameDeploy, f, g

\* Its run is there.
LEMMA TriggeredAccounts ==
    ASSUME NEW e, Phased(e), Accounted(e), Open(e), e.phase = "triggering", Pending(e, "trigger")
    PROVE  Follows(e, Triggered(e))
  <1> DEFINE f == Settled(e, "trigger", "done")
             g == [f EXCEPT !.phase = NextPhase(f)]
  <1>1. /\ f \in Entry /\ SameDeploy(e, f) /\ f.steps = [e.steps EXCEPT !["trigger"] = "done"]
        /\ f.veto = e.veto /\ f.stop = e.stop /\ f.outcome = e.outcome
        /\ e.steps \in [StepNames -> StepStates] /\ Decided(e, f)
    BY SettledType, SettledFields, StepsType, PendingUndecided DEF Phased, StepNames, StepStates
  <1> HIDE DEF f
  <1>2. /\ f.steps["trigger"] = "done" /\ f.steps["unpause"] = "done"
        /\ f.steps["registered"] = "done" /\ e.steps["unpause"] = "done"
    BY <1>1 DEF StepNames, Accounted, InOrder
  <1>3. Open(f) /\ Workable(f) /\ VetoHeld(f)
    BY <1>1, <1>2 DEF Accounted, Workable, VetoHeld, Open, BudgetSkips
  <1>4. Follows(f, g) /\ Open(g)
    BY <1>1, <1>2, <1>3, NextPhaseAccounts DEF BudgetSkips
  <1>5. g \in Entry /\ g.steps = f.steps /\ g.phase = NextPhase(f)
    BY <1>1, NextPhaseIsLast DEF Entry
  <1>6. Triggered(e) = IF g.phase = "terminal" THEN Terminated(g, "completed") ELSE g
    BY DEF Triggered, f
  <1> HIDE DEF g
  <1>7. g.phase = "terminal" => Follows(g, Terminated(g, "completed"))
    <2>1. ReadyToRetire(g) /\ VetoHeld(g) /\ (g.phase = "terminal" => ~Owed(g))
      BY <1>2, <1>4, <1>5 DEF Follows, Accounted, InOrder, ReadyToRetire
    <2> QED
      BY <1>5, <2>1, TerminatedAccounts DEF Outcomes
  <1> QED
    BY <1>1, <1>4, <1>6, <1>7, FollowsOn DEF Follows

\* The retire step ends.
LEMMA RetireEndsAccounts ==
    ASSUME NEW e, Phased(e), Accounted(e), Open(e), Pending(e, "retire"),
           NEW state \in StepStates \ {"pending"}, NEW outcome \in {"completed", "expired"},
           outcome = "completed" => ReadyToRetire(e)
    PROVE  LET f == Settled(e, "retire", state)
           IN  Follows(e, Terminated(f, outcome)) /\ ~Open(Terminated(f, outcome))
  <1> DEFINE f == Settled(e, "retire", state)
  <1>1. /\ f \in Entry /\ SameDeploy(e, f) /\ f.steps = [e.steps EXCEPT !["retire"] = state]
        /\ f.veto = e.veto /\ f.stop = e.stop /\ f.outcome = e.outcome
        /\ e.steps \in [StepNames -> StepStates] /\ Decided(e, f)
    BY SettledType, SettledFields, StepsType, PendingUndecided DEF Phased, StepNames, StepStates
  <1> HIDE DEF f
  <1>2. /\ f.steps["retire"] # "pending"
        /\ \A name \in {"registered", "unpause", "trigger"} : f.steps[name] = e.steps[name]
    BY <1>1 DEF StepNames
  <1>3. Workable(f) /\ VetoHeld(f) /\ ~Owed(f)
    BY <1>1, <1>2 DEF Accounted, Workable, VetoHeld, Owed, Pending
  <1>6. outcome = "completed" => ReadyToRetire(f)
    BY <1>2 DEF ReadyToRetire
  <1>4. Follows(f, Terminated(f, outcome)) /\ ~Open(Terminated(f, outcome))
    BY <1>1, <1>3, <1>6, TerminatedAccounts DEF Outcomes
  <1>5. Follows(e, Terminated(f, outcome)) /\ ~Open(Terminated(f, outcome))
    BY <1>1, <1>4, FollowsOn
  <1> QED
    BY <1>5 DEF f

\* What a holder writes back has the requests that were recorded meanwhile, unless
\* it has honoured them.
LEMMA MergedAccounts ==
    ASSUME NEW held, Phased(held), Accounted(held), NEW stored, stored \in Entry
    PROVE  LET f == Merged(held, stored)
           IN  /\ Follows(held, f) /\ f.outcome = held.outcome /\ f.steps = held.steps
               /\ StopRequested(stored) => StopRequested(f) \/ ~Open(f)
               /\ stored.veto = "requested" =>
                     f.veto = "requested" \/ (~Pending(f, "unpause") /\ ~Pending(f, "trigger"))
  <1> DEFINE stop == IF held.stop = "absent" /\ StopRequested(stored) THEN stored.stop ELSE held.stop
             veto == IF held.veto = "absent" /\ stored.veto = "requested" THEN "requested" ELSE held.veto
             f == [held EXCEPT !.stop = stop, !.veto = veto]
  <1>1. Merged(held, stored) = f
    BY DEF Merged
  <1>2. /\ SameDeploy(held, f) /\ f.steps = held.steps /\ f.phase = held.phase
        /\ f.outcome = held.outcome /\ f.stop = stop /\ f.veto = veto
    BY DEF Phased, Entry, SameDeploy
  <1>3. held.stop \in StopRequests /\ held.veto \in VetoRequests
    BY DEF Phased, Entry
  <1> HIDE DEF f
  <1>4. /\ stop = "consumed" <=> held.stop = "consumed"
        /\ veto = "consumed" <=> held.veto = "consumed"
    BY <1>3 DEF StopRequested, VetoRequests
  <1>5. Accounted(f)
    BY <1>2, <1>4 DEF Accounted, Workable, InOrder, VetoHeld, CompletedIsTrue, ReadyToRetire,
         SameDeploy, Open, Owed, CutShort, Pending, OldDags
  <1>6. StopRequested(stored) => StopRequested(f) \/ ~Open(f)
    BY <1>2, <1>3 DEF StopRequested, StopRequests, Accounted, Workable, Open
  <1>7. stored.veto = "requested" =>
            f.veto = "requested" \/ (~Pending(f, "unpause") /\ ~Pending(f, "trigger"))
    BY <1>2, <1>3 DEF VetoRequests, Accounted, VetoHeld, Pending
  <1> QED
    BY <1>1, <1>2, <1>5, <1>6, <1>7 DEF Follows, Decided

\* "Keep waiting": what only the clock had skipped is put back to work, in order.
LEMMA ReopenedAccounts ==
    ASSUME NEW e, Phased(e), Accounted(e), e.outcome = "expired", NEW deadline \in Nat
    PROVE  LET g == Reopened(e, deadline)
           IN  /\ Follows(e, g) /\ Open(g) /\ g.stop = e.stop /\ g.veto = e.veto
               /\ \A name \in StepNames :
                     g.steps[name] = e.steps[name] \/ e.steps[name] \in BudgetSkips
  <1> DEFINE owed(name) == name \in {"retire", "unpause", "trigger"}
                             /\ e.steps[name] \in BudgetSkips
             s == [name \in StepNames |-> IF owed(name) THEN "pending" ELSE e.steps[name]]
             f == [e EXCEPT !.steps = s, !.outcome = "none", !.polls = 0,
                            !.deadline = deadline, !.actDeadline = deadline]
             n == IF f.steps["registered"] # "done" THEN "awaiting_registration"
                  ELSE NextPhase(f)
             g == [f EXCEPT !.phase = n]
  <1>1. g = Reopened(e, deadline)
    BY DEF Reopened
  <1>2. e \in Entry /\ e.steps \in [StepNames -> StepStates] /\ s \in [StepNames -> StepStates]
    BY StepsType DEF Phased, StepStates
  <1>3. \A name \in StepNames : s[name] = IF owed(name) THEN "pending" ELSE e.steps[name]
    OBVIOUS
  <1> HIDE DEF s
  <1>4. f \in Entry
    <2>1. 0 \in 0 .. MinPolls
      BY BoundsAssumption
    <2>2. \A p \in 0 .. MinPolls, o \in Outcomes \cup {"none"} :
              [e EXCEPT !.steps = s, !.outcome = o, !.polls = p,
                        !.deadline = deadline, !.actDeadline = deadline] \in Entry
      BY <1>2 DEF Entry
    <2> QED
      BY <2>1, <2>2
  <1>5. /\ SameDeploy(e, f) /\ f.steps = s /\ f.outcome = "none"
        /\ f.stop = e.stop /\ f.veto = e.veto
    BY <1>2 DEF Entry, SameDeploy
  <1> HIDE DEF f
  <1>10. Decided(e, f)
    <2>1. \A name \in StepNames : e.steps[name] \in Decisions => e.steps[name] \notin BudgetSkips
      BY DEF Decisions, DeliberateSkips, BudgetSkips
    <2> QED
      BY <1>3, <1>5, <2>1 DEF Decided
  <1>6. Open(f) /\ Workable(f) /\ VetoHeld(f) /\ Workable(e)
        /\ \A name \in {"unpause", "trigger"} : f.steps[name] \notin BudgetSkips
    BY <1>2, <1>3, <1>5 DEF Accounted, Workable, VetoHeld, Open, BudgetSkips, StepNames
  <1>7. /\ SameDeploy(f, g) /\ g.steps = f.steps /\ g.phase = n
        /\ g.outcome = f.outcome /\ g.stop = f.stop /\ g.veto = f.veto /\ Decided(f, g)
    BY <1>4, PhaseFields
  <1>8. Follows(f, g) /\ Open(g)
    <2>1. CASE f.steps["registered"] = "done"
      <3>1. n = NextPhase(f)
        BY <2>1
      <3> QED
        BY <1>4, <1>6, <2>1, <3>1, NextPhaseAccounts
    <2>2. CASE f.steps["registered"] # "done"
      <3>1. n = "awaiting_registration"
        BY <2>2
      <3> HIDE DEF n
      <3>2. Open(g) /\ Workable(g) /\ VetoHeld(g) /\ InOrder(g) /\ CompletedIsTrue(g)
        BY <1>6, <1>7, <3>1 DEF Workable, VetoHeld, InOrder, CompletedIsTrue, Open
      <3> QED
        BY <1>7, <3>2 DEF Follows, Accounted
    <2> QED
      BY <2>1, <2>2
  <1>9. \A name \in StepNames : g.steps[name] = e.steps[name] \/ e.steps[name] \in BudgetSkips
    BY <1>3, <1>5, <1>7
  <1> HIDE DEF g
  <1> QED
    BY <1>1, <1>5, <1>7, <1>8, <1>9, <1>10, FollowsOn

\* A request drafts an entry that awaits its registration, and may widen its queue.
LEMMA DraftAccounts ==
    ASSUME NEW e, Open(e), e.phase = "awaiting_registration", Workable(e), VetoHeld(e), InOrder(e),
           NEW f, f.steps = e.steps, f.phase = e.phase, f.outcome = e.outcome,
           f.stop = e.stop, f.veto = e.veto
    PROVE  Accounted(f)
  BY DEF Accounted, Workable, InOrder, VetoHeld, CompletedIsTrue, Open

\* A retire step that a newer deploy takes over is no longer owed.
LEMMA InheritedAccounts ==
    ASSUME NEW e, Phased(e), Accounted(e), OwesRetire(e)
    PROVE  LET f == [e EXCEPT !.steps["retire"] = "inherited"]
           IN  /\ Follows(e, f) /\ f.outcome = e.outcome /\ f.stop = e.stop /\ f.veto = e.veto
               /\ \A name \in StepNames :
                     f.steps[name] = e.steps[name] \/ e.steps[name] \in BudgetSkips
               /\ \A name \in StepNames \ {"retire"} : f.steps[name] = e.steps[name]
  <1> DEFINE s == [e.steps EXCEPT !["retire"] = "inherited"]
             f == [e EXCEPT !.steps = s]
  <1>1. e \in Entry /\ e.steps \in [StepNames -> StepStates] /\ e.steps["retire"] \in BudgetSkips
    BY StepsType DEF Phased, OwesRetire
  <1>2. /\ s["retire"] = "inherited"
        /\ \A name \in StepNames \ {"retire"} : s[name] = e.steps[name]
    BY <1>1 DEF StepNames
  <1>3. f = [e EXCEPT !.steps["retire"] = "inherited"]
    OBVIOUS
  <1> HIDE DEF s
  <1>4. /\ SameDeploy(e, f) /\ f.steps = s /\ f.phase = e.phase
        /\ f.outcome = e.outcome /\ f.stop = e.stop /\ f.veto = e.veto
    BY <1>1 DEF Entry, SameDeploy
  <1> HIDE DEF f
  <1>5. Accounted(f)
    BY <1>2, <1>4 DEF Accounted, Workable, InOrder, VetoHeld, CompletedIsTrue, ReadyToRetire,
         SameDeploy, Open, Owed, CutShort, Pending, OldDags, StepNames
  <1>6. Decided(e, f)
    <2>1. e.steps["retire"] \notin Decisions
      BY <1>1 DEF Decisions, DeliberateSkips, BudgetSkips
    <2> QED
      BY <1>2, <1>4, <2>1 DEF Decided
  <1> QED
    BY <1>1, <1>2, <1>3, <1>4, <1>5, <1>6 DEF Follows

\* A stop request on the stored copy of an entry somebody holds.
LEMMA StopRecorded ==
    ASSUME NEW e, Phased(e), Accounted(e), NEW outcome \in {"cancelled", "superseded"}
    PROVE  LET f == [e EXCEPT !.stop = outcome]
           IN  /\ Follows(e, f) /\ f.outcome = e.outcome /\ f.stop = outcome /\ f.veto = e.veto
               /\ f.steps = e.steps
  <1> DEFINE f == [e EXCEPT !.stop = outcome]
  <1>1. /\ SameDeploy(e, f) /\ f.steps = e.steps /\ f.phase = e.phase
        /\ f.outcome = e.outcome /\ f.stop = outcome /\ f.veto = e.veto
    BY DEF Phased, Entry, SameDeploy
  <1> HIDE DEF f
  <1>2. Accounted(f)
    BY <1>1 DEF Accounted, Workable, InOrder, VetoHeld, CompletedIsTrue, ReadyToRetire,
         SameDeploy, Open, Owed, CutShort, Pending, OldDags
  <1> QED
    BY <1>1, <1>2 DEF Follows, Decided, f

-----------------------------------------------------------------------------
(* The quiesce step: only its own success says "done". *)

\* f says that the old DAGs are paused only if e does.
SaysNoMore(e, f) == f.steps["quiesce"] = "done" => e.steps["quiesce"] = "done"

\* Closing, postponing or moving on (_finish, _terminate, _backoff).
LEMMA FinishedSaysNoMore ==
    ASSUME NEW e \in Entry, NEW outcome, NEW name \in StepNames, NEW phase
    PROVE  /\ SaysNoMore(e, Finished(e, outcome)) /\ SaysNoMore(e, Terminated(e, outcome))
           /\ SaysNoMore(e, BackedOff(e, name)) /\ SaysNoMore(e, [e EXCEPT !.phase = phase])
  <1>1. \A o : SaysNoMore(e, Finished(e, o))
    BY FinishedFields DEF SaysNoMore
  <1>2. SaysNoMore(e, Terminated(e, outcome))
    BY <1>1 DEF Terminated
  <1>3. SaysNoMore(e, BackedOff(e, name))
    BY BackedOffFields DEF SaysNoMore
  <1>4. SaysNoMore(e, [e EXCEPT !.phase = phase])
    BY DEF SaysNoMore, Entry
  <1> QED
    BY <1>1, <1>2, <1>3, <1>4

\* Skipping another step (_skip_step).
LEMMA SkippedSaysNoMore ==
    ASSUME NEW e \in Entry, NEW names, "quiesce" \notin names, NEW reason, NEW outcome
    PROVE  /\ SaysNoMore(e, Skipped(e, names, reason))
           /\ SaysNoMore(e, Finished(Skipped(e, names, reason), outcome))
           /\ SaysNoMore(e, Terminated(Skipped(e, names, reason), outcome))
  <1> DEFINE f == Skipped(e, names, reason)
  <1>1. f.steps = [name \in StepNames |-> IF name \in names /\ e.steps[name] = "pending"
                                          THEN reason ELSE e.steps[name]]
    BY SkippedFields
  <1>2. \A o : Finished(f, o).steps = f.steps
    BY DEF Finished, Skipped, Entry
  <1> HIDE DEF f
  <1>3. SaysNoMore(e, f) /\ \A o : SaysNoMore(e, Finished(f, o))
    BY <1>1, <1>2 DEF SaysNoMore, StepNames
  <1> QED
    BY <1>3 DEF Terminated, f

\* Settling another step, or settling the quiesce as anything but done (_fail_step).
LEMMA SettledSaysNoMore ==
    ASSUME NEW e \in Entry, NEW name \in StepNames, NEW state, NEW outcome,
           name # "quiesce" \/ state # "done"
    PROVE  /\ SaysNoMore(e, Settled(e, name, state))
           /\ SaysNoMore(e, Finished(Settled(e, name, state), outcome))
           /\ SaysNoMore(e, Terminated(Settled(e, name, state), outcome))
           /\ \A p : SaysNoMore(e, [Settled(e, name, state) EXCEPT !.phase = p])
  <1> DEFINE f == Settled(e, name, state)
  <1>1. f.steps = [e.steps EXCEPT ![name] = state] /\ e.steps \in [StepNames -> StepStates]
    BY SettledFields, StepsType
  <1>2. /\ \A o : Finished(f, o).steps = f.steps
        /\ \A p : [f EXCEPT !.phase = p].steps = f.steps
    BY DEF Finished, Settled, Entry
  <1> HIDE DEF f
  <1>3. f.steps["quiesce"] = "done" => e.steps["quiesce"] = "done"
    BY <1>1 DEF StepNames
  <1>4. /\ SaysNoMore(e, f) /\ \A o : SaysNoMore(e, Finished(f, o))
        /\ \A p : SaysNoMore(e, [f EXCEPT !.phase = p])
    BY <1>2, <1>3 DEF SaysNoMore
  <1> QED
    BY <1>4 DEF Terminated, f

\* The outcomes of the polls (_do_registration, _expire_registration).
LEMMA PolledSaysNoMore ==
    ASSUME NEW e \in Entry, NEW at, NEW grace
    PROVE  /\ SaysNoMore(e, ExpiredRegistration(e)) /\ SaysNoMore(e, ImportFailed(e))
           /\ SaysNoMore(e, Registered(e, at, grace))
  <1>1. SaysNoMore(e, ExpiredRegistration(e))
    <2>1. SaysNoMore(e, Finished(Skipped(e, {"retire"}, "never_registered"), "expired"))
      BY SkippedSaysNoMore
    <2>2. SaysNoMore(e, Finished(e, "expired"))
      BY FinishedSaysNoMore DEF StepNames
    <2>3. ExpiredRegistration(e) \in {Finished(Skipped(e, {"retire"}, "never_registered"), "expired"),
                                     Finished(e, "expired")}
      BY DEF ExpiredRegistration
    <2> QED
      BY <2>1, <2>2, <2>3
  <1>2. SaysNoMore(e, ImportFailed(e))
    <2> DEFINE f == Settled(e, "registered", "failed")
               s == IF e.retire # {} THEN "import_failed" ELSE f.steps["retire"]
               g == [f EXCEPT !.steps["retire"] = s]
    <2>1. f.steps = [e.steps EXCEPT !["registered"] = "failed"] /\ e.steps \in [StepNames -> StepStates]
      BY SettledFields, StepsType
    <2>2. Finished(g, "import_failed").steps = [f.steps EXCEPT !["retire"] = s]
      <3>1. \A x : LET y == [f EXCEPT !.steps["retire"] = x]
                  IN  Finished(y, "import_failed").steps = [f.steps EXCEPT !["retire"] = x]
        BY DEF Finished, Settled, Entry
      <3> QED
        BY <3>1
    <2>3. ImportFailed(e) = Finished(g, "import_failed")
      BY DEF ImportFailed
    <2> HIDE DEF f, g, s
    <2>4. Finished(g, "import_failed").steps["quiesce"] = e.steps["quiesce"]
      BY <2>1, <2>2 DEF StepNames
    <2> QED
      BY <2>3, <2>4 DEF SaysNoMore
  <1>3. SaysNoMore(e, Registered(e, at, grace))
    <2>1. e.steps \in [StepNames -> StepStates]
      BY StepsType
    <2>2. Settled(e, "registered", "done").steps = [e.steps EXCEPT !["registered"] = "done"]
      BY DEF Settled, Entry
    <2> DEFINE f == Settled(e, "registered", "done")
               l == IF f.deadline < at + grace THEN at + grace ELSE f.deadline
               g == [f EXCEPT !.deadline = l]
               h == [g EXCEPT !.phase = NextPhase(g)]
    <2>3. \A p : [g EXCEPT !.phase = p].steps = f.steps
      <3> HIDE DEF l
      <3> QED
        BY DEF Settled, Entry
    <2>4. Registered(e, at, grace) = h
      BY DEF Registered
    <2>5. h.steps = f.steps
      BY <2>3
    <2>6. f.steps["quiesce"] = e.steps["quiesce"]
      BY <2>1, <2>2 DEF StepNames
    <2> HIDE DEF f, g, h
    <2> QED
      BY <2>4, <2>5, <2>6 DEF SaysNoMore
  <1> QED
    BY <1>1, <1>2, <1>3

\* The answers to the calls (_do_quiesce, _do_unpause, _do_trigger, _do_retire).
LEMMA AnsweredSaysNoMore ==
    ASSUME NEW e \in Entry, NEW name \in StepNames, NEW state, state # "done"
    PROVE  /\ SaysNoMore(e, QuiesceSettled(e, state)) /\ SaysNoMore(e, Unpaused(e))
           /\ SaysNoMore(e, Triggered(e)) /\ SaysNoMore(e, RetireSettled(e))
           /\ SaysNoMore(e, StepFailed(e, name))
  <1>1. SaysNoMore(e, QuiesceSettled(e, state)) /\ SaysNoMore(e, Unpaused(e))
    BY SettledSaysNoMore DEF QuiesceSettled, Unpaused, StepNames
  <1>2. SaysNoMore(e, RetireSettled(e))
    <2>1. \A s : SaysNoMore(e, Terminated(Settled(e, "retire", s), "completed"))
      BY SettledSaysNoMore DEF StepNames
    <2> QED
      BY <2>1 DEF RetireSettled
  <1>3. SaysNoMore(e, StepFailed(e, name))
    BY SettledSaysNoMore DEF StepFailed
  <1>4. SaysNoMore(e, Triggered(e))
    <2> DEFINE f == Settled(e, "trigger", "done")
               g == [f EXCEPT !.phase = NextPhase(f)]
    <2>1. f.steps["quiesce"] = "done" => e.steps["quiesce"] = "done"
      BY SettledSaysNoMore DEF SaysNoMore, StepNames
    <2>2. \A p : /\ [f EXCEPT !.phase = p].steps = f.steps
                 /\ \A o : Finished([f EXCEPT !.phase = p], o).steps = f.steps
      BY DEF Settled, Finished, Entry
    <2>3. g.steps = f.steps /\ \A o : Finished(g, o).steps = f.steps
      BY <2>2
    <2>4. Triggered(e) = IF g.phase = "terminal" THEN Terminated(g, "completed") ELSE g
      BY DEF Triggered
    <2> HIDE DEF f, g
    <2>5. Triggered(e).steps = f.steps
      BY <2>3, <2>4 DEF Terminated
    <2> QED
      BY <2>1, <2>5 DEF SaysNoMore
  <1> QED
    BY <1>1, <1>2, <1>3, <1>4

\* Requests, and their honouring (veto_unpause, request_stop, advance, _move_out).
LEMMA RequestSaysNoMore ==
    ASSUME NEW e \in Entry, NEW stored, NEW r
    PROVE  /\ SaysNoMore(e, UnpauseVetoed(e)) /\ SaysNoMore(e, [UnpauseVetoed(e) EXCEPT !.veto = r])
           /\ SaysNoMore(e, VetoHonoured(e)) /\ SaysNoMore(e, [e EXCEPT !.stop = r])
           /\ SaysNoMore(e, StopHonoured(e)) /\ SaysNoMore(e, Merged(e, stored))
  <1>1. SaysNoMore(e, UnpauseVetoed(e))
    BY SkippedSaysNoMore DEF UnpauseVetoed
  <1>2. \A s : SaysNoMore(e, [UnpauseVetoed(e) EXCEPT !.veto = s])
    <2>1. \A s : [UnpauseVetoed(e) EXCEPT !.veto = s].steps = UnpauseVetoed(e).steps
      BY DEF UnpauseVetoed, Skipped, Entry
    <2> QED
      BY <1>1, <2>1 DEF SaysNoMore
  <1>3. SaysNoMore(e, VetoHonoured(e))
    BY <1>2 DEF VetoHonoured, SaysNoMore
  <1>4. SaysNoMore(e, [e EXCEPT !.stop = r])
    BY DEF SaysNoMore, Entry
  <1>5. SaysNoMore(e, StopHonoured(e))
    BY DEF SaysNoMore, StopHonoured, Terminated, Finished, Entry
  <1>6. SaysNoMore(e, Merged(e, stored))
    BY DEF SaysNoMore, Merged, Entry
  <1> QED
    BY <1>1, <1>2, <1>3, <1>4, <1>5, <1>6

\* "Keep waiting" re-arms no quiesce (reopen_expired).
LEMMA ReopenedSaysNoMore ==
    ASSUME NEW e \in Entry, NEW deadline
    PROVE  SaysNoMore(e, Reopened(e, deadline))
  <1> DEFINE owed(name) == name \in {"retire", "unpause", "trigger"}
                             /\ e.steps[name] \in BudgetSkips
             s == [name \in StepNames |-> IF owed(name) THEN "pending" ELSE e.steps[name]]
             f == [e EXCEPT !.steps = s, !.outcome = "none", !.polls = 0,
                            !.deadline = deadline, !.actDeadline = deadline]
             n == IF f.steps["registered"] # "done" THEN "awaiting_registration"
                  ELSE NextPhase(f)
             g == [f EXCEPT !.phase = n]
  <1>1. g = Reopened(e, deadline)
    BY DEF Reopened
  <1>2. s["quiesce"] = e.steps["quiesce"]
    BY DEF StepNames
  <1> HIDE DEF s
  <1>3. \A p : [f EXCEPT !.phase = p].steps = s
    BY DEF Entry
  <1>4. g.steps = s
    BY <1>3
  <1> HIDE DEF g
  <1> QED
    BY <1>1, <1>2, <1>4 DEF SaysNoMore
=============================================================================
