----------------------------- MODULE DeployEntry -----------------------------
(***************************************************************************)
(* One entry of the deploy journal and the pure half of the reconciler:    *)
(* the operators that reconciler.py and journal.py apply to an entry they  *)
(* hold in memory.  Nothing here reads the clock, the disk or Airflow; the *)
(* module DeployLifecycle does.                                            *)
(*                                                                         *)
(* A step's free-text "skipped_reason" is folded into its state: the code  *)
(* tells reasons apart by membership in two lists, so one state per reason *)
(* that belongs to a list, and one for each refusal, is all there is.      *)
(***************************************************************************)
EXTENDS Naturals

CONSTANTS
    Dags,          \* the dag_ids
    Flows,         \* the `.afdag` documents that have an afdag_id
    NoFlow,        \* the identity of a document without provenance
    MaxAttempts,   \* reconciler.MAX_ATTEMPTS
    MinPolls       \* reconciler.MIN_POLLS_BEFORE_EXPIRY

ASSUME BoundsAssumption == MaxAttempts \in Nat /\ MinPolls \in Nat

StepNames == {"registered", "quiesce", "unpause", "trigger", "retire"}

Phases == {"awaiting_registration", "quiescing", "unpausing", "triggering",
           "retiring", "terminal"}

Outcomes == {"completed", "import_failed", "expired", "failed", "denied",
             "superseded", "cancelled", "needs_repair"}

\* "the action budget elapsed" and "the new DAG never registered".
BudgetSkips == {"elapsed", "never_registered"}
\* A pause by a user, and run-on-deploy switched off.
DeliberateSkips == {"vetoed", "run_off"}

StepStates == {"pending", "done", "failed"} \cup BudgetSkips \cup DeliberateSkips
                \cup {"inherited", "import_failed", "unobserved", "blocked", "refused"}

\* A request key of the entry: never seen, recorded and not yet honoured, or
\* honoured (present but falsy).  A stop request names the outcome it asks for.
StopRequests == {"absent", "consumed", "cancelled", "superseded"}
VetoRequests == {"absent", "consumed", "requested"}

Entry == [dag: Dags, flow: Flows \cup {NoFlow}, run: BOOLEAN,
          retire: SUBSET Dags, purge: SUBSET Dags,
          phase: Phases, outcome: Outcomes \cup {"none"},
          steps: [StepNames -> StepStates],
          tries: [StepNames -> 0 .. MaxAttempts], polls: 0 .. MinPolls,
          deadline: Nat, actDeadline: Nat,
          retired: SUBSET Dags, committed: BOOLEAN,
          stop: StopRequests, veto: VetoRequests]

-----------------------------------------------------------------------------
(* What an entry says. *)

Open(e) == e.outcome = "none"

Pending(e, name) == e.steps[name] = "pending"

StopRequested(e) == e.stop \in {"cancelled", "superseded"}

\* Mutant: a rename and back retires the DAG the deploy has just written.
OldDagsAndSelf(e) == e.retire

\* The retire targets that are not the DAG this deploy wrote itself.
OldDags(e) == e.retire \ {e.dag}

\* Invariant I1 of the reconciler: the lifecycle finished, so the irreversible
\* act is licensed.
ReadyToRetire(e) ==
    /\ e.steps["registered"] = "done"
    /\ \A name \in {"unpause", "trigger"} :
            e.steps[name] \in {"done"} \cup DeliberateSkips

\* What a step ends in when it was decided, rather than done or run out of time.
Decisions == DeliberateSkips \cup {"import_failed", "refused", "inherited", "failed"}

\* An entry is in the phase its steps allow.
Phased(e) ==
    /\ e \in Entry
    /\ e.phase = "awaiting_registration" => e.steps["registered"] # "done"
    /\ e.phase = "retiring" => e.steps["unpause"] = "done" /\ ~Pending(e, "trigger")

\* Mutant: retire in the place quiesce has taken, before the trigger.
NextPhaseRetireEarly(e) ==
    IF e.retire # {} /\ Pending(e, "quiesce") THEN "quiescing"
    ELSE IF e.steps["unpause"] # "done" THEN "unpausing"
    ELSE IF e.retire # {} /\ Pending(e, "retire") THEN "retiring"
    ELSE IF Pending(e, "trigger") THEN "triggering"
    ELSE "terminal"

\* Commit-last: quiesce comes first, retire comes last.
NextPhase(e) ==
    IF e.retire # {} /\ Pending(e, "quiesce") THEN "quiescing"
    ELSE IF e.steps["unpause"] # "done" THEN "unpausing"
    ELSE IF Pending(e, "trigger") THEN "triggering"
    ELSE IF e.retire # {} /\ Pending(e, "retire") THEN "retiring"
    ELSE "terminal"

-----------------------------------------------------------------------------
(* What is done to an entry. *)

NewSteps == [name \in StepNames |-> "pending"]

NewEntry(dag, flow, run, retire, purge) ==
    [dag |-> dag, flow |-> flow, run |-> run, retire |-> retire, purge |-> purge,
     phase |-> "awaiting_registration", outcome |-> "none",
     steps |-> NewSteps, tries |-> [name \in StepNames |-> 0], polls |-> 0,
     deadline |-> 0, actDeadline |-> 0, retired |-> {}, committed |-> FALSE,
     stop |-> "absent", veto |-> "absent"]

\* Every step of names that is still pending becomes a skip; the attempts of a
\* step that is no longer pending are never read again and are dropped.
Skipped(e, names, reason) ==
    [e EXCEPT !.steps = [name \in StepNames |->
                            IF name \in names /\ e.steps[name] = "pending"
                            THEN reason ELSE e.steps[name]],
              !.tries = [name \in StepNames |->
                            IF name \in names /\ e.steps[name] = "pending"
                            THEN 0 ELSE e.tries[name]]]

\* A step leaves "pending" for good.
Settled(e, name, state) ==
    [e EXCEPT !.steps[name] = state, !.tries[name] = 0]

Finished(e, outcome) == [e EXCEPT !.outcome = outcome, !.phase = "terminal"]

AbandonOutcomes == {"superseded", "expired", "denied", "cancelled"}

\* Invariant I2 as _terminate implements it: what committed never reads as
\* "nothing further was done".
Terminated(e, outcome) ==
    Finished(e, IF outcome \in AbandonOutcomes /\ e.committed
                THEN "needs_repair" ELSE outcome)

\* One more attempt of a step; the count saturates where nothing compares it.
BackedOff(e, name) ==
    [e EXCEPT !.tries[name] = IF @ < MaxAttempts THEN @ + 1 ELSE @]

StepFailed(e, name) == Finished(Settled(e, name, "failed"), "failed")

ExpiredRegistration(e) ==
    Finished(IF e.retire # {} THEN Skipped(e, {"retire"}, "never_registered") ELSE e,
             "expired")

ImportFailed(e) ==
    Finished([Settled(e, "registered", "failed") EXCEPT
                 !.steps["retire"] = IF e.retire # {} THEN "import_failed" ELSE @],
             "import_failed")

\* The grace extends deadline_at only.
Registered(e, at, grace) ==
    LET f == [Settled(e, "registered", "done") EXCEPT
                 !.deadline = IF @ < at + grace THEN at + grace ELSE @]
    IN  [f EXCEPT !.phase = NextPhase(f)]

QuiesceSettled(e, state) ==
    LET f == Settled(e, "quiesce", state)
    IN  [f EXCEPT !.phase = NextPhase(f)]

Unpaused(e) == [Settled(e, "unpause", "done") EXCEPT !.phase = "triggering"]

\* Mutant: the lifecycle ends with its trigger, whatever is still owed.
TriggeredIsTheEnd(e) == Terminated(Settled(e, "trigger", "done"), "completed")

Triggered(e) ==
    LET f == Settled(e, "trigger", "done")
        g == [f EXCEPT !.phase = NextPhase(f)]
    IN  IF g.phase = "terminal" THEN Terminated(g, "completed") ELSE g

\* The retire queue has been worked off: one success makes the step done.
RetireSettled(e) ==
    Terminated(Settled(e, "retire", IF e.retired \cap OldDags(e) # {} THEN "done" ELSE "refused"),
               "completed")

\* apply_unpause_veto
UnpauseVetoed(e) == Skipped(e, {"unpause", "trigger"}, "vetoed")

\* The first thing advance does to an entry whose user asked for a pause.
VetoHonoured(e) ==
    IF e.veto = "requested" THEN [UnpauseVetoed(e) EXCEPT !.veto = "consumed"] ELSE e

StopHonoured(e) == Terminated([e EXCEPT !.stop = "consumed"], e.stop)

\* Mutant: the holder's copy wins.
MergedNothing(held, stored) == held

\* What a holder writes back: its own copy, plus the requests recorded on the
\* stored copy that it never saw.
Merged(held, stored) ==
    [held EXCEPT
        !.stop = IF held.stop = "absent" /\ StopRequested(stored) THEN stored.stop ELSE @,
        !.veto = IF held.veto = "absent" /\ stored.veto = "requested" THEN "requested" ELSE @]

\* Mutants: every skip is put back to work; every step is.
ReopenedSkips(e, deadline) ==
    [e EXCEPT !.steps = [name \in StepNames |->
                            IF e.steps[name] \in {"pending", "done"}
                            THEN e.steps[name] ELSE "pending"],
              !.outcome = "none", !.polls = 0, !.deadline = deadline,
              !.actDeadline = deadline, !.phase = "awaiting_registration"]

ReopenedAfresh(e, deadline) ==
    [e EXCEPT !.steps = NewSteps, !.outcome = "none", !.polls = 0, !.deadline = deadline,
              !.actDeadline = deadline, !.phase = "awaiting_registration"]

\* reopen_expired: only what the clock skipped is put back.
Reopened(e, deadline) ==
    LET owed(name) == name \in {"retire", "unpause", "trigger"} /\ e.steps[name] \in BudgetSkips
        f == [e EXCEPT !.steps = [name \in StepNames |->
                                    IF owed(name) THEN "pending" ELSE e.steps[name]],
                       !.outcome = "none", !.polls = 0,
                       !.deadline = deadline, !.actDeadline = deadline]
    IN  [f EXCEPT !.phase = IF f.steps["registered"] # "done"
                            THEN "awaiting_registration" ELSE NextPhase(f)]

\* Terminal entries that still owe a retire, as orphaned_retires recognises them.
OwesRetire(e) == e.retire # {} /\ e.steps["retire"] \in BudgetSkips
=============================================================================
