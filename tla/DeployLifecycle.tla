--------------------------- MODULE DeployLifecycle ---------------------------
(***************************************************************************)
(* A deploy's lifecycle after its file is written: request handlers that   *)
(* journal, stop, veto and re-arm it, the reconciler that finishes it, a   *)
(* crash and a restart of the server at any point, and the dags folder and *)
(* the Airflow they all act on.                                            *)
(*                                                                         *)
(* Threads: the sweep runs alone on a pool of one worker; each request     *)
(* handler runs on another executor.  A step of this module is one journal *)
(* operation, one call to Airflow or to the dags folder, or the decision   *)
(* between two of them; a journal operation is atomic here.                *)
(***************************************************************************)
EXTENDS DeployEntry, FiniteSets

CONSTANTS
    Deploys,       \* deploy_ids (correlation ids of the deployed files)
    NoDeploy, NoEntry, NoFile,
    HandWritten,   \* a file without the Studio header
    Earlier,       \* the writer of a Studio file nobody journals any more
    Requests,      \* what editors may ask to deploy
    UserDags,      \* the DAGs people pause, unpause and undeploy
    InitFile, InitRows,
    Budget,        \* deploy_budget_s(), in ticks
    Grace,         \* POST_REGISTRATION_GRACE_S, in ticks
    MaxTime,       \* bound of the model: the clock
    MaxFaults,     \* bound: crashes of the server and journal writes that fail
    MaxInterventions  \* bound: cancels, resumes, pauses, unpauses and undeploys

Request == [flow: Flows \cup {NoFlow}, dag: Dags, run: BOOLEAN,
            retire: SUBSET Dags, purge: SUBSET Dags]

StudioFile == [by: Deploys \cup {Earlier}, flow: Flows \cup {NoFlow}]

FileStates == StudioFile \cup {NoFile, HandWritten}

RowStates == {"none", "paused", "live"}

ASSUME LifecycleAssumption ==
    /\ NoDeploy \notin Deploys
    /\ NoEntry \notin Entry
    /\ {NoFile, HandWritten} \cap StudioFile = {}
    /\ Requests \subseteq Request
    /\ UserDags \subseteq Dags
    /\ InitFile \in [Dags -> FileStates]
    /\ InitRows \subseteq [Dags -> RowStates]
    /\ Budget \in Nat /\ Grace \in Nat
    /\ MaxTime \in Nat /\ MaxFaults \in Nat /\ MaxInterventions \in Nat

VARIABLES
    now,        \* the wall clock
    role,       \* studio_role(), fixed for the life of a server process
    faults, interventions,
    file,       \* the dags folder: whose file {dag_id}.py is
    unparsed,   \* files the dag-processor has not seen in their present form
    importErr,  \* dag_ids whose file has an import error recorded in Airflow
    row,        \* the DAG as Airflow's API knows it
    runs,       \* deploys whose run (deploy_run_id) exists in Airflow
    pausing,    \* pause requests between their veto and their PATCH
    stage,      \* how far each deploy request has come
    orphans,    \* the stranded entries a deploy request is about to take over
    loc,        \* the journal directory an entry is in
    copy,       \* the entry in that directory, or the request's draft of it
    at,         \* where the sweep is
    clock,      \* the sweep's own reading of the time
    due,        \* the entries this sweep has still to claim
    hd, hc,     \* the entry the sweep holds: its id and its copy in memory
    todo,       \* the dag_ids the step in progress has still to handle
    woken,      \* history: the DAGs woken since a deploy last paused them
    removed     \* history: what the reconciler destroyed on a deploy's behalf

world   == <<file, unparsed, importErr, row, runs, woken>>
journal == <<loc, copy>>
request == <<pausing, stage, orphans>>
sweep   == <<at, clock, due, hd, hc, todo>>
server  == <<role, faults, interventions>>
vars    == <<now, server, world, journal, request, sweep, removed>>

TypeOK ==
    /\ now \in Nat /\ faults \in Nat /\ interventions \in Nat /\ clock \in Nat
    /\ role \in {"editor", "viewer"}
    /\ file \in [Dags -> FileStates] /\ row \in [Dags -> RowStates]
    /\ unparsed \subseteq Dags /\ importErr \subseteq Dags /\ pausing \subseteq Dags
    /\ runs \subseteq Deploys /\ due \subseteq Deploys /\ todo \subseteq Dags
    /\ stage \in [Deploys -> {"new", "written", "scanned", "settled"}]
    /\ orphans \in [Deploys -> SUBSET Deploys]
    /\ loc \in [Deploys -> {"none", "pending", "inflight", "done"}]
    /\ copy \in [Deploys -> Entry \cup {NoEntry}]
    /\ at \in {"idle", "sweep", "claimed", "quiesce", "unpause", "trigger", "retire", "write"}
    /\ hd \in Deploys \cup {NoDeploy}
    /\ hc \in Entry \cup {NoEntry}
    /\ removed \in [Deploys -> SUBSET Dags]
    /\ woken \in [Deploys -> SUBSET Dags]

Init ==
    /\ now = 0 /\ faults = 0 /\ interventions = 0 /\ role = "editor"
    /\ file = InitFile
    /\ row \in InitRows
    /\ unparsed = {} /\ importErr = {} /\ runs = {} /\ pausing = {}
    /\ stage = [d \in Deploys |-> "new"]
    /\ orphans = [d \in Deploys |-> {}]
    /\ loc = [d \in Deploys |-> "none"]
    /\ copy = [d \in Deploys |-> NoEntry]
    /\ at = "idle" /\ clock = 0 /\ due = {} /\ hd = NoDeploy /\ hc = NoEntry /\ todo = {}
    /\ removed = [d \in Deploys |-> {}]
    /\ woken = [d \in Deploys |-> {}]

-----------------------------------------------------------------------------
(* The dags folder and Airflow, and what goes wrong. *)

Fault == faults < MaxFaults /\ faults' = faults + 1

\* A user with edit rights acts on a deploy or a DAG.
Intervention ==
    /\ role = "editor"
    /\ interventions < MaxInterventions /\ interventions' = interventions + 1

Managed(g) == file[g] \notin {NoFile, HandWritten}

\* A file this flow may neither overwrite nor delete.
Foreign(g, flow) ==
    \/ file[g] = HandWritten
    \/ Managed(g) /\ file[g].flow # NoFlow /\ file[g].flow # flow

\* One reading of _supersession; an unreadable target is "unknown".
Verdicts(d, e) ==
    {"unknown", IF Managed(e.dag) /\ file[e.dag].by = d THEN "live" ELSE "superseded"}

PausedRow(g) == [row EXCEPT ![g] = IF @ = "none" THEN @ ELSE "paused"]

\* g is unpaused, by whoever asked for it.
Wakes(g) ==
    /\ row' = [row EXCEPT ![g] = "live"]
    /\ woken' = [d \in Deploys |-> IF row[g] = "live" THEN woken[d] ELSE woken[d] \cup {g}]

RunsOf(g) == {d \in runs : copy[d].dag = g}

\* The dag-processor reaches a file that changed: it imports, or it does not,
\* or it is gone.  A new DAG is created paused.
Parse(g) ==
    /\ g \in unparsed
    /\ unparsed' = unparsed \ {g}
    /\ \/ /\ file[g] # NoFile
          /\ row' = [row EXCEPT ![g] = IF @ = "none" THEN "paused" ELSE @]
          /\ importErr' = importErr \ {g}
       \/ /\ file[g] # NoFile
          /\ importErr' = importErr \cup {g}
          /\ UNCHANGED row
       \/ /\ file[g] = NoFile
          /\ importErr' = importErr \ {g}
          /\ UNCHANGED row
    /\ UNCHANGED <<now, server, file, runs, woken, journal, request, sweep, removed>>

\* Time is only ever compared with the deadlines of entries: it starts with the first of them.
Tick ==
    /\ now < MaxTime
    /\ \E d \in Deploys : loc[d] # "none"
    /\ now' = now + 1
    /\ UNCHANGED <<server, world, journal, request, sweep, removed>>

-----------------------------------------------------------------------------
(* Request handlers.  Each is behind the role gate. *)

OpenFor(flow, dag) ==
    {d \in Deploys : /\ loc[d] \in {"pending", "inflight"}
                     /\ IF flow # NoFlow THEN copy[d].flow = flow ELSE copy[d].dag = dag}

\* request_stop, on an open entry: an idle one is finished on the spot, a held
\* one has the request recorded on its stored copy.
Stopped(d, outcome) ==
    IF loc[d] = "pending" THEN Finished(copy[d], outcome) ELSE [copy[d] EXCEPT !.stop = outcome]

StoppedLoc(d) == IF loc[d] = "pending" THEN "done" ELSE loc[d]

\* deploy_dag up to the write: the collision gate, then the file.
DeployWrite(d) ==
    /\ role = "editor" /\ stage[d] = "new"
    /\ now + Budget < MaxTime
    /\ \E r \in Requests :
        /\ ~Foreign(r.dag, r.flow)
        /\ file' = [file EXCEPT ![r.dag] = [by |-> d, flow |-> r.flow]]
        /\ unparsed' = unparsed \cup {r.dag}
        /\ copy' = [copy EXCEPT ![d] = NewEntry(r.dag, r.flow, r.run, r.retire, r.purge)]
    /\ stage' = [stage EXCEPT ![d] = "written"]
    /\ UNCHANGED <<now, server, importErr, row, runs, woken, loc, pausing, orphans, sweep,
                   removed>>

\* _journal_deploy, first half: stop the flow's other lifecycles and collect the
\* retire intents they, and its expired ones, leave behind.  The queue is a set:
\* heirs that disagree about purging one DAG purge it, and the 24 h after which an
\* expired entry is no longer looked at do not pass.
Supersede(d) ==
    LET e        == copy[d]
        older    == OpenFor(e.flow, e.dag) \ {d}
        stranded == {o \in Deploys : /\ loc[o] = "done" /\ OwesRetire(copy[o])
                                     /\ IF e.flow # NoFlow THEN copy[o].flow = e.flow
                                                           ELSE copy[o].dag = e.dag}
        heirs    == {o \in older : Pending(copy[o], "retire")} \cup stranded
        queue    == e.retire \cup UNION {copy[o].retire : o \in heirs}
        purged   == e.purge \cup (UNION {copy[o].purge : o \in heirs} \ e.retire)
    IN  /\ stage[d] = "written"
        /\ copy' = [o \in Deploys |->
                      IF o = d THEN [e EXCEPT !.retire = queue, !.purge = purged]
                      ELSE IF o \in older THEN Stopped(o, "superseded") ELSE copy[o]]
        /\ loc' = [o \in Deploys |-> IF o \in older THEN StoppedLoc(o) ELSE loc[o]]
        /\ orphans' = [orphans EXCEPT ![d] = stranded]
        /\ stage' = [stage EXCEPT ![d] = "scanned"]
        /\ UNCHANGED <<now, server, world, pausing, sweep, removed>>

\* _journal_deploy, second half: make the entry durable, then consume the
\* intents it took over from expired entries.
Put(d) ==
    /\ stage[d] = "scanned"
    /\ now + Budget < MaxTime
    /\ loc' = [loc EXCEPT ![d] = "pending"]
    /\ copy' = [o \in Deploys |->
                  IF o = d
                  THEN [copy[d] EXCEPT !.deadline = now + Budget, !.actDeadline = now + Budget]
                  ELSE IF o \in orphans[d] /\ loc[o] = "done" /\ OwesRetire(copy[o])
                  THEN [copy[o] EXCEPT !.steps["retire"] = "inherited"]
                  ELSE copy[o]]
    /\ stage' = [stage EXCEPT ![d] = "settled"]
    /\ orphans' = [orphans EXCEPT ![d] = {}]
    /\ UNCHANGED <<now, server, world, pausing, sweep, removed>>

\* The journal could not be written: deploy_dag reports the deploy as not
\* reconciled and the draft is gone.
PutFails(d) ==
    /\ stage[d] = "scanned"
    /\ Fault
    /\ copy' = [copy EXCEPT ![d] = NoEntry]
    /\ stage' = [stage EXCEPT ![d] = "settled"]
    /\ orphans' = [orphans EXCEPT ![d] = {}]
    /\ UNCHANGED <<now, role, interventions, world, loc, pausing, sweep, removed>>

Cancel(d) ==
    /\ Intervention
    /\ loc[d] \in {"pending", "inflight"}
    /\ copy' = [copy EXCEPT ![d] = Stopped(d, "cancelled")]
    /\ loc' = [loc EXCEPT ![d] = StoppedLoc(d)]
    /\ UNCHANGED <<now, role, faults, world, request, sweep, removed>>

\* "Keep waiting": reopen_expired.
Resume(d) ==
    /\ Intervention
    /\ now + Budget < MaxTime
    /\ loc[d] = "done" /\ copy[d].outcome = "expired"
    /\ \A o \in Deploys : loc[o] \in {"pending", "inflight"} =>
            /\ copy[o].dag # copy[d].dag
            /\ copy[d].flow # NoFlow => copy[o].flow # copy[d].flow
    /\ loc' = [loc EXCEPT ![d] = "pending"]
    /\ copy' = [copy EXCEPT ![d] = Reopened(copy[d], now + Budget)]
    /\ UNCHANGED <<now, role, faults, world, request, sweep, removed>>

\* DagPauseHandler, first call: veto_unpause.
PauseVeto(g) ==
    LET hit(d) == loc[d] \in {"pending", "inflight"} /\ copy[d].dag = g
    IN  /\ Intervention
        /\ g \notin pausing /\ row[g] # "none"
        /\ copy' = [d \in Deploys |->
                      IF ~hit(d) THEN copy[d]
                      ELSE IF loc[d] = "inflight"
                      THEN [UnpauseVetoed(copy[d]) EXCEPT !.veto = "requested"]
                      ELSE UnpauseVetoed(copy[d])]
        /\ pausing' = pausing \cup {g}
        /\ UNCHANGED <<now, role, faults, world, loc, stage, orphans, sweep, removed>>

\* DagPauseHandler, second call of a pause: Airflow's PATCH.
PausePatch(g) ==
    /\ g \in pausing
    /\ pausing' = pausing \ {g}
    /\ row' = PausedRow(g)
    /\ UNCHANGED <<now, server, file, unparsed, importErr, runs, woken, journal, stage, orphans,
                   sweep, removed>>

\* DagPauseHandler, is_paused false: the PATCH alone, whatever the journal says.
UserUnpause(g) ==
    /\ Intervention
    /\ row[g] # "none"
    /\ Wakes(g)
    /\ UNCHANGED <<now, role, faults, file, unparsed, importErr, runs, journal, request, sweep,
                   removed>>

\* purge_dag on a user's request.
Undeploy(g) ==
    /\ Intervention
    /\ Managed(g)
    /\ file' = [file EXCEPT ![g] = NoFile]
    /\ unparsed' = unparsed \cup {g}
    /\ row' = [row EXCEPT ![g] = "none"]
    /\ runs' = runs \ RunsOf(g)
    /\ UNCHANGED <<now, role, faults, importErr, woken, journal, request, sweep, removed>>

-----------------------------------------------------------------------------
(* The sweep: start, claim, write back. *)

\* sweep_once up to its loop.  Claims nobody holds are reclaimed once they are old
\* enough, the clock is read once, and the entries out of their back-off are listed.
SweepStart(reclaimed, listed) ==
    /\ at = "idle" /\ role = "editor"
    /\ reclaimed \cup listed # {}
    /\ \A d \in reclaimed : loc[d] = "inflight"
    /\ \A d \in listed : loc[d] = "pending" \/ d \in reclaimed
    /\ loc' = [d \in Deploys |-> IF d \in reclaimed THEN "pending" ELSE loc[d]]
    /\ at' = "sweep" /\ clock' = now /\ due' = listed
    /\ UNCHANGED <<now, server, world, copy, request, hd, hc, todo, removed>>

\* Mutant: a viewer's server leaves what it finds alone.
DenyNothing ==
    /\ at = "idle" /\ role = "viewer"
    /\ UNCHANGED vars

\* _deny_all: a server restarted as viewer finalizes what it finds.
DenyAll ==
    /\ at = "idle" /\ role = "viewer"
    /\ \E d \in Deploys : loc[d] = "pending"
    /\ copy' = [d \in Deploys |->
                  IF loc[d] = "pending" THEN Finished(copy[d], "denied") ELSE copy[d]]
    /\ loc' = [d \in Deploys |-> IF loc[d] = "pending" THEN "done" ELSE loc[d]]
    /\ UNCHANGED <<now, server, world, request, sweep, removed>>

SweepEnd ==
    /\ at = "sweep" /\ due = {}
    /\ at' = "idle" /\ clock' = 0
    /\ UNCHANGED <<now, server, world, journal, request, due, hd, hc, todo, removed>>

Claim(d) ==
    /\ at = "sweep" /\ d \in due
    /\ due' = due \ {d}
    /\ IF loc[d] = "pending"
       THEN /\ loc' = [loc EXCEPT ![d] = "inflight"]
            /\ at' = "claimed" /\ hd' = d /\ hc' = copy[d]
       ELSE UNCHANGED <<loc, at, hd, hc>>
    /\ UNCHANGED <<now, server, world, copy, request, clock, todo, removed>>

\* The claim token could not be stamped: the entry stays behind in inflight.
ClaimFails(d) ==
    /\ at = "sweep" /\ d \in due /\ loc[d] = "pending"
    /\ Fault
    /\ due' = due \ {d}
    /\ loc' = [loc EXCEPT ![d] = "inflight"]
    /\ UNCHANGED <<now, role, interventions, world, copy, request, at, clock, hd, hc, todo, removed>>

\* release or finish.
WriteBack ==
    /\ at = "write" /\ loc[hd] = "inflight"
    /\ copy' = [copy EXCEPT ![hd] = Merged(hc, @)]
    /\ loc' = [loc EXCEPT ![hd] = IF Open(hc) THEN "pending" ELSE "done"]
    /\ at' = "sweep" /\ hd' = NoDeploy /\ hc' = NoEntry /\ todo' = {}
    /\ UNCHANGED <<now, server, world, request, clock, due, removed>>

\* The write raises: it is outside the per-entry try, so the whole sweep ends and
\* the entry stays in inflight as it was claimed.
WriteBackFails ==
    /\ at = "write"
    /\ Fault
    /\ at' = "idle" /\ clock' = 0 /\ due' = {} /\ hd' = NoDeploy /\ hc' = NoEntry /\ todo' = {}
    /\ UNCHANGED <<now, role, interventions, world, journal, request, removed>>

-----------------------------------------------------------------------------
(* The sweep: advance, on the entry it holds. *)

\* The held entry as its phase handler sees it.
Now == VetoHonoured(hc)

InPhase(phase) == at = "claimed" /\ ~StopRequested(hc) /\ hc.phase = phase

\* The in-memory entry becomes e and is about to be written back.
Yield(e) ==
    /\ hc' = e /\ at' = "write"
    /\ UNCHANGED <<now, server, journal, request, clock, due, hd, todo>>

\* The handler goes on to its calls, one for each member of targets.
Enter(step, targets) ==
    /\ hc' = Now /\ at' = step /\ todo' = targets
    /\ UNCHANGED <<now, server, world, journal, request, clock, due, hd, removed>>

StillWorld == UNCHANGED <<world, removed>>

\* The action budget, against the sweep's reading of the clock.
OutOfTime(e) == clock > e.actDeadline

\* After an error a step is tried again, or given up: because the error is not
\* retryable or because it was the last attempt allowed.
Stumble(e, name) ==
    {StepFailed(e, name)} \cup (IF e.tries[name] < MaxAttempts THEN {BackedOff(e, name)} ELSE {})

StopAdvance ==
    /\ at = "claimed" /\ StopRequested(hc)
    /\ Yield(StopHonoured(hc)) /\ StillWorld

Poll ==
    LET e == Now
        polled == [e EXCEPT !.polls = IF @ < MinPolls THEN @ + 1 ELSE @]
    IN  /\ InPhase("awaiting_registration") /\ StillWorld
        /\ IF clock > e.deadline /\ e.polls >= MinPolls
           THEN Yield(ExpiredRegistration(e))
           ELSE \/ /\ e.dag \in importErr
                   /\ Yield(ImportFailed(polled))
                \/ /\ e.dag \notin importErr /\ row[e.dag] # "none"
                   /\ Yield(Registered(polled, clock, Grace))
                \/ /\ e.dag \notin importErr /\ row[e.dag] = "none"
                   /\ Yield(BackedOff(polled, "registered"))
                \/ \E f \in Stumble(polled, "registered") : Yield(f)

Quiesce ==
    LET e == Now
    IN  /\ InPhase("quiescing")
        /\ IF e.retire = {} \/ ~Pending(e, "quiesce")
           THEN Yield([e EXCEPT !.phase = NextPhase(e)]) /\ StillWorld
           ELSE IF OutOfTime(e)
           THEN Yield(QuiesceSettled(e, "elapsed")) /\ StillWorld
           ELSE IF e.steps["registered"] # "done"
           THEN Yield(QuiesceSettled(e, "unobserved")) /\ StillWorld
           ELSE \E verdict \in Verdicts(hd, e) :
                    \/ verdict = "live" /\ Enter("quiesce", OldDags(e))
                    \/ /\ verdict = "superseded" /\ StillWorld
                       /\ Yield(Finished(e, "superseded"))
                    \/ /\ verdict = "unknown" /\ StillWorld
                       /\ Yield(IF e.tries["quiesce"] < MaxAttempts
                                THEN BackedOff(e, "quiesce") ELSE QuiesceSettled(e, "failed"))

\* set_paused(old, True); a 404 is the state wanted.
QuiesceOne(g) ==
    /\ at = "quiesce" /\ g \in todo
    /\ row' = PausedRow(g)
    /\ woken' = [woken EXCEPT ![hd] = @ \ {g}]
    /\ todo' = todo \ {g}
    /\ UNCHANGED <<now, server, file, unparsed, importErr, runs, journal, request, at, clock,
                   due, hd, hc, removed>>

\* The call fails, or takes effect and its answer is lost.
QuiesceFails(g) ==
    /\ at = "quiesce" /\ g \in todo
    /\ row' \in {row, PausedRow(g)}
    /\ Yield(IF hc.tries["quiesce"] < MaxAttempts
             THEN BackedOff(hc, "quiesce") ELSE QuiesceSettled(hc, "failed"))
    /\ UNCHANGED <<file, unparsed, importErr, runs, woken, removed>>

\* Mutant: whatever could not be paused is passed over.
QuiesceDoneAnyway ==
    /\ at = "quiesce"
    /\ Yield(QuiesceSettled(hc, "done")) /\ StillWorld

QuiesceDone ==
    /\ at = "quiesce" /\ todo = {}
    /\ Yield(QuiesceSettled(hc, "done")) /\ StillWorld

Unpause ==
    LET e == Now
    IN  /\ InPhase("unpausing")
        /\ IF OutOfTime(e)
           THEN /\ Yield(Terminated(Skipped(e, {"unpause", "trigger"}, "elapsed"), "expired"))
                /\ StillWorld
           ELSE IF e.steps["unpause"] \in BudgetSkips \cup {"vetoed"}
           THEN /\ Yield(Finished(Skipped(e, {"trigger"}, e.steps["unpause"]), "completed"))
                /\ StillWorld
           ELSE IF ~Pending(e, "unpause")
           THEN Yield([e EXCEPT !.phase = "triggering"]) /\ StillWorld
           ELSE \E verdict \in Verdicts(hd, e) :
                    \/ verdict = "live" /\ Enter("unpause", {})
                    \/ /\ verdict = "superseded" /\ StillWorld
                       /\ Yield(Finished(e, "superseded"))
                    \/ /\ verdict = "unknown" /\ StillWorld
                       /\ Yield(BackedOff(e, "unpause"))

UnpauseOK ==
    /\ at = "unpause"
    /\ row[hc.dag] # "none"
    /\ Wakes(hc.dag)
    /\ Yield(Unpaused(hc))
    /\ UNCHANGED <<file, unparsed, importErr, runs, removed>>

UnpauseFails ==
    /\ at = "unpause"
    /\ \/ UNCHANGED <<row, woken>>
       \/ row[hc.dag] # "none" /\ Wakes(hc.dag)
    /\ \E f \in Stumble(hc, "unpause") : Yield(f)
    /\ UNCHANGED <<file, unparsed, importErr, runs, removed>>

Trigger ==
    LET e == Now
    IN  /\ InPhase("triggering")
        /\ IF ~Pending(e, "trigger") \/ ~e.run
           THEN Yield(Finished(Skipped(e, {"trigger"}, "run_off"), "completed")) /\ StillWorld
           ELSE IF OutOfTime(e)
           THEN /\ Yield(Terminated(Skipped(e, {"trigger"}, "elapsed"), "expired"))
                /\ StillWorld
           ELSE \E verdict \in Verdicts(hd, e) :
                    \/ verdict = "live" /\ Enter("trigger", {})
                    \/ /\ verdict = "superseded" /\ StillWorld
                       /\ Yield(Finished(e, "superseded"))
                    \/ /\ verdict = "unknown" /\ StillWorld
                       /\ Yield(BackedOff(e, "trigger"))

\* A run with this id may exist already (a 409): it is adopted.
TriggerOK ==
    /\ at = "trigger"
    /\ row[hc.dag] # "none"
    /\ runs' = runs \cup {hd}
    /\ Yield(Triggered(hc))
    /\ UNCHANGED <<file, unparsed, importErr, row, woken, removed>>

TriggerFails ==
    /\ at = "trigger"
    /\ \/ runs' = runs
       \/ row[hc.dag] # "none" /\ runs' = runs \cup {hd}
    /\ \E f \in Stumble(hc, "trigger") : Yield(f)
    /\ UNCHANGED <<file, unparsed, importErr, row, woken, removed>>

Retire ==
    LET e == Now
    IN  /\ InPhase("retiring")
        /\ IF Pending(e, "retire") /\ ~ReadyToRetire(e)
           THEN Yield(Terminated(Settled(e, "retire", "blocked"), "expired")) /\ StillWorld
           ELSE IF e.retire = {} \/ ~Pending(e, "retire")
           THEN Yield([e EXCEPT !.phase = "unpausing"]) /\ StillWorld
           ELSE IF OutOfTime(e)
           THEN /\ Yield(Terminated(Skipped(e, {"retire", "unpause", "trigger"}, "elapsed"),
                                    "expired"))
                /\ StillWorld
           ELSE IF OldDags(e) = {}
           THEN Yield(Terminated(Settled(e, "retire", "refused"), "completed")) /\ StillWorld
           ELSE \E verdict \in Verdicts(hd, e) :
                    \/ verdict = "live" /\ Enter("retire", OldDags(e) \ e.retired)
                    \/ /\ verdict = "superseded" /\ StillWorld
                       /\ Yield(Finished(e, "superseded"))
                    \/ /\ verdict = "unknown" /\ StillWorld
                       /\ Yield(IF e.tries["retire"] < MaxAttempts
                                THEN BackedOff(e, "retire") ELSE StepFailed(e, "retire"))

\* What retire_old_dag(g) does to Airflow: purge the history, or pause.
RetiredRow(g) == IF g \in hc.purge THEN [row EXCEPT ![g] = "none"] ELSE PausedRow(g)
RetiredRuns(g) == IF g \in hc.purge THEN runs \ RunsOf(g) ELSE runs

\* Does the call that finds the world as it is destroy anything?
Destroys(g) == Managed(g) \/ (g \in hc.purge /\ row[g] # "none")

RemoveFile(g) ==
    /\ file' = [file EXCEPT ![g] = NoFile]
    /\ unparsed' = IF Managed(g) THEN unparsed \cup {g} ELSE unparsed

Removes(g) == removed' = [removed EXCEPT ![hd] = IF Destroys(g) THEN @ \cup {g} ELSE @]

RetireOne(g) ==
    /\ at = "retire" /\ g \in todo /\ ~Foreign(g, hc.flow)
    /\ RemoveFile(g)
    /\ row' = RetiredRow(g) /\ runs' = RetiredRuns(g)
    /\ Removes(g)
    /\ hc' = [hc EXCEPT !.retired = @ \cup {g}, !.committed = @ \/ Destroys(g)]
    /\ todo' = todo \ {g}
    /\ UNCHANGED <<now, server, importErr, woken, journal, request, at, clock, due, hd>>

\* The file names another owner, or could not be read: left alone.
RetireSkips(g) ==
    /\ at = "retire" /\ g \in todo
    /\ todo' = todo \ {g}
    /\ UNCHANGED <<now, server, world, journal, request, at, clock, due, hd, hc, removed>>

\* An error before anything is touched.
RetireFails(g) ==
    /\ at = "retire" /\ g \in todo
    /\ \E f \in Stumble(hc, "retire") : Yield(f)
    /\ StillWorld

\* An error once the file is gone: Airflow refuses, or its answer is lost.  The
\* step keeps no trace of what this call did.
RetireBreaks(g) ==
    /\ at = "retire" /\ g \in todo /\ ~Foreign(g, hc.flow)
    /\ RemoveFile(g)
    /\ \/ UNCHANGED <<row, runs>>
          /\ removed' = [removed EXCEPT ![hd] = IF Managed(g) THEN @ \cup {g} ELSE @]
       \/ /\ row' = RetiredRow(g) /\ runs' = RetiredRuns(g)
          /\ Removes(g)
    /\ \E f \in Stumble(hc, "retire") : Yield(f)
    /\ UNCHANGED <<importErr, woken>>

RetireDone ==
    /\ at = "retire" /\ todo = {}
    /\ Yield(RetireSettled(hc)) /\ StillWorld

\* A re-armed entry with nothing left to do.
Conclude ==
    /\ InPhase("terminal")
    /\ Yield(Terminated(Now, "completed")) /\ StillWorld

-----------------------------------------------------------------------------
(* Restart. *)

\* The server dies at any moment and comes back: resume, then _finalize_expired,
\* which takes every entry past its deadline for one that never registered.
Restart ==
    LET resumed(d) == loc[d] \in {"pending", "inflight"}
        late(d)    == resumed(d) /\ now > copy[d].deadline
    IN  /\ Fault
        /\ role' \in {"editor", "viewer"}
        /\ loc' = [d \in Deploys |->
                     IF late(d) THEN "done" ELSE IF resumed(d) THEN "pending" ELSE loc[d]]
        /\ copy' = [d \in Deploys |->
                      IF loc[d] = "none" THEN NoEntry
                      ELSE IF late(d) THEN ExpiredRegistration(copy[d]) ELSE copy[d]]
        /\ stage' = [d \in Deploys |-> IF stage[d] = "new" THEN "new" ELSE "settled"]
        /\ orphans' = [d \in Deploys |-> {}]
        /\ pausing' = {}
        /\ at' = "idle" /\ clock' = 0 /\ due' = {} /\ hd' = NoDeploy /\ hc' = NoEntry /\ todo' = {}
        /\ UNCHANGED <<now, interventions, world, removed>>

-----------------------------------------------------------------------------
Handlers ==
    \/ \E d \in Deploys : \/ DeployWrite(d) \/ Supersede(d) \/ Put(d) \/ PutFails(d)
                          \/ Cancel(d) \/ Resume(d)
    \/ \E g \in UserDags : PauseVeto(g) \/ PausePatch(g) \/ UserUnpause(g) \/ Undeploy(g)

Advance ==
    \/ StopAdvance \/ Poll \/ Quiesce \/ QuiesceDone \/ Unpause \/ UnpauseOK \/ UnpauseFails
    \/ Trigger \/ TriggerOK \/ TriggerFails \/ Retire \/ RetireDone \/ Conclude
    \/ \E g \in Dags : \/ QuiesceOne(g) \/ QuiesceFails(g)
                       \/ RetireOne(g) \/ RetireSkips(g) \/ RetireFails(g) \/ RetireBreaks(g)

Sweep ==
    \/ \E reclaimed, listed \in SUBSET Deploys : SweepStart(reclaimed, listed)
    \/ \E d \in Deploys : Claim(d) \/ ClaimFails(d)
    \/ DenyAll \/ SweepEnd \/ WriteBack \/ WriteBackFails \/ Advance

Next == Handlers \/ Sweep \/ Restart \/ Tick \/ \E g \in Dags : Parse(g)

Spec == Init /\ [][Next]_vars

\* What the sweep's thread, or a viewer's server, does next unless a fault intervenes.
Proceed == Advance \/ WriteBack \/ SweepEnd \/ DenyAll \/ \E d \in Deploys : Claim(d)

\* A sweep in progress runs on and time passes.  Nothing is assumed of when a sweep
\* starts and what it lists: SweepScheduler says when the timer calls one.
Fairness == WF_vars(Tick) /\ WF_vars(Proceed)

FairSpec == Spec /\ Fairness

-----------------------------------------------------------------------------
(* Safety. *)

\* Commit-last (invariant I1 of the reconciler): whatever was destroyed on a
\* deploy's behalf was destroyed after its new DAG had been registered, unpaused
\* and triggered, or a person had decided against one of those; through every
\* retry, crash, veto and re-arming.
CommitLast == \A d \in Deploys : removed[d] # {} => ReadyToRetire(copy[d])

\* A stop or a pause veto recorded on an entry is still there after the holder's
\* write, a crash, a reclaim or a re-arming, until it has been honoured (_move_out
\* merges requests forward).
RequestsSurvive ==
    [][\A d \in Deploys : loc[d] # "none" =>
          /\ StopRequested(copy[d]) => StopRequested(copy[d]') \/ ~Open(copy[d]')
          /\ copy[d].veto = "requested" =>
                \/ copy[d]'.veto = "requested"
                \/ ~Pending(copy[d]', "unpause") /\ ~Pending(copy[d]', "trigger")]_vars

\* The last word on an entry: the sweep's copy while one holds it.
Latest(d) == IF hd = d THEN hc ELSE copy[d]

\* A step that was decided, rather than run out of time, is never put back to
\* work: not by "Keep waiting", not by any later step of a sweep or by its write
\* back, which may only say that the import failed instead.  A crash, or a failing
\* write, loses what memory alone held, and nothing that had been written.
DecisionsAreFinal ==
    [][\A d \in Deploys, name \in StepNames : loc[d] # "none" =>
          /\ (hd # d \/ at' # "idle") /\ Latest(d).steps[name] \in Decisions =>
                Latest(d)'.steps[name] \in {Latest(d).steps[name], "import_failed"}
          /\ at' = "idle" /\ copy[d].steps[name] \in Decisions =>
                copy[d]'.steps[name] \in {copy[d].steps[name], "import_failed"}]_vars

\* A rename that quiesced never runs beside what it replaces: when the reconciler
\* unpauses the new DAG, no old DAG is live unless a person, or another deploy's
\* lifecycle, has unpaused it since.
QuiescedBeforeLive ==
    [][\A g \in Dags : at = "unpause" /\ row[g] # "live" /\ row'[g] = "live" =>
          (hc.steps["quiesce"] = "done" =>
                \A o \in OldDags(hc) : row[o] # "live" \/ o \in woken[hd])]_vars

\* Unless somebody intervenes, a flow that has a DAG in the folder keeps one,
\* whatever renames are chained and wherever the server crashes.  (A file without
\* provenance is no flow's: the gate lets any flow overwrite it.)
FlowKeepsADag ==
    interventions = 0 =>
        \A g \in Dags : InitFile[g] \in StudioFile /\ InitFile[g].flow # NoFlow =>
            \E h \in Dags : Managed(h) /\ file[h].flow = InitFile[g].flow

\* "completed" is earned: the new DAG was registered, and unpaused and triggered or
\* left as a person decided; and where both were done the old DAG was dealt with too.
CompletedIsEarned ==
    \A d \in Deploys : loc[d] = "done" /\ copy[d].outcome = "completed" =>
        /\ ReadyToRetire(copy[d])
        /\ Pending(copy[d], "retire") /\ OldDags(copy[d]) # {} =>
              \E name \in {"unpause", "trigger"} : copy[d].steps[name] # "done"

-----------------------------------------------------------------------------
(* Why commit-last holds: the inductive invariant. *)

\* An entry is journaled only by its own request, and destroys nothing before.
JournalOK ==
    \A d \in Deploys :
        /\ loc[d] # "none" \/ stage[d] \in {"written", "scanned"} => Phased(copy[d])
        /\ stage[d] # "settled" => loc[d] = "none"
        /\ loc[d] = "none" => removed[d] = {}

Holding == at \in {"claimed", "quiesce", "unpause", "trigger", "retire", "write"}

\* What the sweep holds is claimed; it may retire only what the stored copy may too,
\* whatever was recorded there since, so that a crash finds the licence on disk.
HeldOK ==
    /\ Holding => hd \in Deploys /\ loc[hd] = "inflight" /\ Phased(hc)
    /\ Holding => (removed[hd] # {} => ReadyToRetire(hc))
    /\ at = "claimed" => (ReadyToRetire(hc) => ReadyToRetire(copy[hd]))
    /\ at \in {"unpause", "trigger"} => Pending(hc, at)
    /\ at = "retire" => ReadyToRetire(hc) /\ ReadyToRetire(copy[hd])

\* The inductive invariant behind CommitLast: the journal, and the copy in memory,
\* agree at every moment on what has been licensed (_do_retire, _move_out).
IndInv == TypeOK /\ JournalOK /\ HeldOK /\ CommitLast

-----------------------------------------------------------------------------
(* Liveness. *)

\* A claim nobody holds any more: its token or its result could not be written.
Stranded(d) == loc[d] = "inflight" /\ hd # d

\* An editor's server has the entry and no sweep picks it up any more.
Forgotten(d) == role = "editor" /\ loc[d] = "pending" /\ d \notin due

\* Every journaled deploy is closed, whatever Airflow, the dags folder and the users
\* do: the retries and the budget leave no entry open for ever, short of a claim
\* that a failing disk stranded and of an entry the timer has forgotten for good.
EventuallyClosed ==
    \A d \in Deploys :
        \/ []<>(loc[d] \in {"none", "done"} \/ Stranded(d))
        \/ <>[]Forgotten(d)

-----------------------------------------------------------------------------
(* What the repository says, and the code does not do. *)

\* A retire that a deploy was asked for is not forgotten when its lifecycle ends as
\* completed or superseded: where it is still pending a later deploy has it in its queue,
\* or is about to look for it.
NoRetireIsForgotten ==
    \A d \in Deploys : loc[d] = "done" => \A g \in OldDags(copy[d]) :
        /\ copy[d].outcome \in {"completed", "superseded"}
        /\ Pending(copy[d], "retire")
        => \E o \in Deploys \ {d} :
              \/ stage[o] = "written"
              \/ (stage[o] = "scanned" \/ loc[o] # "none") /\ g \in copy[o].retire

\* A broken new DAG never costs the working old one: nothing is destroyed while
\* the new file is unread, or has an import error.
BrokenNewSparesOld ==
    [][\A d \in Deploys : removed'[d] # removed[d] /\ file[hc.dag] = [by |-> d, flow |-> hc.flow] =>
          hc.dag \notin unparsed \cup importErr]_vars
=============================================================================
