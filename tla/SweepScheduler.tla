---------------------------- MODULE SweepScheduler ----------------------------
(***************************************************************************)
(* DeployReconciler: when the reconciler sweeps at all.  A request handler *)
(* journals a deploy on its own thread and wakes the IOLoop; the loop owns *)
(* the timer and starts a sweep on a pool of one thread; the sweep reports *)
(* how many entries it leaves pending, and the loop stops the timer at 0.  *)
(*                                                                         *)
(* The loop's callbacks are a queue.  A sweep's result takes two turns of  *)
(* the loop to reach the coroutine that awaits it: "resolve" settles the   *)
(* future, "continue" runs the rest of _tick.  What a sweep does to an     *)
(* entry is DeployLifecycle; here an entry is only waiting or not.         *)
(***************************************************************************)
EXTENDS Naturals, Sequences

CONSTANTS
    Entries,       \* deploy_ids
    MaxFaults      \* bound of the model: crashes and failing journal writes

ASSUME SchedulerAssumption ==
    /\ MaxFaults \in Nat
    /\ Entries \cap {"tick", "resolve", "continue"} = {}

VARIABLES
    entry,      \* where each entry is; "stranded": in inflight, held by nobody
    waking,     \* journaled, and the handler has not called wake() yet
    queue,      \* the IOLoop's callbacks; an entry stands for the _on_wake it asked for
    timer,      \* self._timer is not None
    inFlight,   \* self._in_flight
    thread,     \* the pool's one thread
    due,        \* the entries this sweep has still to claim
    report,     \* what the last sweep told the loop
    late,       \* history: entries whose wake came after the sweep had counted
    faults

loop   == <<queue, timer, inFlight>>
worker == <<thread, due, report>>
vars   == <<entry, waking, loop, worker, late, faults>>

States == {"absent", "pending", "held", "stranded", "stale", "done"}

TypeOK ==
    /\ entry \in [Entries -> States]
    /\ waking \subseteq Entries /\ due \subseteq Entries /\ late \subseteq Entries
    /\ queue \in Seq(Entries \cup {"tick", "resolve", "continue"})
    /\ timer \in BOOLEAN /\ inFlight \in BOOLEAN
    /\ thread \in {"idle", "start", "run"}
    /\ report \in {"none", "some", "raised"}
    /\ faults \in Nat

Init ==
    /\ entry = [e \in Entries |-> "absent"]
    /\ waking = {} /\ queue = <<>> /\ timer = FALSE /\ inFlight = FALSE
    /\ thread = "idle" /\ due = {} /\ report = "none" /\ late = {} /\ faults = 0

PendingNow == {e \in Entries : entry[e] = "pending"}

Fault == faults < MaxFaults /\ faults' = faults + 1

-----------------------------------------------------------------------------
(* Request threads. *)

\* journal.put, in deploy_dag.
Journal(e) ==
    /\ entry[e] = "absent"
    /\ entry' = [entry EXCEPT ![e] = "pending"]
    /\ waking' = waking \cup {e}
    /\ UNCHANGED <<loop, worker, late, faults>>

\* Mutant: wake() calls back something other than _on_wake.
WakeSomethingElse(e) ==
    /\ e \in waking
    /\ waking' = waking \ {e}
    /\ queue' = Append(queue, "wake")
    /\ UNCHANGED <<entry, timer, inFlight, worker, late, faults>>

Wake(e) ==
    /\ e \in waking
    /\ waking' = waking \ {e}
    /\ queue' = Append(queue, e)
    /\ UNCHANGED <<entry, timer, inFlight, worker, late, faults>>

\* A cancel, or a newer deploy of the flow, finishes an idle entry on the spot.
Stop(e) ==
    /\ entry[e] = "pending"
    /\ entry' = [entry EXCEPT ![e] = "done"]
    /\ UNCHANGED <<waking, loop, worker, late, faults>>

-----------------------------------------------------------------------------
(* The IOLoop. *)

\* Mutant: the timer is left to the first tick.
OnWakeTicks ==
    /\ queue # <<>> /\ Head(queue) \in Entries
    /\ queue' = Tail(queue) \o (IF inFlight THEN <<>> ELSE <<"tick">>)
    /\ UNCHANGED <<entry, waking, timer, inFlight, worker, late, faults>>

OnWake ==
    /\ queue # <<>> /\ Head(queue) \in Entries
    /\ timer' = TRUE
    /\ queue' = Tail(queue) \o (IF inFlight THEN <<>> ELSE <<"tick">>)
    /\ late' = IF inFlight /\ thread = "idle" THEN late \cup {Head(queue)} ELSE late
    /\ UNCHANGED <<entry, waking, inFlight, worker, faults>>

\* Mutant: _in_flight is not looked at.
BeginAgain ==
    /\ inFlight' = TRUE
    /\ thread' = "start"

\* _tick up to its await.
Begin ==
    /\ inFlight' = TRUE
    /\ thread' = IF inFlight THEN thread ELSE "start"

Tick ==
    /\ queue # <<>> /\ Head(queue) = "tick"
    /\ queue' = Tail(queue)
    /\ Begin
    /\ UNCHANGED <<entry, waking, timer, due, report, late, faults>>

\* A timer that fires during a sweep finds _in_flight set and does nothing.
TimerFires ==
    /\ timer /\ ~inFlight
    /\ Begin
    /\ UNCHANGED <<entry, waking, queue, timer, due, report, late, faults>>

Resolve ==
    /\ queue # <<>> /\ Head(queue) = "resolve"
    /\ queue' = Append(Tail(queue), "continue")
    /\ UNCHANGED <<entry, waking, timer, inFlight, worker, late, faults>>

\* Mutants: the timer is never stopped; a sweep that raised stops it too.
ContinueAwake ==
    /\ queue # <<>> /\ Head(queue) = "continue"
    /\ queue' = Tail(queue)
    /\ inFlight' = FALSE
    /\ UNCHANGED <<entry, waking, timer, worker, late, faults>>

ContinueAsleep ==
    /\ queue # <<>> /\ Head(queue) = "continue"
    /\ queue' = Tail(queue)
    /\ inFlight' = FALSE
    /\ timer' = (timer /\ report = "some")
    /\ UNCHANGED <<entry, waking, worker, late, faults>>

\* _tick after its await.
Continue ==
    /\ queue # <<>> /\ Head(queue) = "continue"
    /\ queue' = Tail(queue)
    /\ inFlight' = FALSE
    /\ timer' = (timer /\ report # "none")
    /\ UNCHANGED <<entry, waking, worker, late, faults>>

-----------------------------------------------------------------------------
(* The sweep's thread. *)

\* sweep_once up to its loop: claims left behind long ago are reclaimed, and the
\* entries whose back-off has elapsed are listed.
SweepBegin(S) ==
    /\ thread = "start"
    /\ entry' = [e \in Entries |-> IF entry[e] = "stale" THEN "pending" ELSE entry[e]]
    /\ S \subseteq {e \in Entries : entry'[e] = "pending"}
    /\ thread' = "run" /\ due' = S
    /\ UNCHANGED <<waking, loop, report, late, faults>>

\* An entry that was finished in the meantime is passed over.
Claim(e) ==
    /\ thread = "run" /\ e \in due /\ \A o \in Entries : entry[o] # "held"
    /\ due' = due \ {e}
    /\ entry' = [entry EXCEPT ![e] = IF @ = "pending" THEN "held" ELSE @]
    /\ UNCHANGED <<waking, loop, thread, report, late, faults>>

\* The claim's token could not be written.
ClaimFails(e) ==
    /\ thread = "run" /\ e \in due /\ entry[e] = "pending"
    /\ \A o \in Entries : entry[o] # "held"
    /\ Fault
    /\ due' = due \ {e}
    /\ entry' = [entry EXCEPT ![e] = "stranded"]
    /\ UNCHANGED <<waking, loop, thread, report, late>>

Release(e) ==
    /\ entry[e] = "held"
    /\ entry' = [entry EXCEPT ![e] = "pending"]
    /\ UNCHANGED <<waking, loop, worker, late, faults>>

Finish(e) ==
    /\ entry[e] = "held"
    /\ entry' = [entry EXCEPT ![e] = "done"]
    /\ UNCHANGED <<waking, loop, worker, late, faults>>

\* The entry cannot be written back: the sweep raises.
WriteFails(e) ==
    /\ entry[e] = "held"
    /\ Fault
    /\ entry' = [entry EXCEPT ![e] = "stranded"]
    /\ thread' = "idle" /\ due' = {} /\ report' = "raised"
    /\ queue' = Append(queue, "resolve")
    /\ UNCHANGED <<waking, timer, inFlight, late>>

\* report.pending, and the thread is done.
Report ==
    /\ thread = "run" /\ due = {} /\ \A e \in Entries : entry[e] # "held"
    /\ thread' = "idle"
    /\ report' = IF PendingNow = {} THEN "none" ELSE "some"
    /\ queue' = Append(queue, "resolve")
    /\ UNCHANGED <<entry, waking, timer, inFlight, due, late, faults>>

\* 600 s later.
Age(e) ==
    /\ entry[e] = "stranded"
    /\ entry' = [entry EXCEPT ![e] = "stale"]
    /\ UNCHANGED <<waking, loop, worker, late, faults>>

-----------------------------------------------------------------------------
\* The server dies and comes back: resume, then the timer and an immediate tick
\* if anything is pending.
Restart ==
    /\ Fault
    /\ entry' = [e \in Entries |-> IF entry[e] \in {"held", "stranded", "stale"}
                                   THEN "pending" ELSE entry[e]]
    /\ timer' = (\E e \in Entries : entry'[e] = "pending")
    /\ queue' = IF timer' THEN <<"tick">> ELSE <<>>
    /\ waking' = {} /\ inFlight' = FALSE /\ late' = {}
    /\ thread' = "idle" /\ due' = {} /\ report' = "none"

Loop == OnWake \/ Tick \/ TimerFires \/ Resolve \/ Continue

Sweeping ==
    \/ \E S \in SUBSET Entries : SweepBegin(S)
    \/ \E e \in Entries : Claim(e) \/ Finish(e) \/ Release(e)
    \/ Report

Next ==
    \/ \E e \in Entries : Journal(e) \/ Wake(e) \/ Stop(e)
    \/ Loop \/ Sweeping
    \/ \E e \in Entries : ClaimFails(e) \/ WriteFails(e) \/ Age(e)
    \/ Restart

Spec == Init /\ [][Next]_vars

\* The loop turns, the thread runs, a handler that journaled goes on to its wake;
\* every entry comes out of its back-off, and one that is swept again and again is
\* finished in the end (DeployLifecycle!EventuallyClosed: its budget runs out).
Fairness ==
    /\ WF_vars(Loop) /\ WF_vars(Sweeping)
    /\ WF_vars(OnWake \/ Tick \/ Resolve \/ Continue)
    /\ \A e \in Entries : /\ WF_vars(Wake(e))
                          /\ SF_vars(\E S \in SUBSET Entries : e \in S /\ SweepBegin(S))
                          /\ SF_vars(Finish(e))

FairSpec == Spec /\ Fairness

-----------------------------------------------------------------------------
Unheard == waking \cup {e \in Entries : \E i \in 1 .. Len(queue) : queue[i] = e}

\* The timer outlives the work: while an entry waits, or is being worked on, the
\* timer runs; unless its wake has still to be heard, or was heard between the
\* count of a sweep and the end of its tick.
TimerOutlivesWork ==
    \A e \in Entries \ (Unheard \cup late) : entry[e] \in {"pending", "held"} => timer

\* A sweep is never given to the thread while it runs one, and every sweep's
\* result reaches its tick: in flight means running, or on its way back.
InFlightIsOne ==
    LET back == {i \in 1 .. Len(queue) : queue[i] \in {"resolve", "continue"}}
    IN  /\ \A i, j \in back : i = j
        /\ inFlight <=> thread # "idle" \/ back # {}
        /\ back # {} => thread = "idle"

\* An entry is swept until it is finished, unless its claim is stranded or its
\* wake was heard too late.
SweptToTheEnd ==
    \A e \in Entries : entry[e] = "pending" ~> entry[e] \in {"done", "stranded"} \/ e \in late

\* An idle server schedules nothing: once no entry is pending for good, the timer
\* is off for good.
IdleServerSleeps == <>[](PendingNow = {} /\ waking = {}) => <>[](~timer /\ queue = <<>>)
=============================================================================
