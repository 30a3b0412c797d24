------------------------------- MODULE Publish -------------------------------
(***************************************************************************)
(* What a flow leaves in the dags folder and in Airflow: its file, and the *)
(* variables and connections it declares.  deploy_dag, purge_dag,          *)
(* retire_old_dag and the edits of a single value run on the threads of    *)
(* the server's pool, a step for each call to Airflow and each operation   *)
(* on the folder, and so interleave with each other and with whoever else  *)
(* works in that Airflow.                                                  *)
(*                                                                         *)
(* A file is the flow its header names; a value is the dag_id its          *)
(* description is marked with.                                             *)
(***************************************************************************)
EXTENDS Naturals

CONSTANTS
    Threads, Flows, Ids,
    Variables, Connections,     \* keys of the two stores
    Local, Remote,              \* of each flow: the keys it declares with either scope
    NoFile, Hand, Unattributed, \* no file; no header; a header without afdag_id
    Absent, Outside,            \* no value; a value without a marker
    Unseen, Nobody,
    MaxRequests, MaxFaults      \* bounds of the model: requests (and acts of others), faults

Keys == Variables \cup Connections
Files == Flows \cup {NoFile, Hand, Unattributed}
Values == Ids \cup {Absent, Outside}

ASSUME PublishAssumption ==
    /\ MaxRequests \in Nat /\ MaxFaults \in Nat
    /\ Variables \cap Connections = {}
    /\ Local \in [Flows -> SUBSET Keys] /\ Remote \in [Flows -> SUBSET Keys]
    /\ \A f \in Flows : Local[f] \cap Remote[f] = {}
    /\ NoFile # Hand /\ Hand # Unattributed /\ Unattributed # NoFile /\ Absent # Outside
    /\ {NoFile, Hand, Unattributed, Nobody, Unseen} \cap Flows = {}
    /\ {Absent, Outside, Unseen} \cap Ids = {} /\ Unseen \notin {Absent, Outside}

VARIABLES
    file,      \* the dags folder: for each id, {id}.py
    value,     \* Airflow's variables and connections
    job,       \* what each thread is doing
    requests, faults

vars == <<file, value, job, requests, faults>>

Operations == {"deploy", "purge", "retire", "set", "delete"}
Stages == {"gate", "collide", "list", "put", "write",                \* deploy
           "owner", "remove", "airflow", "find", "drop",             \* purge, retire
           "get", "set one", "delete one",
           "done", "refused", "failed"}

\* looked and saw are what the thread has read; touched and quiet are history: whether it
\* has changed a value, and whether no call of it failed and nobody else changed a thing.
Job == [op: Operations, flow: Flows \cup {Nobody}, dag: Ids,
        at: Stages, store: {"variables", "connections"}, todo: SUBSET Keys,
        exists: SUBSET Keys, looked: [Keys -> Values \cup {Unseen}],
        saw: Files \cup {Unseen}, touched: BOOLEAN, quiet: BOOLEAN]

Idle == [at |-> "idle"]

TypeOK ==
    /\ file \in [Ids -> Files]
    /\ value \in [Keys -> Values]
    /\ job \in [Threads -> Job \cup {Idle}]
    /\ requests \in 0 .. MaxRequests /\ faults \in 0 .. MaxFaults

\* The server starts over a folder and an Airflow as earlier deploys, edits and people
\* have left them.
Init ==
    /\ file \in [Ids -> Files]
    /\ value \in [Keys -> Values]
    /\ job = [t \in Threads |-> Idle]
    /\ requests = 0 /\ faults = 0

-----------------------------------------------------------------------------
(* Steps of a job. *)

Busy(t, stage) == job[t].at = stage

KeysOf(store) == IF store = "variables" THEN Variables ELSE Connections

\* What t looked up, with the keys of S added.
Seen(t, S) == [k \in Keys |-> IF k \in S THEN value[k] ELSE job[t].looked[k]]

Blank == [k \in Keys |-> Unseen]

\* A finished job is its answer.
Ends(j, how) ==
    [j EXCEPT !.at = how, !.store = "variables", !.todo = {}, !.exists = {},
              !.looked = Blank, !.saw = Unseen]

\* t goes on as j, having changed nothing that others see.
Goes(t, j) ==
    /\ job' = [job EXCEPT ![t] = j]
    /\ UNCHANGED <<file, value, requests>>

\* Somebody changes a file or a value: no other job is quiet any longer.
Disturbed(t, j) ==
    job' = [u \in Threads |-> IF u = t THEN j
                              ELSE IF job[u] = Idle THEN Idle
                              ELSE [job[u] EXCEPT !.quiet = FALSE]]

Sets(t, k, v, j) ==
    /\ value' = [value EXCEPT ![k] = v]
    /\ Disturbed(t, [j EXCEPT !.touched = TRUE])
    /\ UNCHANGED <<file, requests>>

NoFault == UNCHANGED faults

Fault == faults < MaxFaults /\ faults' = faults + 1

\* A call that failed ends the job; one whose failure is put up with does not.
Fails(t) == Fault /\ Goes(t, [Ends(job[t], "failed") EXCEPT !.quiet = FALSE])

Request(t, op, f, d, first, keys) ==
    /\ job[t] = Idle
    /\ requests < MaxRequests /\ requests' = requests + 1
    /\ job' = [job EXCEPT ![t] =
          [op |-> op, flow |-> f, dag |-> d, at |-> first, store |-> "variables",
           todo |-> keys, exists |-> {}, looked |-> Blank,
           saw |-> Unseen, touched |-> FALSE, quiet |-> TRUE]]
    /\ UNCHANGED <<file, value, faults>>

Answer(t) ==
    /\ job[t].at \in {"done", "refused", "failed"}
    /\ Goes(t, Idle) /\ NoFault

-----------------------------------------------------------------------------
(* deploy_dag: the two gates, the collision check, sync, write. *)

Deploy(t, f, d) == Request(t, "deploy", f, d, "gate", {})

\* Mutant: the values are pushed before the last gate.
SyncFirst(stage) ==
    CASE stage = "gate" -> "list" [] stage = "collide" -> "write" [] stage = "sync" -> "collide"

After(stage) ==
    CASE stage = "gate" -> "collide" [] stage = "collide" -> "list" [] stage = "sync" -> "write"

NextStore(j, stage, after) ==
    IF j.store = "variables"
    THEN [j EXCEPT !.at = stage, !.store = "connections", !.todo = {}]
    ELSE [j EXCEPT !.at = after, !.store = "variables", !.todo = {}]

\* Mutant: a key that exists blocks nobody.
VanishedOnly(f, d, S) == \E k \in Remote[f] \cap S : value[k] = Absent

Blocked(f, d, S) ==
    \/ \E k \in Local[f] \cap S : value[k] \notin {Absent, d}
    \/ \E k \in Remote[f] \cap S : value[k] = Absent

\* block_errors of the one store, then of the other.
Gate(t) ==
    LET j == job[t]
        S == (Local[j.flow] \cup Remote[j.flow]) \cap KeysOf(j.store)
        passed == NextStore(j, "gate", After("gate"))
    IN  /\ Busy(t, "gate")
        /\ \/ S = {} /\ Goes(t, passed) /\ NoFault
           \/ /\ S # {} /\ NoFault
              /\ IF Blocked(j.flow, j.dag, S)
                 THEN Goes(t, Ends(j, "refused"))
                 ELSE Goes(t, [passed EXCEPT !.looked = Seen(t, S)])
           \/ S # {} /\ Fault /\ Goes(t, [passed EXCEPT !.quiet = FALSE])

\* Mutant: whatever has the header passes.
ManagedPasses(f, d) == FALSE

TakenBy(f, d) == file[d] \in Flows \ {f}

\* _collision_errors: the file's header, if it can be read; then whether Airflow has the
\* dag_id from a file of another name, which may be so or not.
Collide(t) ==
    LET j == job[t]
    IN  \/ /\ Busy(t, "collide") /\ NoFault
           /\ \/ Goes(t, Ends(j, "refused"))
              \/ /\ ~TakenBy(j.flow, j.dag)
                 /\ Goes(t, [j EXCEPT !.at = After("collide"), !.saw = file[j.dag]])
        \/ /\ Busy(t, "collide") /\ Fault
           /\ Goes(t, [j EXCEPT !.at = After("collide"), !.quiet = FALSE])

\* Mutant: connections are not synced.
SyncVariables(j) == Local[j.flow] \cap Variables \cap KeysOf(j.store)

ToSync(j) == Local[j.flow] \cap KeysOf(j.store)

\* sync lists the store once more, to tell what must be updated from what must be created.
List(t) ==
    LET j == job[t]
        listed == [j EXCEPT !.at = "put", !.todo = ToSync(j)]
    IN  /\ Busy(t, "list")
        /\ \/ ToSync(j) = {} /\ Goes(t, NextStore(j, "list", After("sync"))) /\ NoFault
           \/ /\ ToSync(j) # {} /\ NoFault
              /\ Goes(t, [listed EXCEPT !.exists = {k \in ToSync(j) : value[k] # Absent}])
           \/ /\ ToSync(j) # {} /\ Fault
              /\ Goes(t, [listed EXCEPT !.exists = {}, !.quiet = FALSE])

\* Mutant: the marker names the flow.
MarkedByFlow(j) == j.flow

\* Whom compose_description names as the owner.
Marker(j) == j.dag

\* update_variable answers 404 for a key that is gone, create_variable 409 for one that
\* is there: a warning, as any other failure is.
Put(t, k) ==
    LET j == job[t]
        rest == j.todo \ {k}
        on == IF rest = {} THEN NextStore(j, "list", After("sync")) ELSE [j EXCEPT !.todo = rest]
    IN  /\ Busy(t, "put") /\ k \in j.todo
        /\ \/ (k \in j.exists <=> value[k] # Absent) /\ Sets(t, k, Marker(j), on) /\ NoFault
           \/ (k \in j.exists <=> value[k] = Absent) /\ Goes(t, on) /\ NoFault
           \/ Fault /\ Goes(t, [on EXCEPT !.quiet = FALSE])

\* "Refusing to overwrite": the gates let a file without a header pass, write does not.
Write(t) ==
    LET j == job[t]
    IN  /\ Busy(t, "write")
        /\ \/ /\ file[j.dag] = Hand /\ NoFault
              /\ Goes(t, [Ends(j, "refused") EXCEPT !.saw = Hand])
           \/ /\ file[j.dag] # Hand
              /\ file' = [file EXCEPT ![j.dag] = j.flow]
              /\ Disturbed(t, Ends(j, "done"))
              /\ UNCHANGED <<value, requests>> /\ NoFault
           \/ Fails(t)

-----------------------------------------------------------------------------
(* purge_dag and retire_old_dag. *)

\* An undeploy or a delete is a purge on nobody's behalf.  A retire purges too, or keeps
\* the history; on behalf of a flow it looks whose file it is, asked for by a tab not.
Retire(t, f, d, op) ==
    /\ op \in {"purge", "retire"}
    /\ Request(t, op, f, d, IF f = Nobody THEN "remove" ELSE "owner", {})

MayRetire(f, d) == file[d] \in {f, NoFile, Unattributed}

Owner(t) ==
    LET j == job[t]
    IN  /\ Busy(t, "owner")
        /\ \/ /\ MayRetire(j.flow, j.dag) /\ NoFault
              /\ Goes(t, [j EXCEPT !.at = "remove", !.saw = file[j.dag]])
           \/ ~MayRetire(j.flow, j.dag) /\ Goes(t, Ends(j, "refused")) /\ NoFault
           \/ Fault /\ Goes(t, [Ends(j, "refused") EXCEPT !.quiet = FALSE])

Remove(t) ==
    LET j == job[t]
    IN  /\ Busy(t, "remove")
        /\ \/ /\ file' = [file EXCEPT ![j.dag] = NoFile]
              /\ Disturbed(t, [j EXCEPT !.at = "airflow"])
              /\ UNCHANGED <<value, requests>> /\ NoFault
           \/ Fails(t)

\* delete_dag, or set_paused for a retire that keeps the history; a 404 is as good.
Airflow(t) ==
    /\ Busy(t, "airflow")
    /\ \/ Goes(t, [job[t] EXCEPT !.at = "find"]) /\ NoFault
       \/ Fails(t)

\* Mutant: the second store is never purged.
PurgedOnce(j) == Ends(j, "done")

\* A retire that keeps the history purges the variables, and not the connections.
Purged(j) ==
    IF j.op = "retire" \/ j.store = "connections" THEN Ends(j, "done")
    ELSE [j EXCEPT !.store = "connections", !.at = "find", !.todo = {}]

Owned(j) == {k \in KeysOf(j.store) : value[k] = j.dag}

\* purge lists the store, and then deletes key by key; a listing that fails is an empty one.
Find(t) ==
    LET j == job[t]
    IN  /\ Busy(t, "find")
        /\ \/ Owned(j) = {} /\ Goes(t, Purged(j)) /\ NoFault
           \/ /\ Owned(j) # {} /\ NoFault
              /\ Goes(t, [j EXCEPT !.at = "drop", !.todo = Owned(j),
                                   !.looked = Seen(t, Owned(j))])
           \/ Fault /\ Goes(t, [Purged(j) EXCEPT !.quiet = FALSE])

Drop(t, k) ==
    LET j == job[t]
        rest == j.todo \ {k}
    IN  /\ Busy(t, "drop") /\ k \in j.todo
        /\ \/ /\ NoFault
              /\ Sets(t, k, Absent, IF rest = {} THEN Purged(j) ELSE [j EXCEPT !.todo = rest])
           \/ Fails(t)

-----------------------------------------------------------------------------
(* set_one and delete_one, of either store. *)

SetOne(t, d, k) == Request(t, "set", Nobody, d, "get", {k})
DeleteOne(t, d, k) == Request(t, "delete", Nobody, d, "get", {k})

Get(t) ==
    LET j == job[t]
        k == CHOOSE key \in j.todo : TRUE
    IN  /\ Busy(t, "get")
        /\ \/ /\ value[k] \notin {Absent, j.dag} /\ NoFault
              /\ Goes(t, Ends(j, "refused"))
           \/ /\ value[k] = Absent /\ j.op = "delete" /\ NoFault
              /\ Goes(t, Ends(j, "done"))
           \/ /\ value[k] = j.dag \/ (value[k] = Absent /\ j.op = "set")
              /\ Goes(t, [j EXCEPT !.at = IF j.op = "set" THEN "set one" ELSE "delete one",
                                   !.looked = Seen(t, {k})]) /\ NoFault
           \/ Fails(t)

\* An update of what is gone, or a creation of what is there, is refused by Airflow.
SetNow(t) ==
    LET j == job[t]
        k == CHOOSE key \in j.todo : TRUE
    IN  /\ Busy(t, "set one")
        /\ \/ /\ (j.looked[k] = Absent <=> value[k] = Absent) /\ NoFault
              /\ Sets(t, k, Marker(j), Ends(j, "done"))
           \/ /\ (j.looked[k] = Absent <=> value[k] # Absent) /\ NoFault
              /\ Goes(t, Ends(j, "failed"))
           \/ Fails(t)

DeleteNow(t) ==
    LET j == job[t]
        k == CHOOSE key \in j.todo : TRUE
    IN  /\ Busy(t, "delete one")
        /\ \/ Sets(t, k, Absent, Ends(j, "done")) /\ NoFault
           \/ Fails(t)

-----------------------------------------------------------------------------
(* Whoever else works in that Airflow and in that folder (external). *)

Meddle ==
    /\ requests < MaxRequests /\ requests' = requests + 1
    /\ \/ /\ \E k \in Keys, v \in {Absent, Outside} : value' = [value EXCEPT ![k] = v]
          /\ UNCHANGED file
       \/ /\ \E d \in Ids, c \in {NoFile, Hand} : file' = [file EXCEPT ![d] = c]
          /\ UNCHANGED value
    /\ job' = [t \in Threads |-> IF job[t] = Idle THEN Idle ELSE [job[t] EXCEPT !.quiet = FALSE]]
    /\ UNCHANGED faults

Next ==
    \/ \E t \in Threads :
          \/ \E d \in Ids :
                \/ \E f \in Flows : Deploy(t, f, d)
                \/ \E f \in Flows \cup {Nobody}, op \in {"purge", "retire"} : Retire(t, f, d, op)
                \/ \E k \in Keys : SetOne(t, d, k) \/ DeleteOne(t, d, k)
          \/ Gate(t) \/ Collide(t) \/ List(t) \/ (\E k \in Keys : Put(t, k)) \/ Write(t)
          \/ Owner(t) \/ Remove(t) \/ Airflow(t) \/ Find(t) \/ (\E k \in Keys : Drop(t, k))
          \/ Get(t) \/ SetNow(t) \/ DeleteNow(t)
          \/ Answer(t)
    \/ Meddle

Spec == Init /\ [][Next]_vars

-----------------------------------------------------------------------------
(* Properties. *)

Acts(t) == job[t] # Idle /\ job'[t] \notin {job[t], [job[t] EXCEPT !.quiet = FALSE]}

\* "guarantees Studio never deletes or overwrites a variable it did not create": a thread
\* overwrites or deletes the value of another flow, or of nobody, only if it changed
\* hands after the thread had looked (or the thread could not look at all).
ValuesOfOthersKept ==
    [][\A t \in Threads, k \in Keys :
          Acts(t) /\ value'[k] # value[k]
             /\ value[k] \notin {Absent, job[t].dag}
          => \/ job[t].looked[k] \in {Absent, job[t].dag}
             \/ job[t].looked[k] = Unseen /\ job[t].op = "deploy" /\ faults > 0]_vars

\* A deploy, and a retire that was queued, replaces or deletes the file of another flow, or
\* of a person, only if that file came after its look at the folder.
FilesOfOthersKept ==
    [][\A t \in Threads, d \in Ids :
          Acts(t) /\ file'[d] # file[d] /\ job[t].flow # Nobody
             /\ file[d] \in (Flows \ {job[t].flow}) \cup {Hand}
          => job[t].saw # file[d]]_vars

\* "a refusal must leave nothing behind" (deploy_dag), but for one: a request that is
\* refused once it has changed a value is a deploy whose write found a hand-written file in
\* the place of its own; and unless somebody interfered, all that its flow declares is in
\* Airflow then, with the marker an undeploy goes by.
OnlyTheWriteRefusesLate ==
    \A t \in Threads :
        Busy(t, "refused") /\ job[t].touched
            => /\ job[t].op = "deploy" /\ job[t].saw = Hand
               /\ job[t].quiet => \A k \in Local[job[t].flow] : value[k] = job[t].dag

\* "a task must never observe a DAG whose variables aren't there yet": whatever earlier
\* requests left, the file goes out after the values of its flow.
DeployedHasItsValues ==
    \A t \in Threads :
        Busy(t, "done") /\ job[t].op = "deploy" /\ job[t].quiet
            => \A k \in Local[job[t].flow] : value[k] = job[t].dag

\* "the variables linger -- but they carry this flow's ownership marker, so the next
\* undeploy/purge reclaims them": an undeploy nobody disturbed leaves neither file nor
\* value, in whatever state broken deploys, retires and edits left the two stores.
UndeployLeavesNothing ==
    \A t \in Threads :
        Busy(t, "done") /\ job[t].op = "purge" /\ job[t].quiet
            => file[job[t].dag] = NoFile /\ \A k \in Keys : value[k] # job[t].dag

=============================================================================
