--------------------------- MODULE Publish_proofs ---------------------------
(* What Publish promises, for any threads, flows, dag_ids, keys and bounds. *)
EXTENDS Publish, TLAPS

DeployStages == {"gate", "collide", "list", "put", "write"}
RetireStages == {"owner", "remove", "airflow", "find", "drop"}
OneStages == {"get", "set one", "delete one"}

One(j) == CHOOSE key \in j.todo : TRUE

\* The invariant is about a job j, the folder fl, the values val and the number n of
\* faults so far.  j has seen k without an owner or its own; or it could not look.
Known(j, n, k) ==
    \/ j.looked[k] \in {Absent, j.dag}
    \/ j.looked[k] = Unseen /\ n > 0

\* What a job may change, it has looked at.
Looked(j, n) ==
    /\ j.at = "gate" => \A k \in Keys : k \in KeysOf(j.store) \/ j.store = "variables" => j.looked[k] = Unseen
    /\ j.at = "gate" /\ j.store = "connections" => \A k \in Local[j.flow] \cap Variables : Known(j, n, k)
    /\ j.at \in {"collide", "list", "put", "write"} => \A k \in Local[j.flow] : Known(j, n, k)
    /\ j.at = "put" => j.todo \subseteq ToSync(j)
    /\ j.at = "drop" => \A k \in j.todo : j.looked[k] = j.dag
    /\ j.at \in {"set one", "delete one"} => j.looked[One(j)] \in {Absent, j.dag}
    /\ j.at \in DeployStages => j.saw \notin Flows \ {j.flow}
    /\ j.at = "remove" /\ j.flow # Nobody => j.saw \in {j.flow, NoFile, Unattributed}

\* What an undeploy that nobody disturbs has removed.
Unpublished(j, fl, val) ==
    /\ j.at \in {"airflow", "find", "drop", "done"} => fl[j.dag] = NoFile
    /\ j.at \in {"find", "drop"} /\ j.store = "connections" => \A k \in Variables : val[k] # j.dag
    /\ j.at = "drop" => \A k \in KeysOf(j.store) : val[k] = j.dag => k \in j.todo
    /\ j.at = "done" => \A k \in Keys : val[k] # j.dag

\* What a deploy that nobody disturbs has pushed.
Published(j, val) ==
    /\ j.at \in {"list", "put"} /\ j.store = "connections" =>
          \A k \in Local[j.flow] \cap Variables : val[k] = j.dag
    /\ j.at = "put" => /\ \A k \in ToSync(j) \ j.todo : val[k] = j.dag
                       /\ \A k \in j.todo : k \in j.exists <=> val[k] # Absent
    /\ j.at \in {"write", "done"} \/ (j.at = "refused" /\ j.touched) =>
          \A k \in Local[j.flow] : val[k] = j.dag

Staged(j) ==
    /\ j.at \in DeployStages => j.op = "deploy" /\ j.flow \in Flows
    /\ j.at \in RetireStages => j.op \in {"purge", "retire"}
    /\ j.at \in OneStages => j.op \in {"set", "delete"} /\ j.todo # {}
    /\ j.at \in {"gate", "collide", "owner", "get"} => ~j.touched
    /\ j.at = "refused" /\ j.touched => j.op = "deploy" /\ j.saw = Hand
    /\ j.at \in {"collide", "owner", "remove", "airflow"} => j.store = "variables"

Well(j, fl, val, n) ==
    /\ j \in Job
    /\ Staged(j)
    /\ Looked(j, n)
    /\ j.quiet /\ j.op = "purge" => Unpublished(j, fl, val)
    /\ j.quiet /\ j.op = "deploy" => Published(j, val)

JobsWell == \A t \in Threads : job[t] = Idle \/ Well(job[t], file, value, faults)

-----------------------------------------------------------------------------
(* Jobs of others, and jobs that end. *)

\* Faults do not unmake what a job knows.
LEMMA MoreFaults ==
    ASSUME NEW n \in Nat, NEW m \in Nat, n <= m, NEW j, Looked(j, n)
    PROVE  Looked(j, m)
  <1>1. \A k : Known(j, n, k) => Known(j, m, k)
    BY DEF Known
  <1> QED
    BY <1>1 DEF Looked

LEMMA Unmoved ==
    ASSUME NEW n \in Nat, NEW m \in Nat, n <= m, NEW fl, NEW val, NEW j, Well(j, fl, val, n)
    PROVE  Well(j, fl, val, m)
  BY MoreFaults DEF Well

\* Whatever has changed, a job that is not quiet is well.
LEMMA Hushed ==
    ASSUME NEW n \in Nat, NEW m \in Nat, n <= m, NEW fl, NEW val, NEW fl2, NEW val2,
           NEW j, Well(j, fl, val, n)
    PROVE  Well([j EXCEPT !.quiet = FALSE], fl2, val2, m)
  <1> DEFINE i == [j EXCEPT !.quiet = FALSE]
  <1>1. /\ i \in Job /\ i.quiet = FALSE
        /\ i.op = j.op /\ i.flow = j.flow /\ i.dag = j.dag /\ i.at = j.at /\ i.store = j.store
        /\ i.todo = j.todo /\ i.exists = j.exists /\ i.looked = j.looked /\ i.saw = j.saw
        /\ i.touched = j.touched
    BY DEF Well, Job
  <1> HIDE DEF i
  <1>2. Looked(j, m)
    BY MoreFaults DEF Well
  <1>3. ToSync(i) = ToSync(j) /\ One(i) = One(j)
    BY <1>1 DEF ToSync, One
  <1>4. \A k : Known(i, m, k) <=> Known(j, m, k)
    BY <1>1 DEF Known
  <1>5. Looked(i, m)
    BY <1>1, <1>2, <1>3, <1>4 DEF Looked
  <1>6. Staged(i)
    BY <1>1 DEF Well, Staged
  <1>7. Well(i, fl2, val2, m)
    BY <1>1, <1>5, <1>6 DEF Well
  <1> QED
    BY <1>7 DEF i

\* The step of t carries over to all jobs.
LEMMA Carried ==
    ASSUME TypeOK, JobsWell, NEW t \in Threads, NEW j,
           j = Idle \/ Well(j, file', value', faults'), faults' \in Nat, faults <= faults',
           (job' = [job EXCEPT ![t] = j] /\ UNCHANGED <<file, value>>) \/ Disturbed(t, j)
    PROVE  JobsWell' /\ job' \in [Threads -> Job \cup {Idle}]
  <1>1. job'[t] = j /\ faults \in Nat
    BY DEF TypeOK, Disturbed
  <1>2. ASSUME NEW u \in Threads PROVE job'[u] = Idle \/ Well(job'[u], file', value', faults')
    <2>1. CASE u = t
      BY <1>1, <2>1
    <2>2. CASE u # t /\ job[u] = Idle
      BY <2>2 DEF TypeOK, Disturbed
    <2>3. CASE u # t /\ job[u] # Idle
      <3>1. Well(job[u], file, value, faults)
        BY <2>3 DEF JobsWell
      <3>2. CASE job' = [job EXCEPT ![t] = j] /\ UNCHANGED <<file, value>>
        <4>1. job'[u] = job[u] /\ file' = file /\ value' = value
          BY <2>3, <3>2 DEF TypeOK
        <4>2. Well(job[u], file, value, faults')
          BY <1>1, <3>1, Unmoved
        <4> QED
          BY <4>1, <4>2
      <3>3. CASE Disturbed(t, j)
        <4>1. job'[u] = [job[u] EXCEPT !.quiet = FALSE]
          BY <2>3, <3>3 DEF Disturbed
        <4>2. Well([job[u] EXCEPT !.quiet = FALSE], file', value', faults')
          BY <1>1, <3>1, Hushed
        <4> QED
          BY <4>1, <4>2
      <3> QED
        BY <3>2, <3>3
    <2> QED
      BY <2>1, <2>2, <2>3
  <1>3. JobsWell'
    BY <1>2 DEF JobsWell
  <1>4. job' = [u \in Threads |-> job'[u]]
    BY DEF TypeOK, Disturbed
  <1>5. \A u \in Threads : job'[u] \in Job \cup {Idle}
    BY <1>2 DEF Well
  <1> QED
    BY <1>3, <1>4, <1>5

LEMMA EndedWell ==
    ASSUME NEW j \in Job, NEW how \in {"done", "refused", "failed"}, NEW fl, NEW val, NEW n,
           how = "refused" => ~j.touched,
           how = "done" /\ j.quiet /\ j.op = "purge" => fl[j.dag] = NoFile /\ \A k \in Keys : val[k] # j.dag,
           how = "done" /\ j.quiet /\ j.op = "deploy" => \A k \in Local[j.flow] : val[k] = j.dag
    PROVE  /\ Well(Ends(j, how), fl, val, n)
           /\ Well([Ends(j, how) EXCEPT !.quiet = FALSE], fl, val, n)
           /\ how # "refused" => Well([Ends(j, how) EXCEPT !.touched = TRUE], fl, val, n)
  <1> DEFINE i == Ends(j, how)
             h == [i EXCEPT !.quiet = FALSE]
             g == [i EXCEPT !.touched = TRUE]
  <1>1. Blank \in [Keys -> Values \cup {Unseen}] /\ how \in Stages
    BY DEF Blank, Stages
  <1>2. /\ i \in Job /\ i.quiet = j.quiet
        /\ i.op = j.op /\ i.flow = j.flow /\ i.dag = j.dag /\ i.at = how /\ i.touched = j.touched
    BY <1>1 DEF Ends, Job
  <1>3. /\ h \in Job /\ h.quiet = FALSE
        /\ h.op = j.op /\ h.flow = j.flow /\ h.dag = j.dag /\ h.at = how /\ h.touched = j.touched
    BY <1>2 DEF Job
  <1>4. /\ g \in Job /\ g.quiet = j.quiet
        /\ g.op = j.op /\ g.flow = j.flow /\ g.dag = j.dag /\ g.at = how
    BY <1>2 DEF Job
  <1> HIDE DEF g, h, i
  <1>5. /\ Staged(i) /\ Looked(i, n) /\ Staged(h) /\ Looked(h, n)
        /\ how # "refused" => Staged(g) /\ Looked(g, n)
    BY <1>2, <1>3, <1>4 DEF Staged, Looked, DeployStages, RetireStages, OneStages
  <1>6. Well(h, fl, val, n)
    BY <1>3, <1>5 DEF Well
  <1>7. Well(i, fl, val, n)
    BY <1>2, <1>5 DEF Well, Unpublished, Published
  <1>8. how # "refused" => Well(g, fl, val, n)
    BY <1>4, <1>5 DEF Well, Unpublished, Published
  <1> QED
    BY <1>6, <1>7, <1>8 DEF g, h, i

-----------------------------------------------------------------------------
(* One lemma for each step. *)

Good == TypeOK /\ JobsWell

\* A job that is at some stage is well.
LEMMA AtStage ==
    ASSUME JobsWell, NEW t \in Threads, job[t].at \in Stages
    PROVE  Well(job[t], file, value, faults) /\ job[t] \in Job /\ job[t] # Idle
  <1>1. Idle.at = "idle" /\ "idle" \notin Stages
    BY DEF Idle, Stages
  <1>2. job[t] # Idle
    BY <1>1
  <1>3. Well(job[t], file, value, faults)
    BY <1>2 DEF JobsWell
  <1> QED
    BY <1>2, <1>3 DEF Well

LEMMA Going ==
    ASSUME Good, NEW t \in Threads, NEW j, NoFault \/ Fault, Goes(t, j),
           j = Idle \/ Well(j, file, value, faults')
    PROVE  Good'
  <1>1. faults \in Nat /\ faults' \in Nat /\ faults <= faults' /\ faults' \in 0 .. MaxFaults
    BY PublishAssumption DEF Good, TypeOK, NoFault, Fault
  <1>2. UNCHANGED <<file, value, requests>>
    BY DEF Goes
  <1>3. JobsWell' /\ job' \in [Threads -> Job \cup {Idle}]
    BY <1>1, <1>2, Carried DEF Good, Goes
  <1> QED
    BY <1>1, <1>2, <1>3 DEF Good, TypeOK

\* A call that fails ends its job.
LEMMA Failing ==
    ASSUME Good, NEW t \in Threads, job[t] \in Job, Fails(t)
    PROVE  Good'
  <1>1. Well([Ends(job[t], "failed") EXCEPT !.quiet = FALSE], file, value, faults')
    BY EndedWell
  <1> QED
    BY <1>1, Going DEF Fails

LEMMA Setting ==
    ASSUME Good, NEW t \in Threads, NEW k \in Keys, NEW v \in Values, NEW j, NoFault, Sets(t, k, v, j),
           Well([j EXCEPT !.touched = TRUE], file, [value EXCEPT ![k] = v], faults)
    PROVE  Good'
  <1>1. /\ value' = [value EXCEPT ![k] = v] /\ UNCHANGED <<file, requests, faults>>
        /\ Disturbed(t, [j EXCEPT !.touched = TRUE])
    BY DEF Sets, NoFault
  <1>2. value' \in [Keys -> Values] /\ faults \in Nat
    BY <1>1, PublishAssumption DEF Good, TypeOK
  <1> DEFINE i == [j EXCEPT !.touched = TRUE]
  <1>3. Well(i, file', value', faults')
    BY <1>1
  <1>4. Disturbed(t, i)
    BY <1>1
  <1> HIDE DEF i
  <1>5. faults' \in Nat /\ faults <= faults'
    BY <1>1, <1>2
  <1>6. JobsWell' /\ job' \in [Threads -> Job \cup {Idle}]
    BY <1>3, <1>4, <1>5, Carried DEF Good
  <1> QED
    BY <1>1, <1>2, <1>6 DEF Good, TypeOK

LEMMA Requested ==
    ASSUME Good, NEW t \in Threads, NEW op \in Operations, NEW f \in Flows \cup {Nobody}, NEW d \in Ids,
           NEW first \in {"gate", "owner", "remove", "get"}, NEW keys \in SUBSET Keys,
           Request(t, op, f, d, first, keys),
           first = "gate" => op = "deploy" /\ f \in Flows,
           first = "remove" => f = Nobody,
           first \in {"owner", "remove"} => op \in {"purge", "retire"},
           first = "get" => op \in {"set", "delete"} /\ keys # {}
    PROVE  Good'
  <1> DEFINE j == [op |-> op, flow |-> f, dag |-> d, at |-> first, store |-> "variables",
                   todo |-> keys, exists |-> {}, looked |-> Blank,
                   saw |-> Unseen, touched |-> FALSE, quiet |-> TRUE]
  <1>1. Blank \in [Keys -> Values \cup {Unseen}] /\ \A k \in Keys : Blank[k] = Unseen
    BY DEF Blank
  <1>2. j \in Job
    BY <1>1 DEF Job, Stages
  <1>3. Staged(j)
    BY DEF Staged, DeployStages, RetireStages, OneStages
  <1>4. Looked(j, faults)
    BY <1>1, PublishAssumption DEF Looked, DeployStages
  <1>5. Unpublished(j, file, value) /\ Published(j, value)
    BY DEF Unpublished, Published
  <1>6. Well(j, file, value, faults)
    BY <1>2, <1>3, <1>4, <1>5 DEF Well
  <1>7. /\ job' = [job EXCEPT ![t] = j] /\ UNCHANGED <<file, value, faults>>
        /\ requests' \in 0 .. MaxRequests
    BY PublishAssumption DEF Request, Good, TypeOK
  <1> HIDE DEF j
  <1>8. Well(j, file', value', faults') /\ faults' \in Nat /\ faults <= faults'
    BY <1>6, <1>7 DEF Good, TypeOK
  <1>9. JobsWell' /\ job' \in [Threads -> Job \cup {Idle}]
    BY <1>7, <1>8, Carried DEF Good
  <1> QED
    BY <1>7, <1>9 DEF Good, TypeOK

LEMMA Asked ==
    ASSUME Good, NEW t \in Threads, NEW d \in Ids,
           \/ \E f \in Flows : Deploy(t, f, d)
           \/ \E f \in Flows \cup {Nobody}, op \in {"purge", "retire"} : Retire(t, f, d, op)
           \/ \E k \in Keys : SetOne(t, d, k) \/ DeleteOne(t, d, k)
    PROVE  Good'
  <1>1. ASSUME NEW f \in Flows, Deploy(t, f, d) PROVE Good'
    <2>1. Request(t, "deploy", f, d, "gate", {})
      BY <1>1 DEF Deploy
    <2>2. "deploy" \in Operations /\ f \in Flows \cup {Nobody} /\ {} \in SUBSET Keys
      BY DEF Operations
    <2> QED
      BY <1>1, <2>1, <2>2, Requested
  <1>2. ASSUME NEW f \in Flows \cup {Nobody}, NEW op \in {"purge", "retire"}, Retire(t, f, d, op) PROVE Good'
    <2> DEFINE first == IF f = Nobody THEN "remove" ELSE "owner"
    <2>1. Request(t, op, f, d, first, {}) /\ first \in {"owner", "remove"} /\ (first = "remove" => f = Nobody)
      BY <1>2 DEF Retire
    <2>2. op \in Operations /\ {} \in SUBSET Keys /\ first \in {"gate", "owner", "remove", "get"}
      BY DEF Operations
    <2> HIDE DEF first
    <2> QED
      BY <2>1, <2>2, Requested
  <1>3. ASSUME NEW k \in Keys, SetOne(t, d, k) \/ DeleteOne(t, d, k) PROVE Good'
    <2>1. \E op \in {"set", "delete"} : Request(t, op, Nobody, d, "get", {k})
      BY <1>3 DEF SetOne, DeleteOne
    <2> QED
      BY <2>1, Requested DEF Operations
  <1> QED
    BY <1>1, <1>2, <1>3

LEMMA GatePassed ==
    ASSUME NEW fl, NEW val, NEW n \in Nat, NEW m \in Nat, n <= m, NEW j, Well(j, fl, val, n), j.at = "gate",
           NEW i \in Job,
           i.op = j.op, i.flow = j.flow, i.dag = j.dag, i.touched = j.touched, i.saw = j.saw,
           i.at = (IF j.store = "variables" THEN "gate" ELSE "collide"),
           i.store = (IF j.store = "variables" THEN "connections" ELSE "variables"),
           \A k \in Keys \ KeysOf(j.store) : i.looked[k] = j.looked[k],
           \A k \in Local[j.flow] \cap KeysOf(j.store) : Known(i, m, k)
    PROVE  Well(i, fl, val, m)
  <1>1. j \in Job /\ Staged(j) /\ Looked(j, n) /\ j.op = "deploy" /\ j.flow \in Flows /\ ~j.touched
    BY DEF Well, Staged, DeployStages
  <1>2. Local[j.flow] \subseteq Keys /\ Variables \cap Connections = {} /\ Keys = Variables \cup Connections
    BY <1>1, PublishAssumption DEF Keys
  <1>3. Staged(i)
    BY <1>1 DEF Staged, DeployStages, RetireStages, OneStages
  <1>4. CASE j.store = "variables"
    <2>1. i.at = "gate" /\ i.store = "connections"
      BY <1>4
    <2>2. \A k \in Connections : i.looked[k] = Unseen
      BY <1>1, <1>2, <1>4 DEF Looked, KeysOf
    <2>3. Looked(i, m)
      BY <1>1, <1>4, <2>1, <2>2 DEF Looked, KeysOf, DeployStages
    <2> QED
      BY <1>1, <1>3, <2>1, <2>3 DEF Well, Published
  <1>5. CASE j.store = "connections"
    <2>1. i.at = "collide" /\ i.store = "variables"
      BY <1>5
    <2>2. ASSUME NEW k \in Local[j.flow] PROVE Known(i, m, k)
      <3>1. CASE k \in Connections
        BY <1>5, <3>1 DEF KeysOf
      <3>2. CASE k \in Variables
        <4>1. Known(j, n, k)
          BY <1>1, <1>5, <3>2 DEF Looked
        <4>2. i.looked[k] = j.looked[k]
          BY <1>2, <1>5, <3>2 DEF KeysOf
        <4> QED
          BY <4>1, <4>2 DEF Known
      <3> QED
        BY <1>2, <3>1, <3>2
    <2>3. Looked(i, m)
      BY <1>1, <2>1, <2>2 DEF Looked, DeployStages
    <2> QED
      BY <1>1, <1>3, <2>1, <2>3 DEF Well, Published
  <1> QED
    BY <1>1, <1>4, <1>5 DEF Job

LEMMA Gated ==
    ASSUME Good, NEW t \in Threads, Gate(t)
    PROVE  Good'
  <1> DEFINE j == job[t]
             S == (Local[j.flow] \cup Remote[j.flow]) \cap KeysOf(j.store)
             passed == NextStore(j, "gate", After("gate"))
  <1>0. job[t].at = "gate" /\ faults \in Nat
    BY DEF Gate, Busy, Good, TypeOK
  <1>1. /\ Well(j, file, value, faults) /\ j \in Job /\ j.at = "gate"
        /\ j.flow \in Flows /\ ~j.touched /\ faults \in Nat
    <2>1. Well(job[t], file, value, faults) /\ job[t] \in Job
      BY <1>0, AtStage DEF Stages, Good
    <2> QED
      BY <1>0, <2>1 DEF Well, Staged, DeployStages
  <1>2. /\ passed \in Job
        /\ passed.op = j.op /\ passed.flow = j.flow /\ passed.dag = j.dag /\ passed.touched = j.touched
        /\ passed.saw = j.saw /\ passed.looked = j.looked
        /\ passed.at = (IF j.store = "variables" THEN "gate" ELSE "collide")
        /\ passed.store = (IF j.store = "variables" THEN "connections" ELSE "variables")
    BY <1>1 DEF NextStore, After, Job, Stages
  <1> HIDE DEF passed
  <1>3. CASE S = {} /\ Goes(t, passed) /\ NoFault
    <2>1. Well(passed, file, value, faults)
      BY <1>1, <1>2, <1>3, GatePassed
    <2> QED
      BY <1>3, <2>1, Going DEF NoFault
  <1>4. CASE NoFault /\ Goes(t, Ends(j, "refused"))
    <2>1. Well(Ends(j, "refused"), file, value, faults)
      BY <1>1, EndedWell
    <2> QED
      BY <1>4, <2>1, Going DEF NoFault
  <1>5. CASE NoFault /\ ~Blocked(j.flow, j.dag, S) /\ Goes(t, [passed EXCEPT !.looked = Seen(t, S)])
    <2> DEFINE i == [passed EXCEPT !.looked = Seen(t, S)]
    <2>1. Seen(t, S) \in [Keys -> Values \cup {Unseen}]
      BY <1>1 DEF Seen, Good, TypeOK, Job
    <2>2. /\ i \in Job /\ i.op = j.op /\ i.flow = j.flow /\ i.dag = j.dag /\ i.touched = j.touched
          /\ i.saw = j.saw /\ i.looked = Seen(t, S) /\ i.at = passed.at /\ i.store = passed.store
      BY <1>2, <2>1 DEF Job
    <2> HIDE DEF i
    <2>3. \A k \in Keys \ KeysOf(j.store) : i.looked[k] = j.looked[k]
      BY <2>2 DEF Seen
    <2>4. \A k \in Local[j.flow] \cap KeysOf(j.store) : i.looked[k] \in {Absent, j.dag}
      BY <1>1, <1>5, <2>2, PublishAssumption DEF Seen, Blocked
    <2>5. Well(i, file, value, faults)
      BY <1>1, <1>2, <2>2, <2>3, <2>4, GatePassed DEF Known
    <2> QED
      BY <1>5, <2>5, Going DEF i, NoFault
  <1>6. CASE Fault /\ Goes(t, [passed EXCEPT !.quiet = FALSE])
    <2> DEFINE i == [passed EXCEPT !.quiet = FALSE]
    <2>1. /\ i \in Job /\ i.op = j.op /\ i.flow = j.flow /\ i.dag = j.dag /\ i.touched = j.touched
          /\ i.saw = j.saw /\ i.looked = j.looked /\ i.at = passed.at /\ i.store = passed.store
      BY <1>2 DEF Job
    <2> HIDE DEF i
    <2>2. faults' \in Nat /\ faults <= faults' /\ faults' > 0
      BY <1>1, <1>6 DEF Fault
    <2>3. \A k \in Local[j.flow] \cap KeysOf(j.store) : i.looked[k] = Unseen
      BY <1>1, <2>1, PublishAssumption DEF Well, Looked
    <2>4. Well(i, file, value, faults')
      BY <1>1, <1>2, <2>1, <2>2, <2>3, GatePassed DEF Known
    <2> QED
      BY <1>6, <2>4, Going DEF i
  <1> QED
    BY <1>3, <1>4, <1>5, <1>6 DEF Gate, passed

LEMMA Collided ==
    ASSUME Good, NEW t \in Threads, Collide(t)
    PROVE  Good'
  <1> DEFINE j == job[t]
  <1>1. j.at = "collide" /\ faults \in Nat
    BY DEF Collide, Busy, Good, TypeOK
  <1>2. Well(j, file, value, faults) /\ j \in Job
    BY <1>1, AtStage DEF Stages, Good
  <1>3. /\ j.op = "deploy" /\ j.flow \in Flows /\ ~j.touched /\ j.store = "variables"
        /\ Staged(j) /\ Looked(j, faults)
    BY <1>1, <1>2 DEF Well, Staged, DeployStages
  <1>4. CASE NoFault /\ Goes(t, Ends(j, "refused"))
    <2>1. Well(Ends(j, "refused"), file, value, faults)
      BY <1>2, <1>3, EndedWell
    <2> QED
      BY <1>4, <2>1, Going DEF NoFault
  <1>5. CASE NoFault /\ ~TakenBy(j.flow, j.dag) /\ Goes(t, [j EXCEPT !.at = After("collide"), !.saw = file[j.dag]])
    <2> DEFINE i == [j EXCEPT !.at = After("collide"), !.saw = file[j.dag]]
    <2>1. file[j.dag] \in Files /\ After("collide") = "list" /\ "list" \in Stages
      BY <1>2 DEF Good, TypeOK, Job, After, Stages
    <2>2. /\ i \in Job /\ i.op = j.op /\ i.flow = j.flow /\ i.dag = j.dag /\ i.store = j.store
          /\ i.looked = j.looked /\ i.saw = file[j.dag] /\ i.at = "list"
      BY <1>2, <2>1 DEF Job
    <2> HIDE DEF i
    <2>3. \A k \in Local[i.flow] : Known(i, faults, k)
      BY <1>1, <1>3, <2>2 DEF Looked, Known
    <2>4. Looked(i, faults)
      BY <1>5, <2>2, <2>3 DEF Looked, TakenBy
    <2>5. Staged(i) /\ Published(i, value)
      BY <1>3, <2>2 DEF Staged, Published, DeployStages, RetireStages, OneStages
    <2>6. Well(i, file, value, faults)
      BY <1>3, <2>2, <2>4, <2>5 DEF Well
    <2> QED
      BY <1>5, <2>6, Going DEF i, NoFault
  <1>6. CASE Fault /\ Goes(t, [j EXCEPT !.at = After("collide"), !.quiet = FALSE])
    <2> DEFINE i == [j EXCEPT !.at = After("collide"), !.quiet = FALSE]
    <2>1. After("collide") = "list" /\ "list" \in Stages
      BY DEF After, Stages
    <2>2. /\ i \in Job /\ i.op = j.op /\ i.flow = j.flow /\ i.dag = j.dag /\ i.store = j.store
          /\ i.looked = j.looked /\ i.saw = j.saw /\ i.at = "list" /\ i.quiet = FALSE
      BY <1>2, <2>1 DEF Job
    <2> HIDE DEF i
    <2>3. faults' \in Nat /\ faults <= faults'
      BY <1>1, <1>6 DEF Fault
    <2>4. \A k \in Local[i.flow] : Known(i, faults, k)
      BY <1>1, <1>3, <2>2 DEF Looked, Known
    <2>5. j.saw \notin Flows \ {j.flow}
      BY <1>1, <1>3 DEF Looked, DeployStages
    <2>6. Looked(i, faults)
      BY <2>2, <2>4, <2>5 DEF Looked
    <2>7. Looked(i, faults')
      BY <1>1, <2>3, <2>6, MoreFaults
    <2>8. Staged(i)
      BY <1>3, <2>2 DEF Staged, DeployStages, RetireStages, OneStages
    <2>9. Well(i, file, value, faults')
      BY <2>2, <2>7, <2>8 DEF Well
    <2> QED
      BY <1>6, <2>9, Going DEF i
  <1> QED
    BY <1>4, <1>5, <1>6 DEF Collide

\* A store that is synced is left for the other one, or for the file.
LEMMA SyncedWell ==
    ASSUME NEW fl, NEW val, NEW val2, NEW n \in Nat, NEW m \in Nat, n <= m,
           NEW j, Well(j, fl, val, n), j.at \in {"list", "put"}, NEW i \in Job,
           i.op = j.op, i.flow = j.flow, i.dag = j.dag, i.looked = j.looked, i.saw = j.saw,
           i.at = (IF j.store = "variables" THEN "list" ELSE "write"),
           i.store = (IF j.store = "variables" THEN "connections" ELSE "variables"),
           i.quiet => j.quiet,
           i.quiet => /\ \A k \in ToSync(j) : val2[k] = j.dag
                      /\ \A k \in Keys : val2[k] \in {val[k], j.dag}
    PROVE  Well(i, fl, val2, m)
  <1>1. /\ j \in Job /\ Staged(j) /\ Looked(j, m) /\ j.op = "deploy" /\ j.flow \in Flows
        /\ j.quiet => Published(j, val)
    BY MoreFaults DEF Well, Staged, DeployStages
  <1>2. Local[j.flow] \subseteq Keys /\ Keys = Variables \cup Connections
    BY <1>1, PublishAssumption DEF Keys
  <1>3. j.store = "variables" \/ j.store = "connections"
    BY <1>1 DEF Job
  <1>4. i.at \in {"list", "write"}
    BY <1>3
  <1>5. Staged(i)
    BY <1>1, <1>4 DEF Staged, DeployStages, RetireStages, OneStages
  <1>6. /\ \A k \in Local[i.flow] : Known(i, m, k)
        /\ i.saw \notin Flows \ {i.flow}
    BY <1>1 DEF Looked, Known, DeployStages
  <1>7. Looked(i, m)
    BY <1>4, <1>6 DEF Looked
  <1>8. ASSUME i.quiet PROVE Published(i, val2)
    <2>1. CASE j.store = "variables"
      <3>1. i.at = "list"
        BY <2>1
      <3>2. \A k \in Local[j.flow] \cap Variables : val2[k] = j.dag
        BY <1>8, <2>1 DEF ToSync, KeysOf
      <3> QED
        BY <3>1, <3>2 DEF Published
    <2>2. CASE j.store = "connections"
      <3>1. i.at = "write"
        BY <2>2
      <3>2. \A k \in Local[j.flow] \cap Connections : val2[k] = j.dag
        BY <1>8, <2>2 DEF ToSync, KeysOf
      <3>3. \A k \in Local[j.flow] \cap Variables : val[k] = j.dag
        BY <1>1, <1>8, <2>2 DEF Published
      <3>4. \A k \in Local[j.flow] : val2[k] = j.dag
        BY <1>2, <1>8, <3>2, <3>3
      <3> QED
        BY <3>1, <3>4 DEF Published
    <2> QED
      BY <1>3, <2>1, <2>2
  <1> QED
    BY <1>1, <1>5, <1>7, <1>8 DEF Well

LEMMA Listed ==
    ASSUME Good, NEW t \in Threads, List(t)
    PROVE  Good'
  <1> DEFINE j == job[t]
             next == NextStore(j, "list", After("sync"))
             listed == [j EXCEPT !.at = "put", !.todo = ToSync(j)]
  <1>1. j.at = "list" /\ faults \in Nat
    BY DEF List, Busy, Good, TypeOK
  <1>2. Well(j, file, value, faults) /\ j \in Job
    BY <1>1, AtStage DEF Stages, Good
  <1>3. /\ j.op = "deploy" /\ j.flow \in Flows /\ Looked(j, faults)
        /\ j.quiet => Published(j, value)
    BY <1>1, <1>2 DEF Well, Staged, DeployStages
  <1>4. ToSync(j) \subseteq Keys
    BY <1>3, PublishAssumption DEF ToSync
  <1>5. CASE ToSync(j) = {} /\ Goes(t, next) /\ NoFault
    <2>1. After("sync") = "write" /\ "write" \in Stages /\ "list" \in Stages
      BY DEF After, Stages
    <2>2. /\ next \in Job /\ next.op = j.op /\ next.flow = j.flow /\ next.dag = j.dag
          /\ next.looked = j.looked /\ next.saw = j.saw /\ next.quiet = j.quiet
          /\ next.at = (IF j.store = "variables" THEN "list" ELSE "write")
          /\ next.store = (IF j.store = "variables" THEN "connections" ELSE "variables")
      BY <1>2, <2>1 DEF NextStore, Job
    <2> HIDE DEF next
    <2>3. Well(next, file, value, faults)
      BY <1>1, <1>2, <1>5, <2>2, SyncedWell
    <2> QED
      BY <1>5, <2>3, Going DEF NoFault
  <1>6. CASE NoFault /\ Goes(t, [listed EXCEPT !.exists = {k \in ToSync(j) : value[k] # Absent}])
    <2> DEFINE i == [listed EXCEPT !.exists = {k \in ToSync(j) : value[k] # Absent}]
    <2>1. /\ i \in Job /\ i.op = j.op /\ i.flow = j.flow /\ i.dag = j.dag /\ i.store = j.store
          /\ i.looked = j.looked /\ i.saw = j.saw /\ i.quiet = j.quiet /\ i.at = "put"
          /\ i.todo = ToSync(j) /\ i.exists = {k \in ToSync(j) : value[k] # Absent}
      BY <1>2, <1>4 DEF Job, Stages
    <2> HIDE DEF i
    <2>2. ToSync(i) = ToSync(j)
      BY <2>1 DEF ToSync
    <2>3. Looked(i, faults)
      BY <1>1, <1>3, <2>1, <2>2 DEF Looked, Known, DeployStages
    <2>4. i.quiet => Published(i, value)
      BY <1>1, <1>3, <2>1, <2>2 DEF Published
    <2>5. Staged(i)
      BY <1>3, <2>1 DEF Staged, DeployStages, RetireStages, OneStages
    <2>6. Well(i, file, value, faults)
      BY <1>3, <2>1, <2>3, <2>4, <2>5 DEF Well
    <2> QED
      BY <1>6, <2>6, Going DEF i, NoFault
  <1>7. CASE Fault /\ Goes(t, [listed EXCEPT !.exists = {}, !.quiet = FALSE])
    <2> DEFINE i == [listed EXCEPT !.exists = {}, !.quiet = FALSE]
    <2>1. /\ i \in Job /\ i.op = j.op /\ i.flow = j.flow /\ i.dag = j.dag /\ i.store = j.store
          /\ i.looked = j.looked /\ i.saw = j.saw /\ i.quiet = FALSE /\ i.at = "put"
          /\ i.todo = ToSync(j)
      BY <1>2, <1>4 DEF Job, Stages
    <2> HIDE DEF i
    <2>2. ToSync(i) = ToSync(j)
      BY <2>1 DEF ToSync
    <2>3. Looked(i, faults)
      BY <1>1, <1>3, <2>1, <2>2 DEF Looked, Known, DeployStages
    <2>4. faults' \in Nat /\ faults <= faults'
      BY <1>1, <1>7 DEF Fault
    <2>5. Looked(i, faults')
      BY <1>1, <2>3, <2>4, MoreFaults
    <2>6. Staged(i)
      BY <1>3, <2>1 DEF Staged, DeployStages, RetireStages, OneStages
    <2>7. Well(i, file, value, faults')
      BY <1>3, <2>1, <2>5, <2>6 DEF Well
    <2> QED
      BY <1>7, <2>7, Going DEF i
  <1> QED
    BY <1>5, <1>6, <1>7 DEF List

\* The job after key k has been tried.
LEMMA PutWell ==
    ASSUME NEW fl, NEW val, NEW val2, NEW n \in Nat, NEW m \in Nat, n <= m,
           NEW j, Well(j, fl, val, n), j.at = "put", NEW k \in j.todo,
           NEW i \in Job,
           i.op = j.op, i.flow = j.flow, i.dag = j.dag, i.looked = j.looked, i.saw = j.saw,
           IF j.todo \ {k} = {}
           THEN /\ i.at = (IF j.store = "variables" THEN "list" ELSE "write")
                /\ i.store = (IF j.store = "variables" THEN "connections" ELSE "variables")
           ELSE i.at = "put" /\ i.store = j.store /\ i.todo = j.todo \ {k} /\ i.exists = j.exists,
           i.quiet => j.quiet,
           i.quiet => val2[k] = j.dag /\ \A key \in Keys \ {k} : val2[key] = val[key]
    PROVE  Well(i, fl, val2, m)
  <1>1. /\ j \in Job /\ Staged(j) /\ Looked(j, n) /\ j.op = "deploy" /\ j.flow \in Flows
        /\ j.quiet => Published(j, val)
    BY DEF Well, Staged, DeployStages
  <1>2. j.todo \subseteq ToSync(j) /\ ToSync(j) \subseteq Keys /\ ToSync(j) \subseteq Local[j.flow]
        /\ ToSync(j) \subseteq KeysOf(j.store)
    BY <1>1, PublishAssumption DEF Looked, ToSync
  <1>3. ASSUME i.quiet PROVE \A key \in Keys : val2[key] \in {val[key], j.dag}
    BY <1>3
  <1>4. ASSUME i.quiet PROVE \A key \in ToSync(j) \ (j.todo \ {k}) : val2[key] = j.dag
    <2>1. \A key \in ToSync(j) \ j.todo : val[key] = j.dag
      BY <1>1, <1>4 DEF Published
    <2> QED
      BY <1>2, <1>4, <2>1
  <1>5. CASE j.todo \ {k} = {}
    <2>1. i.quiet => \A key \in ToSync(j) : val2[key] = j.dag
      BY <1>4, <1>5
    <2>2. /\ i.at = (IF j.store = "variables" THEN "list" ELSE "write")
          /\ i.store = (IF j.store = "variables" THEN "connections" ELSE "variables")
      BY <1>5
    <2> QED
      BY <1>3, <2>1, <2>2, SyncedWell
  <1>6. CASE j.todo \ {k} # {}
    <2>1. i.at = "put" /\ i.store = j.store /\ i.todo = j.todo \ {k} /\ i.exists = j.exists
      BY <1>6
    <2>2. ToSync(i) = ToSync(j)
      BY <2>1 DEF ToSync
    <2>3. Looked(j, m)
      BY <1>1, MoreFaults
    <2>4. Looked(i, m)
      BY <1>2, <2>1, <2>2, <2>3 DEF Looked, Known, DeployStages
    <2>5. Staged(i)
      BY <1>1, <2>1 DEF Staged, DeployStages, RetireStages, OneStages
    <2>6. ASSUME i.quiet PROVE Published(i, val2)
      <3>1. \A key \in i.todo : key \in i.exists <=> val2[key] # Absent
        BY <1>1, <1>2, <2>1, <2>6 DEF Published
      <3>2. j.store = "connections" => \A key \in Local[j.flow] \cap Variables : val2[key] = j.dag
        <4>1. ASSUME j.store = "connections", NEW key \in Local[j.flow] \cap Variables PROVE val2[key] = j.dag
          <5>1. val[key] = j.dag
            BY <1>1, <2>6, <4>1 DEF Published
          <5>2. key \in Keys
            BY DEF Keys
          <5> QED
            BY <1>3, <2>6, <5>1, <5>2
        <4> QED
          BY <4>1
      <3> QED
        BY <1>4, <2>1, <2>2, <2>6, <3>1, <3>2 DEF Published
    <2> QED
      BY <1>1, <2>4, <2>5, <2>6 DEF Well
  <1> QED
    BY <1>5, <1>6

\* The same where nothing was pushed, and the job is not quiet for that.
LEMMA UnputWell ==
    ASSUME NEW fl, NEW val, NEW n \in Nat, NEW m \in Nat, n <= m,
           NEW j, Well(j, fl, val, n), j.at = "put", NEW k \in j.todo,
           NEW i \in Job, ~i.quiet,
           i.op = j.op, i.flow = j.flow, i.dag = j.dag, i.looked = j.looked, i.saw = j.saw,
           IF j.todo \ {k} = {}
           THEN /\ i.at = (IF j.store = "variables" THEN "list" ELSE "write")
                /\ i.store = (IF j.store = "variables" THEN "connections" ELSE "variables")
           ELSE i.at = "put" /\ i.store = j.store /\ i.todo = j.todo \ {k} /\ i.exists = j.exists
    PROVE  Well(i, fl, val, m)
  BY PutWell

LEMMA PutGood ==
    ASSUME Good, NEW t \in Threads, NEW k \in Keys, Put(t, k)
    PROVE  Good'
  <1> DEFINE j == job[t]
             rest == j.todo \ {k}
             on == IF rest = {} THEN NextStore(j, "list", After("sync")) ELSE [j EXCEPT !.todo = rest]
  <1>1. j.at = "put" /\ faults \in Nat /\ k \in j.todo
    BY DEF Put, Busy, Good, TypeOK
  <1>2. Well(j, file, value, faults) /\ j \in Job
    BY <1>1, AtStage DEF Stages, Good
  <1>3. /\ j.op = "deploy"
        /\ j.quiet => Published(j, value)
    BY <1>1, <1>2 DEF Well, Staged, DeployStages
  <1>4. After("sync") = "write" /\ "write" \in Stages /\ "list" \in Stages
    BY DEF After, Stages
  <1>5. /\ on \in Job /\ on.op = j.op /\ on.flow = j.flow /\ on.dag = j.dag
        /\ on.looked = j.looked /\ on.saw = j.saw /\ on.quiet = j.quiet
    BY <1>2, <1>4 DEF NextStore, Job
  <1>6. IF j.todo \ {k} = {}
        THEN /\ on.at = (IF j.store = "variables" THEN "list" ELSE "write")
             /\ on.store = (IF j.store = "variables" THEN "connections" ELSE "variables")
        ELSE on.at = "put" /\ on.store = j.store /\ on.todo = j.todo \ {k} /\ on.exists = j.exists
    BY <1>1, <1>2, <1>4 DEF NextStore, Job
  <1> HIDE DEF on
  <1>7. CASE Sets(t, k, Marker(j), on) /\ NoFault
    <2> DEFINE i == [on EXCEPT !.touched = TRUE]
               val2 == [value EXCEPT ![k] = j.dag]
    <2>1. /\ i \in Job /\ i.op = j.op /\ i.flow = j.flow /\ i.dag = j.dag
          /\ i.looked = j.looked /\ i.saw = j.saw /\ i.quiet = j.quiet
          /\ i.at = on.at /\ i.store = on.store /\ i.todo = on.todo /\ i.exists = on.exists
      BY <1>5 DEF Job
    <2>2. val2[k] = j.dag /\ \A key \in Keys \ {k} : val2[key] = value[key]
      BY DEF Good, TypeOK
    <2> HIDE DEF i, val2
    <2>3. Well(i, file, val2, faults)
      BY <1>1, <1>2, <1>6, <2>1, <2>2, PutWell
    <2>4. j.dag \in Values /\ Marker(j) = j.dag
      BY <1>2 DEF Job, Values, Marker
    <2> QED
      BY <1>7, <2>3, <2>4, Setting DEF i, val2
  <1>8. CASE (k \in j.exists <=> value[k] = Absent) /\ Goes(t, on) /\ NoFault
    <2>1. ~on.quiet
      BY <1>1, <1>3, <1>5, <1>8 DEF Published
    <2>2. Well(on, file, value, faults)
      BY <1>1, <1>2, <1>5, <1>6, <2>1, UnputWell
    <2> QED
      BY <1>8, <2>2, Going DEF NoFault
  <1>9. CASE Fault /\ Goes(t, [on EXCEPT !.quiet = FALSE])
    <2> DEFINE i == [on EXCEPT !.quiet = FALSE]
    <2>1. /\ i \in Job /\ i.op = j.op /\ i.flow = j.flow /\ i.dag = j.dag
          /\ i.looked = j.looked /\ i.saw = j.saw /\ i.quiet = FALSE
          /\ i.at = on.at /\ i.store = on.store /\ i.todo = on.todo /\ i.exists = on.exists
      BY <1>5 DEF Job
    <2> HIDE DEF i
    <2>2. faults' \in Nat /\ faults <= faults'
      BY <1>1, <1>9 DEF Fault
    <2>3. Well(i, file, value, faults')
      BY <1>1, <1>2, <1>6, <2>1, <2>2, UnputWell
    <2> QED
      BY <1>9, <2>3, Going DEF i
  <1> QED
    BY <1>7, <1>8, <1>9 DEF Put, on

\* A step that changes the file of d.
LEMMA Filing ==
    ASSUME Good, NEW t \in Threads, NEW d \in Ids, NEW c \in Files, NEW j, NoFault,
           file' = [file EXCEPT ![d] = c], Disturbed(t, j), UNCHANGED <<value, requests>>,
           Well(j, file', value, faults)
    PROVE  Good'
  <1>1. file' \in [Ids -> Files] /\ faults' = faults /\ faults \in Nat
    BY DEF Good, TypeOK, NoFault
  <1>2. Well(j, file', value', faults') /\ faults' \in Nat /\ faults <= faults'
    BY <1>1
  <1>3. JobsWell' /\ job' \in [Threads -> Job \cup {Idle}]
    BY <1>2, Carried DEF Good
  <1> QED
    BY <1>1, <1>3 DEF Good, TypeOK

LEMMA Written ==
    ASSUME Good, NEW t \in Threads, Write(t)
    PROVE  Good'
  <1> DEFINE j == job[t]
  <1>1. j.at = "write" /\ faults \in Nat
    BY DEF Write, Busy, Good, TypeOK
  <1>2. Well(j, file, value, faults) /\ j \in Job
    BY <1>1, AtStage DEF Stages, Good
  <1>3. /\ j.op = "deploy" /\ j.flow \in Flows /\ j.dag \in Ids
        /\ j.quiet => Published(j, value)
    BY <1>1, <1>2 DEF Well, Staged, DeployStages, Job
  <1>4. CASE Goes(t, [Ends(j, "refused") EXCEPT !.saw = Hand]) /\ NoFault
    <2> DEFINE i == [Ends(j, "refused") EXCEPT !.saw = Hand]
    <2>1. /\ i \in Job /\ i.op = j.op /\ i.flow = j.flow /\ i.dag = j.dag /\ i.at = "refused"
          /\ i.saw = Hand /\ i.quiet = j.quiet
      <3>1. Blank \in [Keys -> Values \cup {Unseen}] /\ "refused" \in Stages /\ Hand \in Files
        BY DEF Blank, Stages, Files
      <3> QED
        BY <1>2, <3>1 DEF Ends, Job
    <2> HIDE DEF i
    <2>2. Staged(i) /\ Looked(i, faults)
      BY <1>3, <2>1 DEF Staged, Looked, DeployStages, RetireStages, OneStages
    <2>3. j.quiet => Published(i, value)
      BY <1>1, <1>3, <2>1 DEF Published
    <2>4. Well(i, file, value, faults)
      BY <1>3, <2>1, <2>2, <2>3 DEF Well
    <2> QED
      BY <1>4, <2>4, Going DEF i, NoFault
  <1>5. CASE /\ file' = [file EXCEPT ![j.dag] = j.flow]
             /\ Disturbed(t, Ends(j, "done"))
             /\ UNCHANGED <<value, requests>> /\ NoFault
    <2>1. j.quiet => \A k \in Local[j.flow] : value[k] = j.dag
      BY <1>1, <1>3 DEF Published
    <2>2. Well(Ends(j, "done"), file', value, faults)
      BY <1>2, <1>3, <2>1, EndedWell
    <2>3. j.flow \in Files
      BY <1>3 DEF Files
    <2> QED
      BY <1>3, <1>5, <2>2, <2>3, Filing
  <1> QED
    BY <1>2, <1>4, <1>5, Failing DEF Write

LEMMA OwnerGood ==
    ASSUME Good, NEW t \in Threads, Owner(t)
    PROVE  Good'
  <1> DEFINE j == job[t]
  <1>1. j.at = "owner" /\ faults \in Nat
    BY DEF Owner, Busy, Good, TypeOK
  <1>2. Well(j, file, value, faults) /\ j \in Job
    BY <1>1, AtStage DEF Stages, Good
  <1>3. /\ j.op \in {"purge", "retire"} /\ ~j.touched /\ j.store = "variables" /\ j.dag \in Ids
    BY <1>1, <1>2 DEF Well, Staged, RetireStages, Job
  <1>4. CASE MayRetire(j.flow, j.dag) /\ NoFault /\ Goes(t, [j EXCEPT !.at = "remove", !.saw = file[j.dag]])
    <2> DEFINE i == [j EXCEPT !.at = "remove", !.saw = file[j.dag]]
    <2>1. file[j.dag] \in Files /\ "remove" \in Stages
      BY <1>3 DEF Good, TypeOK, Stages
    <2>2. /\ i \in Job /\ i.op = j.op /\ i.flow = j.flow /\ i.dag = j.dag /\ i.store = j.store
          /\ i.saw = file[j.dag] /\ i.at = "remove"
      BY <1>2, <2>1 DEF Job
    <2> HIDE DEF i
    <2>3. Looked(i, faults)
      BY <1>4, <2>2 DEF Looked, MayRetire, DeployStages
    <2>4. Staged(i) /\ Unpublished(i, file, value)
      BY <1>3, <2>2 DEF Staged, Unpublished, DeployStages, RetireStages, OneStages
    <2>5. Well(i, file, value, faults)
      BY <1>3, <2>2, <2>3, <2>4 DEF Well
    <2> QED
      BY <1>4, <2>5, Going DEF i, NoFault
  <1>5. CASE Goes(t, Ends(j, "refused")) /\ NoFault
    <2>1. Well(Ends(j, "refused"), file, value, faults)
      BY <1>2, <1>3, EndedWell
    <2> QED
      BY <1>5, <2>1, Going DEF NoFault
  <1>6. CASE Fault /\ Goes(t, [Ends(j, "refused") EXCEPT !.quiet = FALSE])
    <2>1. Well([Ends(j, "refused") EXCEPT !.quiet = FALSE], file, value, faults')
      BY <1>2, <1>3, EndedWell
    <2> QED
      BY <1>6, <2>1, Going
  <1> QED
    BY <1>4, <1>5, <1>6 DEF Owner

LEMMA Removed ==
    ASSUME Good, NEW t \in Threads, Remove(t)
    PROVE  Good'
  <1> DEFINE j == job[t]
  <1>1. j.at = "remove" /\ faults \in Nat
    BY DEF Remove, Busy, Good, TypeOK
  <1>2. Well(j, file, value, faults) /\ j \in Job
    BY <1>1, AtStage DEF Stages, Good
  <1>3. /\ j.op \in {"purge", "retire"} /\ j.store = "variables" /\ j.dag \in Ids
    BY <1>1, <1>2 DEF Well, Staged, RetireStages, Job
  <1>4. CASE /\ file' = [file EXCEPT ![j.dag] = NoFile]
             /\ Disturbed(t, [j EXCEPT !.at = "airflow"])
             /\ UNCHANGED <<value, requests>> /\ NoFault
    <2> DEFINE i == [j EXCEPT !.at = "airflow"]
    <2>1. /\ i \in Job /\ i.op = j.op /\ i.flow = j.flow /\ i.dag = j.dag /\ i.store = j.store
          /\ i.at = "airflow"
      BY <1>2 DEF Job, Stages
    <2>2. file'[j.dag] = NoFile /\ NoFile \in Files
      BY <1>3, <1>4 DEF Good, TypeOK, Files
    <2>3. Disturbed(t, i)
      BY <1>4
    <2> HIDE DEF i
    <2>4. Staged(i) /\ Unpublished(i, file', value) /\ Looked(i, faults)
      BY <1>3, <2>1, <2>2 DEF Staged, Looked, Unpublished, DeployStages, RetireStages, OneStages
    <2>5. Well(i, file', value, faults)
      BY <1>3, <2>1, <2>4 DEF Well
    <2> QED
      BY <1>3, <1>4, <2>2, <2>3, <2>5, Filing
  <1> QED
    BY <1>2, <1>4, Failing DEF Remove

LEMMA AirflowGood ==
    ASSUME Good, NEW t \in Threads, Airflow(t)
    PROVE  Good'
  <1> DEFINE j == job[t]
  <1>1. j.at = "airflow" /\ faults \in Nat
    BY DEF Airflow, Busy, Good, TypeOK
  <1>2. Well(j, file, value, faults) /\ j \in Job
    BY <1>1, AtStage DEF Stages, Good
  <1>3. /\ j.op \in {"purge", "retire"} /\ j.store = "variables"
        /\ j.quiet /\ j.op = "purge" => file[j.dag] = NoFile
    BY <1>1, <1>2 DEF Well, Staged, RetireStages, Unpublished
  <1>4. CASE Goes(t, [j EXCEPT !.at = "find"]) /\ NoFault
    <2> DEFINE i == [j EXCEPT !.at = "find"]
    <2>1. /\ i \in Job /\ i.op = j.op /\ i.flow = j.flow /\ i.dag = j.dag /\ i.store = j.store
          /\ i.at = "find" /\ i.quiet = j.quiet
      BY <1>2 DEF Job, Stages
    <2> HIDE DEF i
    <2>2. Staged(i) /\ Looked(i, faults) /\ (i.quiet /\ i.op = "purge" => Unpublished(i, file, value))
      BY <1>3, <2>1 DEF Staged, Looked, Unpublished, DeployStages, RetireStages, OneStages
    <2>3. Well(i, file, value, faults)
      BY <1>3, <2>1, <2>2 DEF Well
    <2> QED
      BY <1>4, <2>3, Going DEF i, NoFault
  <1> QED
    BY <1>2, <1>4, Failing DEF Airflow

\* A store that is purged is left for the other one, or for the answer.
LEMMA PurgedWell ==
    ASSUME NEW fl, NEW val, NEW val2, NEW n \in Nat, NEW m \in Nat, n <= m,
           NEW j, Well(j, fl, val, n), j.at \in {"find", "drop"},
           j.quiet /\ j.op = "purge" =>
               /\ \A k \in KeysOf(j.store) : val2[k] # j.dag
               /\ j.store = "connections" => \A k \in Variables : val2[k] # j.dag
    PROVE  /\ Well(Purged(j), fl, val2, m)
           /\ Well([Purged(j) EXCEPT !.touched = TRUE], fl, val2, m)
           /\ Purged(j).quiet = j.quiet
  <1>1. /\ j \in Job /\ j.op \in {"purge", "retire"}
        /\ j.quiet /\ j.op = "purge" => fl[j.dag] = NoFile
    BY DEF Well, Staged, RetireStages, Unpublished
  <1>2. CASE j.op = "retire" \/ j.store = "connections"
    <2>1. j.quiet /\ j.op = "purge" => \A k \in Keys : val2[k] # j.dag
      BY <1>2 DEF Keys, KeysOf
    <2>2. Well(Ends(j, "done"), fl, val2, m) /\ Well([Ends(j, "done") EXCEPT !.touched = TRUE], fl, val2, m)
      BY <1>1, <2>1, EndedWell
    <2>3. Ends(j, "done").quiet = j.quiet
      BY <1>1 DEF Ends, Job
    <2> QED
      BY <1>2, <2>2, <2>3 DEF Purged
  <1>3. CASE j.op = "purge" /\ j.store = "variables"
    <2> DEFINE i == [j EXCEPT !.store = "connections", !.at = "find", !.todo = {}]
               h == [i EXCEPT !.touched = TRUE]
    <2>1. Purged(j) = i
      BY <1>3 DEF Purged
    <2>2. /\ i \in Job /\ i.op = j.op /\ i.flow = j.flow /\ i.dag = j.dag /\ i.store = "connections"
          /\ i.at = "find" /\ i.quiet = j.quiet
      BY <1>1 DEF Job, Stages
    <2>3. /\ h \in Job /\ h.op = j.op /\ h.flow = j.flow /\ h.dag = j.dag /\ h.store = "connections"
          /\ h.at = "find" /\ h.quiet = j.quiet
      BY <2>2 DEF Job, Stages
    <2> HIDE DEF h, i
    <2>4. j.quiet => \A k \in Variables : val2[k] # j.dag
      BY <1>3 DEF KeysOf
    <2>5. Staged(i) /\ Looked(i, m) /\ Staged(h) /\ Looked(h, m)
      BY <1>1, <2>2, <2>3 DEF Staged, Looked, DeployStages, RetireStages, OneStages
    <2>6. j.quiet => Unpublished(i, fl, val2) /\ Unpublished(h, fl, val2)
      BY <1>1, <1>3, <2>2, <2>3, <2>4 DEF Unpublished
    <2>7. Well(i, fl, val2, m) /\ Well(h, fl, val2, m)
      BY <1>3, <2>2, <2>3, <2>5, <2>6 DEF Well
    <2> QED
      BY <2>1, <2>2, <2>7 DEF h
  <1> QED
    BY <1>1, <1>2, <1>3 DEF Job

LEMMA Found ==
    ASSUME Good, NEW t \in Threads, Find(t)
    PROVE  Good'
  <1> DEFINE j == job[t]
  <1>1. j.at = "find" /\ faults \in Nat
    BY DEF Find, Busy, Good, TypeOK
  <1>2. Well(j, file, value, faults) /\ j \in Job
    BY <1>1, AtStage DEF Stages, Good
  <1>3. /\ j.op \in {"purge", "retire"}
        /\ j.quiet /\ j.op = "purge" => Unpublished(j, file, value)
    BY <1>1, <1>2 DEF Well, Staged, RetireStages
  <1>4. CASE Owned(j) = {} /\ Goes(t, Purged(j)) /\ NoFault
    <2>1. \A k \in KeysOf(j.store) : value[k] # j.dag
      BY <1>4 DEF Owned
    <2>2. j.quiet /\ j.op = "purge" /\ j.store = "connections" => \A k \in Variables : value[k] # j.dag
      BY <1>1, <1>3 DEF Unpublished
    <2>3. faults <= faults
      BY <1>1
    <2>4. Well(Purged(j), file, value, faults)
      BY <1>1, <1>2, <2>1, <2>2, <2>3, PurgedWell
    <2> QED
      BY <1>4, <2>4, Going DEF NoFault
  <1>5. CASE NoFault /\ Goes(t, [j EXCEPT !.at = "drop", !.todo = Owned(j), !.looked = Seen(t, Owned(j))])
    <2> DEFINE i == [j EXCEPT !.at = "drop", !.todo = Owned(j), !.looked = Seen(t, Owned(j))]
    <2>1. Seen(t, Owned(j)) \in [Keys -> Values \cup {Unseen}]
      BY <1>2 DEF Seen, Good, TypeOK, Job
    <2>2. Owned(j) \subseteq Keys
      BY DEF Owned, KeysOf, Keys
    <2>3. /\ i \in Job /\ i.op = j.op /\ i.flow = j.flow /\ i.dag = j.dag /\ i.store = j.store
          /\ i.at = "drop" /\ i.quiet = j.quiet /\ i.todo = Owned(j) /\ i.looked = Seen(t, Owned(j))
      BY <1>2, <2>1, <2>2 DEF Job, Stages
    <2> HIDE DEF i
    <2>4. \A k \in i.todo : i.looked[k] = i.dag
      BY <2>2, <2>3 DEF Seen, Owned
    <2>5. Staged(i) /\ Looked(i, faults)
      BY <1>3, <2>3, <2>4 DEF Staged, Looked, DeployStages, RetireStages, OneStages
    <2>6. j.quiet /\ j.op = "purge" => Unpublished(i, file, value)
      BY <1>1, <1>3, <2>3 DEF Unpublished, Owned
    <2>7. Well(i, file, value, faults)
      BY <1>3, <2>3, <2>5, <2>6 DEF Well
    <2> QED
      BY <1>5, <2>7, Going DEF i, NoFault
  <1>6. CASE Fault /\ Goes(t, [Purged(j) EXCEPT !.quiet = FALSE])
    <2> DEFINE i == [j EXCEPT !.quiet = FALSE]
    <2>1. faults' \in Nat /\ faults <= faults'
      BY <1>1, <1>6 DEF Fault
    <2>2. i.quiet = FALSE /\ i.at = "find"
      BY <1>1, <1>2 DEF Job
    <2>3. Well(i, file, value, faults)
      BY <1>1, <1>2, Hushed
    <2>4. Purged(i) = [Purged(j) EXCEPT !.quiet = FALSE]
      BY <1>2 DEF Purged, Ends, Job
    <2> HIDE DEF i
    <2>5. Well(Purged(i), file, value, faults')
      BY <1>1, <2>1, <2>2, <2>3, PurgedWell
    <2> QED
      BY <1>6, <2>4, <2>5, Going
  <1> QED
    BY <1>4, <1>5, <1>6 DEF Find

LEMMA Dropped ==
    ASSUME Good, NEW t \in Threads, NEW k \in Keys, Drop(t, k)
    PROVE  Good'
  <1> DEFINE j == job[t]
             rest == j.todo \ {k}
             val2 == [value EXCEPT ![k] = Absent]
  <1>1. j.at = "drop" /\ faults \in Nat /\ k \in j.todo
    BY DEF Drop, Busy, Good, TypeOK
  <1>2. Well(j, file, value, faults) /\ j \in Job
    BY <1>1, AtStage DEF Stages, Good
  <1>3. /\ j.op \in {"purge", "retire"} /\ Looked(j, faults) /\ j.dag \in Ids
        /\ j.quiet /\ j.op = "purge" => Unpublished(j, file, value)
    BY <1>1, <1>2 DEF Well, Staged, RetireStages, Job
  <1>4. Absent # j.dag /\ Absent \in Values
    BY <1>3, PublishAssumption DEF Values
  <1>5. \A key \in Keys : val2[key] = IF key = k THEN Absent ELSE value[key]
    BY DEF Good, TypeOK
  <1>6. KeysOf(j.store) \subseteq Keys /\ Variables \subseteq Keys
    BY DEF KeysOf, Keys
  <1> HIDE DEF val2
  <1>7. ASSUME j.quiet, j.op = "purge"
        PROVE  /\ \A key \in KeysOf(j.store) : val2[key] = j.dag => key \in rest
               /\ j.store = "connections" => \A key \in Variables : val2[key] # j.dag
               /\ file[j.dag] = NoFile
    BY <1>1, <1>3, <1>4, <1>5, <1>6, <1>7 DEF Unpublished
  <1>8. CASE NoFault /\ rest = {} /\ Sets(t, k, Absent, Purged(j))
    <2>1. j.quiet /\ j.op = "purge" =>
              /\ \A key \in KeysOf(j.store) : val2[key] # j.dag
              /\ j.store = "connections" => \A key \in Variables : val2[key] # j.dag
      BY <1>7, <1>8
    <2>2. Well([Purged(j) EXCEPT !.touched = TRUE], file, val2, faults)
      BY <1>1, <1>2, <2>1, PurgedWell
    <2> QED
      BY <1>4, <1>8, <2>2, Setting DEF val2
  <1>9. CASE NoFault /\ rest # {} /\ Sets(t, k, Absent, [j EXCEPT !.todo = rest])
    <2> DEFINE i == [j EXCEPT !.todo = rest]
               h == [i EXCEPT !.touched = TRUE]
    <2>1. /\ h \in Job /\ h.op = j.op /\ h.flow = j.flow /\ h.dag = j.dag /\ h.store = j.store
          /\ h.at = "drop" /\ h.quiet = j.quiet /\ h.todo = rest /\ h.looked = j.looked
      BY <1>1, <1>2 DEF Job, Stages
    <2> HIDE DEF h
    <2>2. Staged(h) /\ Looked(h, faults)
      BY <1>1, <1>3, <2>1 DEF Staged, Looked, DeployStages, RetireStages, OneStages
    <2>3. j.quiet /\ j.op = "purge" => Unpublished(h, file, val2)
      BY <1>7, <2>1 DEF Unpublished
    <2>4. Well(h, file, val2, faults)
      BY <1>3, <2>1, <2>2, <2>3 DEF Well
    <2>5. Well([i EXCEPT !.touched = TRUE], file, val2, faults)
      BY <2>4 DEF h
    <2> HIDE DEF i
    <2> QED
      BY <1>4, <1>9, <2>5, Setting DEF val2, i
  <1> QED
    BY <1>2, <1>8, <1>9, Failing DEF Drop

LEMMA Got ==
    ASSUME Good, NEW t \in Threads, Get(t)
    PROVE  Good'
  <1> DEFINE j == job[t]
             k == CHOOSE key \in j.todo : TRUE
             next == IF j.op = "set" THEN "set one" ELSE "delete one"
  <1>1. j.at = "get" /\ faults \in Nat
    BY DEF Get, Busy, Good, TypeOK
  <1>2. Well(j, file, value, faults) /\ j \in Job
    BY <1>1, AtStage DEF Stages, Good
  <1>3. j.op \in {"set", "delete"} /\ j.todo # {} /\ ~j.touched /\ j.todo \subseteq Keys
    BY <1>1, <1>2 DEF Well, Staged, OneStages, Job
  <1>4. k \in j.todo /\ k = One(j)
    BY <1>3 DEF One
  <1> HIDE DEF k
  <1>5. ASSUME NEW how \in {"refused", "done"}, Goes(t, Ends(j, how)), NoFault PROVE Good'
    <2>1. Well(Ends(j, how), file, value, faults)
      BY <1>2, <1>3, EndedWell
    <2> QED
      BY <1>5, <2>1, Going DEF NoFault
  <1>6. CASE /\ value[k] = j.dag \/ (value[k] = Absent /\ j.op = "set")
             /\ Goes(t, [j EXCEPT !.at = next, !.looked = Seen(t, {k})]) /\ NoFault
    <2> DEFINE i == [j EXCEPT !.at = next, !.looked = Seen(t, {k})]
    <2>1. Seen(t, {k}) \in [Keys -> Values \cup {Unseen}] /\ next \in Stages /\ next \in {"set one", "delete one"}
      BY <1>2 DEF Seen, Good, TypeOK, Job, Stages
    <2> HIDE DEF next
    <2>2. /\ i \in Job /\ i.op = j.op /\ i.flow = j.flow /\ i.dag = j.dag /\ i.store = j.store
          /\ i.at = next /\ i.todo = j.todo /\ i.looked = Seen(t, {k}) /\ i.touched = j.touched
      BY <1>2, <2>1 DEF Job
    <2> HIDE DEF i
    <2>3. i.looked[k] = value[k] /\ One(i) = k
      BY <1>3, <1>4, <2>2 DEF Seen, One
    <2>4. Staged(i) /\ Looked(i, faults)
      BY <1>3, <1>6, <2>1, <2>2, <2>3 DEF Staged, Looked, DeployStages, RetireStages, OneStages
    <2>5. Well(i, file, value, faults)
      BY <1>3, <2>2, <2>4 DEF Well
    <2> QED
      BY <1>6, <2>5, Going DEF i, NoFault
  <1> QED
    BY <1>2, <1>5, <1>6, Failing DEF Get, k

LEMMA SetGood ==
    ASSUME Good, NEW t \in Threads, SetNow(t) \/ DeleteNow(t)
    PROVE  Good'
  <1> DEFINE j == job[t]
             k == CHOOSE key \in j.todo : TRUE
  <1>1. j.at \in {"set one", "delete one"} /\ faults \in Nat
    <2>1. SetNow(t) => j.at = "set one"
      BY DEF SetNow, Busy
    <2>2. DeleteNow(t) => j.at = "delete one"
      BY DEF DeleteNow, Busy
    <2>3. faults \in Nat
      BY DEF Good, TypeOK
    <2> HIDE DEF j
    <2> QED
      BY <2>1, <2>2, <2>3
  <1>2. Well(j, file, value, faults) /\ j \in Job
    BY <1>1, AtStage DEF Stages, Good
  <1>3. j.op \in {"set", "delete"} /\ j.todo # {} /\ j.todo \subseteq Keys
    BY <1>1, <1>2 DEF Well, Staged, OneStages, Job
  <1>4. k \in Keys
    BY <1>3
  <1> HIDE DEF k
  <1>5. ASSUME NEW v \in {Marker(j), Absent}, Sets(t, k, v, Ends(j, "done")), NoFault PROVE Good'
    <2> DEFINE val2 == [value EXCEPT ![k] = v]
    <2>1. Well([Ends(j, "done") EXCEPT !.touched = TRUE], file, val2, faults)
      BY <1>2, <1>3, EndedWell
    <2>2. v \in Values
      BY <1>2 DEF Values, Marker, Job
    <2> QED
      BY <1>4, <1>5, <2>1, <2>2, Setting
  <1>6. CASE Goes(t, Ends(j, "failed")) /\ NoFault
    <2>1. Well(Ends(j, "failed"), file, value, faults)
      BY <1>2, EndedWell
    <2> QED
      BY <1>6, <2>1, Going DEF NoFault
  <1> QED
    BY <1>2, <1>5, <1>6, Failing DEF SetNow, DeleteNow, k

LEMMA Answered ==
    ASSUME Good, NEW t \in Threads, Answer(t)
    PROVE  Good'
  BY Going DEF Answer

LEMMA Meddled ==
    ASSUME Good, Meddle
    PROVE  Good'
  <1>1. /\ file' \in [Ids -> Files] /\ value' \in [Keys -> Values] /\ requests' \in 0 .. MaxRequests
        /\ faults' = faults /\ faults \in Nat /\ faults <= faults
    BY PublishAssumption DEF Meddle, Good, TypeOK, Files, Values
  <1>2. ASSUME NEW u \in Threads PROVE job'[u] = Idle \/ Well(job'[u], file', value', faults')
    <2>1. CASE job[u] = Idle
      BY <2>1 DEF Meddle
    <2>2. CASE job[u] # Idle
      <3>1. job'[u] = [job[u] EXCEPT !.quiet = FALSE]
        BY <2>2 DEF Meddle
      <3>2. Well(job[u], file, value, faults)
        BY <2>2 DEF Good, JobsWell
      <3>3. Well([job[u] EXCEPT !.quiet = FALSE], file', value', faults)
        BY <1>1, <3>2, Hushed
      <3> QED
        BY <1>1, <3>1, <3>3
    <2> QED
      BY <2>1, <2>2
  <1>3. JobsWell'
    BY <1>2 DEF JobsWell
  <1>4. job' = [u \in Threads |-> job'[u]]
    BY DEF Meddle
  <1>5. \A u \in Threads : job'[u] \in Job \cup {Idle}
    BY <1>2 DEF Well
  <1> QED
    BY <1>1, <1>3, <1>4, <1>5 DEF Good, TypeOK

LEMMA GoodInit ==
    ASSUME Init
    PROVE  Good
  BY PublishAssumption DEF Init, Good, TypeOK, JobsWell

LEMMA GoodNext ==
    ASSUME Good, [Next]_vars
    PROVE  Good'
  <1>1. CASE UNCHANGED vars
    BY <1>1 DEF vars, Good, TypeOK, JobsWell
  <1>2. CASE Meddle
    BY <1>2, Meddled
  <1>3. ASSUME NEW t \in Threads,
               \E d \in Ids :
                  \/ \E f \in Flows : Deploy(t, f, d)
                  \/ \E f \in Flows \cup {Nobody}, op \in {"purge", "retire"} : Retire(t, f, d, op)
                  \/ \E k \in Keys : SetOne(t, d, k) \/ DeleteOne(t, d, k)
        PROVE  Good'
    BY <1>3, Asked
  <1>4. ASSUME NEW t \in Threads, Gate(t) \/ Collide(t) \/ List(t) \/ (\E k \in Keys : Put(t, k)) \/ Write(t)
        PROVE  Good'
    BY <1>4, Gated, Collided, Listed, PutGood, Written
  <1>5. ASSUME NEW t \in Threads,
               Owner(t) \/ Remove(t) \/ Airflow(t) \/ Find(t) \/ (\E k \in Keys : Drop(t, k))
        PROVE  Good'
    BY <1>5, OwnerGood, Removed, AirflowGood, Found, Dropped
  <1>6. ASSUME NEW t \in Threads, Get(t) \/ SetNow(t) \/ DeleteNow(t) \/ Answer(t)
        PROVE  Good'
    BY <1>6, Got, SetGood, Answered
  <1> QED
    BY <1>1, <1>2, <1>3, <1>4, <1>5, <1>6 DEF Next

LEMMA AlwaysGood == Spec => []Good
  BY GoodInit, GoodNext, PTL DEF Spec

-----------------------------------------------------------------------------
(* What follows in every state. *)

\* TypeOK: every job is a deploy, a retire or an edit at one of its stages.
THEOREM PublishTyped == Spec => []TypeOK
  <1>1. Good => TypeOK
    BY DEF Good
  <1> QED
    BY <1>1, AlwaysGood, PTL

\* OnlyTheWriteRefusesLate: no gate comes after a value has been pushed, and what the
\* write's own refusal leaves behind is complete and marked.
THEOREM OnlyTheWriteRefuses == Spec => []OnlyTheWriteRefusesLate
  <1>1. ASSUME Good PROVE OnlyTheWriteRefusesLate
    <2> SUFFICES ASSUME NEW t \in Threads, job[t].at = "refused", job[t].touched
                 PROVE  /\ job[t].op = "deploy" /\ job[t].saw = Hand
                        /\ job[t].quiet => \A k \in Local[job[t].flow] : value[k] = job[t].dag
      BY DEF OnlyTheWriteRefusesLate, Busy
    <2>1. Well(job[t], file, value, faults)
      BY <1>1, AtStage DEF Good, Stages
    <2>2. job[t].op = "deploy" /\ job[t].saw = Hand
      BY <2>1 DEF Well, Staged
    <2> QED
      BY <2>1, <2>2 DEF Well, Published
  <1> QED
    BY <1>1, AlwaysGood, PTL

\* DeployedHasItsValues: the values of a deploy nobody disturbed are there when it is done.
THEOREM DeploysHaveTheirValues == Spec => []DeployedHasItsValues
  <1>1. ASSUME Good PROVE DeployedHasItsValues
    <2> SUFFICES ASSUME NEW t \in Threads, job[t].at = "done", job[t].op = "deploy", job[t].quiet
                 PROVE  \A k \in Local[job[t].flow] : value[k] = job[t].dag
      BY DEF DeployedHasItsValues, Busy
    <2>1. Well(job[t], file, value, faults)
      BY <1>1, AtStage DEF Good, Stages
    <2> QED
      BY <2>1 DEF Well, Published
  <1> QED
    BY <1>1, AlwaysGood, PTL

\* UndeployLeavesNothing: nor file nor value is left by a purge nobody disturbed.
THEOREM UndeploysLeaveNothing == Spec => []UndeployLeavesNothing
  <1>1. ASSUME Good PROVE UndeployLeavesNothing
    <2> SUFFICES ASSUME NEW t \in Threads, job[t].at = "done", job[t].op = "purge", job[t].quiet
                 PROVE  file[job[t].dag] = NoFile /\ \A k \in Keys : value[k] # job[t].dag
      BY DEF UndeployLeavesNothing, Busy
    <2>1. Well(job[t], file, value, faults)
      BY <1>1, AtStage DEF Good, Stages
    <2> QED
      BY <2>1 DEF Well, Unpublished
  <1> QED
    BY <1>1, AlwaysGood, PTL

-----------------------------------------------------------------------------
(* What no step does. *)

\* In a step of u every other job stays as it is, or is no longer quiet.
LEMMA OneActs ==
    ASSUME TypeOK, NEW t \in Threads, NEW u \in Threads, NEW j,
           job' = [job EXCEPT ![u] = j] \/ Disturbed(u, j), Acts(t)
    PROVE  t = u
  BY DEF Acts, TypeOK, Disturbed

LEMMA NobodyActs ==
    ASSUME Meddle, NEW t \in Threads
    PROVE  ~Acts(t)
  BY DEF Meddle, Acts

\* The steps that change neither a file nor a value.
LEMMA Quietly ==
    ASSUME NEW t \in Threads,
           \/ Gate(t) \/ Collide(t) \/ List(t) \/ Owner(t) \/ Airflow(t) \/ Find(t) \/ Get(t) \/ Answer(t)
           \/ \E d \in Ids :
                \/ \E f \in Flows : Deploy(t, f, d)
                \/ \E f \in Flows \cup {Nobody}, op \in {"purge", "retire"} : Retire(t, f, d, op)
                \/ \E k \in Keys : SetOne(t, d, k) \/ DeleteOne(t, d, k)
    PROVE  UNCHANGED <<file, value>>
  <1>1. CASE Gate(t) \/ Collide(t) \/ List(t) \/ Owner(t)
    BY <1>1 DEF Gate, Collide, List, Owner, Goes
  <1>2. CASE Airflow(t) \/ Find(t) \/ Get(t) \/ Answer(t)
    BY <1>2 DEF Airflow, Find, Get, Answer, Fails, Goes
  <1>3. CASE \E d \in Ids :
                \/ \E f \in Flows : Deploy(t, f, d)
                \/ \E f \in Flows \cup {Nobody}, op \in {"purge", "retire"} : Retire(t, f, d, op)
                \/ \E k \in Keys : SetOne(t, d, k) \/ DeleteOne(t, d, k)
    BY <1>3 DEF Deploy, Retire, SetOne, DeleteOne, Request
  <1> QED
    BY <1>1, <1>2, <1>3

\* Whoever changes a value has seen it as its own or nobody's, or could not look.
LEMMA Changing ==
    ASSUME Good, NEW t \in Threads, NEW k \in Keys, Acts(t), value'[k] # value[k],
           NEW u \in Threads, NEW key \in Keys, NEW v, NEW j, Sets(u, key, v, j),
           \/ job[u].looked[key] \in {Absent, job[u].dag}
           \/ job[u].looked[key] = Unseen /\ job[u].op = "deploy" /\ faults > 0
    PROVE  \/ job[t].looked[k] \in {Absent, job[t].dag}
           \/ job[t].looked[k] = Unseen /\ job[t].op = "deploy" /\ faults > 0
  <1>1. t = u
    BY OneActs DEF Good, Sets
  <1>2. k = key
    BY DEF Sets, Good, TypeOK
  <1> QED
    BY <1>1, <1>2

\* ValuesOfOthersKept: no request overwrites or deletes what it has seen to be another's.
THEOREM OthersKeepTheirValues == Spec => ValuesOfOthersKept
  <1>1. ASSUME Good, [Next]_vars, NEW t \in Threads, NEW k \in Keys,
               Acts(t), value'[k] # value[k]
        PROVE  \/ job[t].looked[k] \in {Absent, job[t].dag}
               \/ job[t].looked[k] = Unseen /\ job[t].op = "deploy" /\ faults > 0
    <2>1. ASSUME NEW u \in Threads, NEW key \in Keys, Put(u, key)
          PROVE  \/ job[t].looked[k] \in {Absent, job[t].dag}
                 \/ job[t].looked[k] = Unseen /\ job[t].op = "deploy" /\ faults > 0
      <3>1. job[u].at = "put" /\ key \in job[u].todo /\ \E v, j : Sets(u, key, v, j)
        BY <1>1, <2>1 DEF Put, Busy, Goes
      <3>2. Well(job[u], file, value, faults)
        BY <1>1, <3>1, AtStage DEF Good, Stages
      <3>3. Known(job[u], faults, key) /\ job[u].op = "deploy"
        BY <3>1, <3>2 DEF Well, Looked, ToSync, Staged, DeployStages
      <3>4. PICK v, j : Sets(u, key, v, j)
        BY <3>1
      <3>5. \/ job[u].looked[key] \in {Absent, job[u].dag}
            \/ job[u].looked[key] = Unseen /\ job[u].op = "deploy" /\ faults > 0
        BY <3>3 DEF Known
      <3> QED
        BY <1>1, <3>4, <3>5, Changing
    <2>2. ASSUME NEW u \in Threads, NEW key \in Keys, Drop(u, key)
          PROVE  \/ job[t].looked[k] \in {Absent, job[t].dag}
                 \/ job[t].looked[k] = Unseen /\ job[t].op = "deploy" /\ faults > 0
      <3>1. job[u].at = "drop" /\ key \in job[u].todo /\ \E v, j : Sets(u, key, v, j)
        BY <1>1, <2>2 DEF Drop, Busy, Fails, Goes
      <3>2. Well(job[u], file, value, faults)
        BY <1>1, <3>1, AtStage DEF Good, Stages
      <3>3. job[u].looked[key] = job[u].dag
        BY <3>1, <3>2 DEF Well, Looked
      <3>4. PICK v, j : Sets(u, key, v, j)
        BY <3>1
      <3> QED
        BY <1>1, <3>3, <3>4, Changing
    <2>3. ASSUME NEW u \in Threads, SetNow(u) \/ DeleteNow(u)
          PROVE  \/ job[t].looked[k] \in {Absent, job[t].dag}
                 \/ job[t].looked[k] = Unseen /\ job[t].op = "deploy" /\ faults > 0
      <3>1. job[u].at \in {"set one", "delete one"} /\ \E v, j : Sets(u, One(job[u]), v, j)
        BY <1>1, <2>3 DEF SetNow, DeleteNow, Busy, Fails, Goes, One
      <3>2. Well(job[u], file, value, faults)
        BY <1>1, <3>1, AtStage DEF Good, Stages
      <3>3. job[u].looked[One(job[u])] \in {Absent, job[u].dag}
        BY <3>1, <3>2 DEF Well, Looked
      <3>4. One(job[u]) \in Keys
        BY <3>1, <3>2 DEF Well, Staged, Job, One, OneStages
      <3>5. PICK v, j : Sets(u, One(job[u]), v, j)
        BY <3>1
      <3> QED
        BY <1>1, <3>3, <3>4, <3>5, Changing
    <2>4. ASSUME NEW u \in Threads, Write(u) \/ Remove(u) PROVE UNCHANGED value
      BY <2>4 DEF Write, Remove, Fails, Goes
    <2>5. ~Meddle
      BY <1>1, NobodyActs
    <2>6. CASE UNCHANGED vars
      BY <1>1, <2>6 DEF vars
    <2> QED
      BY <1>1, <2>1, <2>2, <2>3, <2>4, <2>5, <2>6, Quietly DEF Next
  <1>2. ASSUME Good, [Next]_vars
        PROVE  \A t \in Threads, k \in Keys :
                   Acts(t) /\ value'[k] # value[k] /\ value[k] \notin {Absent, job[t].dag}
                   => \/ job[t].looked[k] \in {Absent, job[t].dag}
                      \/ job[t].looked[k] = Unseen /\ job[t].op = "deploy" /\ faults > 0
    BY <1>1, <1>2
  <1> QED
    BY <1>2, AlwaysGood, PTL DEF Spec, ValuesOfOthersKept

\* FilesOfOthersKept: no deploy and no queued retire replaces or deletes what it has seen
\* to be another's.
THEOREM OthersKeepTheirFiles == Spec => FilesOfOthersKept
  <1>1. ASSUME Good, [Next]_vars, NEW t \in Threads, NEW d \in Ids,
               Acts(t), file'[d] # file[d], job[t].flow # Nobody,
               file[d] \in (Flows \ {job[t].flow}) \cup {Hand}
        PROVE  job[t].saw # file[d]
    <2>1. ASSUME NEW u \in Threads, Write(u) PROVE job[t].saw # file[d]
      <3> DEFINE j == job[u]
      <3>1. j.at = "write" /\ file[j.dag] # Hand /\ file' = [file EXCEPT ![j.dag] = j.flow] /\ \E i : Disturbed(u, i)
        BY <1>1, <2>1 DEF Write, Busy, Fails, Goes
      <3>2. t = u
        BY <1>1, <3>1, OneActs DEF Good
      <3>3. d = j.dag
        BY <1>1, <3>1 DEF Good, TypeOK
      <3>4. Well(j, file, value, faults)
        BY <1>1, <3>1, AtStage DEF Good, Stages
      <3>5. j.saw \notin Flows \ {j.flow}
        BY <3>1, <3>4 DEF Well, Looked, DeployStages
      <3> QED
        BY <1>1, <3>1, <3>2, <3>3, <3>5
    <2>2. ASSUME NEW u \in Threads, Remove(u) PROVE job[t].saw # file[d]
      <3> DEFINE j == job[u]
      <3>1. j.at = "remove" /\ \E i : Disturbed(u, i)
        BY <1>1, <2>2 DEF Remove, Busy, Fails, Goes
      <3>2. t = u
        BY <1>1, <3>1, OneActs DEF Good
      <3>3. Well(j, file, value, faults)
        BY <1>1, <3>1, AtStage DEF Good, Stages
      <3>4. j.saw \in {j.flow, NoFile, Unattributed} /\ j.flow \in Flows
        BY <1>1, <3>1, <3>2, <3>3 DEF Well, Looked, Job
      <3> QED
        BY <1>1, <3>2, <3>4, PublishAssumption
    <2>3. ASSUME NEW u \in Threads,
                 (\E k \in Keys : Put(u, k)) \/ (\E k \in Keys : Drop(u, k)) \/ SetNow(u) \/ DeleteNow(u)
          PROVE  UNCHANGED file
      BY <2>3 DEF Put, Drop, SetNow, DeleteNow, Sets, Fails, Goes
    <2>4. ~Meddle
      BY <1>1, NobodyActs
    <2>5. CASE UNCHANGED vars
      BY <1>1, <2>5 DEF vars
    <2> QED
      BY <1>1, <2>1, <2>2, <2>3, <2>4, <2>5, Quietly DEF Next
  <1>2. ASSUME Good, [Next]_vars
        PROVE  \A t \in Threads, d \in Ids :
                   Acts(t) /\ file'[d] # file[d] /\ job[t].flow # Nobody
                      /\ file[d] \in (Flows \ {job[t].flow}) \cup {Hand}
                   => job[t].saw # file[d]
    BY <1>1, <1>2
  <1> QED
    BY <1>2, AlwaysGood, PTL DEF Spec, FilesOfOthersKept
=============================================================================
