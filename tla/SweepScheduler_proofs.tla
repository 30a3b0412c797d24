------------------------ MODULE SweepScheduler_proofs ------------------------
(* The timer and the sweeps, for any number of entries and of faults. *)
EXTENDS SweepScheduler, TLAPS

Callbacks == Entries \cup {"tick", "resolve", "continue"}

\* Where the result of a sweep is in the loop's queue.
Backs(q) == {i \in 1 .. Len(q) : q[i] \in {"resolve", "continue"}}

\* A tick is asked for while nothing is in flight, so it comes before any result, and
\* the timer that was set with it is not stopped before it.
TicksFirst ==
    \A i \in 1 .. Len(queue) : queue[i] = "tick" => timer /\ \A j \in Backs(queue) : i < j

\* A count of nothing is a count of nothing that was not yet to be heard of.
CountedWell ==
    Backs(queue) # {} /\ report = "none" =>
        \A e \in Entries \ (Unheard \cup late) : entry[e] # "pending"

\* The thread holds one entry at a time, and none when it rests.
HeldByThread ==
    /\ \A e \in Entries : entry[e] = "held" => thread = "run"
    /\ \A e, o \in Entries : entry[e] = "held" /\ entry[o] = "held" => e = o

SchedulerInv ==
    /\ TypeOK
    /\ InFlightIsOne
    /\ TicksFirst
    /\ thread # "idle" => timer
    /\ HeldByThread
    /\ CountedWell
    /\ TimerOutlivesWork

-----------------------------------------------------------------------------
(* The queue. *)

Queued(q, x) == \E i \in 1 .. Len(q) : q[i] = x

LEMMA Appended ==
    ASSUME NEW q \in Seq(Callbacks), NEW x \in Callbacks
    PROVE  /\ Append(q, x) \in Seq(Callbacks)
           /\ Len(q) \in Nat /\ Len(Append(q, x)) = Len(q) + 1
           /\ Append(q, x)[Len(q) + 1] = x
           /\ \A i \in 1 .. Len(q) : Append(q, x)[i] = q[i]
           /\ \A y : Queued(Append(q, x), y) <=> y = x \/ Queued(q, y)
  <1>1. /\ Append(q, x) \in Seq(Callbacks)
        /\ Len(q) \in Nat /\ Len(Append(q, x)) = Len(q) + 1
        /\ Append(q, x)[Len(q) + 1] = x
        /\ \A i \in 1 .. Len(q) : Append(q, x)[i] = q[i]
    OBVIOUS
  <1>2. ASSUME NEW y PROVE Queued(Append(q, x), y) <=> y = x \/ Queued(q, y)
    BY <1>1 DEF Queued
  <1> QED
    BY <1>1, <1>2

LEMMA Dequeued ==
    ASSUME NEW q \in Seq(Callbacks), q # <<>>
    PROVE  /\ Tail(q) \in Seq(Callbacks)
           /\ Len(q) \in Nat \ {0} /\ Len(Tail(q)) = Len(q) - 1
           /\ Head(q) = q[1] /\ q[1] \in Callbacks
           /\ \A i \in 1 .. Len(q) - 1 : Tail(q)[i] = q[i + 1]
           /\ \A y : Queued(q, y) <=> y = Head(q) \/ Queued(Tail(q), y)
  <1>1. /\ Tail(q) \in Seq(Callbacks)
        /\ Len(q) \in Nat \ {0} /\ Len(Tail(q)) = Len(q) - 1
        /\ Head(q) = q[1] /\ q[1] \in Callbacks
        /\ \A i \in 1 .. Len(q) - 1 : Tail(q)[i] = q[i + 1]
    OBVIOUS
  <1>2. ASSUME NEW y PROVE Queued(q, y) <=> y = Head(q) \/ Queued(Tail(q), y)
    <2>1. ASSUME NEW i \in 1 .. Len(q), q[i] = y PROVE y = Head(q) \/ Queued(Tail(q), y)
      <3>1. CASE i = 1
        BY <1>1, <2>1, <3>1
      <3>2. CASE i # 1
        <4>1. i - 1 \in 1 .. Len(q) - 1 /\ (i - 1) + 1 = i
          BY <1>1, <3>2
        <4>2. Tail(q)[i - 1] = y
          BY <1>1, <2>1, <4>1
        <4> QED
          BY <1>1, <4>1, <4>2 DEF Queued
      <3> QED
        BY <3>1, <3>2
    <2>2. ASSUME NEW i \in 1 .. Len(q) - 1, Tail(q)[i] = y PROVE Queued(q, y)
      <3>1. i + 1 \in 1 .. Len(q) /\ q[i + 1] = y
        BY <1>1, <2>2
      <3> QED
        BY <3>1 DEF Queued
    <2>3. y = Head(q) => Queued(q, y)
      <3>1. 1 \in 1 .. Len(q) /\ q[1] = Head(q)
        BY <1>1
      <3> QED
        BY <3>1 DEF Queued
    <2> QED
      BY <1>1, <2>1, <2>2, <2>3 DEF Queued
  <1> QED
    BY <1>1, <1>2

\* A result that is put in line is the only one.
LEMMA BackAppended ==
    ASSUME NEW q \in Seq(Callbacks), Backs(q) = {}, NEW x \in {"resolve", "continue"}
    PROVE  Backs(Append(q, x)) = {Len(q) + 1}
  <1>1. x \in Callbacks
    BY DEF Callbacks
  <1>2. \A i \in 1 .. Len(q) : Append(q, x)[i] \notin {"resolve", "continue"}
    BY <1>1, Appended DEF Backs
  <1> QED
    BY <1>1, <1>2, Appended DEF Backs

\* Anything else changes nothing about it.
LEMMA OtherAppended ==
    ASSUME NEW q \in Seq(Callbacks), NEW x \in Callbacks, x \notin {"resolve", "continue"}
    PROVE  Backs(Append(q, x)) = Backs(q)
  BY Appended DEF Backs

LEMMA OtherDequeued ==
    ASSUME NEW q \in Seq(Callbacks), q # <<>>, Head(q) \notin {"resolve", "continue"}
    PROVE  /\ \A i \in 1 .. Len(q) - 1 : i \in Backs(Tail(q)) <=> i + 1 \in Backs(q)
           /\ \A j \in Backs(q) : j - 1 \in Backs(Tail(q)) /\ j \in Nat
           /\ \A j \in Backs(Tail(q)) : j + 1 \in Backs(q) /\ j \in Nat
  BY Dequeued DEF Backs

\* The only result is taken from the queue.
LEMMA BackDequeued ==
    ASSUME NEW q \in Seq(Callbacks), q # <<>>, Head(q) \in {"resolve", "continue"},
           \A i, j \in Backs(q) : i = j
    PROVE  Backs(q) = {1} /\ Backs(Tail(q)) = {}
  <1>1. 1 \in Backs(q)
    BY Dequeued DEF Backs
  <1>2. Backs(q) = {1}
    BY <1>1
  <1>3. ASSUME NEW j \in Backs(Tail(q)) PROVE FALSE
    <2>1. j \in 1 .. Len(q) - 1 /\ q[j + 1] \in {"resolve", "continue"} /\ Len(q) \in Nat
      BY <1>3, Dequeued DEF Backs
    <2>2. j + 1 \in Backs(q) /\ j + 1 # 1
      BY <2>1 DEF Backs
    <2> QED
      BY <1>2, <2>2
  <1> QED
    BY <1>2, <1>3

LEMMA UnheardQueued == Unheard = waking \cup {e \in Entries : Queued(queue, e)}
  BY DEF Unheard, Queued

LEMMA Words ==
    ASSUME NEW e \in Entries
    PROVE  e \notin {"tick", "resolve", "continue"}
  BY SchedulerAssumption
-----------------------------------------------------------------------------
(* The steps. *)

LEMMA OneBack ==
    InFlightIsOne <=>
        /\ \A i, j \in Backs(queue) : i = j
        /\ inFlight <=> (thread # "idle" \/ Backs(queue) # {})
        /\ Backs(queue) # {} => thread = "idle"
  BY DEF InFlightIsOne, Backs

\* Requests, and what the sweep's thread does to one entry.
LEMMA EntrySteps ==
    ASSUME SchedulerInv, NEW e \in Entries,
           \/ Journal(e) \/ Stop(e) \/ Claim(e) \/ ClaimFails(e) \/ Release(e) \/ Finish(e) \/ Age(e)
    PROVE  SchedulerInv'
  <1>1. /\ UNCHANGED <<loop, thread, report, late>>
        /\ UNCHANGED <<queue, timer, inFlight>>
    BY DEF Journal, Stop, Claim, ClaimFails, Release, Finish, Age, loop, worker
  <1>2. TypeOK'
    BY SchedulerAssumption DEF SchedulerInv, TypeOK, States, Journal, Stop, Claim, ClaimFails, Release, Finish,
          Age, Fault, loop, worker
  <1>3. InFlightIsOne' /\ TicksFirst'
    BY <1>1 DEF SchedulerInv, InFlightIsOne, TicksFirst, Backs
  <1>4. (thread # "idle" => timer)'
    BY <1>1 DEF SchedulerInv
  <1>5. waking \subseteq waking' /\ Unheard' = waking' \cup (Unheard \ waking) \cup (Unheard \cap waking)
    <2>1. waking \subseteq waking'
      BY DEF Journal, Stop, Claim, ClaimFails, Release, Finish, Age
    <2> QED
      BY <1>1, <2>1 DEF Unheard
  <1>6. \A o \in Entries : o # e => entry'[o] = entry[o]
    BY DEF SchedulerInv, TypeOK, Journal, Stop, Claim, ClaimFails, Release, Finish, Age
  <1>7. /\ entry'[e] = "pending" => e \in waking' \/ entry[e] = "pending" \/ thread = "run"
        /\ entry'[e] = "held" => thread = "run"
        /\ entry'[e] = "held" => \A o \in Entries : entry[o] # "held"
    BY DEF SchedulerInv, HeldByThread, TypeOK, Journal, Stop, Claim, ClaimFails, Release, Finish, Age
  <1>8. HeldByThread'
    BY <1>1, <1>6, <1>7 DEF SchedulerInv, HeldByThread
  <1>9. CountedWell'
    <2> SUFFICES ASSUME Backs(queue) # {}, report = "none", NEW o \in Entries \ (Unheard \cup late)',
                        entry'[o] = "pending"
                 PROVE  FALSE
      BY <1>1 DEF CountedWell, Backs
    <2>1. thread = "idle"
      BY OneBack DEF SchedulerInv
    <2>2. o \notin Unheard \cup late /\ o \notin waking'
      BY <1>1, <1>5
    <2>3. entry[o] = "pending"
      BY <1>6, <1>7, <2>1, <2>2
    <2> QED
      BY <2>2, <2>3 DEF SchedulerInv, CountedWell
  <1>10. TimerOutlivesWork'
    <2> SUFFICES ASSUME NEW o \in Entries \ (Unheard \cup late)', entry'[o] \in {"pending", "held"}
                 PROVE  timer
      BY <1>1 DEF TimerOutlivesWork
    <2>1. o \notin Unheard \cup late /\ o \notin waking'
      BY <1>1, <1>5
    <2>2. entry[o] \in {"pending", "held"} \/ thread = "run"
      BY <1>6, <1>7, <2>1
    <2> QED
      BY <2>1, <2>2 DEF SchedulerInv, TimerOutlivesWork
  <1> QED
    BY <1>2, <1>3, <1>4, <1>8, <1>9, <1>10 DEF SchedulerInv

LEMMA SweepBegins ==
    ASSUME SchedulerInv, NEW S \in SUBSET Entries, SweepBegin(S)
    PROVE  SchedulerInv'
  <1>1. /\ UNCHANGED <<queue, timer, inFlight, waking, report, late, faults>> /\ thread = "start" /\ thread' = "run"
        /\ due' = S
    BY DEF SweepBegin, loop
  <1>2. timer /\ Backs(queue) = {}
    BY <1>1, OneBack DEF SchedulerInv
  <1>3. entry' \in [Entries -> States]
    BY DEF SweepBegin, SchedulerInv, TypeOK, States
  <1>4. TypeOK'
    BY <1>1, <1>3 DEF SchedulerInv, TypeOK
  <1>5. InFlightIsOne' /\ TicksFirst'
    BY <1>1 DEF SchedulerInv, InFlightIsOne, TicksFirst, Backs
  <1>6. Backs(queue)' = {}
    BY <1>1, <1>2 DEF Backs
  <1>7. HeldByThread'
    BY <1>1 DEF SweepBegin, HeldByThread, SchedulerInv, TypeOK
  <1> QED
    BY <1>1, <1>2, <1>4, <1>5, <1>6, <1>7 DEF SchedulerInv, CountedWell, TimerOutlivesWork

\* A sweep ends, with a report or with an error.
LEMMA SweepEnds ==
    ASSUME SchedulerInv, Report \/ \E e \in Entries : WriteFails(e)
    PROVE  SchedulerInv'
  <1>1. /\ UNCHANGED <<waking, timer, inFlight, late>> /\ queue' = Append(queue, "resolve")
        /\ thread = "run" /\ thread' = "idle" /\ due' = {} /\ report' \in {"none", "some", "raised"}
        /\ report' = "none" => UNCHANGED entry /\ PendingNow = {}
    BY DEF Report, WriteFails, SchedulerInv, HeldByThread
  <1>2. /\ entry' \in [Entries -> States] /\ faults' \in Nat
        /\ \A e \in Entries : entry'[e] # "held" /\ (entry'[e] = "pending" => entry[e] = "pending")
    <2>1. CASE Report
      BY <2>1 DEF Report, SchedulerInv, HeldByThread, TypeOK
    <2>2. ASSUME NEW e \in Entries, WriteFails(e)
          PROVE  /\ entry' \in [Entries -> States] /\ faults' \in Nat
                 /\ \A o \in Entries : entry'[o] # "held" /\ (entry'[o] = "pending" => entry[o] = "pending")
      BY <2>2 DEF WriteFails, SchedulerInv, HeldByThread, TypeOK, States, Fault
    <2> QED
      BY <2>1, <2>2
  <1>3. queue \in Seq(Callbacks) /\ "resolve" \in Callbacks
    BY DEF SchedulerInv, TypeOK, Callbacks
  <1>4. timer /\ inFlight /\ Backs(queue) = {}
    BY <1>1, OneBack DEF SchedulerInv
  <1>5. Backs(queue)' = {Len(queue) + 1}
    BY <1>1, <1>3, <1>4, BackAppended DEF Backs
  <1>6. queue' \in Seq(Callbacks) /\ Len(queue) \in Nat /\ Len(queue') = Len(queue) + 1
        /\ queue'[Len(queue) + 1] = "resolve" /\ \A i \in 1 .. Len(queue) : queue'[i] = queue[i]
    BY <1>1, <1>3, Appended
  <1>7. TypeOK'
    BY <1>1, <1>2, <1>6 DEF SchedulerInv, TypeOK, Callbacks
  <1>8. InFlightIsOne'
    BY <1>1, <1>4, <1>5, OneBack DEF InFlightIsOne, Backs
  <1>9. TicksFirst'
    BY <1>1, <1>4, <1>5, <1>6 DEF TicksFirst
  <1>10. CountedWell'
    BY <1>1 DEF CountedWell, PendingNow
  <1>11. TimerOutlivesWork'
    BY <1>1, <1>4 DEF TimerOutlivesWork
  <1> QED
    BY <1>1, <1>2, <1>7, <1>8, <1>9, <1>10, <1>11 DEF SchedulerInv, HeldByThread

LEMMA Wakes ==
    ASSUME SchedulerInv, NEW e \in Entries, Wake(e)
    PROVE  SchedulerInv'
  <1>1. /\ UNCHANGED <<entry, timer, inFlight, thread, due, report, late, faults>>
        /\ queue' = Append(queue, e) /\ waking' = waking \ {e}
    BY DEF Wake, worker
  <1>2. queue \in Seq(Callbacks) /\ e \in Callbacks /\ e \notin {"tick", "resolve", "continue"}
    BY Words DEF SchedulerInv, TypeOK, Callbacks
  <1>3. /\ queue' \in Seq(Callbacks) /\ Len(queue) \in Nat /\ Len(queue') = Len(queue) + 1
        /\ queue'[Len(queue) + 1] = e /\ \A i \in 1 .. Len(queue) : queue'[i] = queue[i]
        /\ \A y : Queued(queue', y) <=> y = e \/ Queued(queue, y)
    BY <1>1, <1>2, Appended
  <1>4. Backs(queue)' = Backs(queue)
    BY <1>1, <1>2, OtherAppended DEF Backs
  <1>5. TypeOK'
    BY <1>1, <1>3 DEF SchedulerInv, TypeOK, Callbacks
  <1>6. InFlightIsOne'
    BY <1>1, <1>4, OneBack DEF SchedulerInv, InFlightIsOne, Backs
  <1>7. TicksFirst'
    BY <1>1, <1>2, <1>3, <1>4 DEF SchedulerInv, TicksFirst
  <1>8. Unheard \subseteq Unheard'
    <2>1. Unheard' = waking' \cup {o \in Entries : Queued(queue', o)}
      BY UnheardQueued DEF Unheard, Queued
    <2> QED
      BY <1>1, <1>3, <2>1, UnheardQueued
  <1>9. CountedWell' /\ TimerOutlivesWork' /\ HeldByThread'
    BY <1>1, <1>4, <1>8 DEF SchedulerInv, CountedWell, TimerOutlivesWork, HeldByThread
  <1> QED
    BY <1>1, <1>5, <1>6, <1>7, <1>9 DEF SchedulerInv

\* What is taken from the queue, if it is no entry, leaves nobody unheard who was heard.
LEMMA StillUnheard ==
    ASSUME TypeOK, queue # <<>>, Head(queue) \notin Entries, waking' = waking,
           queue' = Tail(queue) \/ queue' = Append(Tail(queue), "continue")
    PROVE  Unheard' = Unheard
  <1>1. queue \in Seq(Callbacks) /\ "continue" \in Callbacks /\ "continue" \notin Entries
    BY SchedulerAssumption DEF TypeOK, Callbacks
  <1>2. Tail(queue) \in Seq(Callbacks) /\ \A e \in Entries : Queued(queue, e) <=> Queued(Tail(queue), e)
    BY <1>1, Dequeued
  <1>3. \A e \in Entries : Queued(queue', e) <=> Queued(Tail(queue), e)
    <2>1. CASE queue' = Tail(queue)
      BY <2>1
    <2>2. CASE queue' = Append(Tail(queue), "continue")
      <3>1. \A y : Queued(Append(Tail(queue), "continue"), y) <=> y = "continue" \/ Queued(Tail(queue), y)
        BY <1>1, <1>2, Appended
      <3> QED
        BY <1>1, <2>2, <3>1
    <2> QED
      BY <2>1, <2>2
  <1>4. Unheard' = waking' \cup {e \in Entries : Queued(queue', e)}
    BY DEF Unheard, Queued
  <1> QED
    BY <1>2, <1>3, <1>4, UnheardQueued

\* Ticks stay in front when the queue moves up.
LEMMA TicksMoveUp ==
    ASSUME NEW q \in Seq(Callbacks), q # <<>>, Head(q) \notin {"resolve", "continue"},
           \A i \in 1 .. Len(q) : q[i] = "tick" => timer /\ \A j \in Backs(q) : i < j
    PROVE  \A i \in 1 .. Len(Tail(q)) : Tail(q)[i] = "tick" => timer /\ \A j \in Backs(Tail(q)) : i < j
  <1> SUFFICES ASSUME NEW i \in 1 .. Len(Tail(q)), Tail(q)[i] = "tick"
               PROVE  timer /\ \A j \in Backs(Tail(q)) : i < j
    OBVIOUS
  <1>1. /\ Len(q) \in Nat \ {0} /\ Len(Tail(q)) = Len(q) - 1
        /\ \A k \in 1 .. Len(q) - 1 : Tail(q)[k] = q[k + 1]
    BY Dequeued
  <1>2. i \in Nat /\ i + 1 \in 1 .. Len(q) /\ q[i + 1] = "tick"
    BY <1>1
  <1>3. timer /\ \A j \in Backs(q) : i + 1 < j
    BY <1>2
  <1>4. \A j \in Backs(Tail(q)) : j \in Nat /\ j + 1 \in Backs(q)
    BY OtherDequeued
  <1> QED
    BY <1>2, <1>3, <1>4

LEMMA Ticks ==
    ASSUME SchedulerInv, Tick \/ TimerFires
    PROVE  SchedulerInv'
  <1>1. /\ UNCHANGED <<entry, waking, timer, due, report, late, faults>> /\ inFlight' = TRUE
        /\ thread' = IF inFlight THEN thread ELSE "start"
    BY DEF Tick, TimerFires, Begin
  <1>2. queue \in Seq(Callbacks)
    BY DEF SchedulerInv, TypeOK, Callbacks
  <1>3. CASE TimerFires
    <2>1. queue' = queue /\ timer /\ ~inFlight
      BY <1>3 DEF TimerFires
    <2>2. Backs(queue) = {} /\ thread = "idle"
      BY <2>1, OneBack DEF SchedulerInv
    <2>3. TypeOK' /\ TicksFirst' /\ HeldByThread' /\ CountedWell' /\ TimerOutlivesWork'
      BY <1>1, <2>1, <2>2 DEF SchedulerInv, TypeOK, TicksFirst, HeldByThread, CountedWell, TimerOutlivesWork,
            Backs, Unheard
    <2>4. InFlightIsOne'
      BY <1>1, <2>1, <2>2 DEF InFlightIsOne, Backs
    <2> QED
      BY <1>1, <2>1, <2>3, <2>4 DEF SchedulerInv
  <1>4. CASE Tick
    <2>1. queue # <<>> /\ Head(queue) = "tick" /\ queue' = Tail(queue)
      BY <1>4 DEF Tick
    <2>2. timer
      BY <1>2, <2>1, Dequeued DEF SchedulerInv, TicksFirst
    <2>3. Backs(queue) = {} <=> Backs(Tail(queue)) = {}
      <3>1. \A j \in Backs(queue) : j - 1 \in Backs(Tail(queue))
        BY <1>2, <2>1, OtherDequeued
      <3>2. \A j \in Backs(Tail(queue)) : j + 1 \in Backs(queue)
        BY <1>2, <2>1, OtherDequeued
      <3> QED
        BY <3>1, <3>2
    <2>4. \A i, j \in Backs(Tail(queue)) : i = j
      <3>1. \A j \in Backs(Tail(queue)) : j + 1 \in Backs(queue) /\ j \in Nat
        BY <1>2, <2>1, OtherDequeued
      <3>2. \A i, j \in Backs(queue) : i = j
        BY OneBack DEF SchedulerInv
      <3> TAKE i, j \in Backs(Tail(queue))
      <3>3. i + 1 = j + 1 /\ i \in Nat /\ j \in Nat
        BY <3>1, <3>2
      <3> QED
        BY <3>3
    <2>5. Backs(queue)' = Backs(Tail(queue))
      BY <2>1 DEF Backs
    <2>6. InFlightIsOne'
      <3>1. /\ inFlight <=> (thread # "idle" \/ Backs(queue) # {})
            /\ Backs(queue) # {} => thread = "idle"
        BY OneBack DEF SchedulerInv
      <3>2. \A i, j \in Backs(queue)' : i = j
        BY <2>4, <2>5
      <3>3. (thread # "idle" \/ Backs(queue) # {})' /\ (Backs(queue)' # {} => thread' = "idle")
        BY <1>1, <2>3, <2>5, <3>1
      <3> QED
        BY <1>1, <3>2, <3>3 DEF InFlightIsOne, Backs
    <2>7. TicksFirst'
      BY <1>1, <1>2, <2>1, TicksMoveUp DEF SchedulerInv, TicksFirst, Backs
    <2>8. Unheard' = Unheard
      BY <1>1, <2>1, StillUnheard, SchedulerAssumption DEF SchedulerInv
    <2>9. TypeOK'
      BY <1>1, <1>2, <2>1, Dequeued DEF SchedulerInv, TypeOK, Callbacks
    <2>10. HeldByThread' /\ CountedWell' /\ TimerOutlivesWork'
      <3>1. HeldByThread'
        BY <1>1, OneBack DEF SchedulerInv, HeldByThread
      <3>2. CountedWell'
        BY <1>1, <2>3, <2>5, <2>8 DEF SchedulerInv, CountedWell
      <3>3. TimerOutlivesWork'
        BY <1>1, <2>2 DEF TimerOutlivesWork
      <3> QED
        BY <3>1, <3>2, <3>3
    <2> QED
      BY <1>1, <2>2, <2>6, <2>7, <2>9, <2>10 DEF SchedulerInv
  <1> QED
    BY <1>3, <1>4

\* An entry leaves the queue, and wakes the timer.
LEMMA WakesUp ==
    ASSUME SchedulerInv, OnWake
    PROVE  SchedulerInv'
  <1> DEFINE q == Tail(queue)
             e == Head(queue)
  <1>1. /\ queue # <<>> /\ e \in Entries /\ timer' = TRUE
        /\ queue' = q \o (IF inFlight THEN <<>> ELSE <<"tick">>)
        /\ late' = IF inFlight /\ thread = "idle" THEN late \cup {e} ELSE late
        /\ UNCHANGED <<entry, waking, inFlight, thread, due, report, faults>>
    BY DEF OnWake, worker
  <1>2. queue \in Seq(Callbacks) /\ "tick" \in Callbacks
    BY DEF SchedulerInv, TypeOK, Callbacks
  <1>3. q \in Seq(Callbacks) /\ \A y : Queued(queue, y) <=> y = e \/ Queued(q, y)
    BY <1>1, <1>2, Dequeued
  <1>4. Head(queue) \notin {"resolve", "continue"}
    BY <1>1, Words
  <1>5. \A i \in 1 .. Len(q) : q[i] = "tick" => timer /\ \A j \in Backs(q) : i < j
    BY <1>1, <1>2, <1>4, TicksMoveUp DEF SchedulerInv, TicksFirst
  <1>6. (Backs(queue) = {} <=> Backs(q) = {}) /\ \A i, j \in Backs(q) : i = j
    <2>1. \A j \in Backs(queue) : j - 1 \in Backs(q)
      BY <1>1, <1>2, <1>4, OtherDequeued
    <2>2. \A j \in Backs(q) : j + 1 \in Backs(queue) /\ j \in Nat
      BY <1>1, <1>2, <1>4, OtherDequeued
    <2>3. \A i, j \in Backs(queue) : i = j
      BY OneBack DEF SchedulerInv
    <2>4. ASSUME NEW i \in Backs(q), NEW j \in Backs(q) PROVE i = j
      <3>1. i + 1 = j + 1 /\ i \in Nat /\ j \in Nat
        BY <2>2, <2>3
      <3> QED
        BY <3>1
    <2> QED
      BY <2>1, <2>2, <2>4
  <1>7. late \subseteq late' /\ late' \subseteq Entries
    BY <1>1 DEF SchedulerInv, TypeOK
  <1> HIDE DEF q, e
  <1>8. /\ queue' \in Seq(Callbacks) /\ Backs(queue)' = Backs(q)
        /\ \A o \in Entries : Queued(queue', o) <=> Queued(q, o)
        /\ TicksFirst'
    <2>1. CASE inFlight
      <3>1. queue' = q
        BY <1>1, <1>3, <2>1
      <3> QED
        BY <1>1, <1>3, <1>5, <3>1 DEF TicksFirst, Backs
    <2>2. CASE ~inFlight
      <3>1. queue' = Append(q, "tick")
        BY <1>1, <1>3, <2>2
      <3>2. Backs(q) = {}
        BY <1>6, <2>2, OneBack DEF SchedulerInv
      <3>3. Backs(queue)' = Backs(q)
        BY <1>2, <1>3, <3>1, OtherAppended DEF Backs
      <3>4. queue' \in Seq(Callbacks) /\ \A y : Queued(queue', y) <=> y = "tick" \/ Queued(q, y)
        BY <1>2, <1>3, <3>1, Appended
      <3>5. \A o \in Entries : Queued(queue', o) <=> Queued(q, o)
        BY <3>4, Words
      <3>6. TicksFirst'
        BY <1>1, <3>2, <3>3 DEF TicksFirst
      <3> QED
        BY <3>3, <3>4, <3>5, <3>6
    <2> QED
      BY <2>1, <2>2
  <1>9. InFlightIsOne'
    <2>1. /\ inFlight <=> (thread # "idle" \/ Backs(queue) # {})
          /\ Backs(queue) # {} => thread = "idle"
      BY OneBack DEF SchedulerInv
    <2>2. /\ \A i, j \in Backs(queue)' : i = j
          /\ (inFlight <=> (thread # "idle" \/ Backs(queue) # {}))'
          /\ Backs(queue)' # {} => thread' = "idle"
      BY <1>1, <1>6, <1>8, <2>1
    <2> QED
      BY <2>2 DEF InFlightIsOne, Backs
  <1>10. TypeOK'
    BY <1>1, <1>7, <1>8 DEF SchedulerInv, TypeOK, Callbacks
  <1>11. CountedWell'
    <2> SUFFICES ASSUME Backs(queue)' # {}, report = "none", NEW o \in Entries, o \notin Unheard', o \notin late',
                        entry[o] = "pending"
                 PROVE  FALSE
      BY <1>1 DEF CountedWell
    <2>1. Backs(queue) # {}
      BY <1>6, <1>8
    <2>2. inFlight /\ thread = "idle"
      BY <2>1, OneBack DEF SchedulerInv
    <2>3. o # e /\ o \notin late
      BY <1>1, <1>7, <2>2
    <2>4. Unheard' = waking' \cup {x \in Entries : Queued(queue', x)}
      BY DEF Unheard, Queued
    <2>5. o \notin Unheard
      BY <1>1, <1>3, <1>8, <2>3, <2>4, UnheardQueued
    <2> QED
      BY <2>1, <2>3, <2>5 DEF SchedulerInv, CountedWell
  <1>12. TimerOutlivesWork' /\ HeldByThread'
    BY <1>1 DEF SchedulerInv, TimerOutlivesWork, HeldByThread
  <1> QED
    BY <1>1, <1>8, <1>9, <1>10, <1>11, <1>12 DEF SchedulerInv

\* The result of a sweep moves on, or is there.
LEMMA ResultArrives ==
    ASSUME SchedulerInv, Resolve \/ Continue
    PROVE  SchedulerInv'
  <1>1. /\ queue # <<>> /\ Head(queue) \in {"resolve", "continue"}
        /\ UNCHANGED <<entry, waking, thread, due, report, late, faults>>
    BY DEF Resolve, Continue, worker
  <1>2. queue \in Seq(Callbacks) /\ "continue" \in Callbacks
    BY DEF SchedulerInv, TypeOK, Callbacks
  <1>3. Backs(queue) = {1} /\ Backs(Tail(queue)) = {}
    BY <1>1, <1>2, BackDequeued, OneBack DEF SchedulerInv
  <1>4. thread = "idle" /\ inFlight
    BY <1>3, OneBack DEF SchedulerInv
  <1>5. /\ Tail(queue) \in Seq(Callbacks) /\ Len(queue) \in Nat \ {0} /\ Len(Tail(queue)) = Len(queue) - 1
        /\ \A i \in 1 .. Len(queue) - 1 : Tail(queue)[i] = queue[i + 1]
    BY <1>1, <1>2, Dequeued
  <1>6. \A i \in 1 .. Len(Tail(queue)) : Tail(queue)[i] # "tick"
    <2> SUFFICES ASSUME NEW i \in 1 .. Len(Tail(queue)), Tail(queue)[i] = "tick" PROVE FALSE
      OBVIOUS
    <2>1. i + 1 \in 1 .. Len(queue) /\ queue[i + 1] = "tick" /\ i \in Nat /\ i > 0
      BY <1>5
    <2>2. i + 1 < 1
      BY <1>3, <2>1 DEF SchedulerInv, TicksFirst
    <2> QED
      BY <2>1, <2>2
  <1>7. Head(queue) \notin Entries
    BY <1>1, SchedulerAssumption
  <1>8. HeldByThread'
    BY <1>1 DEF SchedulerInv, HeldByThread
  <1>9. CASE Resolve
    <2>1. queue' = Append(Tail(queue), "continue") /\ timer' = timer /\ inFlight' = inFlight
      BY <1>9 DEF Resolve
    <2>2. Backs(queue)' = {Len(Tail(queue)) + 1}
      BY <1>2, <1>3, <1>5, <2>1, BackAppended DEF Backs
    <2>3. /\ queue' \in Seq(Callbacks) /\ Len(queue') = Len(Tail(queue)) + 1
          /\ \A i \in 1 .. Len(Tail(queue)) : queue'[i] = Tail(queue)[i]
          /\ queue'[Len(Tail(queue)) + 1] = "continue"
      BY <1>2, <1>5, <2>1, Appended
    <2>4. TicksFirst'
      <3>1. ASSUME NEW i \in 1 .. Len(queue') PROVE queue'[i] # "tick"
        <4>1. Len(Tail(queue)) \in Nat
          BY <1>5
        <4>2. i = Len(Tail(queue)) + 1 \/ i \in 1 .. Len(Tail(queue))
          BY <2>3, <4>1
        <4> QED
          BY <1>6, <2>3, <4>2
      <3> QED
        BY <3>1 DEF TicksFirst
    <2>5. InFlightIsOne'
      BY <1>1, <1>4, <2>1, <2>2 DEF InFlightIsOne, Backs
    <2>6. Unheard' = Unheard
      BY <1>1, <1>7, <2>1, StillUnheard DEF SchedulerInv
    <2>7. CountedWell' /\ TimerOutlivesWork'
      BY <1>1, <1>3, <2>1, <2>6 DEF SchedulerInv, CountedWell, TimerOutlivesWork
    <2>8. TypeOK'
      BY <1>1, <2>1, <2>3 DEF SchedulerInv, TypeOK, Callbacks
    <2> QED
      BY <1>1, <1>4, <1>8, <2>4, <2>5, <2>7, <2>8 DEF SchedulerInv
  <1>10. CASE Continue
    <2>1. queue' = Tail(queue) /\ timer' = (timer /\ report # "none") /\ inFlight' = FALSE
      BY <1>10 DEF Continue
    <2>2. Backs(queue)' = {}
      BY <1>3, <2>1 DEF Backs
    <2>3. TicksFirst' /\ CountedWell'
      BY <1>6, <2>1, <2>2 DEF TicksFirst, CountedWell
    <2>4. InFlightIsOne'
      BY <1>1, <1>4, <2>1, <2>2 DEF InFlightIsOne, Backs
    <2>5. Unheard' = Unheard
      BY <1>1, <1>7, <2>1, StillUnheard DEF SchedulerInv
    <2>6. ASSUME NEW e \in Entries \ (Unheard \cup late), entry[e] \in {"pending", "held"}
          PROVE  timer /\ report # "none"
      <3>1. entry[e] = "pending"
        BY <1>4, <2>6 DEF SchedulerInv, HeldByThread
      <3>2. timer
        BY <2>6 DEF SchedulerInv, TimerOutlivesWork
      <3>3. report # "none"
        BY <1>3, <2>6, <3>1 DEF SchedulerInv, CountedWell
      <3> QED
        BY <3>2, <3>3
    <2>7. TimerOutlivesWork'
      BY <1>1, <2>1, <2>5, <2>6 DEF TimerOutlivesWork
    <2>8. TypeOK'
      BY <1>1, <1>5, <2>1 DEF SchedulerInv, TypeOK, Callbacks
    <2> QED
      BY <1>1, <1>4, <1>8, <2>3, <2>4, <2>7, <2>8 DEF SchedulerInv
  <1> QED
    BY <1>9, <1>10

LEMMA Restarts ==
    ASSUME SchedulerInv, Restart
    PROVE  SchedulerInv'
  <1>1. /\ timer' = (\E e \in Entries : entry'[e] = "pending")
        /\ queue' = IF timer' THEN <<"tick">> ELSE <<>>
        /\ waking' = {} /\ inFlight' = FALSE /\ late' = {}
        /\ thread' = "idle" /\ due' = {} /\ report' = "none"
    BY DEF Restart
  <1>2. /\ entry' \in [Entries -> States] /\ \A e \in Entries : entry'[e] # "held" /\ faults' \in Nat
    BY DEF Restart, SchedulerInv, TypeOK, States, Fault
  <1>3. /\ queue' \in Seq(Callbacks) /\ \A i \in 1 .. Len(queue') : queue'[i] = "tick" /\ timer'
    <2>1. CASE timer'
      <3>1. queue' = <<"tick">> /\ "tick" \in Callbacks
        BY <1>1, <2>1 DEF Callbacks
      <3>2. queue' \in Seq(Callbacks) /\ Len(queue') = 1 /\ queue'[1] = "tick"
        BY <3>1
      <3>3. \A i \in 1 .. Len(queue') : i = 1
        BY <3>2
      <3> QED
        BY <2>1, <3>2, <3>3
    <2>2. CASE ~timer'
      <3>1. queue' = <<>>
        BY <1>1, <2>2
      <3>2. queue' \in Seq(Callbacks) /\ Len(queue') = 0
        BY <3>1
      <3> QED
        BY <3>2
    <2> QED
      BY <2>1, <2>2
  <1>4. Backs(queue)' = {}
    BY <1>3 DEF Backs
  <1>5. faults' \in Nat
    BY DEF Restart, Fault, SchedulerInv, TypeOK
  <1>6. TypeOK'
    BY <1>1, <1>2, <1>3, <1>5 DEF TypeOK, Callbacks
  <1>7. InFlightIsOne'
    BY <1>1, <1>4 DEF InFlightIsOne, Backs
  <1>8. TicksFirst' /\ CountedWell'
    BY <1>3, <1>4 DEF TicksFirst, CountedWell
  <1>9. HeldByThread' /\ TimerOutlivesWork'
    BY <1>1, <1>2 DEF HeldByThread, TimerOutlivesWork
  <1> QED
    BY <1>1, <1>6, <1>7, <1>8, <1>9 DEF SchedulerInv

-----------------------------------------------------------------------------

LEMMA InvInit ==
    ASSUME Init
    PROVE  SchedulerInv
  <1>1. queue = <<>> /\ Backs(queue) = {}
    BY DEF Init, Backs
  <1>2. TypeOK
    <2>1. <<>> \in Seq(Callbacks)
      OBVIOUS
    <2>2. [e \in Entries |-> "absent"] \in [Entries -> States]
      BY DEF States
    <2> QED
      BY <2>1, <2>2 DEF Init, TypeOK, Callbacks
  <1>3. InFlightIsOne /\ TicksFirst /\ CountedWell
    BY <1>1 DEF Init, InFlightIsOne, TicksFirst, CountedWell, Backs
  <1>4. HeldByThread /\ TimerOutlivesWork
    BY DEF Init, HeldByThread, TimerOutlivesWork
  <1> QED
    BY <1>2, <1>3, <1>4 DEF Init, SchedulerInv

LEMMA InvNext ==
    ASSUME SchedulerInv, [Next]_vars
    PROVE  SchedulerInv'
  <1>1. CASE UNCHANGED vars
    BY <1>1 DEF vars, loop, worker, SchedulerInv, TypeOK, InFlightIsOne, TicksFirst, CountedWell, HeldByThread,
          TimerOutlivesWork, Unheard, Backs
  <1>2. CASE Loop
    BY <1>2, WakesUp, Ticks, ResultArrives DEF Loop
  <1>3. CASE Sweeping
    BY <1>3, SweepBegins, SweepEnds, EntrySteps DEF Sweeping
  <1>4. CASE \E e \in Entries : Journal(e) \/ Wake(e) \/ Stop(e)
    BY <1>4, EntrySteps, Wakes
  <1>5. CASE \E e \in Entries : ClaimFails(e) \/ WriteFails(e) \/ Age(e)
    BY <1>5, EntrySteps, SweepEnds
  <1>6. CASE Restart
    BY <1>6, Restarts
  <1> QED
    BY <1>1, <1>2, <1>3, <1>4, <1>5, <1>6 DEF Next

LEMMA AlwaysInv == Spec => []SchedulerInv
  BY InvInit, InvNext, PTL DEF Spec

\* TypeOK: the loop, the timer and the thread keep their types.
THEOREM SchedulerTyped == Spec => []TypeOK
  <1>1. SchedulerInv => TypeOK
    BY DEF SchedulerInv
  <1> QED
    BY <1>1, AlwaysInv, PTL

\* InFlightIsOne: whoever starts a tick, there is one sweep at a time, and its result
\* reaches its tick.
THEOREM OneSweepAtATime == Spec => []InFlightIsOne
  <1>1. SchedulerInv => InFlightIsOne
    BY DEF SchedulerInv
  <1> QED
    BY <1>1, AlwaysInv, PTL

\* TimerOutlivesWork: waiting work keeps the timer on, unless its wake is still to be
\* heard, or was heard between a sweep's count and the end of its tick.
THEOREM TimerStaysOn == Spec => []TimerOutlivesWork
  <1>1. SchedulerInv => TimerOutlivesWork
    BY DEF SchedulerInv
  <1> QED
    BY <1>1, AlwaysInv, PTL
=============================================================================
