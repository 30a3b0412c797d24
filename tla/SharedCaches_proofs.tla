------------------------- MODULE SharedCaches_proofs -------------------------
(* What the caches of SharedCaches keep, for any number of threads, any time to *)
(* live, and any bounds.                                                        *)
EXTENDS SharedCaches, TLAPS

Calling(t) == job[t].op = "call"
Looking(t) == job[t].op \in {"refresh", "deploy"}
Loading(t) == job[t].op = "load"

\* A retry has, or will be given, a token issued after the rejection.
CallInv ==
    \A t \in Threads : Calling(t) =>
        /\ job[t].rejected <= issued
        /\ job[t].at = "token" /\ ~job[t].first => token = None \/ token > job[t].rejected
        /\ job[t].at \in {"send", "unauthorized"} /\ ~job[t].first => job[t].token > job[t].rejected
        /\ job[t].at = "unauthorized" => static \/ ~job[t].first

\* The index may be older than its time says, but by no more than a slow answer.
RecentInv ==
    /\ indexAt <= now
    /\ indexAt # None => indexAt <= index.time + Slow
    /\ \A t \in Threads : Looking(t) =>
        /\ job[t].began <= now
        /\ Fetching(t) => now <= job[t].began + Slow
        /\ job[t].at = "keep index" => job[t].began <= job[t].read.time
        /\ job[t].at = "keep time" => job[t].began <= index.time + Slow
        /\ job[t].at = "return" => job[t].began < index.time + TTL + Slow
        /\ job[t].at \in {"done", "refused"} => job[t].began < job[t].read.time + TTL + Slow

\* A refresh that keeps its word: it began after the installation, and no other fetch
\* has run beside it.
Reliable(t) == job[t].op = "refresh" /\ job[t].late /\ job[t].alone

\* Since then there has been nothing to keep, and nothing kept, that blocks.
Settled == promised \/ \E t \in Threads : Reliable(t) /\ job[t].at \in {"keep time", "return"}

ObeyInv ==
    /\ promised => installed
    /\ \A t \in Threads : Looking(t) =>
        /\ job[t].late => installed
        /\ Reliable(t) /\ Fetching(t) => \A u \in Threads \ {t} : ~Fetching(u)
        /\ Reliable(t) /\ job[t].at = "keep index" => ~Blocked(job[t].read)
        /\ job[t].op = "deploy" /\ job[t].late => promised
        /\ job[t].op = "deploy" /\ job[t].at = "refused" => ~job[t].late
    /\ Settled =>
        /\ ~Blocked(index)
        /\ \A t \in Threads : Looking(t) /\ job[t].at = "keep index" => ~Blocked(job[t].read)

Midway(t) == job[t].op = "load" /\ job[t].at \in {"hit", "keep operators"}

\* Nobody midway, the operators are at least as new as their signature.
LoadInv ==
    /\ \A t \in Threads :
        Loading(t) =>
            /\ job[t].signature <= disk
            /\ job[t].at \in {"keep signature", "keep operators"} => job[t].read >= job[t].signature
    /\ ~crossed =>
        /\ \A t, u \in Threads : Midway(t) /\ Midway(u) => t = u
        /\ (\A t \in Threads : Midway(t) => job[t].at = "hit") => operators >= signature
        /\ \A t \in Threads : Loading(t) =>
            /\ job[t].at = "keep operators" => signature = job[t].signature
            /\ job[t].at = "hit" => operators >= job[t].signature
            /\ job[t].at = "done" => job[t].read >= job[t].signature

-----------------------------------------------------------------------------
(* Types. *)

\* What a job is called, and where it is, tell its record.
LEMMA Shapes ==
    ASSUME TypeOK, NEW t \in Threads
    PROVE  /\ (job[t].op = "call" \/ job[t].at \in {"token", "send", "clear", "unauthorized"})
                => job[t] \in Call
           /\ (job[t].op \in {"refresh", "deploy"}
               \/ job[t].at \in {"fetch", "keep index", "keep time", "return", "refused"})
                => job[t] \in Lookup
           /\ (job[t].op = "load"
               \/ job[t].at \in {"check", "hit", "parse", "keep signature", "keep operators"})
                => job[t] \in Load
  <1>1. job[t] \in Call \cup Lookup \cup Load \cup {Idle}
    BY DEF TypeOK
  <1>2. CASE job[t] \in Call
    BY <1>2 DEF Call
  <1>3. CASE job[t] \in Lookup
    BY <1>3 DEF Lookup
  <1>4. CASE job[t] \in Load
    BY <1>4 DEF Load
  <1>5. CASE job[t] = Idle
    BY <1>5 DEF Idle
  <1> QED
    BY <1>1, <1>2, <1>3, <1>4, <1>5

\* A step that gives t the job j, and leaves the others theirs.
LEMMA GoesTyped ==
    ASSUME TypeOK, NEW t \in Threads, NEW j \in Call \cup Lookup \cup Load, Goes(t, j)
    PROVE  job' \in [Threads -> Call \cup Lookup \cup Load \cup {Idle}]
  BY DEF TypeOK, Goes

LEMMA CallTypes ==
    ASSUME TypeOK, NEW t \in Threads,
           StartCall(t) \/ EnsureToken(t) \/ Send(t) \/ ClearToken(t)
    PROVE  TypeOK'
  <1> USE DEF None
  <1>1. CASE StartCall(t)
    <2>1. [op |-> "call", at |-> "token", token |-> None, first |-> TRUE, rejected |-> None] \in Call
      BY DEF Call
    <2>2. job' \in [Threads -> Call \cup Lookup \cup Load \cup {Idle}]
      BY <1>1, <2>1, GoesTyped DEF StartCall
    <2> QED
      BY <1>1, <2>2, CachesAssumption DEF StartCall, Request, TypeOK, tokens, providers, registry
  <1>2. CASE EnsureToken(t)
    <2>1. job[t] \in Call
      BY <1>2, Shapes DEF EnsureToken, At
    <2>2. token \in Nat /\ issued \in Nat /\ token <= issued
      BY DEF TypeOK
    <2>3. \E j \in Call : Goes(t, j)
      <3>1. \A n \in Nat : [job[t] EXCEPT !.at = "send", !.token = n] \in Call
        BY <2>1 DEF Call
      <3>2. [job[t] EXCEPT !.at = "failed"] \in Call
        BY <2>1 DEF Call
      <3>3. CASE token # None /\ Goes(t, [job[t] EXCEPT !.at = "send", !.token = token])
        BY <2>2, <3>1, <3>3
      <3>4. CASE issued' = issued + 1 /\ Goes(t, [job[t] EXCEPT !.at = "send", !.token = issued'])
        <4>1. issued' \in Nat
          BY <2>2, <3>4
        <4>2. [job[t] EXCEPT !.at = "send", !.token = issued'] \in Call
          BY <3>1, <4>1
        <4> QED
          BY <3>4, <4>2
      <3>5. CASE Goes(t, [job[t] EXCEPT !.at = "failed"])
        BY <3>2, <3>5
      <3> QED
        BY <1>2, <3>3, <3>4, <3>5 DEF EnsureToken
    <2>4. job' \in [Threads -> Call \cup Lookup \cup Load \cup {Idle}]
      BY <2>3, GoesTyped
    <2>5. token' \in 0 .. issued' /\ issued' \in Nat /\ valid' \subseteq 1 .. issued'
      BY <1>2, <2>2 DEF EnsureToken, TypeOK
    <2>6. faults' \in 0 .. MaxFaults
      BY <1>2, CachesAssumption DEF EnsureToken, Fault, TypeOK
    <2> QED
      BY <1>2, <2>4, <2>5, <2>6 DEF EnsureToken, TypeOK, providers, registry
  <1>3. CASE Send(t)
    <2>1. job[t] \in Call
      BY <1>3, Shapes DEF Send, At
    <2>2. \E j \in Call : Goes(t, j)
      <3>1. \A s \in {"done", "failed", "unauthorized"} : [job[t] EXCEPT !.at = s] \in Call
        BY <2>1 DEF Call
      <3>2. [job[t] EXCEPT !.at = "clear", !.rejected = issued] \in Call
        BY <2>1 DEF Call, TypeOK
      <3> QED
        BY <1>3, <3>1, <3>2 DEF Send
    <2>3. job' \in [Threads -> Call \cup Lookup \cup Load \cup {Idle}]
      BY <2>2, GoesTyped
    <2>4. faults' \in 0 .. MaxFaults
      BY <1>3, CachesAssumption DEF Send, Fault, TypeOK
    <2> QED
      BY <1>3, <2>3, <2>4 DEF Send, TypeOK, tokens, providers, registry
  <1>4. CASE ClearToken(t)
    <2>1. job[t] \in Call
      BY <1>4, Shapes DEF ClearToken, At
    <2>2. [job[t] EXCEPT !.at = "token", !.first = FALSE] \in Call
      BY <2>1 DEF Call
    <2>3. job' \in [Threads -> Call \cup Lookup \cup Load \cup {Idle}]
      BY <1>4, <2>2, GoesTyped DEF ClearToken
    <2> QED
      BY <1>4, <2>3 DEF ClearToken, Cleared, TypeOK, providers, registry, bounds
  <1> QED
    BY <1>1, <1>2, <1>3, <1>4

LEMMA LookupTypes ==
    ASSUME TypeOK, NEW t \in Threads,
           \/ \E op \in {"refresh", "deploy"} : StartLookup(t, op)
           \/ Fetch(t) \/ KeepIndex(t) \/ KeepTime(t) \/ Return(t)
    PROVE  TypeOK'
  <1> USE DEF None
  <1>1. ASSUME NEW op \in {"refresh", "deploy"}, StartLookup(t, op)
        PROVE  TypeOK'
    <2> DEFINE start == [op |-> op, at |-> IF op = "deploy" /\ Fresh THEN "return" ELSE "fetch",
                         began |-> now, read |-> NoIndex,
                         late |-> IF op = "refresh" THEN installed ELSE promised,
                         alone |-> {u \in Threads \ {t} : Fetching(u)} = {}]
    <2>1. NoIndex \in Index
      BY CachesAssumption DEF NoIndex, Index
    <2>2. start \in Lookup
      BY <2>1 DEF Lookup, TypeOK
    <2>3. \A u \in Threads : Fetching(u) => [job[u] EXCEPT !.alone = FALSE] \in Lookup
      <3> SUFFICES ASSUME NEW u \in Threads, Fetching(u)
                   PROVE  [job[u] EXCEPT !.alone = FALSE] \in Lookup
        OBVIOUS
      <3>1. job[u] \in Lookup
        BY Shapes DEF Fetching
      <3> QED
        BY <3>1 DEF Lookup
    <2>4. \A u \in Threads :
            job'[u] = IF u = t THEN start
                      ELSE IF Fetching(u) /\ start.at = "fetch" THEN [job[u] EXCEPT !.alone = FALSE]
                      ELSE job[u]
      BY <1>1 DEF StartLookup
    <2>5. job' = [u \in Threads |-> job'[u]]
      BY <1>1 DEF StartLookup
    <2>6. \A u \in Threads : job'[u] \in Call \cup Lookup \cup Load \cup {Idle}
      <3> HIDE DEF start
      <3>1. \A u \in Threads : job[u] \in Call \cup Lookup \cup Load \cup {Idle}
        BY DEF TypeOK
      <3> QED
        BY <2>2, <2>3, <2>4, <3>1
    <2>7. job' \in [Threads -> Call \cup Lookup \cup Load \cup {Idle}]
      BY <2>5, <2>6
    <2> QED
      BY <1>1, <2>7, CachesAssumption DEF StartLookup, Request, TypeOK, tokens, providers, registry
  <1>2. CASE Fetch(t)
    <2>1. job[t] \in Lookup
      BY <1>2, Shapes DEF Fetch, At
    <2>2. \A i \in Index : [job[t] EXCEPT !.at = "keep index", !.read = i] \in Lookup
      BY <2>1 DEF Lookup
    <2>3. now \in 0 .. MaxTime /\ installed \in BOOLEAN
      BY DEF TypeOK
    <2>4. /\ [reached |-> TRUE, has |-> installed, time |-> now] \in Index
          /\ [NoIndex EXCEPT !.time = now] \in Index
      BY <2>3 DEF Index, NoIndex
    <2>5. \E j \in Lookup : Goes(t, j)
      <3>1. CASE Goes(t, [job[t] EXCEPT !.at = "keep index",
                                        !.read = [reached |-> TRUE, has |-> installed, time |-> now]])
        BY <2>2, <2>4, <3>1
      <3>2. CASE Goes(t, [job[t] EXCEPT !.at = "keep index", !.read = [NoIndex EXCEPT !.time = now]])
        BY <2>2, <2>4, <3>2
      <3> QED
        BY <1>2, <3>1, <3>2 DEF Fetch
    <2>6. job' \in [Threads -> Call \cup Lookup \cup Load \cup {Idle}]
      BY <2>5, GoesTyped
    <2>7. faults' \in 0 .. MaxFaults
      BY <1>2, CachesAssumption DEF Fetch, Fault, TypeOK
    <2> QED
      BY <1>2, <2>6, <2>7 DEF Fetch, TypeOK, tokens, providers, registry
  <1>3. CASE KeepIndex(t)
    <2>1. job[t] \in Lookup
      BY <1>3, Shapes DEF KeepIndex, At
    <2>2. job[t].read \in Index /\ [job[t] EXCEPT !.at = "keep time"] \in Lookup
      BY <2>1 DEF Lookup
    <2>3. job' \in [Threads -> Call \cup Lookup \cup Load \cup {Idle}]
      BY <1>3, <2>2, GoesTyped DEF KeepIndex
    <2> QED
      BY <1>3, <2>2, <2>3 DEF KeepIndex, TypeOK, tokens, registry, bounds
  <1>4. CASE KeepTime(t)
    <2>1. job[t] \in Lookup
      BY <1>4, Shapes DEF KeepTime, At
    <2>2. job[t].began \in 1 .. MaxTime /\ [job[t] EXCEPT !.at = "return"] \in Lookup
      BY <2>1 DEF Lookup
    <2>3. job' \in [Threads -> Call \cup Lookup \cup Load \cup {Idle}]
      BY <1>4, <2>2, GoesTyped DEF KeepTime
    <2>4. job[t].began \in 0 .. MaxTime
      BY <2>2, CachesAssumption
    <2> QED
      BY <1>4, <2>3, <2>4 DEF KeepTime, Stamp, TypeOK, tokens, registry, bounds
  <1>5. CASE Return(t)
    <2>1. job[t] \in Lookup /\ index \in Index
      BY <1>5, Shapes DEF Return, At, TypeOK
    <2>2. \A s \in {"done", "refused"} : [job[t] EXCEPT !.at = s, !.read = index] \in Lookup
      BY <2>1 DEF Lookup
    <2>3. \E j \in Lookup : Goes(t, j)
      BY <1>5, <2>2 DEF Return
    <2>4. job' \in [Threads -> Call \cup Lookup \cup Load \cup {Idle}]
      BY <2>3, GoesTyped
    <2>5. promised' \in BOOLEAN
      BY <1>5 DEF Return
    <2> QED
      BY <1>5, <2>4, <2>5 DEF Return, TypeOK, tokens, registry, bounds
  <1> QED
    BY <1>1, <1>2, <1>3, <1>4, <1>5

LEMMA LoadTypes ==
    ASSUME TypeOK, NEW t \in Threads,
           \/ StartLoad(t) \/ Check(t) \/ Hit(t) \/ Parse(t)
           \/ KeepSignature(t) \/ KeepOperators(t)
    PROVE  TypeOK'
  <1> USE DEF None
  <1> DEFINE Jobs == [Threads -> Call \cup Lookup \cup Load \cup {Idle}]
  <1>1. CASE StartLoad(t)
    <2>1. [op |-> "load", at |-> "check", signature |-> disk, read |-> None] \in Load
      BY DEF Load, TypeOK
    <2>2. job' \in Jobs
      BY <1>1, <2>1, GoesTyped DEF StartLoad
    <2> QED
      BY <1>1, <2>2, CachesAssumption DEF StartLoad, Request, TypeOK, tokens, providers, registry
  <1>2. CASE Check(t)
    <2>1. job[t] \in Load
      BY <1>2, Shapes DEF Check, At
    <2>2. \A s \in {"hit", "parse"} : [job[t] EXCEPT !.at = s] \in Load
      BY <2>1 DEF Load
    <2>3. \E j \in Load : Goes(t, j)
      BY <1>2, <2>2 DEF Check
    <2>4. job' \in Jobs
      BY <2>3, GoesTyped
    <2> QED
      BY <1>2, <2>4 DEF Check, Access, Between, TypeOK, tokens, providers, bounds
  <1>3. CASE Hit(t)
    <2>1. job[t] \in Load /\ operators \in Nat
      BY <1>3, Shapes DEF Hit, At, TypeOK
    <2>2. [job[t] EXCEPT !.at = "done", !.read = operators] \in Load
      BY <2>1 DEF Load
    <2>3. job' \in Jobs
      BY <1>3, <2>2, GoesTyped DEF Hit
    <2> QED
      BY <1>3, <2>3 DEF Hit, Access, Between, TypeOK, tokens, providers, bounds
  <1>4. CASE Parse(t)
    <2>1. job[t] \in Load /\ disk \in Nat
      BY <1>4, Shapes DEF Parse, At, TypeOK
    <2>2. /\ [job[t] EXCEPT !.at = "keep signature", !.read = disk] \in Load
          /\ [job[t] EXCEPT !.at = "failed"] \in Load
      BY <2>1 DEF Load
    <2>3. \E j \in Load : Goes(t, j)
      BY <1>4, <2>2 DEF Parse
    <2>4. job' \in Jobs
      BY <2>3, GoesTyped
    <2>5. faults' \in 0 .. MaxFaults
      BY <1>4, CachesAssumption DEF Parse, Fault, TypeOK
    <2> QED
      BY <1>4, <2>4, <2>5 DEF Parse, TypeOK, tokens, providers, registry
  <1>5. CASE KeepSignature(t)
    <2>1. job[t] \in Load
      BY <1>5, Shapes DEF KeepSignature, At
    <2>2. [job[t] EXCEPT !.at = "keep operators"] \in Load
      BY <2>1 DEF Load
    <2>3. job' \in Jobs
      BY <1>5, <2>2, GoesTyped DEF KeepSignature
    <2>4. job[t].signature \in Nat
      BY <2>1 DEF Load
    <2> QED
      BY <1>5, <2>3, <2>4 DEF KeepSignature, Signed, Access, Between, TypeOK, tokens, providers, bounds
  <1>6. CASE KeepOperators(t)
    <2>1. job[t] \in Load
      BY <1>6, Shapes DEF KeepOperators, At
    <2>2. [job[t] EXCEPT !.at = "done"] \in Load
      BY <2>1 DEF Load
    <2>3. job' \in Jobs
      BY <1>6, <2>2, GoesTyped DEF KeepOperators
    <2>4. job[t].read \in Nat
      BY <2>1 DEF Load
    <2> QED
      BY <1>6, <2>3, <2>4 DEF KeepOperators, Access, Between, TypeOK, tokens, providers, bounds
  <1> QED
    BY <1>1, <1>2, <1>3, <1>4, <1>5, <1>6

CallStep(t) == StartCall(t) \/ EnsureToken(t) \/ Send(t) \/ ClearToken(t)

LookupStep(t) ==
    \/ \E op \in {"refresh", "deploy"} : StartLookup(t, op)
    \/ Fetch(t) \/ KeepIndex(t) \/ KeepTime(t) \/ Return(t)

LoadStep(t) ==
    \/ StartLoad(t) \/ Check(t) \/ Hit(t) \/ Parse(t)
    \/ KeepSignature(t) \/ KeepOperators(t)

LEMMA NextSteps ==
    Next => \/ \E t \in Threads : CallStep(t) \/ LookupStep(t) \/ LoadStep(t)
            \/ Expire \/ Install \/ Tick \/ Edit
  BY DEF Next, CallStep, LookupStep, LoadStep

\* The token, the two caches and every job keep their types.
THEOREM CachesTyped == Spec => []TypeOK
  <1>1. Init => TypeOK
    <2> SUFFICES ASSUME Init PROVE TypeOK
      OBVIOUS
    <2>1. NoIndex \in Index
      BY CachesAssumption DEF NoIndex, Index
    <2>2. token \in 0 .. issued /\ valid \subseteq 1 .. issued
      BY DEF Init, None
    <2>3. now \in 1 .. MaxTime /\ indexAt \in 0 .. MaxTime
      BY CachesAssumption DEF Init, None
    <2>4. job \in [Threads -> Call \cup Lookup \cup Load \cup {Idle}]
      <3> HIDE DEF Idle
      <3> QED
        BY DEF Init
    <2>5. ops \in 0 .. MaxOps /\ changes \in 0 .. MaxChanges /\ faults \in 0 .. MaxFaults
      BY CachesAssumption DEF Init
    <2>6. /\ static \in BOOLEAN /\ issued \in Nat /\ index \in Index /\ installed \in BOOLEAN
          /\ promised \in BOOLEAN /\ crossed \in BOOLEAN
      BY <2>1 DEF Init
    <2>7. signature \in Nat /\ operators \in Nat /\ disk \in Nat \ {0}
      BY DEF Init, None
    <2> QED
      BY <2>2, <2>3, <2>4, <2>5, <2>6, <2>7 DEF TypeOK
  <1>2. TypeOK /\ [Next]_vars => TypeOK'
    <2> SUFFICES ASSUME TypeOK, [Next]_vars PROVE TypeOK'
      OBVIOUS
    <2>1. ASSUME NEW t \in Threads, CallStep(t) \/ LookupStep(t) \/ LoadStep(t)
          PROVE  TypeOK'
      BY <2>1, CallTypes, LookupTypes, LoadTypes DEF CallStep, LookupStep, LoadStep
    <2>2. CASE Expire
      BY <2>2, CachesAssumption DEF Expire, TypeOK, providers, registry
    <2>3. CASE Install
      BY <2>3, CachesAssumption DEF Install, TypeOK, tokens, registry
    <2>4. CASE Tick
      BY <2>4, CachesAssumption DEF Tick, TypeOK, tokens, providers, registry, bounds
    <2>5. CASE Edit
      BY <2>5, CachesAssumption DEF Edit, TypeOK, tokens, providers
    <2>6. CASE UNCHANGED vars
      BY <2>6 DEF vars, tokens, providers, registry, bounds, TypeOK
    <2> QED
      BY NextSteps, <2>1, <2>2, <2>3, <2>4, <2>5, <2>6
  <1> QED
    BY <1>1, <1>2, PTL DEF Spec

-----------------------------------------------------------------------------
(* What a step leaves to the others. *)

LEMMA OthersKept ==
    ASSUME TypeOK, NEW t \in Threads, NEW u \in Threads \ {t},
           CallStep(t) \/ LookupStep(t) \/ LoadStep(t)
    PROVE  \/ job'[u] = job[u]
           \/ Fetching(u) /\ job'[u] = [job[u] EXCEPT !.alone = FALSE]
  <1>1. ASSUME NEW j, Goes(t, j) PROVE job'[u] = job[u]
    BY <1>1 DEF Goes, TypeOK
  <1>2. CASE CallStep(t)
    BY <1>1, <1>2 DEF CallStep, StartCall, EnsureToken, Send, ClearToken
  <1>3. CASE LoadStep(t)
    BY <1>1, <1>3 DEF LoadStep, StartLoad, Check, Hit, Parse, KeepSignature, KeepOperators
  <1>4. ASSUME NEW op \in {"refresh", "deploy"}, StartLookup(t, op)
        PROVE  \/ job'[u] = job[u]
               \/ Fetching(u) /\ job'[u] = [job[u] EXCEPT !.alone = FALSE]
    BY <1>4 DEF StartLookup
  <1>5. CASE Fetch(t) \/ KeepIndex(t) \/ KeepTime(t) \/ Return(t)
    BY <1>1, <1>5 DEF Fetch, KeepIndex, KeepTime, Return
  <1> QED
    BY <1>2, <1>3, <1>4, <1>5 DEF LookupStep

\* A step of one kind starts, or goes on with, a job of that kind.
LEMMA OwnKind ==
    ASSUME TypeOK, NEW t \in Threads
    PROVE  /\ CallStep(t) => job'[t].op = "call"
           /\ LookupStep(t) => job'[t].op \in {"refresh", "deploy"}
           /\ LoadStep(t) => job'[t].op = "load"
  <1>1. ASSUME NEW j, Goes(t, j) PROVE job'[t] = j
    BY <1>1 DEF Goes, TypeOK
  <1>2. /\ At(t, "token") \/ At(t, "send") \/ At(t, "clear") => job[t] \in Call
        /\ At(t, "fetch") \/ At(t, "keep index") \/ At(t, "keep time") \/ At(t, "return") => job[t] \in Lookup
        /\ At(t, "check") \/ At(t, "hit") \/ At(t, "parse")
              \/ At(t, "keep signature") \/ At(t, "keep operators") => job[t] \in Load
    BY Shapes DEF At
  <1>3. CallStep(t) => job'[t].op = "call"
    <2>1. StartCall(t) => job'[t].op = "call"
      BY <1>1 DEF StartCall
    <2>2. EnsureToken(t) \/ Send(t) \/ ClearToken(t) => job'[t].op = "call"
      BY <1>1, <1>2 DEF EnsureToken, Send, ClearToken, Call
    <2> QED
      BY <2>1, <2>2 DEF CallStep
  <1>4. LookupStep(t) => job'[t].op \in {"refresh", "deploy"}
    <2>1. (\E op \in {"refresh", "deploy"} : StartLookup(t, op)) => job'[t].op \in {"refresh", "deploy"}
      BY DEF StartLookup
    <2>2. Fetch(t) \/ KeepIndex(t) \/ KeepTime(t) \/ Return(t) => job'[t].op \in {"refresh", "deploy"}
      BY <1>1, <1>2 DEF Fetch, KeepIndex, KeepTime, Return, Lookup
    <2> QED
      BY <2>1, <2>2 DEF LookupStep
  <1>5. LoadStep(t) => job'[t].op = "load"
    <2>1. StartLoad(t) => job'[t].op = "load"
      BY <1>1 DEF StartLoad
    <2>2. Check(t) \/ Hit(t) \/ Parse(t) \/ KeepSignature(t) \/ KeepOperators(t) => job'[t].op = "load"
      BY <1>1, <1>2 DEF Check, Hit, Parse, KeepSignature, KeepOperators, Load
    <2> QED
      BY <2>1, <2>2 DEF LoadStep
  <1> QED
    BY <1>3, <1>4, <1>5

-----------------------------------------------------------------------------
(* The token. *)

\* Tokens are only issued, and the client's is only forgotten or replaced by a new one.
LEMMA TokensGrow ==
    ASSUME TypeOK, [Next]_vars
    PROVE  /\ static' = static /\ issued' \in Nat /\ issued <= issued'
           /\ token' \in {token, None} \/ token' > issued
  <1>1. TypeOK => issued \in Nat
    BY DEF TypeOK
  <1>2. ASSUME NEW t \in Threads, CallStep(t) PROVE static' = static /\ issued' \in Nat /\ issued <= issued'
                                                     /\ (token' \in {token, None} \/ token' > issued)
    BY <1>1, <1>2 DEF CallStep, StartCall, EnsureToken, Send, ClearToken, Cleared, tokens
  <1>3. ASSUME NEW t \in Threads, LookupStep(t) PROVE UNCHANGED <<static, issued, token>>
    BY <1>3 DEF LookupStep, StartLookup, Fetch, KeepIndex, KeepTime, Return, tokens
  <1>4. ASSUME NEW t \in Threads, LoadStep(t) PROVE UNCHANGED <<static, issued, token>>
    BY <1>4 DEF LoadStep, StartLoad, Check, Hit, Parse, KeepSignature, KeepOperators, tokens
  <1>5. Expire \/ Install \/ Tick \/ Edit \/ UNCHANGED vars => UNCHANGED <<static, issued, token>>
    BY DEF Expire, Install, Tick, Edit, vars, tokens
  <1> QED
    BY <1>1, <1>2, <1>3, <1>4, <1>5, NextSteps

LEMMA CallKept ==
    ASSUME TypeOK, TypeOK', CallInv, [Next]_vars
    PROVE  CallInv'
  <1> DEFINE Fine(t) ==
        Calling(t) =>
          /\ job[t].rejected <= issued
          /\ job[t].at = "token" /\ ~job[t].first => token = None \/ token > job[t].rejected
          /\ job[t].at \in {"send", "unauthorized"} /\ ~job[t].first => job[t].token > job[t].rejected
          /\ job[t].at = "unauthorized" => static \/ ~job[t].first
  <1>1. /\ static' = static /\ issued' \in Nat /\ issued <= issued' /\ issued \in Nat
        /\ token' \in {token, None} \/ token' > issued
        /\ token \in Nat /\ token' \in Nat
    BY TokensGrow DEF TypeOK
  <1>2. ASSUME NEW u \in Threads, job'[u] = job[u] PROVE Fine(u)'
    <2> SUFFICES ASSUME Calling(u) PROVE Fine(u)'
      BY <1>2 DEF Calling
    <2>1. job[u] \in Call
      BY Shapes DEF Calling
    <2>2. job[u].rejected \in Nat
      BY <2>1 DEF Call
    <2> QED
      BY <1>1, <1>2, <2>2 DEF CallInv, Calling
  <1>3. ASSUME NEW t \in Threads, CallStep(t) PROVE Fine(t)'
    <2> USE DEF None
    <2>1. CASE StartCall(t)
      <3>1. job'[t] = [op |-> "call", at |-> "token", token |-> None, first |-> TRUE, rejected |-> None]
        BY <2>1 DEF StartCall, Goes, TypeOK
      <3> QED
        BY <1>1, <3>1
    <2>2. CASE EnsureToken(t)
      <3>1. job[t] \in Call /\ job[t].at = "token"
        BY <2>2, Shapes DEF EnsureToken, At
      <3>2. /\ job[t].rejected \in Nat /\ job[t].rejected <= issued
            /\ ~job[t].first => token = None \/ token > job[t].rejected
        BY <3>1 DEF CallInv, Calling, Call
      <3>3. CASE token # None /\ Goes(t, [job[t] EXCEPT !.at = "send", !.token = token])
        <4>1. job'[t] = [job[t] EXCEPT !.at = "send", !.token = token]
          BY <3>3 DEF Goes, TypeOK
        <4>2. /\ job'[t].at = "send" /\ job'[t].token = token
              /\ job'[t].first = job[t].first /\ job'[t].rejected = job[t].rejected
          BY <3>1, <4>1 DEF Call
        <4> QED
          BY <1>1, <3>2, <3>3, <4>2
      <3>4. CASE issued' = issued + 1 /\ Goes(t, [job[t] EXCEPT !.at = "send", !.token = issued'])
        <4>1. job'[t] = [job[t] EXCEPT !.at = "send", !.token = issued']
          BY <3>4 DEF Goes, TypeOK
        <4>2. /\ job'[t].at = "send" /\ job'[t].token = issued'
              /\ job'[t].first = job[t].first /\ job'[t].rejected = job[t].rejected
          BY <3>1, <4>1 DEF Call
        <4> QED
          BY <1>1, <3>2, <3>4, <4>2
      <3>5. CASE Goes(t, [job[t] EXCEPT !.at = "failed"])
        <4>1. job'[t] = [job[t] EXCEPT !.at = "failed"]
          BY <3>5 DEF Goes, TypeOK
        <4>2. job'[t].at = "failed" /\ job'[t].rejected = job[t].rejected
          BY <3>1, <4>1 DEF Call
        <4> QED
          BY <1>1, <3>2, <4>2
      <3> QED
        BY <2>2, <3>3, <3>4, <3>5 DEF EnsureToken
    <2>3. CASE Send(t)
      <3>1. job[t] \in Call /\ job[t].at = "send"
        BY <2>3, Shapes DEF Send, At
      <3>2. /\ job[t].rejected \in Nat /\ job[t].rejected <= issued
            /\ ~job[t].first => job[t].token > job[t].rejected
        BY <3>1 DEF CallInv, Calling, Call
      <3>3. CASE \E s \in {"done", "failed"} : Goes(t, [job[t] EXCEPT !.at = s])
        <4>1. PICK s \in {"done", "failed"} : job'[t] = [job[t] EXCEPT !.at = s]
          BY <3>3 DEF Goes, TypeOK
        <4>2. job'[t].at = s /\ job'[t].rejected = job[t].rejected
          BY <3>1, <4>1 DEF Call
        <4> QED
          BY <1>1, <3>2, <4>2
      <3>4. CASE (static \/ ~job[t].first) /\ Goes(t, [job[t] EXCEPT !.at = "unauthorized"])
        <4>1. job'[t] = [job[t] EXCEPT !.at = "unauthorized"]
          BY <3>4 DEF Goes, TypeOK
        <4>2. /\ job'[t].at = "unauthorized" /\ job'[t].token = job[t].token
              /\ job'[t].first = job[t].first /\ job'[t].rejected = job[t].rejected
          BY <3>1, <4>1 DEF Call
        <4> QED
          BY <1>1, <3>2, <3>4, <4>2
      <3>5. CASE Goes(t, [job[t] EXCEPT !.at = "clear", !.rejected = issued])
        <4>1. job'[t] = [job[t] EXCEPT !.at = "clear", !.rejected = issued]
          BY <3>5 DEF Goes, TypeOK
        <4>2. job'[t].at = "clear" /\ job'[t].rejected = issued
          BY <3>1, <4>1 DEF Call
        <4> QED
          BY <1>1, <4>2
      <3> QED
        BY <2>3, <3>3, <3>4, <3>5 DEF Send
    <2>4. CASE ClearToken(t)
      <3>1. job[t] \in Call /\ token' = None
        BY <2>4, Shapes DEF ClearToken, At, Cleared
      <3>2. job[t].rejected \in Nat /\ job[t].rejected <= issued
        BY <3>1 DEF CallInv, Calling, Call
      <3>3. job'[t] = [job[t] EXCEPT !.at = "token", !.first = FALSE]
        BY <2>4 DEF ClearToken, Goes, TypeOK
      <3>4. job'[t].at = "token" /\ job'[t].rejected = job[t].rejected
        BY <3>1, <3>3 DEF Call
      <3> QED
        BY <1>1, <3>1, <3>2, <3>4
    <2> QED
      BY <1>3, <2>1, <2>2, <2>3, <2>4 DEF CallStep
  <1>4. ASSUME NEW t \in Threads, CallStep(t) \/ LookupStep(t) \/ LoadStep(t),
               NEW u \in Threads
        PROVE  Fine(u)'
    <2>1. CASE u = t /\ CallStep(t)
      BY <1>3, <2>1
    <2>2. CASE u = t /\ (LookupStep(t) \/ LoadStep(t))
      BY <2>2, OwnKind DEF Calling
    <2>3. CASE u # t /\ job'[u] = job[u]
      BY <1>2, <2>3
    <2>4. CASE Fetching(u) /\ job'[u] = [job[u] EXCEPT !.alone = FALSE]
      <3>1. job[u] \in Lookup
        BY <2>4, Shapes DEF Fetching
      <3>2. job'[u].op \in {"refresh", "deploy"}
        BY <2>4, <3>1 DEF Lookup
      <3> QED
        BY <3>2 DEF Calling
    <2> QED
      BY <1>4, <2>1, <2>2, <2>3, <2>4, OthersKept
  <1>5. ASSUME Expire \/ Install \/ Tick \/ Edit \/ UNCHANGED vars, NEW u \in Threads
        PROVE  Fine(u)'
    BY <1>2, <1>5 DEF Expire, Install, Tick, Edit, vars
  <1>6. \A u \in Threads : Fine(u)'
    BY <1>4, <1>5, NextSteps
  <1> QED
    BY <1>6 DEF CallInv

\* A call that Airflow turns away for good was turned away with a fresh token.
THEOREM RetriesAreFresh == Spec => []RetryIsFresh
  <1>1. Init => CallInv
    BY DEF Init, CallInv, Calling, Idle
  <1>2. TypeOK /\ TypeOK' /\ CallInv /\ [Next]_vars => CallInv'
    BY CallKept
  <1>3. CallInv => RetryIsFresh
    BY DEF CallInv, RetryIsFresh, Calling
  <1> QED
    BY <1>1, <1>2, <1>3, CachesTyped, PTL DEF Spec

-----------------------------------------------------------------------------
(* The index. *)

\* To a thread that does not act nothing happens but that its fetch is no longer alone.
LEMMA Bystander ==
    ASSUME TypeOK, NEW t \in Threads, NEW u \in Threads \ {t},
           CallStep(t) \/ LookupStep(t) \/ LoadStep(t)
    PROVE  /\ job'[u].op = job[u].op /\ job'[u].at = job[u].at
           /\ Looking(u) => /\ job'[u].began = job[u].began /\ job'[u].read = job[u].read
                            /\ job'[u].late = job[u].late /\ (job'[u].alone => job[u].alone)
           /\ Loading(u) => job'[u] = job[u]
  <1>1. CASE job'[u] = job[u]
    BY <1>1
  <1>2. CASE Fetching(u) /\ job'[u] = [job[u] EXCEPT !.alone = FALSE]
    <2>1. job[u] \in Lookup
      BY <1>2, Shapes DEF Fetching
    <2> QED
      BY <1>2, <2>1 DEF Lookup, Loading
  <1> QED
    BY <1>1, <1>2, OthersKept

\* Only the last two steps of a lookup write the cache.
LEMMA IndexFrame ==
    ASSUME NEW t \in Threads, CallStep(t) \/ LookupStep(t) \/ LoadStep(t)
    PROVE  /\ now' = now /\ installed' = installed
           /\ KeepIndex(t) \/ index' = index
           /\ KeepTime(t) \/ indexAt' = indexAt
           /\ Return(t) \/ promised' = promised
  <1>1. CASE CallStep(t)
    BY <1>1 DEF CallStep, StartCall, EnsureToken, Send, ClearToken, providers
  <1>2. CASE LookupStep(t)
    BY <1>2 DEF LookupStep, StartLookup, Fetch, KeepIndex, KeepTime, Return, providers
  <1>3. CASE LoadStep(t)
    BY <1>3 DEF LoadStep, StartLoad, Check, Hit, Parse, KeepSignature, KeepOperators, providers
  <1> QED
    BY <1>1, <1>2, <1>3

LEMMA RecentKept ==
    ASSUME TypeOK, TypeOK', RecentInv, [Next]_vars
    PROVE  RecentInv'
  <1> USE DEF None
  <1> DEFINE Fine(t) ==
        Looking(t) =>
          /\ job[t].began <= now
          /\ Fetching(t) => now <= job[t].began + Slow
          /\ job[t].at = "keep index" => job[t].began <= job[t].read.time
          /\ job[t].at = "keep time" => job[t].began <= index.time + Slow
          /\ job[t].at = "return" => job[t].began < index.time + TTL + Slow
          /\ job[t].at \in {"done", "refused"} => job[t].began < job[t].read.time + TTL + Slow
        Stamped == indexAt <= now /\ (indexAt # None => indexAt <= index.time + Slow)
  <1>1. /\ TTL \in Nat /\ TTL > 0 /\ Slow \in Nat /\ now \in Nat /\ indexAt \in Nat /\ index.time \in Nat
        /\ Stamped
    <2>1. TTL \in Nat /\ TTL > 0 /\ Slow \in Nat /\ MaxTime \in Nat
      BY CachesAssumption
    <2>2. now \in 1 .. MaxTime /\ indexAt \in 0 .. MaxTime /\ index \in Index
      BY DEF TypeOK
    <2>3. index.time \in 0 .. MaxTime
      BY <2>2 DEF Index
    <2>4. Stamped
      BY DEF RecentInv
    <2> QED
      BY <2>1, <2>2, <2>3, <2>4
  <1>0. \A t \in Threads : Fine(t)
    BY DEF RecentInv
  <1>2. \A t \in Threads : Looking(t) => job[t].began \in Nat /\ job[t].read.time \in Nat
    <2> SUFFICES ASSUME NEW t \in Threads, Looking(t)
                 PROVE  job[t].began \in Nat /\ job[t].read.time \in Nat
      OBVIOUS
    <2>1. job[t] \in Lookup
      BY Shapes DEF Looking
    <2>2. job[t].began \in 1 .. MaxTime /\ job[t].read \in Index
      BY <2>1 DEF Lookup
    <2> QED
      BY <2>2, CachesAssumption DEF Index
  <1>3. ASSUME NEW t \in Threads, LookupStep(t)
        PROVE  /\ Fine(t)' /\ Stamped'
               /\ index' = index \/ (index'.time \in Nat /\ now <= index'.time + Slow)
    <2>1. ASSUME NEW op \in {"refresh", "deploy"}, StartLookup(t, op)
          PROVE  Fine(t)' /\ Stamped' /\ index' = index
      <3>1. UNCHANGED <<index, indexAt, now>>
        BY <2>1 DEF StartLookup, providers
      <3>2. /\ job'[t].op = op /\ job'[t].began = now
            /\ job'[t].at = IF op = "deploy" /\ Fresh THEN "return" ELSE "fetch"
        BY <2>1 DEF StartLookup
      <3>3. Fresh => now < index.time + TTL + Slow
        <4> SUFFICES ASSUME indexAt # None, now - indexAt < TTL
                     PROVE  now < index.time + TTL + Slow
          BY DEF Fresh
        <4>1. indexAt <= index.time + Slow
          BY <1>1
        <4> QED
          BY <1>1, <4>1
      <3>4. /\ job'[t].at \in {"return", "fetch"}
            /\ job'[t].at = "return" => now < index.time + TTL + Slow
        BY <3>2, <3>3
      <3>5. now <= now + Slow /\ now <= now
        BY <1>1
      <3>6. Fine(t)'
        BY <3>1, <3>2, <3>4, <3>5 DEF Fetching
      <3> QED
        BY <1>1, <3>1, <3>6
    <2>2. CASE Fetch(t)
      <3>1. UNCHANGED <<index, indexAt, now>>
        BY <2>2 DEF Fetch, providers
      <3>2. job[t] \in Lookup /\ Looking(t) /\ Fetching(t)
        BY <2>2, Shapes DEF Fetch, At, Looking, Fetching, Lookup
      <3>3. \E i \in Index : i.time = now /\ Goes(t, [job[t] EXCEPT !.at = "keep index", !.read = i])
        <4>1. /\ [reached |-> TRUE, has |-> installed, time |-> now] \in Index
              /\ [NoIndex EXCEPT !.time = now] \in Index
              /\ [NoIndex EXCEPT !.time = now].time = now
          <5>1. now \in 0 .. MaxTime /\ installed \in BOOLEAN
            BY DEF TypeOK
          <5> QED
            BY <5>1 DEF Index, NoIndex
        <4>2. CASE Goes(t, [job[t] EXCEPT !.at = "keep index",
                                          !.read = [reached |-> TRUE, has |-> installed, time |-> now]])
          BY <4>1, <4>2
        <4>3. CASE Goes(t, [job[t] EXCEPT !.at = "keep index", !.read = [NoIndex EXCEPT !.time = now]])
          BY <4>1, <4>3
        <4> QED
          BY <2>2, <4>2, <4>3 DEF Fetch
      <3>4. PICK i \in Index : i.time = now /\ job'[t] = [job[t] EXCEPT !.at = "keep index", !.read = i]
        BY <3>3 DEF Goes, TypeOK
      <3>5. /\ job'[t].at = "keep index" /\ job'[t].began = job[t].began /\ job'[t].read.time = now
        BY <3>2, <3>4 DEF Lookup
      <3>6. job[t].began <= now /\ now <= job[t].began + Slow
        BY <1>0, <3>2
      <3>7. Fine(t)'
        BY <3>1, <3>5, <3>6
      <3> QED
        BY <1>1, <3>1, <3>7
    <2>3. CASE KeepIndex(t)
      <3>1. job[t] \in Lookup /\ Looking(t) /\ Fetching(t) /\ job[t].at = "keep index"
        BY <2>3, Shapes DEF KeepIndex, At, Looking, Fetching, Lookup
      <3>2. /\ index' = job[t].read /\ job'[t] = [job[t] EXCEPT !.at = "keep time"]
            /\ UNCHANGED <<indexAt, now>>
        BY <2>3 DEF KeepIndex, Goes, TypeOK
      <3>3. job'[t].at = "keep time" /\ job'[t].began = job[t].began
        BY <3>1, <3>2 DEF Lookup
      <3>4. /\ job[t].began \in Nat /\ index'.time \in Nat
            /\ job[t].began <= now /\ now <= job[t].began + Slow /\ job[t].began <= index'.time
        <4>1. Fine(t) /\ job[t].began \in Nat /\ job[t].read.time \in Nat
          BY <1>0, <1>2, <3>1
        <4> QED
          BY <3>1, <3>2, <4>1
      <3>5. now <= index'.time + Slow
        BY <1>1, <3>4
      <3>6. indexAt <= index'.time + Slow /\ job[t].began <= index'.time + Slow
        BY <1>1, <3>4, <3>5
      <3>7. Fine(t)'
        BY <3>2, <3>3, <3>4, <3>6
      <3> QED
        BY <1>1, <3>2, <3>4, <3>5, <3>6, <3>7
    <2>4. CASE KeepTime(t)
      <3>1. job[t] \in Lookup /\ Looking(t) /\ Fetching(t) /\ job[t].at = "keep time"
        BY <2>4, Shapes DEF KeepTime, At, Looking, Fetching, Lookup
      <3>2. /\ indexAt' = job[t].began /\ job'[t] = [job[t] EXCEPT !.at = "return"]
            /\ UNCHANGED <<index, now>>
        BY <2>4 DEF KeepTime, Stamp, Goes, TypeOK
      <3>3. job'[t].at = "return" /\ job'[t].began = job[t].began
        BY <3>1, <3>2 DEF Lookup
      <3>4. /\ job[t].began \in Nat /\ job[t].began <= now
            /\ job[t].began <= index.time + Slow /\ job[t].began < index.time + TTL + Slow
        <4>1. Fine(t) /\ job[t].began \in Nat
          BY <1>0, <1>2, <3>1
        <4>2. job[t].began <= now /\ job[t].began <= index.time + Slow
          BY <3>1, <4>1
        <4>3. job[t].began \in Nat
          BY <4>1
        <4> QED
          BY <1>1, <4>2, <4>3
      <3>5. Fine(t)'
        BY <3>2, <3>3, <3>4 DEF Fetching
      <3> QED
        BY <1>1, <3>2, <3>4, <3>5
    <2>5. CASE Return(t)
      <3>1. job[t] \in Lookup /\ Looking(t) /\ job[t].at = "return"
        BY <2>5, Shapes DEF Return, At, Looking, Lookup
      <3>2. UNCHANGED <<index, indexAt, now>>
        BY <2>5 DEF Return
      <3>3. PICK s \in {"done", "refused"} : job'[t] = [job[t] EXCEPT !.at = s, !.read = index]
        BY <2>5 DEF Return, Goes, TypeOK
      <3>4. job'[t].at = s /\ job'[t].began = job[t].began /\ job'[t].read = index
        BY <3>1, <3>3 DEF Lookup
      <3>5. job[t].began <= now /\ job[t].began < index.time + TTL + Slow
        BY <1>0, <3>1
      <3>6. Fine(t)'
        BY <3>2, <3>4, <3>5 DEF Fetching
      <3> QED
        BY <1>1, <3>2, <3>6
    <2> QED
      BY <1>3, <2>1, <2>2, <2>3, <2>4, <2>5 DEF LookupStep
  <1>4. ASSUME NEW t \in Threads, CallStep(t) \/ LookupStep(t) \/ LoadStep(t)
        PROVE  Stamped' /\ \A u \in Threads : Fine(u)'
    <2>1. now' = now /\ (index' = index \/ (index'.time \in Nat /\ now <= index'.time + Slow))
      BY <1>3, <1>4, IndexFrame DEF KeepIndex, LookupStep
    <2>2. Stamped'
      <3>1. CASE LookupStep(t)
        BY <1>3, <3>1
      <3>2. CASE ~LookupStep(t)
        BY <1>1, <1>4, <3>2, IndexFrame DEF LookupStep
      <3> QED
        BY <3>1, <3>2
    <2>3. ASSUME NEW u \in Threads \ {t} PROVE Fine(u)'
      <3> SUFFICES ASSUME Looking(u) PROVE Fine(u)'
        BY <1>4, Bystander DEF Looking
      <3>1. /\ job'[u].op = job[u].op /\ job'[u].at = job[u].at
            /\ job'[u].began = job[u].began /\ job'[u].read = job[u].read
        BY <1>4, Bystander
      <3>2. Fine(u) /\ job[u].began \in Nat /\ job[u].read.time \in Nat
        BY <1>0, <1>2
      <3>3. CASE index' = index
        BY <2>1, <3>1, <3>2, <3>3 DEF Fetching
      <3>4. CASE index'.time \in Nat /\ now <= index'.time + Slow
        <4>1. job[u].began <= now
          BY <3>2
        <4>2. job[u].began <= index'.time + Slow /\ job[u].began < index'.time + TTL + Slow
          <5>1. job[u].began \in Nat
            BY <3>2
          <5> QED
            BY <1>1, <3>4, <4>1, <5>1
        <4> QED
          BY <2>1, <3>1, <3>2, <4>2 DEF Fetching
      <3> QED
        BY <2>1, <3>3, <3>4
    <2>4. Fine(t)'
      BY <1>3, <1>4, OwnKind DEF Looking
    <2> QED
      BY <2>2, <2>3, <2>4
  <1>7. ASSUME Stamped', \A u \in Threads : Fine(u)' PROVE RecentInv'
    BY <1>7 DEF RecentInv
  <1>5. CASE Expire \/ Install \/ Edit \/ UNCHANGED vars
    <2>1. UNCHANGED <<job, now, index, indexAt>>
      BY <1>5 DEF Expire, Install, Edit, vars, providers
    <2> QED
      BY <2>1 DEF RecentInv, Looking, Fetching
  <1>6. CASE Tick
    <2>1. now' = now + 1 /\ UNCHANGED <<job, index, indexAt>>
      BY <1>6 DEF Tick, providers
    <2>2. \A u \in Threads : Fetching(u) => now - job[u].began < Slow
      BY <1>6 DEF Tick
    <2>3. ASSUME NEW u \in Threads PROVE Fine(u)'
      <3> SUFFICES ASSUME Looking(u) PROVE Fine(u)'
        BY <2>1 DEF Looking
      <3>1. Fine(u) /\ job[u].began \in Nat
        BY <1>0, <1>2
      <3>2. job[u].began <= now'
        <4>1. job[u].began <= now /\ job[u].began \in Nat
          BY <3>1
        <4> QED
          BY <1>1, <2>1, <4>1
      <3>3. Fetching(u) => now' <= job[u].began + Slow
        <4>1. job[u].began \in Nat
          BY <3>1
        <4>2. Fetching(u) => now - job[u].began < Slow
          BY <2>2
        <4> QED
          BY <1>1, <2>1, <4>1, <4>2
      <3> QED
        BY <2>1, <3>1, <3>2, <3>3 DEF Fetching
    <2>4. Stamped'
      BY <1>1, <2>1
    <2> QED
      BY <1>7, <2>3, <2>4
  <1> QED
    BY <1>4, <1>5, <1>6, <1>7, NextSteps

\* What a lookup uses was read at most the cache's time, and a slow answer, before.
THEOREM IndexesAreRecent == Spec => []IndexIsRecent
  <1>1. Init => RecentInv
    <2> SUFFICES ASSUME Init PROVE RecentInv
      OBVIOUS
    <2>1. indexAt = None /\ now = 1 /\ \A t \in Threads : ~Looking(t)
      BY DEF Init, Looking, Idle
    <2> QED
      <3>1. indexAt <= now /\ indexAt = None
        BY <2>1 DEF None
      <3> QED
        BY <2>1, <3>1 DEF RecentInv
  <1>2. TypeOK /\ TypeOK' /\ RecentInv /\ [Next]_vars => RecentInv'
    BY RecentKept
  <1>3. RecentInv => IndexIsRecent
    BY DEF RecentInv, IndexIsRecent, Looking
  <1> QED
    BY <1>1, <1>2, <1>3, CachesTyped, PTL DEF Spec

-----------------------------------------------------------------------------
(* The refresh. *)

LEMMA ObeyKept ==
    ASSUME TypeOK, TypeOK', ObeyInv, [Next]_vars
    PROVE  ObeyInv'
  <1> DEFINE Keeping(t) == Looking(t) /\ job[t].at = "keep index"
             Clean == ~Blocked(index) /\ \A t \in Threads : Keeping(t) => ~Blocked(job[t].read)
             Alone(t) == Reliable(t) /\ Fetching(t) => \A u \in Threads \ {t} : ~Fetching(u)
             Fine(t) ==
                Looking(t) =>
                  /\ job[t].late => installed
                  /\ Reliable(t) /\ job[t].at = "keep index" => ~Blocked(job[t].read)
                  /\ job[t].op = "deploy" /\ job[t].late => promised
                  /\ job[t].op = "deploy" /\ job[t].at = "refused" => ~job[t].late
             Invs == /\ promised => installed
                     /\ \A t \in Threads : Fine(t)
                     /\ \A t \in Threads : Looking(t) => Alone(t)
                     /\ Settled => Clean
  <1>1. Invs
    BY DEF ObeyInv
  <1>2. ASSUME Invs' PROVE ObeyInv'
    BY <1>2 DEF ObeyInv
  <1>3. ASSUME UNCHANGED <<job, index, promised>>, installed => installed'
        PROVE  Invs'
    BY <1>1, <1>3 DEF Looking, Reliable, Fetching, Settled, Blocked
  <1>4. CASE Expire \/ Install \/ Tick \/ Edit \/ UNCHANGED vars
    <2>1. UNCHANGED <<job, index, promised>>
      BY <1>4 DEF Expire, Install, Tick, Edit, vars, providers
    <2>2. installed => installed'
      BY <1>4 DEF Expire, Install, Tick, Edit, vars, providers
    <2> QED
      BY <1>2, <1>3, <2>1, <2>2
  <1>5. ASSUME NEW t \in Threads, CallStep(t) \/ LookupStep(t) \/ LoadStep(t)
        PROVE  Invs'
    <2> DEFINE Still(u) == /\ job'[u].op = job[u].op /\ job'[u].at = job[u].at
                           /\ Looking(u) => /\ job'[u].read = job[u].read /\ job'[u].late = job[u].late
                                            /\ job'[u].alone => job[u].alone
    <2>1. \A u \in Threads \ {t} : Still(u)
      BY <1>5, Bystander
    <2>2. \A u \in Threads \ {t} :
            /\ Looking(u)' <=> Looking(u)
            /\ Fetching(u)' <=> Fetching(u)
            /\ Reliable(u)' => Reliable(u)
            /\ Keeping(u)' <=> Keeping(u)
      BY <2>1 DEF Looking, Fetching, Reliable
    <2>3. Settled => installed
      BY <1>1 DEF Settled, Reliable, Looking
    <2>4. ASSUME Fine(t)', Alone(t)', installed' = installed, promised => promised', promised' => installed,
                 \A u \in Threads \ {t} : Reliable(u)' /\ Fetching(u)' => ~Fetching(t)',
                 Settled' => Clean'
          PROVE  Invs'
      <3>1. ASSUME NEW u \in Threads \ {t} PROVE Fine(u)'
        <4> SUFFICES ASSUME Looking(u) PROVE Fine(u)'
          BY <2>2
        <4>1. Still(u) /\ Fine(u) /\ (Reliable(u)' => Reliable(u))
          BY <1>1, <2>1, <2>2
        <4> QED
          BY <2>4, <4>1 DEF Blocked
      <3>2. ASSUME NEW u \in Threads \ {t}, Looking(u)' PROVE Alone(u)'
        BY <1>1, <2>2, <2>4, <3>2
      <3> QED
        BY <2>4, <3>1, <3>2
    <2>5. CASE CallStep(t) \/ LoadStep(t)
      <3>1. ~Looking(t)' /\ ~Fetching(t)' /\ ~Reliable(t)' /\ ~Keeping(t)'
        BY <2>5, OwnKind DEF Looking, Fetching, Reliable
      <3>2. UNCHANGED <<index, promised, installed>>
        BY <2>5 DEF CallStep, StartCall, EnsureToken, Send, ClearToken,
                    LoadStep, StartLoad, Check, Hit, Parse, KeepSignature, KeepOperators, providers
      <3>3. Settled' => Settled
        BY <2>1, <2>2, <3>1, <3>2 DEF Settled
      <3>4. Settled' => Clean'
        BY <1>1, <2>1, <2>2, <3>1, <3>2, <3>3 DEF Blocked
      <3> QED
        BY <1>1, <2>4, <3>1, <3>2, <3>4
    <2>6. ASSUME NEW op \in {"refresh", "deploy"}, StartLookup(t, op)
          PROVE  Invs'
      <3> DEFINE others == {u \in Threads \ {t} : Fetching(u)}
                 hit == op = "deploy" /\ Fresh
      <3>1. /\ job'[t].op = op /\ job'[t].at = IF hit THEN "return" ELSE "fetch"
            /\ job'[t].late = IF op = "refresh" THEN installed ELSE promised
            /\ job'[t].alone = (others = {})
        BY <2>6 DEF StartLookup
      <3>2. UNCHANGED <<index, promised, installed>>
        BY <2>6 DEF StartLookup, providers
      <3>3. Looking(t)' /\ ~Keeping(t)' /\ (Fetching(t)' <=> ~hit)
        BY <3>1 DEF Looking, Fetching
      <3>4. Fine(t)'
        BY <1>1, <3>1, <3>2
      <3>5. Alone(t)'
        BY <2>2, <3>1 DEF Reliable
      <3>6. ASSUME NEW u \in Threads \ {t}, Fetching(u), ~hit PROVE ~Reliable(u)'
        <4>1. job'[u] = [job[u] EXCEPT !.alone = FALSE]
          BY <2>6, <3>6 DEF StartLookup
        <4>2. job[u] \in Lookup
          BY <3>6, Shapes DEF Fetching
        <4>3. job'[u].alone = FALSE
          BY <4>1, <4>2 DEF Lookup
        <4> QED
          BY <4>3 DEF Reliable
      <3>7. \A u \in Threads \ {t} : Reliable(u)' /\ Fetching(u)' => ~Fetching(t)'
        BY <2>2, <3>3, <3>6
      <3>8. Settled' => Settled
        <4>1. ~(Reliable(t)' /\ job'[t].at \in {"keep time", "return"})
          BY <3>1 DEF Reliable
        <4> QED
          BY <2>1, <2>2, <3>2, <4>1 DEF Settled
      <3>9. Settled' => Clean'
        BY <1>1, <2>1, <2>2, <3>2, <3>3, <3>8 DEF Blocked
      <3> QED
        BY <1>1, <2>4, <3>2, <3>4, <3>5, <3>7, <3>9
    <2>7. CASE Fetch(t)
      <3>1. job[t] \in Lookup /\ Looking(t) /\ Fetching(t)
        BY <2>7, Shapes DEF Fetch, At, Looking, Fetching, Lookup
      <3>2. \E i \in Index : (installed => ~Blocked(i))
                             /\ Goes(t, [job[t] EXCEPT !.at = "keep index", !.read = i])
        <4>1. now \in 0 .. MaxTime /\ installed \in BOOLEAN
          BY DEF TypeOK
        <4>2. CASE Goes(t, [job[t] EXCEPT !.at = "keep index",
                                          !.read = [reached |-> TRUE, has |-> installed, time |-> now]])
          BY <4>1, <4>2 DEF Index, Blocked
        <4>3. CASE Goes(t, [job[t] EXCEPT !.at = "keep index", !.read = [NoIndex EXCEPT !.time = now]])
          <5>1. [NoIndex EXCEPT !.time = now] \in Index /\ ~Blocked([NoIndex EXCEPT !.time = now])
            BY <4>1 DEF Index, NoIndex, Blocked
          <5> QED
            BY <4>3, <5>1
        <4> QED
          BY <2>7, <4>2, <4>3 DEF Fetch
      <3>3. PICK i \in Index : /\ installed => ~Blocked(i)
                               /\ job'[t] = [job[t] EXCEPT !.at = "keep index", !.read = i]
        BY <3>2 DEF Goes, TypeOK
      <3>4. /\ job'[t].at = "keep index" /\ job'[t].read = i /\ job'[t].op = job[t].op
            /\ job'[t].late = job[t].late /\ job'[t].alone = job[t].alone
        BY <3>1, <3>3 DEF Lookup
      <3>5. UNCHANGED <<index, promised, installed>>
        BY <2>7 DEF Fetch, providers
      <3>6. (Reliable(t)' <=> Reliable(t)) /\ Fetching(t)' /\ Looking(t)'
        BY <3>1, <3>4 DEF Reliable, Fetching, Looking
      <3>7. Fine(t) /\ Alone(t)
        BY <1>1, <3>1
      <3>8. Fine(t)'
        BY <3>1, <3>3, <3>4, <3>5, <3>7 DEF Blocked, Reliable
      <3>9. Settled' => Settled
        BY <2>1, <2>2, <3>4, <3>5 DEF Settled
      <3>10. Settled' => Clean'
        BY <1>1, <2>1, <2>2, <2>3, <3>3, <3>4, <3>5, <3>9 DEF Blocked
      <3>11. Alone(t)' /\ \A u \in Threads \ {t} : Reliable(u)' /\ Fetching(u)' => ~Fetching(t)'
        BY <1>1, <2>2, <3>1, <3>6, <3>7 DEF Looking, Fetching
      <3> QED
        BY <1>1, <2>4, <3>5, <3>8, <3>10, <3>11
    <2>8. CASE KeepIndex(t)
      <3>1. job[t] \in Lookup /\ Looking(t) /\ Fetching(t) /\ Keeping(t)
        BY <2>8, Shapes DEF KeepIndex, At, Looking, Fetching, Lookup
      <3>2. /\ index' = job[t].read /\ UNCHANGED <<promised, installed>>
            /\ job'[t] = [job[t] EXCEPT !.at = "keep time"]
        BY <2>8 DEF KeepIndex, Goes, TypeOK
      <3>3. /\ job'[t].at = "keep time" /\ job'[t].op = job[t].op
            /\ job'[t].late = job[t].late /\ job'[t].alone = job[t].alone
        BY <3>1, <3>2 DEF Lookup
      <3>4. (Reliable(t)' <=> Reliable(t)) /\ Fetching(t)' /\ Looking(t)' /\ ~Keeping(t)'
        BY <3>1, <3>3 DEF Reliable, Fetching, Looking
      <3>5. Fine(t) /\ Alone(t)
        BY <1>1, <3>1
      <3>6. Fine(t)'
        BY <3>1, <3>2, <3>3, <3>5
      <3>7. Settled' => Clean'
        <4>1. CASE Settled
          BY <1>1, <2>1, <2>2, <3>1, <3>2, <3>4, <4>1 DEF Blocked
        <4>2. CASE Reliable(t)
          <5>1. ~Blocked(job[t].read) /\ \A u \in Threads \ {t} : ~Keeping(u)
            BY <3>1, <3>5, <4>2 DEF Fetching, Looking
          <5> QED
            BY <2>2, <3>2, <3>4, <5>1 DEF Blocked
        <4>3. Settled' => Settled \/ Reliable(t)
          BY <2>1, <2>2, <3>2, <3>4 DEF Settled
        <4> QED
          BY <4>1, <4>2, <4>3
      <3>8. Alone(t)' /\ \A u \in Threads \ {t} : Reliable(u)' /\ Fetching(u)' => ~Fetching(t)'
        BY <1>1, <2>2, <3>1, <3>4, <3>5 DEF Looking, Fetching
      <3> QED
        BY <1>1, <2>4, <3>2, <3>6, <3>7, <3>8
    <2>9. CASE KeepTime(t)
      <3>1. job[t] \in Lookup /\ Looking(t) /\ job[t].at = "keep time"
        BY <2>9, Shapes DEF KeepTime, At, Looking, Lookup
      <3>2. /\ UNCHANGED <<index, promised, installed>>
            /\ job'[t] = [job[t] EXCEPT !.at = "return"]
        BY <2>9 DEF KeepTime, Goes, TypeOK
      <3>3. /\ job'[t].at = "return" /\ job'[t].op = job[t].op
            /\ job'[t].late = job[t].late /\ job'[t].alone = job[t].alone
        BY <3>1, <3>2 DEF Lookup
      <3>4. (Reliable(t)' <=> Reliable(t)) /\ ~Fetching(t)' /\ Looking(t)' /\ ~Keeping(t)'
        BY <3>1, <3>3 DEF Reliable, Fetching, Looking
      <3>5. Fine(t)'
        BY <1>1, <3>1, <3>2, <3>3
      <3>6. Settled' => Settled
        BY <2>1, <2>2, <3>1, <3>2, <3>4 DEF Settled
      <3>7. Settled' => Clean'
        BY <1>1, <2>1, <2>2, <3>2, <3>4, <3>6 DEF Blocked
      <3> QED
        BY <1>1, <2>4, <3>2, <3>4, <3>5, <3>7
    <2>10. CASE Return(t)
      <3>1. job[t] \in Lookup /\ Looking(t) /\ job[t].at = "return"
        BY <2>10, Shapes DEF Return, At, Looking, Lookup
      <3>2. /\ UNCHANGED <<index, installed>>
            /\ promised' = (promised \/ Reliable(t))
        BY <2>10 DEF Return, Reliable
      <3>3. PICK s \in {"done", "refused"} :
                /\ s = "refused" => job[t].op = "deploy" /\ Blocked(index)
                /\ job'[t] = [job[t] EXCEPT !.at = s, !.read = index]
        BY <2>10 DEF Return, Goes, TypeOK
      <3>4. /\ job'[t].at = s /\ job'[t].op = job[t].op
            /\ job'[t].late = job[t].late /\ job'[t].alone = job[t].alone
        BY <3>1, <3>3 DEF Lookup
      <3>5. ~Fetching(t)' /\ Looking(t)' /\ ~Keeping(t)'
        BY <3>1, <3>4 DEF Fetching, Looking
      <3>6. Settled' => Settled
        BY <2>1, <2>2, <3>1, <3>2, <3>4 DEF Settled
      <3>7. Settled' => Clean'
        BY <1>1, <2>1, <2>2, <3>2, <3>5, <3>6 DEF Blocked
      <3>8. promised' => installed
        BY <2>3, <3>1, <3>2 DEF Settled
      <3>9. Fine(t)'
        <4>1. Fine(t)
          BY <1>1
        <4>2. job[t].op = "deploy" /\ job[t].late => ~Blocked(index)
          BY <1>1, <3>1, <4>1 DEF Settled
        <4> QED
          BY <3>1, <3>2, <3>3, <3>4, <4>1, <4>2
      <3> QED
        BY <1>1, <2>4, <3>2, <3>5, <3>7, <3>8, <3>9
    <2> QED
      BY <1>5, <2>5, <2>6, <2>7, <2>8, <2>9, <2>10 DEF LookupStep
  <1> QED
    BY <1>2, <1>4, <1>5, NextSteps

\* A refresh that no other fetch overlapped is obeyed by every deploy that follows it.
THEOREM RefreshesAreObeyed == Spec => []RefreshIsObeyed
  <1>1. Init => ObeyInv
    <2> SUFFICES ASSUME Init PROVE ObeyInv
      OBVIOUS
    <2>1. ~promised /\ \A t \in Threads : ~Looking(t) /\ job[t].op # "refresh"
      BY DEF Init, Looking, Idle
    <2>2. ~Settled
      BY <2>1 DEF Settled, Reliable
    <2> QED
      BY <2>1, <2>2 DEF ObeyInv
  <1>2. TypeOK /\ TypeOK' /\ ObeyInv /\ [Next]_vars => ObeyInv'
    BY ObeyKept
  <1>3. ObeyInv => RefreshIsObeyed
    BY DEF ObeyInv, RefreshIsObeyed, Looking
  <1> QED
    BY <1>1, <1>2, <1>3, CachesTyped, PTL DEF Spec

-----------------------------------------------------------------------------
(* The registry. *)

\* Only a load writes the cache or crosses another; it crosses who is midway.
LEMMA RegistryFrame ==
    ASSUME NEW t \in Threads, CallStep(t) \/ LookupStep(t) \/ LoadStep(t)
    PROVE  /\ KeepSignature(t) \/ signature' = signature
           /\ KeepOperators(t) \/ operators' = operators
           /\ crossed => crossed'
           /\ (Check(t) \/ Hit(t) \/ KeepSignature(t) \/ KeepOperators(t)) /\ ~crossed'
                => \A u \in Threads \ {t} : ~Midway(u)
  <1>1. /\ KeepSignature(t) \/ signature' = signature
        /\ KeepOperators(t) \/ operators' = operators
    BY DEF CallStep, StartCall, EnsureToken, Send, ClearToken, registry,
           LookupStep, StartLookup, Fetch, KeepIndex, KeepTime, Return,
           LoadStep, StartLoad, Check, Hit, Parse, KeepSignature, KeepOperators
  <1>2. (Check(t) \/ Hit(t) \/ KeepSignature(t) \/ KeepOperators(t)) \/ crossed' = crossed
    BY DEF CallStep, StartCall, EnsureToken, Send, ClearToken, registry,
           LookupStep, StartLookup, Fetch, KeepIndex, KeepTime, Return,
           LoadStep, StartLoad, Parse
  <1>3. Check(t) \/ Hit(t) \/ KeepSignature(t) \/ KeepOperators(t) => Access(t)
    BY DEF Check, Hit, KeepSignature, KeepOperators
  <1>4. Access(t) => (crossed => crossed') /\ (~crossed' => ~Between(t))
    BY DEF Access
  <1>5. ~Between(t) => \A u \in Threads \ {t} : ~Midway(u)
    BY DEF Between, Midway
  <1> QED
    BY <1>1, <1>2, <1>3, <1>4, <1>5

LEMMA LoadKept ==
    ASSUME TypeOK, TypeOK', LoadInv, [Next]_vars
    PROVE  LoadInv'
  <1> DEFINE Newer(t) == Loading(t) =>
                /\ job[t].signature <= disk
                /\ job[t].at \in {"keep signature", "keep operators"} => job[t].read >= job[t].signature
             OneMidway == \A t, u \in Threads : Midway(t) /\ Midway(u) => t = u
             Whole == (\A t \in Threads : Midway(t) => job[t].at = "hit") => operators >= signature
             Fine(t) == Loading(t) =>
                /\ job[t].at = "keep operators" => signature = job[t].signature
                /\ job[t].at = "hit" => operators >= job[t].signature
                /\ job[t].at = "done" => job[t].read >= job[t].signature
             Orderly == OneMidway /\ Whole /\ \A t \in Threads : Fine(t)
  <1>1. (\A t \in Threads : Newer(t)) /\ (~crossed => Orderly)
    BY DEF LoadInv
  <1>2. ASSUME \A t \in Threads : Newer(t)', ~crossed' => Orderly' PROVE LoadInv'
    BY <1>2 DEF LoadInv
  <1>3. CASE Expire \/ Install \/ Tick \/ Edit \/ UNCHANGED vars
    <2>1. UNCHANGED <<job, signature, operators, crossed>>
      BY <1>3 DEF Expire, Install, Tick, Edit, vars, registry
    <2>2. disk' \in Nat /\ disk \in Nat /\ disk <= disk'
      BY <1>3 DEF Expire, Install, Tick, Edit, vars, registry, TypeOK
    <2>3. ASSUME NEW t \in Threads PROVE Newer(t)'
      <3> SUFFICES ASSUME Loading(t) PROVE Newer(t)'
        BY <2>1 DEF Loading
      <3>1. job[t].signature \in Nat
        BY Shapes DEF Loading, Load
      <3>2. job[t].signature <= disk
        BY <1>1
      <3>3. job[t].signature <= disk'
        BY <2>2, <3>1, <3>2
      <3> QED
        BY <1>1, <2>1, <3>3
    <2>4. ~crossed => Orderly
      BY <1>1
    <2> QED
      BY <1>2, <2>1, <2>3, <2>4 DEF Loading, Midway
  <1>4. ASSUME NEW t \in Threads, CallStep(t) \/ LookupStep(t) \/ LoadStep(t)
        PROVE  LoadInv'
    <2>1. \A u \in Threads \ {t} :
            /\ Loading(u)' <=> Loading(u)
            /\ Midway(u)' <=> Midway(u)
            /\ Loading(u) => job'[u] = job[u]
      BY <1>4, Bystander DEF Loading, Midway
    <2>2. disk' = disk
      BY <1>4 DEF CallStep, StartCall, EnsureToken, Send, ClearToken, registry,
                  LookupStep, StartLookup, Fetch, KeepIndex, KeepTime, Return,
                  LoadStep, StartLoad, Check, Hit, Parse, KeepSignature, KeepOperators
    <2>3. (crossed => crossed') /\ \A u \in Threads \ {t} : Newer(u)'
      BY <1>1, <1>4, <2>1, <2>2, RegistryFrame
    <2>4. CASE ~LoadStep(t)
      <3>1. ~Loading(t)' /\ ~Midway(t)'
        BY <1>4, <2>4, OwnKind DEF Loading, Midway
      <3>2. UNCHANGED <<signature, operators>>
        BY <1>4, <2>4, RegistryFrame DEF LoadStep
      <3>4. ~Midway(t)
        BY <1>4, <2>4 DEF CallStep, StartCall, EnsureToken, Send, ClearToken, Request, At, Midway,
                          LookupStep, StartLookup, Fetch, KeepIndex, KeepTime, Return
      <3>5. ASSUME Orderly PROVE Orderly'
        <4>1. OneMidway'
          BY <2>1, <3>1, <3>4, <3>5
        <4>2. Whole'
          <5>1. \A u \in Threads \ {t} : Midway(u) => job'[u] = job[u]
            BY <2>1 DEF Midway, Loading
          <5> QED
            BY <2>1, <3>1, <3>2, <3>4, <3>5, <5>1
        <4>3. ASSUME NEW u \in Threads PROVE Fine(u)'
          <5>1. CASE u = t
            BY <3>1, <5>1 DEF Loading
          <5>2. CASE u # t
            BY <2>1, <3>2, <3>5, <5>2 DEF Loading
          <5> QED
            BY <5>1, <5>2
        <4> QED
          BY <4>1, <4>2, <4>3
      <3> QED
        BY <1>1, <1>2, <2>3, <3>1, <3>5
    <2>5. ASSUME LoadStep(t), Newer(t)', Loading(t)', ~Midway(t), ~Midway(t)',
                 UNCHANGED <<signature, operators>>, job'[t].at # "done"
          PROVE  LoadInv'
      <3>1. ASSUME Orderly PROVE Orderly'
        <4>1. OneMidway'
          BY <2>1, <2>5, <3>1
        <4>2. Whole'
          <5>1. \A u \in Threads \ {t} : Midway(u) => job'[u] = job[u]
            BY <2>1 DEF Midway, Loading
          <5> QED
            BY <2>1, <2>5, <3>1, <5>1
        <4>3. ASSUME NEW u \in Threads PROVE Fine(u)'
          <5>1. CASE u = t
            BY <2>5, <3>1, <5>1 DEF Midway, Loading
          <5>2. CASE u # t
            BY <2>1, <2>5, <3>1, <5>2 DEF Loading
          <5> QED
            BY <5>1, <5>2
        <4> QED
          BY <4>1, <4>2, <4>3
      <3> QED
        BY <1>1, <1>2, <2>3, <2>5, <3>1
    <2>6. CASE StartLoad(t)
      <3>1. job'[t] = [op |-> "load", at |-> "check", signature |-> disk, read |-> None]
        BY <2>6 DEF StartLoad, Goes, TypeOK
      <3>2. Newer(t)' /\ Loading(t)' /\ ~Midway(t)' /\ job'[t].at # "done"
        BY <2>2, <3>1 DEF Loading, Midway, TypeOK
      <3>3. ~Midway(t) /\ UNCHANGED <<signature, operators>>
        BY <2>6 DEF StartLoad, Request, Midway, registry
      <3> QED
        BY <2>5, <2>6, <3>2, <3>3 DEF LoadStep
    <2>7. CASE Parse(t)
      <3>1. job[t] \in Load /\ ~Midway(t) /\ UNCHANGED <<signature, operators>>
        BY <2>7, Shapes DEF Parse, At, Midway, registry
      <3>2. job[t].signature <= disk /\ job[t].signature \in Nat /\ disk \in Nat
        BY <1>1, <3>1 DEF Loading, Load, TypeOK
      <3>3. CASE Goes(t, [job[t] EXCEPT !.at = "keep signature", !.read = disk])
        <4>1. job'[t] = [job[t] EXCEPT !.at = "keep signature", !.read = disk]
          BY <3>3 DEF Goes, TypeOK
        <4>2. /\ job'[t].op = "load" /\ job'[t].at = "keep signature"
              /\ job'[t].signature = job[t].signature /\ job'[t].read = disk
          BY <3>1, <4>1 DEF Load
        <4>3. Newer(t)'
          BY <2>2, <3>2, <4>2
        <4> QED
          BY <2>5, <2>7, <3>1, <4>2, <4>3 DEF LoadStep, Loading, Midway
      <3>4. CASE Goes(t, [job[t] EXCEPT !.at = "failed"])
        <4>1. job'[t] = [job[t] EXCEPT !.at = "failed"]
          BY <3>4 DEF Goes, TypeOK
        <4>2. job'[t].op = "load" /\ job'[t].at = "failed" /\ job'[t].signature = job[t].signature
          BY <3>1, <4>1 DEF Load
        <4>3. Newer(t)'
          BY <2>2, <3>2, <4>2
        <4> QED
          BY <2>5, <2>7, <3>1, <4>2, <4>3 DEF LoadStep, Loading, Midway
      <3> QED
        BY <2>7, <3>3, <3>4 DEF Parse
    <2>8. ASSUME Check(t) \/ Hit(t) \/ KeepSignature(t) \/ KeepOperators(t), ~crossed'
          PROVE  Orderly /\ ~crossed /\ \A u \in Threads \ {t} : ~Midway(u) /\ ~Midway(u)'
      BY <1>1, <1>4, <2>1, <2>3, <2>8, RegistryFrame
    <2>9. ASSUME Check(t) \/ Hit(t) \/ KeepSignature(t) \/ KeepOperators(t), Newer(t)',
                 ~crossed' => /\ Fine(t)'
                              /\ (Midway(t)' => job'[t].at = "hit") => operators' >= signature'
          PROVE  LoadInv'
      <3>1. ASSUME ~crossed' PROVE Orderly'
        <4>1. \A u \in Threads \ {t} : ~Midway(u)' /\ ~Midway(u) /\ Fine(u)
          BY <2>8, <2>9, <3>1
        <4>2. ASSUME NEW u \in Threads \ {t} PROVE Fine(u)'
          <5> SUFFICES ASSUME Loading(u) PROVE Fine(u)'
            BY <2>1
          <5>1. job'[u] = job[u] /\ Fine(u) /\ ~Midway(u)
            BY <2>1, <4>1
          <5> QED
            BY <5>1 DEF Loading, Midway
        <4> QED
          BY <2>9, <3>1, <4>1, <4>2
      <3> QED
        BY <1>2, <2>3, <2>9, <3>1
    <2>10. CASE Check(t)
      <3>1. job[t] \in Load /\ ~Midway(t) /\ UNCHANGED <<signature, operators>>
        BY <2>10, Shapes DEF Check, At, Midway
      <3>2. PICK s \in {"hit", "parse"} :
                /\ s = "hit" => signature = job[t].signature
                /\ job'[t] = [job[t] EXCEPT !.at = s]
        BY <2>10 DEF Check, Goes, TypeOK
      <3>3. /\ job'[t].op = "load" /\ job'[t].at = s
            /\ job'[t].signature = job[t].signature /\ job'[t].read = job[t].read
        BY <3>1, <3>2 DEF Load
      <3>4. Newer(t)'
        BY <1>1, <2>2, <3>1, <3>3 DEF Loading, Load
      <3>5. ~crossed' => operators >= signature
        BY <2>8, <2>10, <3>1
      <3> QED
        BY <2>9, <2>10, <3>1, <3>2, <3>3, <3>4, <3>5
    <2>11. CASE Hit(t)
      <3>1. job[t] \in Load /\ job[t].at = "hit" /\ UNCHANGED <<signature, operators>>
        BY <2>11, Shapes DEF Hit, At
      <3>2. job'[t] = [job[t] EXCEPT !.at = "done", !.read = operators]
        BY <2>11 DEF Hit, Goes, TypeOK
      <3>3. /\ job'[t].op = "load" /\ job'[t].at = "done"
            /\ job'[t].signature = job[t].signature /\ job'[t].read = operators
        BY <3>1, <3>2 DEF Load
      <3>4. Newer(t)'
        BY <1>1, <2>2, <3>1, <3>3 DEF Loading, Load
      <3>5. ~crossed' => operators >= signature /\ operators >= job[t].signature
        BY <2>8, <2>11, <3>1 DEF Loading, Load
      <3> QED
        BY <2>9, <2>11, <3>1, <3>3, <3>4, <3>5
    <2>12. CASE KeepSignature(t)
      <3>1. job[t] \in Load /\ job[t].at = "keep signature"
        BY <2>12, Shapes DEF KeepSignature, At
      <3>2. signature' = job[t].signature /\ job'[t] = [job[t] EXCEPT !.at = "keep operators"]
        BY <2>12 DEF KeepSignature, Signed, Goes, TypeOK
      <3>3. /\ job'[t].op = "load" /\ job'[t].at = "keep operators"
            /\ job'[t].signature = job[t].signature /\ job'[t].read = job[t].read
        BY <3>1, <3>2 DEF Load
      <3>4. Newer(t)'
        BY <1>1, <2>2, <3>1, <3>3 DEF Loading, Load
      <3> QED
        BY <2>9, <2>12, <3>2, <3>3, <3>4 DEF Midway
    <2>13. CASE KeepOperators(t)
      <3>1. job[t] \in Load /\ job[t].at = "keep operators"
        BY <2>13, Shapes DEF KeepOperators, At
      <3>2. /\ operators' = job[t].read /\ signature' = signature
            /\ job'[t] = [job[t] EXCEPT !.at = "done"]
        BY <2>13 DEF KeepOperators, Goes, TypeOK
      <3>3. /\ job'[t].op = "load" /\ job'[t].at = "done"
            /\ job'[t].signature = job[t].signature /\ job'[t].read = job[t].read
        BY <3>1, <3>2 DEF Load
      <3>4. Loading(t) /\ Newer(t)
        BY <1>1, <3>1 DEF Loading, Load
      <3>5. Newer(t)'
        BY <2>2, <3>1, <3>3, <3>4
      <3>6. ~crossed' => signature = job[t].signature
        BY <2>8, <2>13, <3>1, <3>4
      <3> QED
        BY <2>9, <2>13, <3>1, <3>2, <3>3, <3>4, <3>5, <3>6
    <2> QED
      BY <1>4, <2>4, <2>6, <2>7, <2>10, <2>11, <2>12, <2>13 DEF LoadStep
  <1> QED
    BY <1>3, <1>4, NextSteps

\* Loads that do not cross hand out definitions as new as the files were.
THEOREM LoadsAreCurrent == Spec => []LoadIsCurrent
  <1>1. Init => LoadInv
    <2> SUFFICES ASSUME Init PROVE LoadInv
      OBVIOUS
    <2>1. \A t \in Threads : ~Loading(t) /\ ~Midway(t)
      BY DEF Init, Loading, Midway, Idle
    <2>2. operators = 0 /\ signature = 0
      BY DEF Init, None
    <2>3. operators >= signature
      BY <2>2
    <2> QED
      BY <2>1, <2>3 DEF LoadInv
  <1>2. TypeOK /\ TypeOK' /\ LoadInv /\ [Next]_vars => LoadInv'
    BY LoadKept
  <1>3. LoadInv => LoadIsCurrent
    BY DEF LoadInv, LoadIsCurrent, Loading
  <1> QED
    BY <1>1, <1>2, <1>3, CachesTyped, PTL DEF Spec
=============================================================================
