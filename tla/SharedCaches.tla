---------------------------- MODULE SharedCaches ----------------------------
(***************************************************************************)
(* What the threads of the server's pool share in memory: the client's     *)
(* token, behind a lock; the index of the providers that the target        *)
(* Airflow has, and the registry of operators, behind none.  A step is a   *)
(* section under the lock, a call to Airflow, a look at the disk, or one   *)
(* access to a cache: Python may switch threads between any two.           *)
(*                                                                         *)
(* Tokens, and states of the registry's files, are numbered in the order   *)
(* in which they come; the clock starts at 1, and None is 0.               *)
(***************************************************************************)
EXTENDS Naturals, FiniteSets

CONSTANTS
    Threads,
    TTL,           \* _TTL_SECONDS
    Slow,          \* how long an answer of Airflow may take
    MaxTime, MaxOps, MaxChanges, MaxFaults      \* bounds of the model

ASSUME CachesAssumption ==
    /\ TTL \in Nat \ {0} /\ Slow \in Nat /\ MaxTime \in Nat \ {0}
    /\ MaxOps \in Nat /\ MaxChanges \in Nat /\ MaxFaults \in Nat

VARIABLES
    static, token, issued, valid,    \* AirflowClient._token, and Airflow's view of tokens
    index, indexAt, installed,       \* providers._cache; has the target the provider?
    signature, operators, disk,      \* registry._cache, and the files
    job, now,
    promised, crossed,               \* history, see the properties
    ops, changes, faults

tokens == <<static, token, issued, valid>>
providers == <<index, indexAt, installed, promised>>
registry == <<signature, operators, disk, crossed>>
bounds == <<ops, changes, faults>>
vars == <<tokens, providers, registry, job, now, bounds>>

None == 0

\* What list_providers answered, and when; not reached, it is the index None.
Index == [reached: BOOLEAN, has: BOOLEAN, time: 0 .. MaxTime]
NoIndex == [reached |-> FALSE, has |-> FALSE, time |-> 0]

\* rejected is history: the last token there was when Airflow first said 401.
Call == [op: {"call"}, at: {"token", "send", "clear", "done", "failed", "unauthorized"},
         token: Nat, first: BOOLEAN, rejected: Nat]

\* late and alone are history: whether the provider was there, or promised, when the
\* request came; whether no other thread has been fetching.
Lookup == [op: {"refresh", "deploy"},
           at: {"fetch", "keep index", "keep time", "return", "done", "refused"},
           began: 1 .. MaxTime, read: Index, late: BOOLEAN, alone: BOOLEAN]

\* signature: the state of the files when the request came; read: what it was given.
Load == [op: {"load"},
         at: {"check", "hit", "parse", "keep signature", "keep operators", "done", "failed"},
         signature: Nat, read: Nat]

Idle == [op |-> "none", at |-> "idle"]

TypeOK ==
    /\ static \in BOOLEAN /\ token \in 0 .. issued /\ issued \in Nat /\ valid \subseteq 1 .. issued
    /\ index \in Index /\ indexAt \in 0 .. MaxTime /\ installed \in BOOLEAN
    /\ signature \in Nat /\ operators \in Nat /\ disk \in Nat \ {0}
    /\ job \in [Threads -> Call \cup Lookup \cup Load \cup {Idle}]
    /\ now \in 1 .. MaxTime
    /\ promised \in BOOLEAN /\ crossed \in BOOLEAN
    /\ ops \in 0 .. MaxOps /\ changes \in 0 .. MaxChanges /\ faults \in 0 .. MaxFaults

\* AIRFLOW_TOKEN may give the client a token that is not its own.
Init ==
    /\ static \in BOOLEAN
    /\ issued = 1 /\ valid = {1} /\ token = IF static THEN 1 ELSE None
    /\ index = NoIndex /\ indexAt = None /\ installed \in BOOLEAN
    /\ signature = None /\ operators = None /\ disk = 1
    /\ job = [t \in Threads |-> Idle] /\ now = 1
    /\ promised = FALSE /\ crossed = FALSE
    /\ ops = 0 /\ changes = 0 /\ faults = 0

-----------------------------------------------------------------------------
At(t, stage) == job[t].at = stage

Goes(t, j) == job' = [job EXCEPT ![t] = j]

Fault == faults < MaxFaults /\ faults' = faults + 1

\* A thread that has answered takes the next request.
Request(t) ==
    /\ job[t].at \in {"idle", "done", "failed", "unauthorized", "refused"}
    /\ ops < MaxOps /\ ops' = ops + 1

-----------------------------------------------------------------------------
(* AirflowClient._request. *)

StartCall(t) ==
    /\ Request(t)
    /\ Goes(t, [op |-> "call", at |-> "token", token |-> None, first |-> TRUE, rejected |-> None])
    /\ UNCHANGED <<tokens, providers, registry, now, changes, faults>>

\* The token is fetched with the lock held.
EnsureToken(t) ==
    LET j == job[t]
    IN  /\ At(t, "token")
        /\ \/ /\ token # None
              /\ Goes(t, [j EXCEPT !.at = "send", !.token = token])
              /\ UNCHANGED <<token, issued, valid, faults>>
           \/ /\ token = None
              /\ issued' = issued + 1 /\ token' = issued' /\ valid' = valid \cup {issued'}
              /\ Goes(t, [j EXCEPT !.at = "send", !.token = issued'])
              /\ UNCHANGED faults
           \/ /\ token = None /\ Fault
              /\ Goes(t, [j EXCEPT !.at = "failed"])
              /\ UNCHANGED <<token, issued, valid>>
        /\ UNCHANGED <<static, providers, registry, now, ops, changes>>

Send(t) ==
    LET j == job[t]
        again == j.first /\ ~static
    IN  /\ At(t, "send")
        /\ \/ j.token \in valid /\ Goes(t, [j EXCEPT !.at = "done"]) /\ UNCHANGED faults
           \/ /\ j.token \notin valid /\ UNCHANGED faults
              /\ Goes(t, IF again THEN [j EXCEPT !.at = "clear", !.rejected = issued]
                                  ELSE [j EXCEPT !.at = "unauthorized"])
           \/ Fault /\ Goes(t, [j EXCEPT !.at = "failed"])
        /\ UNCHANGED <<tokens, providers, registry, now, ops, changes>>

\* Mutant: the token is forgotten only if another has been issued since.
ClearedLater(j) == IF issued > j.rejected THEN None ELSE token

\* Whatever token there is, one that another thread has just fetched included.
Cleared(j) == None

ClearToken(t) ==
    LET j == job[t]
    IN  /\ At(t, "clear")
        /\ token' = Cleared(j)
        /\ Goes(t, [j EXCEPT !.at = "token", !.first = FALSE])
        /\ UNCHANGED <<static, issued, valid, providers, registry, now, bounds>>

\* External: Airflow no longer accepts a token.
Expire ==
    /\ changes < MaxChanges /\ changes' = changes + 1
    /\ \E n \in valid : valid' = valid \ {n}
    /\ UNCHANGED <<static, token, issued, providers, registry, job, now, ops, faults>>

-----------------------------------------------------------------------------
(* providers.get_target_index, for a palette refreshed by hand or for a deploy. *)

Fetching(t) == job[t].op \in {"refresh", "deploy"} /\ job[t].at \in {"fetch", "keep index", "keep time"}

\* Mutant: the index is kept until somebody refreshes it.
FreshForEver == indexAt # None

Fresh == indexAt # None /\ now - indexAt < TTL

StartLookup(t, op) ==
    LET hit == op = "deploy" /\ Fresh
        others == {u \in Threads \ {t} : Fetching(u)}
        j == [op |-> op, at |-> IF hit THEN "return" ELSE "fetch", began |-> now, read |-> NoIndex,
              late |-> IF op = "refresh" THEN installed ELSE promised, alone |-> others = {}]
    IN  /\ Request(t)
        /\ job' = [u \in Threads |-> IF u = t THEN j
                                     ELSE IF u \in others /\ ~hit THEN [job[u] EXCEPT !.alone = FALSE]
                                     ELSE job[u]]
        /\ UNCHANGED <<tokens, providers, registry, now, changes, faults>>

\* list_providers; the version that is asked for next only takes its time.
Fetch(t) ==
    LET kept(i) == [job[t] EXCEPT !.at = "keep index", !.read = i]
    IN  /\ At(t, "fetch")
        /\ \/ Goes(t, kept([reached |-> TRUE, has |-> installed, time |-> now])) /\ UNCHANGED faults
           \/ Fault /\ Goes(t, kept([NoIndex EXCEPT !.time = now]))
        /\ UNCHANGED <<tokens, providers, registry, now, ops, changes>>

KeepIndex(t) ==
    /\ At(t, "keep index")
    /\ index' = job[t].read
    /\ Goes(t, [job[t] EXCEPT !.at = "keep time"])
    /\ UNCHANGED <<tokens, indexAt, installed, promised, registry, now, bounds>>

\* Mutant: the time until which the answer may be used.
UsableUntil(j) == j.began + TTL

\* The time when the request came.
Stamp(j) == j.began

KeepTime(t) ==
    /\ At(t, "keep time")
    /\ indexAt' = Stamp(job[t])
    /\ Goes(t, [job[t] EXCEPT !.at = "return"])
    /\ UNCHANGED <<tokens, index, installed, promised, registry, now, bounds>>

\* Mutant: an index that could not be had blocks too.
BlockedBlindly(i) == ~i.has

\* provider_block_errors
Blocked(i) == i.reached /\ ~i.has

\* What is in the cache by now; a deploy is judged by it.
Return(t) ==
    LET j == job[t]
    IN  /\ At(t, "return")
        /\ Goes(t, [j EXCEPT !.at = IF j.op = "deploy" /\ Blocked(index) THEN "refused" ELSE "done",
                             !.read = index])
        /\ promised' = (promised \/ (j.op = "refresh" /\ j.late /\ j.alone))
        /\ UNCHANGED <<tokens, index, indexAt, installed, registry, now, bounds>>

\* External: the provider is installed.
Install ==
    /\ changes < MaxChanges /\ changes' = changes + 1
    /\ ~installed /\ installed' = TRUE
    /\ UNCHANGED <<tokens, index, indexAt, promised, registry, job, now, ops, faults>>

\* External: time passes, no more than Slow within a lookup.
Tick ==
    /\ now < MaxTime /\ now' = now + 1
    /\ \A t \in Threads : Fetching(t) \/ At(t, "return") => now - job[t].began < Slow
    /\ UNCHANGED <<tokens, providers, registry, job, bounds>>

-----------------------------------------------------------------------------
(* registry.load_registry. *)

StartLoad(t) ==
    /\ Request(t)
    /\ Goes(t, [op |-> "load", at |-> "check", signature |-> disk, read |-> None])
    /\ UNCHANGED <<tokens, providers, registry, now, changes, faults>>

\* Some other thread is between its two accesses to the cache.
Between(t) == \E u \in Threads \ {t} : job[u].op = "load" /\ job[u].at \in {"hit", "keep operators"}

Access(t) == crossed' = (crossed \/ Between(t))

\* Both keys are read: there are operators for good once there are any.
Check(t) ==
    LET j == job[t]
    IN  /\ At(t, "check") /\ Access(t)
        /\ Goes(t, [j EXCEPT !.at = IF operators # None /\ signature = j.signature
                                    THEN "hit" ELSE "parse"])
        /\ UNCHANGED <<tokens, providers, signature, operators, disk, now, bounds>>

Hit(t) ==
    /\ At(t, "hit") /\ Access(t)
    /\ Goes(t, [job[t] EXCEPT !.at = "done", !.read = operators])
    /\ UNCHANGED <<tokens, providers, signature, operators, disk, now, bounds>>

\* A file may not be YAML, or no definition: the cache stays as it is.
Parse(t) ==
    /\ At(t, "parse")
    /\ \/ Goes(t, [job[t] EXCEPT !.at = "keep signature", !.read = disk]) /\ UNCHANGED faults
       \/ Fault /\ Goes(t, [job[t] EXCEPT !.at = "failed"])
    /\ UNCHANGED <<tokens, providers, registry, now, ops, changes>>

\* Mutant: the signature is taken after the files were read.
SignedAfter(j) == disk

Signed(j) == j.signature

KeepSignature(t) ==
    /\ At(t, "keep signature") /\ Access(t)
    /\ signature' = Signed(job[t])
    /\ Goes(t, [job[t] EXCEPT !.at = "keep operators"])
    /\ UNCHANGED <<tokens, providers, operators, disk, now, bounds>>

KeepOperators(t) ==
    /\ At(t, "keep operators") /\ Access(t)
    /\ operators' = job[t].read
    /\ Goes(t, [job[t] EXCEPT !.at = "done"])
    /\ UNCHANGED <<tokens, providers, signature, disk, now, bounds>>

\* External: somebody changes a file of the registry.
Edit ==
    /\ changes < MaxChanges /\ changes' = changes + 1
    /\ disk' = disk + 1
    /\ UNCHANGED <<tokens, providers, signature, operators, crossed, job, now, ops, faults>>

Next ==
    \/ \E t \in Threads :
          \/ StartCall(t) \/ EnsureToken(t) \/ Send(t) \/ ClearToken(t)
          \/ \E op \in {"refresh", "deploy"} : StartLookup(t, op)
          \/ Fetch(t) \/ KeepIndex(t) \/ KeepTime(t) \/ Return(t)
          \/ StartLoad(t) \/ Check(t) \/ Hit(t) \/ Parse(t) \/ KeepSignature(t) \/ KeepOperators(t)
    \/ Expire \/ Install \/ Tick \/ Edit

Spec == Init /\ [][Next]_vars

-----------------------------------------------------------------------------
(* Properties. *)

\* "transparently refreshes once on a 401": however refreshes cross, a call that ends
\* unauthorized was rejected with a token issued after it had been rejected before.
RetryIsFresh ==
    \A t \in Threads :
        job[t].op = "call" /\ job[t].at = "unauthorized" /\ ~static => job[t].token > job[t].rejected

\* "Short so that `pip install`-ing a provider in the target shows up quickly": no lookup uses
\* an index that was read longer before than the cache's time and one slow answer.
IndexIsRecent ==
    \A t \in Threads :
        job[t].op \in {"refresh", "deploy"} /\ job[t].at \in {"done", "refused"} =>
            job[t].began < job[t].read.time + TTL + Slow

\* "Install it, refresh, then deploy": unless the refresh overlapped another fetch, whose
\* older answer may then replace its own, a deploy that comes after it is not refused.
RefreshIsObeyed ==
    \A t \in Threads : job[t].op = "deploy" /\ job[t].at = "refused" => ~job[t].late

\* "reloaded automatically when a file changes on disk": unless two threads crossed
\* between two accesses to the cache, nobody gets definitions older than the files were.
LoadIsCurrent ==
    \A t \in Threads :
        job[t].op = "load" /\ job[t].at = "done" /\ ~crossed => job[t].read >= job[t].signature
=============================================================================
