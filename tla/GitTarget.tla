------------------------------ MODULE GitTarget ------------------------------
(***************************************************************************)
(* GitDeployTarget: the dags folder is the working tree of a repository    *)
(* whose branch is pushed to the remote that Airflow reads.  Deploys,      *)
(* undeploys and rollbacks run on the threads of the server's pool, a step *)
(* for each operation on a file and each git command; there is no lock.    *)
(*                                                                         *)
(* A text is the number of the request that wrote it, None if there is no  *)
(* file.  A commit is a snapshot of the files, the file it is about and a  *)
(* number of its own; a branch is the sequence of its commits.             *)
(* SharedVolumeTarget is the same without the git commands.                *)
(***************************************************************************)
EXTENDS Naturals, Sequences, SequencesExt, FiniteSets

CONSTANTS
    Threads, Files,
    MaxOps, MaxFaults, MaxLocks, MaxPushes
    \* bounds of the model: requests, failing pushes, locked indexes, pushes of others

ASSUME GitAssumption == MaxOps \in Nat /\ MaxFaults \in Nat /\ MaxLocks \in Nat /\ MaxPushes \in Nat

VARIABLES
    tree, bak,          \* the working tree, and the .bak beside each file
    index,              \* what is staged
    branch, remote,     \* the commits of the branch, here and in the remote
    job,                \* what each thread is doing
    failing,            \* history: whether a commit or a push has failed
    stranded,           \* history: commits left behind by failed requests
    unstaged,           \* history: files whose last git add failed
    commits, ops, faults, locks, pushes    \* counters; commits numbers the commits, ops the texts

files == <<tree, bak>>
repo == <<index, branch, remote, commits, failing, stranded, unstaged>>
bounds == <<ops, faults, locks, pushes>>
vars == <<files, repo, job, bounds>>

None == 0
Snapshot == [Files -> 0 .. MaxOps]
Commit == [id: Nat, about: Files \cup {None}, text: Snapshot]

Tip == Last(branch).text
Published == Last(remote).text
Numbers(log) == {log[i].id : i \in DOMAIN log}

Stages == {"back up", "replace", "remove", "drop backup", "put back",
           "add", "diff", "commit", "push", "reset", "ok", "failed"}

\* commit is the number of the commit the thread has made; alone is history: no other thread
\* had a commit of its own on the way meanwhile.
Job == [op: {"deploy", "undeploy", "rollback"}, at: Stages, file: Files, text: 0 .. MaxOps,
        commit: Nat, alone: BOOLEAN]
Idle == [at |-> "idle"]

TypeOK ==
    /\ tree \in Snapshot /\ bak \in Snapshot /\ index \in Snapshot
    /\ branch \in Seq(Commit) \ {<<>>} /\ remote \in Seq(Commit) \ {<<>>}
    /\ job \in [Threads -> Job \cup {Idle}]
    /\ failing \in BOOLEAN /\ stranded \subseteq Nat /\ unstaged \subseteq Files
    /\ commits \in Nat /\ ops \in 0 .. MaxOps
    /\ faults \in 0 .. MaxFaults /\ locks \in 0 .. MaxLocks /\ pushes \in 0 .. MaxPushes

Init ==
    /\ tree = [f \in Files |-> None] /\ bak = tree /\ index = tree
    /\ branch = <<[id |-> 0, about |-> None, text |-> tree]>> /\ remote = branch
    /\ job = [t \in Threads |-> Idle]
    /\ failing = FALSE /\ stranded = {} /\ unstaged = {}
    /\ commits = 0 /\ ops = 0 /\ faults = 0 /\ locks = 0 /\ pushes = 0

-----------------------------------------------------------------------------
(* The requests. *)

At(t, stage) == job[t].at = stage

Goes(t, stage) == job' = [job EXCEPT ![t].at = stage]

Request(t, op, f, first) ==
    /\ job[t] = Idle /\ ops < MaxOps /\ ops' = ops + 1
    /\ job' = [job EXCEPT ![t] = [op |-> op, at |-> first, file |-> f, text |-> ops + 1,
                                  commit |-> None, alone |-> TRUE]]
    /\ UNCHANGED <<files, repo, faults, locks, pushes>>

Deploy(t, f) == Request(t, "deploy", f, "back up")

\* purge_dag looks whether there is a file to delete.
Undeploy(t, f) == Request(t, "undeploy", f, IF tree[f] = None THEN "ok" ELSE "remove")

Rollback(t, f) == Request(t, "rollback", f, IF bak[f] = None THEN "ok" ELSE "put back")

Answer(t) ==
    /\ job[t] # Idle /\ job[t].at \in {"ok", "failed"}
    /\ job' = [job EXCEPT ![t] = Idle]
    /\ UNCHANGED <<files, repo, bounds>>

-----------------------------------------------------------------------------
(* SharedVolumeTarget: write, delete, restore_backup. *)

BackUp(t) ==
    LET f == job[t].file
    IN  /\ At(t, "back up") /\ Goes(t, "replace")
        /\ bak' = IF tree[f] = None THEN bak ELSE [bak EXCEPT ![f] = tree[f]]
        /\ UNCHANGED <<tree, repo, bounds>>

Replace(t) ==
    /\ At(t, "replace") /\ Goes(t, "add")
    /\ tree' = [tree EXCEPT ![job[t].file] = job[t].text]
    /\ UNCHANGED <<bak, repo, bounds>>

Unlink(t) ==
    /\ At(t, "remove") /\ Goes(t, "drop backup")
    /\ tree' = [tree EXCEPT ![job[t].file] = None]
    /\ UNCHANGED <<bak, repo, bounds>>

\* The backup may have gone, or become another, since it was looked for.
PutBack(t) ==
    LET f == job[t].file
    IN  /\ At(t, "put back")
        /\ IF bak[f] = None THEN Goes(t, "failed") /\ UNCHANGED tree
           ELSE Goes(t, "drop backup") /\ tree' = [tree EXCEPT ![f] = bak[f]]
        /\ UNCHANGED <<bak, repo, bounds>>

DropBackup(t) ==
    /\ At(t, "drop backup") /\ Goes(t, "add")
    /\ bak' = [bak EXCEPT ![job[t].file] = None]
    /\ UNCHANGED <<tree, repo, bounds>>

-----------------------------------------------------------------------------
(* _commit. *)

\* External: a git process, of another request or of a person, holds index.lock.
Locked == locks < MaxLocks /\ locks' = locks + 1

\* Mutant: a file that is not known to the index is not added.
StageKnown(f) == IF index[f] = None THEN index ELSE [index EXCEPT ![f] = tree[f]]

Staged(f) == [index EXCEPT ![f] = tree[f]]

Add(t) ==
    /\ At(t, "add") /\ Goes(t, "diff")
    /\ index' = Staged(job[t].file) /\ unstaged' = unstaged \ {job[t].file}
    /\ UNCHANGED <<files, branch, remote, commits, failing, stranded, bounds>>

\* Nobody looks whether git add failed, and the request goes on.
AddFails(t) ==
    /\ At(t, "add") /\ Locked /\ Goes(t, "diff")
    /\ unstaged' = unstaged \cup {job[t].file}
    /\ UNCHANGED <<files, index, branch, remote, commits, failing, stranded, ops, faults, pushes>>

\* Nothing staged: "a re-deploy of identical content, or a delete of a never-committed file".
Diff(t) ==
    LET f == job[t].file
    IN  /\ At(t, "diff")
        /\ Goes(t, IF index[f] = Tip[f] THEN "ok" ELSE "commit")
        /\ UNCHANGED <<files, repo, bounds>>

\* Mutant: whatever is staged is committed.
CommitIndex(f) == index

\* A commit by path takes the path from the working tree, and everything else from HEAD.
Committed(f) == [Tip EXCEPT ![f] = tree[f]]

OnTheWay(u) == job[u] # Idle /\ job[u].at \in {"push", "reset"}

MakeCommit(t) ==
    LET f == job[t].file
        crossed == \E u \in Threads \ {t} : OnTheWay(u)
    IN  /\ At(t, "commit")
        /\ IF Committed(f) = Tip
           THEN Goes(t, "failed") /\ UNCHANGED <<index, branch, commits>>
           ELSE /\ commits' = commits + 1
                /\ branch' = Append(branch, [id |-> commits', about |-> f, text |-> Committed(f)])
                /\ index' = [index EXCEPT ![f] = tree[f]]
                /\ job' = [u \in Threads |->
                      IF u = t THEN [job[t] EXCEPT !.at = "push", !.commit = commits', !.alone = ~crossed]
                      ELSE IF OnTheWay(u) THEN [job[u] EXCEPT !.alone = FALSE]
                      ELSE job[u]]
        /\ UNCHANGED <<files, remote, failing, stranded, unstaged, bounds>>

\* A git commit that fails is an error of the request; the file stays staged.
CommitFails(t) ==
    /\ At(t, "commit") /\ Locked /\ Goes(t, "failed")
    /\ failing' = TRUE
    /\ UNCHANGED <<files, index, branch, remote, commits, stranded, unstaged, ops, faults, pushes>>

Fault == faults < MaxFaults /\ faults' = faults + 1

\* The push sends the branch as it stands, and the remote takes only what extends its own.
Push(t) ==
    /\ At(t, "push")
    /\ IF IsPrefix(remote, branch)
       THEN remote' = branch /\ Goes(t, "ok") /\ UNCHANGED failing
       ELSE failing' = TRUE /\ Goes(t, "reset") /\ UNCHANGED remote
    /\ UNCHANGED <<files, index, branch, commits, stranded, unstaged, bounds>>

Unreachable(t) ==
    /\ At(t, "push") /\ Fault
    /\ failing' = TRUE /\ Goes(t, "reset")
    /\ UNCHANGED <<files, index, branch, remote, commits, stranded, unstaged, ops, locks, pushes>>

\* After a minute the push is given up: nothing is undone, and the remote may have it or not.
TimesOut(t) ==
    /\ At(t, "push") /\ Fault
    /\ remote' \in {remote} \cup (IF IsPrefix(remote, branch) THEN {branch} ELSE {})
    /\ failing' = TRUE /\ stranded' = stranded \cup {job[t].commit}
    /\ Goes(t, "failed")
    /\ UNCHANGED <<files, index, branch, commits, unstaged, ops, locks, pushes>>

\* Mutant: the commit stays.
Kept(log) == log

\* Mutant: HEAD~2.
TwoBack(log) == SubSeq(log, 1, Len(log) - 2)

\* reset --soft HEAD~1
Shortened(log) == IF Len(log) > 1 THEN Front(log) ELSE log

Reset(t) ==
    /\ At(t, "reset") /\ Goes(t, "failed")
    /\ branch' = Shortened(branch)
    /\ stranded' = IF job[t].alone THEN stranded ELSE stranded \cup {job[t].commit}
    /\ UNCHANGED <<files, index, remote, commits, failing, unstaged, bounds>>

-----------------------------------------------------------------------------
(* External: others push to the remote what is not about these files; the person told to *)
(* "fetch/rebase the repo" does so, while nothing is on its way.                         *)

OtherPush ==
    /\ pushes < MaxPushes /\ pushes' = pushes + 1
    /\ commits' = commits + 1
    /\ remote' = Append(remote, [id |-> commits', about |-> None, text |-> Published])
    /\ UNCHANGED <<files, index, branch, failing, stranded, unstaged, job, ops, faults, locks>>

\* How many commits of the branch the remote has: the first ones.
Shared ==
    CHOOSE n \in 0 .. Len(branch) :
        \A i \in DOMAIN branch : branch[i].id \in Numbers(remote) <=> i <= n

\* The text of f after the i-th replayed commit: that of the last one that was about f.
Replayed(i, f) ==
    LET about == {j \in Shared + 1 .. Shared + i : branch[j].about = f}
    IN  IF about = {} THEN Published[f]
        ELSE branch[CHOOSE j \in about : \A k \in about : k <= j].text[f]

Rebase ==
    /\ \A t \in Threads : ~OnTheWay(t)
    /\ ~IsPrefix(remote, branch)
    /\ branch' = remote \o [i \in 1 .. Len(branch) - Shared |->
                           [branch[Shared + i] EXCEPT !.text = [f \in Files |-> Replayed(i, f)]]]
    /\ UNCHANGED <<files, index, remote, commits, failing, stranded, unstaged, job, bounds>>

Next ==
    \/ \E t \in Threads :
          \/ \E f \in Files : Deploy(t, f) \/ Undeploy(t, f) \/ Rollback(t, f)
          \/ BackUp(t) \/ Replace(t) \/ Unlink(t) \/ PutBack(t) \/ DropBackup(t)
          \/ Add(t) \/ AddFails(t) \/ Diff(t) \/ MakeCommit(t) \/ CommitFails(t)
          \/ Push(t) \/ Unreachable(t) \/ TimesOut(t) \/ Reset(t)
          \/ Answer(t)
    \/ OtherPush \/ Rebase

Spec == Init /\ [][Next]_vars

-----------------------------------------------------------------------------
(* Properties. *)

\* "Push is transactional": of requests that do not overlap on the way to the remote, the
\* one that succeeded is published, the one whose push was rejected has left no commit.
PushIsTransaction ==
    \A t \in Threads :
        job[t] # Idle /\ job[t].commit # None /\ job[t].alone =>
            /\ job[t].at = "ok" => job[t].commit \in Numbers(remote)
            /\ job[t].at = "failed" =>
                  \/ job[t].commit \in stranded
                  \/ job[t].commit \notin Numbers(branch) \cup Numbers(remote)

\* "the deploy commit contains only the files it touched": what a failed request left in the
\* folder or in the index is never published by a request for another file.  A commit
\* goes out only while its request runs, or if its request left it behind (stranded).
FailedStaysDown ==
    [][\A f \in Files : Published'[f] # Published[f] =>
          \E i \in DOMAIN remote' :
              /\ remote'[i].about = f /\ remote'[i].id \notin Numbers(remote)
              /\ \/ remote'[i].id \in stranded'
                 \/ \E t \in Threads : job[t] # Idle /\ job[t].commit = remote'[i].id]_vars

\* As long as no commit and no push fails, requests that overlap, also about one file, leave
\* branch and remote in agreement, and the folder with them but for the files whose
\* last git add failed unseen.
InStep ==
    ~failing /\ (\A t \in Threads : job[t] = Idle \/ job[t].at \in {"ok", "failed"}) =>
        /\ Tip = Published
        /\ \A f \in Files \ unstaged : tree[f] = Tip[f]

\* "the outcome is reported as an error instead of a false success with the file still
\* live": an undeploy that succeeds with nobody else at work has removed what Airflow reads.
SuccessMeansGone ==
    [][\A t \in Threads :
          /\ job'[t] # Idle /\ job'[t].op = "undeploy" /\ job'[t].at = "ok"
          /\ job[t] # job'[t] /\ \A u \in Threads \ {t} : job[u] = Idle
          => Published'[job'[t].file] = None]_vars

=============================================================================
