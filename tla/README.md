# JupyterLab Airflow Studio: a TLA+ verification of the deploy lifecycle

The repository is a JupyterLab extension that edits Airflow DAGs as documents
(`.afdag`), generates Python from them, deploys the file to the dags folder of an
Airflow, and then, on the server and without the browser, brings the deploy to its
end: wait for registration, pause the DAG it replaces, unpause the new one, trigger
it, retire the old one. This directory holds the TLA+ modules that model it, the TLC
configurations that check them and the TLAPS proofs about them. Every definition is
translated from the source; `PROJECT.json` gives the lines of each.

Paths below are those of the repository; `reconciler.py`, `journal.py`, ... are in
`jupyterlab_airflow/`.

## 1. The system

| Part | State it keeps | Operations | Talks to |
|---|---|---|---|
| Deploy journal (`journal.py`) | One JSON file per deploy, in `pending/`, `inflight/`, `done/`, `quarantine/`; markers in `retired/` | put, claim, release, finish, reopen, request_stop, veto_unpause, supersede, orphaned_retires, reclaim_stale, resume, purge_done, mark_retired | the disk; called by the reconciler and by request handlers, on different threads |
| Reconciler (`reconciler.py`) | The entry it holds in memory; `_timer`, `_in_flight`, the last report | advance (one handler per phase), sweep_once, reopen_expired, start/wake/tick | journal, Airflow client, deploy target, `deploy.retire_old_dag` |
| Deploy service (`deploy.py`) | None of its own | deploy_dag, retire_old_dag, purge_dag, rollback_dag, rename_preflight, list_orphan_dags, compute_drift | variables and connections, deploy target, Airflow client, journal |
| Deploy targets (in `deploy.py`) | The dags folder: shared volume, git working tree with its index, branch and remote, or S3 bucket; a `.bak` beside each file | write, read, delete, restore_backup | the disk, git, the outside |
| Handlers (`handlers.py`, `config.py`) | The role, read from the environment | deploy, cancel, resume, pause, trigger, delete, rollback, edits of one value, and the read-only ones | all the above |
| Airflow client (`client.py`) | A token behind a lock, shared by all threads | deploy_status, set_paused, trigger_dag, delete_dag, the calls on variables and connections | Airflow's REST API |
| Variables and connections (`variables.py`, `connections.py`, `managed.py`) | Marked objects in Airflow | gate, sync before the write, purge, set_one, delete_one | Airflow client |
| Code generation (`codegen.py`) | None: a function of the document | refuse duplicate names, order, render definitions, instantiations and wiring | the registry |
| Registry, providers (`registry.py`, `providers.py`) | A cache each, behind no lock | load definitions, index of the target's providers, the gate of a deploy | files, Airflow client |
| Validation (`validation.py`) | None | import the generated file with Airflow's DagBag | a subprocess |
| Editor (`src/components/StudioApp.tsx`, `src/deployLifecycle.ts`, `src/graph.ts`, ...) | The document, the banner, the legacy lifecycle of a tab | rename prompt, observe, keep waiting, graph edits | handlers |

**How they interact.** `deploy_dag` writes the file, journals what is still to be done,
and wakes the reconciler. A `PeriodicCallback` on the server's IOLoop submits
`sweep_once` to a pool of one thread; the sweep claims each due entry (a rename from
`pending/` to `inflight/`), lets `advance` do at most one phase of it, and writes it
back to `pending/` or to `done/`. Meanwhile requests run on other threads: a cancel, a
newer deploy of the flow or a pause changes an idle entry at once and leaves a *request*
in the stored copy of a held one, which the holder merges into what it writes back and
honours on its next turn. A crash leaves files where they are; the next start puts
`inflight/` back into `pending/`. Deploys, undeploys, rollbacks and edits run on the threads
of the server's pool, each a sequence of calls to Airflow and of operations on the dags folder,
with no lock between them; what they share in memory is the client's token and two caches.

**What is hard.** Two writers of one entry; a sweep whose reading of the clock, of the
stored entry and of the dags folder is old when it acts; irreversible acts (a file
deleted, a history purged) in a sequence that can stop anywhere by a crash, a failed
call, a lost answer, an expiry, a cancel, a pause or a newer deploy; re-arming of
what had ended; a timer that is stopped on a count taken on another thread. Two requests that look at
a file or at a value and act a call later; a sequence of pushes into a live Airflow that stops in
the middle; git commands of two requests in one working tree, and a push that fails after the
commit; caches written in two statements. And, without any concurrency, a sort that has to
count parallel, dangling and self edges right, and a body of Python that rebinds names.

**What makes each part correct.**

* *Reconciler*: nothing is destroyed before the new DAG runs (commit-last), nothing is
  reported done that is not, decisions of a person stay decided, every deploy ends.
* *Journal*: an entry is held by one sweep, a request is never lost, an entry never
  disappears.
* *Scheduler*: while something waits there is a timer, never two sweeps, and none when
  there is nothing to do.
* *Deploy service*: nobody else's file is overwritten or deleted; a flow never ends up
  without a DAG; an intent to retire has an owner until it is performed; an undeploy leaves nothing.
* *Variables, connections*: only what this flow marked is changed or removed; a refusal has changed
  nothing; a deployed file has its values.
* *Git target*: a push is a transaction, and folder, branch and remote agree.
* *Code generation*: the order of the tasks is the first of the topological orders, cycles and
  nothing else are refused, and Airflow gets the graph that was drawn.
* *Token and caches*: a retry uses a new token; what a cache hands out is as fresh as it promises.

## 2. The modules

| Module | Models |
|---|---|
| `DeployEntry` | The entry as a record, and everything `reconciler.py` and `journal.py` do to one in memory: operators only, no state |
| `DeployLifecycle` | The handlers, the sweep, the crash, the dags folder and Airflow around a set of entries |
| `MCDeployLifecycle` | The instances of it that TLC checks |
| `SweepScheduler` | The IOLoop, the timer, the request threads and the pool: when a sweep runs at all |
| `EntryLife` | What the journal promises of one entry: an abstract specification |
| `JournalStore` | The files under one entry and the system calls that change them; implements `EntryLife` |
| `Publish`, `MCPublish` | `deploy_dag`, `purge_dag`, `retire_old_dag` and the edits of one value, call by call, over the dags folder and Airflow's variables and connections |
| `GitTarget`, `MCGitTarget` | Write, delete and rollback over one git working tree, command by command |
| `SharedCaches`, `MCSharedCaches` | The client's token, the provider index, the registry's cache, access by access |
| `DagCodegen`, `MCDagCodegen` | The order of the nodes, the generated body and what Python makes of it |
| `DeployEntry_proofs`, `DeployLifecycle_proofs` | Lemmas about the operators; type correctness, commit-last, true accounts, lasting requests and decisions, a flow keeps a DAG, what was quiesced stays quiet |
| `SweepScheduler_proofs`, `JournalStore_proofs`, `DagCodegen_proofs`, `Publish_proofs`, `GitTarget_proofs`, `SharedCaches_proofs` | All safety properties of the six modules; that `JournalStore` implements `EntryLife` |

How they fit together: `DeployLifecycle` is built from `DeployEntry` and takes every journal operation,
every deploy and every retire as one step. `JournalStore` and `Publish` open those steps up, into
system calls and into calls to Airflow, and show what is promised inside; `GitTarget` opens the one
step in which `Publish` writes or deletes a file, for the target where it is not one. `SharedCaches`
lies under all of them (each call goes through the client), `DagCodegen` before them (it makes the file).

### DeployEntry

An entry is the record the journal stores: what is deployed (`dag`, `flow`, `run`),
the retire queue (`retire`, and `purge` for those that lose their history), the phase,
the outcome, the five steps, their attempts, the two deadlines, what the retire step
recorded (`retired`, `committed`) and the two request keys. A step's free-text
`skipped_reason` is part of its state: the code compares it with lists of strings
(`BUDGET_SKIP_REASONS`, `_DELIBERATE_SKIPS`), so each reason is a state of its own.
`NextPhase`, `ReadyToRetire`, `Terminated`, `Merged`, `Reopened` are `_next_phase`,
`_ready_to_retire`, `_terminate`, the merge in `_move_out` and `reopen_expired`.

### DeployLifecycle

A step is one journal operation, one call to Airflow or the dags folder, or the
decision between two of them. The sweep's program counter is `at`; `hd`, `hc` are the
entry it holds and its copy in memory, which differs from the stored `copy[hd]` as soon
as someone records a request there. A phase handler is therefore two or more actions:
`Unpause` is `_do_unpause` up to its call, with every early return; `UnpauseOK` and
`UnpauseFails` are the call. Between them anything may happen: a pause, a cancel, a
newer deploy, a crash. A call that fails may have taken effect (a lost answer):
`UnpauseFails`, `TriggerFails`, `QuiesceFails` and `RetireBreaks` allow both.
`RetireBreaks` is the case where `retire_old_dag` has deleted the file and Airflow then
refuses to pause or purge.

A person may pause, unpause and undeploy any DAG of `UserDags` at any time. A pause is two steps, the veto and
Airflow's PATCH; an unpause is the PATCH alone, whatever the journal says.

`removed[d]` is a history variable: what was destroyed on behalf of `d`. So is `woken[d]`: which DAGs a person, or any
lifecycle, has unpaused since `d` last paused them. No action reads either.

| Action | Code |
|---|---|
| `DeployWrite`, `Supersede`, `Put`, `PutFails` | `deploy_dag`: the collision gate and the write; `_journal_deploy` before and after its `put` |
| `Cancel`, `Resume`, `PauseVeto`, `PausePatch`, `UserUnpause`, `Undeploy` | the handlers of `handlers.py` |
| `SweepStart`, `Claim`, `ClaimFails`, `WriteBack`, `WriteBackFails`, `SweepEnd`, `DenyAll` | `sweep_once` and the journal operations it calls; `_deny_all` for a viewer |
| `StopAdvance`, `Poll`, `Quiesce*`, `Unpause*`, `Trigger*`, `Retire*`, `Conclude` | `advance` and its phase handlers |
| `Restart` | the process dies anywhere; `start`: `Journal.resume` and `_finalize_expired` |
| `Parse`, `Tick` | external: the dag-processor, the clock |

### SweepScheduler

The IOLoop's callbacks are a queue; `_tick` is split at its `await`, and the future of
`run_in_executor` needs two turns of the loop to resume it (`Resolve`, `Continue`).
What a sweep does to an entry is left to `DeployLifecycle`: here an entry is released
or finished.

### EntryLife and JournalStore

`DeployLifecycle` lets every journal operation happen at once. In the code an operation is
several system calls, and there is no lock. `JournalStore` has the files of one entry in
`pending/`, `inflight/` and `done/`, and a step of it is one call: the rename of a claim, the
read and the stamp that follow, the token check of `_move_out`, its write, each of its unlinks;
the read and the write of a stop, of a veto, of a keep-waiting. The sweep's thread and
two request threads run them in any order, a crash comes between any two, a write or an unlink may
fail. An entry's document is cut down to what the operations look at: token, ending, one step
and the two requests.

| Action | Code |
|---|---|
| `Put`, `Claim`, `ClaimRead`, `ClaimStamp`, `Reclaim` | `put`, `claim`, `reclaim_stale` |
| `Advance` | `advance` and the choice between `release` and `finish` |
| `Check`, `Write`, `WriteFails`, `Unlink`, `UnlinkFails` | `_move_out` (and `finish`, which shares the tail) |
| `Stop`, `StopHeld`, `Veto`, `VetoHeld`, `Place`, `Reopen` | `request_stop`, `veto_unpause`, `reopen` |
| `Restart` | a crash, then `resume` |

Any thread may act between any two calls of another. `EntryLife` is the promise: an entry is put once, closed, never lost,
opened again only after it expired, and a stop overrules every other ending. The code does not keep it against every
interleaving: an operation that has read what it is about to write (a claim before its stamp, a release past its token
check, a request before its write in place, a veto, a reopen), or has written and not yet dropped the other copies, has an
open *section*, and a step of another thread that falls into one can undo an answer. Six operations have one
(`Delicate`): claim, release, finish, record (the request written into a held copy), veto and reopen. The seventh, a stop's
way from its read to its write, has none: the claim token decides it. The history variable `crossed` becomes true when a thread acts
inside a section that another has open, and nothing is restricted by it. So the properties come in two kinds. `StopWins`,
`RequestsKept`, `OneOpenCopy` and `LifePromised` say what holds as long as that has not happened, in the code as it is, and the theorems
of `JournalStore_proofs` show them for any number of threads, claims, requests and faults: these sections are
all that a lock would have to cover. `StopStillWins` is what the repository says of a stop without
that condition, and the run `stop_lost` shows how the code breaks it; section 6 tells of the others.
The atomic journal of `DeployLifecycle` is therefore an assumption about the code's timing, not a fact about the code; the
windows are a few system calls wide.

`told` is what the request threads were answered, and `residue` says that an unlink failed and
the code went on (`_move_out` swallows it): both are history variables, read by no action.

### Publish

A thread is given a deploy, a purge, a retire or the edit of one value, and goes through its stages; each
step is one call to Airflow (the listing of a store, one update, one deletion) or one operation
on the folder. `job[t].looked` and `job[t].saw` are what the thread has read, and what its later
steps rely on. Between two steps the other threads act, and `Meddle` is a person who creates, changes
or deletes a value in Airflow, or a file. A file is the flow in its header, a value is the
dag_id its marker names.

| Action | Code |
|---|---|
| `Gate` | `block_errors` of the one store, then of the other: one listing each, none if the flow declares no key; a listing that fails lets pass |
| `Collide` | `_collision_errors`, the last gate |
| `List`, `Put` | `sync`: lists again, then updates or creates key by key; a failure is a warning |
| `Write` | the target's `write`, which refuses a hand-written file: a job ends `refused` there as it does at a gate |
| `Owner`, `Remove`, `Airflow`, `Find`, `Drop` | `retire_old_dag` and `purge_dag`: whose file, delete it, delete or pause the DAG, list and delete what is marked |
| `Get`, `SetNow`, `DeleteNow` | `set_one`, `delete_one` |

`touched` and `quiet` are history: whether the job has changed a value; whether no call of it failed
and nobody else changed anything since it began. `Init` is any folder and any two stores, so that whatever
an earlier broken deploy, a rename or a person has left is a state to start from, and two
requests are enough to meet it.

### GitTarget

A text is the number of the request that wrote it, a commit a snapshot of the files, the branch
and the remote sequences of commits. `BackUp`, `Replace`, `Unlink`, `PutBack`, `DropBackup` are the
operations of the shared volume; `Add`, `Diff`, `MakeCommit`, `Push`, `Reset` the commands of `_commit`.
`git commit -- path` takes that path from the *working tree* and everything else from HEAD
(`Committed`), which is what keeps another request's file out of the commit. A push sends the
branch as it stands, other requests' commits included; it is rejected if the remote is ahead, fails
(`Unreachable`), or times out, after which the remote may have it or not (`TimesOut`). Only a push goes over the network, so only it
times out. A command that changes the index fails while another git process holds `index.lock` (`Locked`, at most `MaxLocks` times):
`git commit` raises and leaves the file staged (`CommitFails`); `git add` is called with `check=False`, so its failure is
not seen and the request goes on to compare an index in which nothing has changed (`AddFails`). `unstaged` and `failing` are history:
the files whose last `git add` failed, and whether a commit or a push has.
`OtherPush` and `Rebase` are the person at the other end: a rebase keeps the commits of the remote and replays behind them
those of the branch that the remote has not (`Shared` tells how many it has), each with what it is about.

### SharedCaches

Three things that threads share. A call takes the token under the lock, sends, and on a 401 clears and
fetches once more. A lookup of the provider index reads the cache, fetches, keeps the
index and its time in *two* statements, and returns what is in the cache by then. A load of the registry
takes a signature of the files, checks it against the cache, parses, and keeps signature
and definitions in two statements. Tokens and states of the files are numbers in the order they
come. `promised` and `crossed` are history: whether a refresh that nobody overlapped has seen the provider, and whether two
loads met between two accesses.

### DagCodegen

A document is a list of nodes with a name each and a list of edges, any of which may be doubled, a loop
or dangling. `Validate`, `Pop`, `Sorted` are `_validate_identifiers` and `_topo_order`; `Define`, `Call`,
`Wire` run the three sections of the body that `_render` writes, over `scope`, the names Python has bound:
this is how the wiring finds its tasks, and how a name can come to stand for another. `Handle` is
`_instance_name` and its traditional counterpart.

### What is abstracted

* Back-off (`next_attempt_at`): a sweep lists any subset of what is pending.
* `reclaim_stale` (600 s): any subset of the claims nobody holds. The retention of
  `done/` is dropped.
* Which errors are retried (`_is_retryable`, one renewed login) is left open: a failing
  call is backed off or fails the step, as `_fail_step` allows.
* The retire queue is a set, worked off in any order; sweeps take entries in any order.
* `retire_old_dag` checks the owner and deletes in one step; the collision gate and the
  write are one step; `purge_dag` is one step; the scan for superseded and for stranded
  entries is one step; each journal operation is one step.
* A server that wakes up with another Airflow or another target (`base_url`,
  `target_kind`) is left out, and so are rollback and its `.bak` file.
* Attempts of a step that is no longer pending are reset: nothing reads them. The clock starts with the first entry: time is only
  compared with the deadlines of entries.
* The row Airflow keeps for a DAG whose file is gone stays (as it does until Airflow
  marks it stale).
* In `JournalStore`, a claim that nobody holds may be reclaimed at once, what `advance` does to an
  entry is one of a few outcomes, and retention, quarantine, the retired markers and
  `orphaned_retires`, which read other entries, are left out.
* In `SweepScheduler`, the resume handler journals and wakes as a deploy does, and is not
  a separate action.
* In `Publish`, whether Airflow serves the dag_id from a file of another name is a free choice; `write`'s check for a
  hand-written file and its replace are one step; a gate refuses at the first store that
  objects (the code asks both and reports all); a listing is one page. Audit, drift and warnings are left out.
* In `GitTarget`, a git command is one step, `diff` and `reset` do not fail, a remote is configured, the branch has a commit to
  begin with (on an unborn branch there is no `HEAD~1` to reset to),
  and the ignore-file sidecars are left out. S3 has no module of its own: it is the shared volume with one object
  per file.
* In `SharedCaches`, the two keys the registry's check reads are one access, the files are parsed at one moment, versions
  are not compared (a provider is there or not), and the cache of the notifiers, which is loaded the same way, is left out.
* In `DagCodegen`, text is left out (templates, schedules, callbacks, assets, pod specs); a task_id that is
  also a name the file imports is excluded by an assumption on `Names`; the wiring lines, which the
  code sorts, run in document order (they commute).

## 3. The runs

| Run | Instance | Shows |
|---|---|---|
| `rename` | 1 deploy (a purging rename `a -> b`, or a first deploy of `b` not to be run), 2 interventions of people on either DAG, 1 fault, 1 retry, clock 0..2 | `IndInv` (which has `TypeOK` as a conjunct), `CommitLast`, `CompletedIsEarned`, `RequestsSurvive`, `DecisionsAreFinal`, `QuiescedBeforeLive` and, under fairness, `EventuallyClosed` |
| `chain` | 2 deploys of one flow, rename and rename back in any order and overlapping, no faults, nobody intervenes | `FlowKeepsADag`, `RequestsSurvive`, `QuiescedBeforeLive` |
| `scheduler` | 2 entries, 2 faults | `TypeOK`, `TimerOutlivesWork`, `InFlightIsOne`, `SweptToTheEnd`, `IdleServerSleeps` |
| `journal` | 1 entry, the sweep, 2 request threads, 2 claims, 3 requests, 1 fault | `TypeOK`, `StopWins`, `RequestsKept`, `OneOpenCopy`, `LifePromised` |
| `publish` | 2 threads, 2 flows, 2 dag_ids, a variable and a connection, 2 requests or acts of a person, 1 fault, any initial folder and stores | `TypeOK`, `ValuesOfOthersKept`, `FilesOfOthersKept`, `OnlyTheWriteRefusesLate`, `DeployedHasItsValues`, `UndeployLeavesNothing` |
| `git` | 2 threads, 2 files, 3 requests, 2 failing pushes, 1 locked index, 1 push by others | `TypeOK`, `PushIsTransaction`, `InStep`, `FailedStaysDown` |
| `caches` | 2 threads, 3 requests, cache time 1, an answer up to 1 tick slow, clock 1..3, 2 changes outside, 1 fault | `TypeOK`, `RetryIsFresh`, `IndexIsRecent`, `RefreshIsObeyed`, `LoadIsCurrent` |
| `codegen` | Every document of 3 nodes, 3 names (one of them the made name of another) and up to 3 edges, both styles | `TypeOK`, `LinearExtension`, `CycleRefused`, `StableOrder`, `WiredAsDrawn` |
| `stale_row`, `run_off`, `stop_lost`, `git_retry` | as small as they can be | one disagreement each between what the repository says and what the code does (section 6) |

**Bounds, and why they are enough.** *Deploys.* Most properties relate one entry to the
threads that touch it; everything a second deploy does to a first entry is a stop
request, which a cancel makes as well, so `rename` has one deploy and two interventions:
enough for a cancel during a sweep followed by keep waiting, or a pause before a cancel.
`chain` has the two deploys that inheritance of a retire needs; it has no
faults, so that crashes between its steps are covered by the theorems about its three properties and not by the run. *DAGs.* Two: the old one
and the new one. *Attempts.* With one retry a step both backs off and gives up; the
count is only compared with its maximum. *Clock.* The budget is 0 ticks and the grace 0
or 1, so an entry may expire at any of its steps or at none, be re-armed and expire
again. *Threads and claims in `journal`.* Two request threads, for a stop and a veto that meet; two
claims, for a claim, its reclaim and the claim that follows; one fault, for a crash or a failed write or unlink. Entries do not
share files, so one is enough. *Requests in `publish`.* Two that overlap in any way, over any initial state: every
property is about one request, what others did before it is in the initial state, and one other request, or a person,
is enough to come in between; the flows share a variable (both declare it) and a connection (one declares
it, the other uses it). *Requests in `git`.* Three on two threads, so that one follows two that crossed,
two failing pushes, for one that was rejected and one that timed out, and one command that meets a locked index. *Nodes and edges in `codegen`.* Three of each give the
smallest cycle with a tail, a doubled edge beside a single one, and a made name with a third node between;
the proofs cover the rest. *Time in `caches`.* A cache time of 1 and an answer of 1 put a lookup on
both sides of either; the proofs take any of the two. *Faults.* One crash or failed write between any two steps, the failures of Airflow
being free. `MaxTime`, `MaxFaults` and `MaxInterventions` are bounds of the model and
appear only in guards (`DeployWrite`, `Put` and `Resume` need `now + Budget < MaxTime`, so that
the clock can still pass the deadline they set). Deadlock is not checked, because a system
whose deploys are all closed and whose clock is spent stops.

**Fairness.** In `rename` the clock advances, and a sweep that has begun runs on: a handler in `advance`, a write-back, the end of a
sweep, the denial by a viewer's server, the claim of an entry it has listed (weak fairness of the clock and of `Proceed`: code on a thread of its own). Nothing
is assumed of when a sweep begins or what it lists, because the timer gives no such promise (a lost wake leaves a pending
entry without one). `EventuallyClosed` says instead that a deploy is closed or stranded unless from some time on it is pending
and no sweep lists it (`Forgotten`); so whatever is listed again and again does close, through retries, budgets,
restarts and people. Whether it is listed is the question of `SweepScheduler`, and `SweptToTheEnd` answers it with its own
exception. Airflow is never assumed to answer, nor to parse, nor to succeed.
Nothing is assumed of an entry in `inflight/` that nobody holds: `reclaim_stale` is called
only by a sweep, and no sweep is started for such an entry alone; `EventuallyClosed` and
`SweptToTheEnd` name it as their exception (`Stranded`). In `SweepScheduler` the loop turns,
the thread runs, and a handler that has journaled goes on to `wake()`; an entry swept for
ever is finished in the end, which is `EventuallyClosed` of the other module.
`Publish`, `GitTarget`, `SharedCaches` and `DagCodegen` state no fairness and no liveness: a request is a
finite sequence of calls, each of which Airflow may never answer. Their runs do not check deadlock, as
the bounded supply of requests runs out (a document is generated once).

**Exceptions stated in the properties.** Where the code really fails, the property names the case and the run
shows that it is the only one. `TimerOutlivesWork` and `SweptToTheEnd` exclude one window, in which a
wake-up is lost (`late`, section 6). `QuiescedBeforeLive` excludes an old DAG that a person or another deploy's lifecycle has unpaused
since this deploy paused it (`woken`): an unpause by a person is theirs to make, and no code looks at it. The four journal properties
exclude behaviours in which a thread has acted inside another's open section (`crossed`). `OnlyTheWriteRefusesLate` excludes the one refusal
that comes after the pushes, and says in what state it leaves them. `CompletedIsEarned` lets a "completed" entry owe its retire where a
person decided against the unpause or the trigger; that this is not what the code's own words promise is the run `run_off`. `ValuesOfOthersKept` and `FilesOfOthersKept` allow what changed hands after the
look. `PushIsTransaction` excludes requests that cross on the way to the remote
(`alone`), `FailedStaysDown` a commit left behind by a push that timed out or crossed (`stranded`), `InStep` a file whose last
`git add` failed unseen (`unstaged`).
`RefreshIsObeyed` excludes a refresh that overlapped another fetch, `LoadIsCurrent` loads that crossed.
`WiredAsDrawn` excludes a made name that is another node's task_id (`NamesApart`).

Each property has a mutant in `PROJECT.json`: a plausible bug of the code (the holder's
copy wins on write-back, retire takes the place of quiesce, keep waiting re-arms every skip,
...) that makes TLC refute it. The mutated operators stand next to the ones they replace.

## 4. What is proved

Every theorem holds for any sets of deploys, threads, flows, dag_ids, keys, names, any bounds, times and sizes,
from the assumptions on the constants only, which TLC evaluates in the runs: `BoundsAssumption` (`DeployEntry`),
`LifecycleAssumption`, `SchedulerAssumption`, `StoreAssumption`, `PublishAssumption`, `GitAssumption`, `CachesAssumption`,
`CodegenAssumption`.
No theorem has a further hypothesis.

| Module | Theorems |
|---|---|
| `DeployLifecycle_proofs` | `IndInvHolds`, `TypeCorrect`, `CommitsLast`; `AccountsHold`, `CompletedIsDeserved`, `RequestsLast`, `DecisionsLast`; `FlowsKeepTheirDags`; `QuiescedFirst` |
| `SweepScheduler_proofs` | `SchedulerTyped`, `TimerStaysOn`, `OneSweepAtATime` |
| `JournalStore_proofs` | `TypeCorrect`, `StopAlwaysWins`, `RequestsAlwaysKept`, `OneCopyIsLeft`, `FilesKeepThePromise` |
| `Publish_proofs` | `PublishTyped`, `OthersKeepTheirValues`, `OthersKeepTheirFiles`, `OnlyTheWriteRefuses`, `DeploysHaveTheirValues`, `UndeploysLeaveNothing` |
| `GitTarget_proofs` | `TypeCorrect`, `BranchExtendsTheRemote`, `PushIsTransactional`, `StaysInStep`, `FailedIsNotPublished` |
| `SharedCaches_proofs` | `CachesTyped`, `RetriesAreFresh`, `IndexesAreRecent`, `RefreshesAreObeyed`, `LoadsAreCurrent` |
| `DagCodegen_proofs` | `CodegenTypes`, `OrderRespectsEdges`, `CyclesAreRefused`, `TiesByDocument`, `WiringIsDrawing` |

**Commit-last** says that if anything was destroyed on behalf of `d`, then the entry of `d`
on disk says that the new DAG was registered, unpaused and triggered, or that a person
decided against one of these. It is not inductive: the act is licensed by the copy in
*memory*, the stored copy may have had requests written into it since, a crash falls back to
the stored copy, and a re-armed entry runs again with `removed` already non-empty. The
strengthening `IndInv` adds

* `JournalOK`: only the entry's own request journals it, so a destroyed DAG has an entry; and
  the phase an entry is in is one its steps allow (`Phased`): an entry that is awaiting
  registration is not registered, one that is retiring was unpaused;
* `HeldOK`: what the sweep holds is in `inflight/`; when the retire step starts, *both* copies
  license it, and a claim starts with the two in agreement. A veto recorded on the stored
  copy in between only turns pending steps into deliberate skips, which cannot revoke the
  licence.

The argument on operators is one relation, `Keeps(e, f)` in `DeployEntry_proofs`: `f` is still a
well-formed entry in an allowed phase, and if `e` was licensed so is `f`. Every operator of
`DeployEntry` is proved to keep it (one lemma per operator), `Reopened` because it only re-arms
budget skips, which never license, and `Merged` because it copies requests only. The step
lemmas of `DeployLifecycle_proofs` (one per action) then follow the action's effect on
`copy`, `hc` and `removed`.

**True accounts, lasting requests and decisions.** That a request stays recorded, that a decision is not revised and that
"completed" is earned are each about two copies of an entry: the one on disk, into which requests are written, and the
one in memory, which replaces it. What an act does to the second depends on the phase it was in when the act was licensed,
so `AccountInv` adds to `IndInv` what an entry says of itself, on disk (`JournalAccounts`) and in memory (`HeldAccounts`):
an open entry is in a phase whose predecessors are over, a veto that was honoured has left nothing to unpause or trigger,
and one that says "completed" is registered, unpaused and triggered or left as a person decided, and owes a retire only in the second case. `HeldSame` ties the two copies
to one deploy. It is carried by `Accounted`, again with one lemma per operator of `DeployEntry`; one step lemma per action
(`Lasting`) then says what that action does to the journal: the requests of the old copy are in the new one or
honoured (`Carries`), its decisions are the same (`Decided`); `HeldFollows` says the same of the copy in memory. The three theorems read this off;
`DecisionsLast` is about the last word on an entry, which is the copy in memory while a sweep holds one, so that a write back and a
restart are steps it speaks of.

**A flow keeps a DAG** although its renames delete files. The delete is licensed long after the deploy's own file was
written, and a second deploy of the flow may by then have overwritten it or be about to delete it in turn. `FlowInv` adds
that what stands under a deploy's name is of its flow (`FilesNamed`), that the retire step leaves the deploy's own DAG alone
(`HeldTargets`), and that this DAG stands when the step begins and as long as it lasts (`HeldStands`). So the file that goes is never the flow's
last. A file without a flow in its provenance is no flow's: the collision gate lets any deploy overwrite it, and the property leaves it out.

**What was quiesced stays quiet.** Between the quiesce step and the unpause there may be a back-off, a write-back, a crash and
a "Keep waiting", the queue of old DAGs is copied from disk to memory and back, and other deploys and people pause and unpause what they like.
`SleepInv` adds to `AccountInv` that where an entry's quiesce step is "done", every DAG in its queue is `Quiet` for this deploy, that is,
not live or woken since, on disk (`JournalAsleep`) and in memory (`HeldAsleep`, which also counts what the calls in progress have been through).
Only `QuiesceDone` writes "done" (`SaysNoMore`, one lemma per operator); the queue of an entry grows only while it is a draft, which
has quiesced nothing; and whoever makes a DAG live records it for every deploy (`Wakes`). The exception for another deploy is needed: for two
renames in opposite directions that were both scanned before either was journaled, neither supersedes the other, and
both new DAGs may end up live (section 6).

**SweepScheduler.** That the timer outlives the work is decided by a `continue` that stops it, on a count
made three turns of the loop before. `SchedulerInv` adds what makes that count still good: `CountedWell`, that
while a result is on its way back and says "none", no entry waits that was heard of before the count;
`HeldByThread`, that the thread holds one entry at a time and none when it rests; and `TicksFirst`, that a tick in the queue
comes before any result, because it was asked for while nothing was in flight, so that the timer set with it is not
stopped before it.

**JournalStore.** The invariant has two layers. `Layered` holds whoever acts when: which thread runs which operation, at which call and
with what in memory (`Shape`), and what a document in each directory may look like (`Files`); type correctness needs no more. `Guarded`
holds until `crossed`. Until then at most one thread is inside a section
(`Alone`), and each section has a statement of what it relies on, needed because an operation writes what it computed
calls before: a claim stamps what it read (`Stamping`), a request is placed on the copy it was read from (`Placing`), what a release
writes covers the requests of the copy it is about to unlink (`Releasing`), a reopen finds nothing open (`Reopening`), and what
was written stays while the other copies go (`Cleaning`); `Holding` says what the holder's copy may lack. `Kept`, `TwoCopies`, `StopKept`,
`VetoKept` and `StopHolds` are what all of them together keep true of the three directories, except after an unlink that failed (`residue`).
`StoreInv` is the two together; there is one lemma per action. The refinement is by
steps: `LifeMove` lists what may happen to the files of an entry, as far as its life is concerned, and every action that does not cross
does one of these, each a step of `EntryLife` or none: the life moves when something is put or written, while an unlink only removes a
copy that the one already written outranks.

**Publish.** The inductive invariant is one statement about each job, `Well`, and is needed because the
properties speak of the moment a call is made or a job ends, and the code's licence for that is what it read
stages before. `Looked`: whatever the job may still change it has read as absent or its own, or it is a deploy and a listing
failed; what it may delete or overwrite in the folder it has seen to be nobody else's. `Published`: a deploy
nobody disturbed has pushed the keys that are no longer to do, and knows which of the others exist. `Unpublished`:
an undeploy nobody disturbed has removed the file and cleared the stores it has left. `Staged`: before the last gate
nothing is touched. The lemma `Carried` lifts a step of one job to all: the others stay as they are, or stop
being quiet (`Hushed`), which is all that a step of somebody else can do to them. One lemma per action follows. For the two action
properties, `OneActs` shows that the job whose step it is is the only one that acts.

**GitTarget.** `History` is about the two logs and holds whatever fails. Each is a `Log`: commits are numbered apart, and a text
changes only in a commit about that file. They are `Forked`: up to some commit they are the same, and from there on nothing of
the branch is published; hence `Shared` is well defined, and a rebase makes a log again. What is not published is `Claimed`:
its request is on the way, or has left it behind (`stranded`). `Carries` says that a request alone on the way has the last commit of
the branch, so that `HEAD~1` takes off its own and nobody else's; this is what makes a push a transaction (`PushIsTransactional`).
For the folder there is a second layer, needed only until a commit or a push fails: `Level`, that with nobody pushing branch and remote agree,
and `Followed`, that what the folder says of a file is what the branch says, or its last `git add` failed (`unstaged`), or some request (`Pending`) is still to stage it, or has
staged just that. It is what carries two requests about *one* file: the one that adds last stages both, and the other finds nothing to commit.
`FailedIsNotPublished` is an action property: when the published text of a file changes, some commit that the remote
did not have is about it (the least place where the logs differ shows it), and by `Claimed` it is of a request that runs or is stranded.

**SharedCaches.** Four invariants, one for each property. `CallInv`: a call that was rejected carries, once it
has a token again, one issued since, because it cleared the shared token with the lock held and every
later one is newer, whoever fetched it. `RecentInv`: the time in the cache is at most one slow answer later than the
index beside it was read, whichever two fetches wrote the one and the other. `ObeyInv`:
once a refresh nobody overlapped has read the provider, neither the index in the cache nor one that is on its way
blocks it. `LoadInv`: as long as no two loads crossed, at most one is between its two accesses, and otherwise the
definitions in the cache are at least as new as the signature beside them.

**DagCodegen.** The invariant of the sort is that the indegree of a node that has not been placed is the number of edges to it from
nodes that have not been placed, and that `ready` is the nodes for which it is 0: then nothing is placed
early, and what is left when `ready` is empty has a predecessor among itself, so it is cyclic; conversely, in an order of
all nodes in which predecessors come first, the first node of a set has no predecessor in that set. That the order is the *first* one needs one more
fact: what is placed in step k is the least of the nodes whose predecessors are all placed, so any other topological order
is larger where it first differs. For the wiring, `scope` is followed line by line: under `NamesApart` the name `Handle(n)`,
once bound to the task of `n`, is never bound again.

**Only model-checked.** All liveness (`SweptToTheEnd`, `IdleServerSleeps`, `EventuallyClosed`), which is out of the prover's reach.

## 5. What is not modelled

* Of the journal's files: the retention of `done/`, `quarantine/` and the markers of `retired/`.
* Of `deploy.py`: the rename preflight, the list of orphans and drift. They change nothing; what they tell is out of
  date when it is read, and the gates of the deploy look again.
* The editor: its half of a deploy (rename prompt, observation, keep waiting, the legacy tail) and the graph rules of
  `graph.ts` (planned, below). The server does not depend on either: it checks what it is sent.
* Validation (a subprocess; its verdict is an input), the audit log (append-only output), the
  manager's views, forms and layout, definitions in YAML, the text of the generated file, packaging: they keep no state on
  which a property of the program depends.
* The paging of a store's listing: the client asks for one page of 1000, Airflow may cap it lower, and a key beyond
  is seen by no gate, sync or purge. Its size is Airflow's configuration.

## 6. Where the repository and the code disagree

Four are runs, each checking one property taken from the repository's own words; `PROJECT.json` quotes them.

1. `stale_row` (`BrokenNewSparesOld`). "A broken new DAG must never cost you the working old one"; a row kept from an
   earlier life of the dag_id passes for the registration of a file nobody has parsed yet.
2. `run_off` (`NoRetireIsForgotten`). A skip that is a decision, "a user vetoed the unpause, or run-on-deploy is off", licenses the
   retire; but `_do_trigger` and `_do_unpause` finish the entry as completed when they meet one, and the retire is never
   reached: the old DAG stays, paused, and no later deploy takes its retire over.
3. `stop_lost` (`StopStillWins`). "The stop still wins": a release looks at `inflight/` only. If the stop's unlinks fall
   between a claim's read and its stamp, the stamp writes the inflight file anew, and the stopped deploy is carried on.
4. `git_retry` (`SuccessMeansGone`). A push that failed is reported "instead of a false success with the file still live"; it is
   reported once: the undeploy's retry finds no file in the working tree, commits nothing and succeeds.

Others were met while modelling. The properties name them as exceptions, without which TLC refutes
them, or they are told here only.

* *Keep waiting* runs on the server so that the new DAG is never unpaused beside the old one. A quiesce that was skipped for
  lack of time is not re-armed, and the old DAG is still live when the resumed lifecycle unpauses the new one. `QuiescedBeforeLive`
  speaks of a quiesce that was done.
* "Veto FIRST, so the reconciler cannot unpause between our veto and Airflow's PATCH" (`handlers.py:530-531`): a sweep that is past
  its look at the requests does.
* A deploy ends "every other open entry for this flow" (`journal.py:574-575`); two that look before either is journaled end neither,
  and both lifecycles go on. Exception `woken`.
* "Finish them first, then inherit their unfinished retire intents" (`deploy.py:1150-1151`): a sweep that comes between a deploy's
  write and its look at the journal finishes the older entry as superseded, and nobody inherits its retire. A
  journal write that fails after the older entries were superseded, or a crash there, ends in the same state.
* A veto is recorded as a request so that the holder does not write over it; the stamp of a claim does. A finished entry is "still
  observable" (`journal.py:444-445`); a release and a stop that unlink each other's copy leave none. Exception `crossed`.
* "The same IR must produce the same tasks + dependency edges" in both styles; in the TaskFlow style the task of a native node `x`
  is called `x_task`, and a node with that name loses its own edges to it. Exception `NamesApart`.
* "A refusal must leave nothing behind" (`deploy.py:1291-1293`): a hand-written `{id}.py` passes the collision gate and is refused by
  `write` (`deploy.py:210`), after sync has pushed the values. `OnlyTheWriteRefusesLate` shows that no other refusal is late.
* Nothing staged means nothing to commit (`deploy.py:396-398`); a `git add` that fails on a locked index is not looked at, and
  a deploy succeeds with its file neither committed nor pushed. Exception `unstaged`.
* A wake-up that is heard between a sweep's count and the end of its tick is lost: `_on_wake` leaves a
  running tick alone, and `_tick` stops the timer on the older count (`reconciler.py:1171-1174`, `:1191-1195`), against
  "a deploy now completes even if the tab closes" (`TODO.md:38`). Exception `late`.
* `_terminate` is "the only way an entry may reach a terminal state", so that one which destroyed something never reads
  "nothing further was done" (`reconciler.py:243-245`). A retire whose call fails after the file is gone
  records nothing (`reconciler.py:697`), and a cancel of a pending entry finishes it in the journal.
* A later deploy takes over the retire of an expired one, but only one that was *skipped* for lack of time
  (`journal.py:701`): if the budget ended in the unpause or the trigger, the retire is still pending and nobody's.
* `retire_old_dag` releases the old id's values so that the rename's deploy passes the gate (`deploy.py:1610-1614`,
  `docs/PRD.md:371`); the deploy, and its gate, come before the retire, and meet the flow's own values under the old marker.
* The same release is of variables only: a retire that keeps the history leaves the connections marked with the old id.
* A purge on nobody's behalf deletes a hand-written `{id}.py`.
* `sync` overwrites what its listing has, whoever owns it, when the gate's listing had failed or the value changed hands since.
* `reset --soft HEAD~1` takes back the last commit of the branch, which with two pushes on their way may be the other
  request's; a push that timed out is not reset at all, and goes out with the next one.
* A rollback after a failed push restores the backup of what was never published.
* Two loads of the registry that cross between `registry.py:118` and `:119` leave old definitions under the new
  signature, until the files change again. A refresh of the provider index that overlaps an older fetch may have
  its answer replaced by the older one (`providers.py:79-80`).

## 7. Plan

Done: all modules and proofs of section 2. Next, in order:

1. The rest of the journal: retention, quarantine, the retired markers and the scan for stranded retires, with two
   entries.
2. `EditorDeploy`: the tab's half of a deploy (`StudioApp.tsx`, `deployLifecycle.ts`) against the server's: rename prompt,
   observation, keep waiting, and the legacy tail when the server does not reconcile.
3. `DagGraph`: the rules of `graph.ts` for a connection, against the cycles `DagCodegen` refuses.
