# A verification project for LoreDock

LoreDock keeps documents in local libraries, indexes them, and lets a desktop
application and coding agents search them. This directory holds TLA+ modules
that model the parts of it where threads, processes and crashes meet, TLC
configurations that check them on small instances, and proofs that the TLA+
proof system checks for every size of the instance.

    tlc -config jobs_safety.cfg MCSourceJobs      a run
    tlapm SourceJobsProofs.tla                    the proofs of a module

Paths below are relative to `src/`; `service.py`, `database.py` and so on are
`core/src/loredock/application/service.py`, `core/src/loredock/storage/database.py`...

## The system

| Part | State | Operations | Interacts with | What is hard | What makes it correct |
|---|---|---|---|---|---|
| Source job queue and worker (`service.py` 559-879, 1055-1073, 1288-1341; `database.py` 234-303) | rows of `sources` and `jobs`, the raw copies, artifacts and index rows of a library; the worker thread's position | import, cancel, retry, delete (one thread per request); lease, stages, end of a run (one worker); stop, recovery | shares `_lock`, `_index_lock` and the stop and wake-up events; batches gate the lease | every handler checks in one transaction and acts in another; the worker checks between stages and works without a lock; crashes anywhere | a job is run by at most one attempt; what is called succeeded or ready can be found; nothing revives a canceled job but a retry; every attempt ends |
| Import batches (`service.py` 1099-1286) | `import_batches`, `import_batch_items` | create, seal, pause, resume, cancel, retry, status from counts | jobs of the batch, the lease | status is computed from counts that worker, deletions and late imports change | a batch that is sealed ends, or is paused or canceled; a finished batch is not reopened by the worker |
| Index contract and rebuild (`service.py` 359-442, `retrieval/index.py`) | `index.sqlite` with its metadata, `manifest.json`, the `.rebuild` file | ensure, rebuild, write, search | worker, search and deletion, under `_index_lock` | crash between replacing the index and its manifest; the embedding provider changes at a restart; a rebuild that cannot succeed | a search answers only from an index of the current contract that holds the ready documents |
| Library life cycle (`service.py` 495-557, `storage/layout.py`) | the directory of a library, its row | create, rename, delete | worker and search are inside the directory | removal without the index lock; a removal that fails half-way | no row without directory, no work on a removed library |
| Backups (`storage/backups.py`) | archives, the pending marker, the live files, the rollback directory | create, verify, schedule, apply at startup | every other file of the data root; the worker writes texts there without a lock | a move fails or the process dies between two moves; an archive is made while a text is written | the data is the old or the new state, never a mixture or nothing; what a restore replaces has been archived |
| Desktop supervisor (`apps/desktop/src-tauri/src/lib.rs`) | phase, connection, restart count, the child | start, watch, restart, stop | Core process, commands from the window | a child that neither answers nor exits; commands during recovery | one Core at a time, bounded automatic restarts, a stop leaves nothing running |
| Discovery and MCP bridge (`mcp/discovery.py`, `mcp/bridge.py`, `app.py`) | `agent-endpoint.json` | publish, clear, resolve on each call | Core's start and stop | an old Core's clear races a new Core's publish | the record names a live Core, or none |
| Model installation (`service.py` 179-325, `retrieval/model_assets.py`) | `model_jobs`, the `.part` and destination files, the installer threads, the cancel event | start, retry, cancel, recover | requests run in a thread pool; a thread per installation | two starts; a retry while the canceled thread ends; a download resumed from whatever is in its file | a running job has its thread; success means a package that verifies; an interrupted installation is taken up again |
| Agent connections and grants (`storage/agent_connections.py`, `mcp/credentials.py`, `mcp/routes.py`) | connection rows, OS vault, memory grants | issue, resolve, revoke, list | MCP tools, the bridge, the diagnosis | vault and database change in two steps; a credential is revoked between two reads | a revoked credential reads nothing; an answer lies in the libraries of its credential |
| Migrations (`database.py` 30-232) | schema, `user_version` | open | startup | a crash between a change and its version | every start reaches the current schema |
| Chunking, fusion, context (`retrieval/chunking.py`, `fusion.py`, `index.py` 279-460) | none | pure functions and the loop over candidates | search, the rebuild | boundaries of windows, parents and budgets | windows cover the text and advance; a better candidate is not lost; a context holds its match |
| Lists (`service.py` 890-1039, `api/pagination.py`) | cursors in the hands of clients, `source_activity` | pages, visits, favourites | imports, updates, deletions | the list changes between two pages; the two collections are columns of the same rows | what stays as it is is shown once; neither collection loses an entry to the other's statements |
| Web import flow (`apps/web/src/App.tsx`) | queued files, batch | upload, seal, poll | HTTP API | failure between two uploads | a batch is sealed or left to the user |

The parsers, embeddings, URL snapshots, settings and the evaluation tool keep no
state that two actors share; `PROJECT.json` lists them with the reason they are
left out.

## Modules

| Module | What it is |
|---|---|
| `SourceJobs` | the job queue: handlers, worker, batches, process, with its properties |
| `JobLife` | what a client that polls a job may rely on; `SourceJobs` implements it |
| `MCSourceJobs` | the instances TLC checks |
| `SourceJobsProofs` | its inductive invariant, the theorems that follow, and the proof that it implements `JobLife` |
| `DesktopSupervisor` | the desktop's supervisor thread, its Core processes and the discovery record |
| `CoreLife` | what the desktop's status promises; `DesktopSupervisor` implements it |
| `MCDesktopSupervisor` | the instances TLC checks |
| `DesktopSupervisorProofs` | its invariants, and the proof that it implements `CoreLife` |
| `BackupRestore` | backups, the restore marker, and the restore at startup |
| `MCBackupRestore` | the instances TLC checks |
| `BackupRestoreProofs` | its inductive invariant and the theorems that follow |
| `IndexRebuild` | the index of one library: contract, rebuild, writers, searches, deletions |
| `MCIndexRebuild` | the instances TLC checks |
| `IndexRebuildProofs` | its inductive invariant and the theorems that follow |
| `ModelInstall` | model jobs, the installer threads, and the download with its files |
| `MCModelInstall` | the instances TLC checks |
| `ModelInstallProofs` | its inductive invariant and the theorems that follow |
| `AgentAccess` | connections, grants, the bridge, the tools and the diagnosis |
| `MCAgentAccess` | the instance TLC checks |
| `AgentAccessProofs` | its inductive invariant and the theorems that follow |
| `Chunking` | how a document is cut into parents and windows |
| `Retrieval` | fusion of two rankings and the context of each result, over a document of `Chunking` |
| `MCRetrieval` | the instance TLC checks |
| `RetrievalProofs` | what holds of windows, titles, contexts and the order of results, for every document and query |
| `SourceLists` | keyset pages of a list that changes, favourites and history |
| `MCSourceLists` | the instance TLC checks |
| `SourceListsProofs` | what holds of its pages, favourites and history, for every set of sources |

### SourceJobs

*State.* A document is one source row with its one job; it is numbered in the
order in which it was stored, which is the order of `jobs.created_at`. `source`
and `job` are the two status columns, `attempts`, `batchOf` the columns of
`jobs`. `"unborn"`, `"copied"` and `"deleted"` stand for a document without a
row: not yet stored, copied to its trusted path but not inserted, and deleted.
`raw`, `artifacts` and `indexed` are the documents with such a file or rows.
`control`, `sealed`, `expected` and `dups` are the batch. `pc`, `cur` and
`paused` are the worker thread: where it is, the document it leased, and which
of the two interruptions it handles. `proc` is the process. `req` holds each
handler between its check and its action, or inside its locked section.
`dismantled` is a history variable: the documents a deletion began to take apart
and whose row is still there, so that properties can exempt them.

*Handlers.* The service methods read their target, answer an error if they do
not like it, and then act in a transaction of their own; between the two, anything
may happen. `Check` is the first half for all of them (`DocCheck`, `BatchCheck`
and `Accepts` are the conditions) and one action per method is the second half,
with exactly the `WHERE` clauses of its statements: `Retry` looks at nothing,
`Cancel` updates the job conditionally and the source unconditionally. An import
holds `_lock` from the copy to the insertion, a deletion holds both locks over
four removals; `LockFree` and `IndexLockFree` keep the others out meanwhile.
Transactions and single file operations are atomic.

*Worker.* One action per access: the lease, the lookup of the source, each
`_ensure_job_active` (`Proceed`, `Interrupt`), each source and job update of a
stage, each stage's work, and the transactions that end a run. The stages' work
takes no lock but for the index, so deletions and cancellations fall between a
check and the work it allows. `WorkFails` is any exception of the work,
`DiscardFails` an exception of the clean-up that is not an `AppError` and ends
the thread. `DeleteFails` is an exception of `delete_source` in each of its parts:
the contract, the index rows, an unlink, or the last transaction.

*Process.* `Stop` is `close()`, which the server calls when no request is under
way; `Exit` closes the database when the worker has ended; `Crash` is a kill at
any moment, and also the exit of a process whose worker outlived the five
seconds `close()` waits. `Restart` runs `recover_interrupted_jobs` before it
starts the worker.

*Left out.* The index contract is taken to be met: a rebuild of the index after a
change of the embedding provider or of the schema is not in this module. Neither
are progress values, error texts, the lease's time (nobody reads `lease_until`),
the synchronous import that only tests use, failures of the worker's own database
transactions, and uncommitted changes that another handler's transaction would
commit (a failed deletion's first `UPDATE` is committed at once in the model;
nobody can read the row without the lock in between).

### JobLife

A job is accepted, leased (one at a time, each lease uses an attempt), ended,
canceled, requeued, removed, recovered. Two of its actions are there because the
code's races make them visible: `RequeueLate`, a retry that was checked earlier
and acts whatever the status is by now, and `Regain`, the attempt under way that
sets a requeued job running again. What the module still excludes is what matters:
two running jobs, an attempt beyond the limit, a success of a job that was not
running, a canceled or failed job that starts running without being requeued.

### DesktopSupervisor

*State.* Per desktop, `sup` is the supervisor thread: the place in
`supervise_core` where it is, the phase and restart count it carries from one
round to the next, and the `Child` it holds. `view` is the `RuntimeSnapshot` that
the window's commands read, `inbox` the channel, `closing` the main thread in
`stop_core`. `core` is where each Core process is in the `lifespan` of `app.py`,
and `endpoint` the Core that `agent-endpoint.json` names.

*Actions.* `Open`, `RequestRestart` and `Close` are the user. The supervisor has
one action per outcome of each wait: a command taken, a deadline passed, a child
that exited, an answer, an answer of the wrong version, and the two ways in which
`start_core` and the watch lose their child (`GarbledReply`, `WatchCheckFails`).
A Core runs through `Step`, `Publish`, `Bind`, and on its way out `ReadEndpoint`,
`Unlink` and `Exit`; `Die` is its crash. `DesktopDies` is a kill of the desktop.
The constant `Failures` says which of these may happen in a run.

*Abstractions.* Time: a deadline may pass whenever the code waits for it, so every
race of a timeout with a late answer is in the model. Processes: `Cores` are
slots, used again when the process is gone and nothing names it. A kill is
immediate. The channel holds `MaxInbox` restarts and a shutdown.

*What is not promised.* Nothing in the code keeps two desktops, or a desktop and a
Core started by hand, from using one profile at the same time; ADR 0012 takes it
for granted that they do not. The runs have one desktop, and `ReadyIsDiscoverable`
is stated for that; the theorems hold for any number.

### CoreLife

The status a user sees: starting, ready, recovering, failed, stopped, with the
recoveries used. A failed start or an exit uses one of three; only a user's
restart or a new start of the desktop gives them back; when they are used up the
status is failed. `LoseTrack` is the watch that cannot look at its child.

### BackupRestore

*State.* `root` is the data directory: `app.sqlite`, its write-ahead log (with
`-shm`), `libraries/`, and inside the libraries the `text` of one source, the artifact
that the worker writes. What the first three hold is a version, a number that grows with
each change made under the locks; while Core runs, `app.sqlite` alone is `Base`, and only
together with the log beside it is it the version, so a log that is lost or left beside
another database shows. `Torn` is a directory that `rmtree` has half removed, or a text
half written. `rollback` is the rollback directory, `archives` the backups that verify,
each a version and the text that lay there when it was made, `marker` the backup that
`pending-restore.json` asks for, `pc` the process, `worker` how far the worker is with
the source, and `request` the handler in `schedule_backup_restore`. `data`, `latest`,
`ready` and `before` are history variables: the version last written or restored, the one
last written, the versions in which the source is called ready, and `root` when the
switch began.

*Actions.* `Write` is any change under a lock. The worker's attempt is `Lease` and
`Settle`, which are transactions and wait for the locks, and between them `BeginText`,
`EndText` and `DropText` (`service.py` 792 and 812), which hold none and go on beside a
backup and between a recovery point and its marker. `CreateBackup`, the three steps of
scheduling (`Schedule`, `RecoveryPoint`, `Mark`) and `ScheduleFails`; `Close`, which
checkpoints the log unless the worker outlives it; and at startup one action per file
operation of `apply_pending_restore`: the moves, the placements, the check, the removal of
the marker, each step of the `except` clause and the `finally` clause. `SwitchFails`,
`UndoFails` and `CleanUpFails` are an exception of any of them; `Crash` is a kill at any
moment; `Decay` an archive that no longer verifies.

*Abstractions.* One source stands for any that is not deleted: artifacts of two sources
are files of their own. The text is made from the trusted copy, so there is one whole text
of a source; that a ready source is never leased, and has its artifact, is what
`SourceJobs` shows.

*Left out.* The archive's format, its checksums and limits (an archive verifies or
it does not), the indexes inside `libraries/`, listing, and two Cores on one
directory.

### IndexRebuild

*State.* One library: `listed` its row, `dir` its directory, `recorded` its source
rows, `ready` those a rebuild would select, `queue` those with a pending job, `raw` the
trusted copies. `index` and `temp` (the `.rebuild` file) are who built the file and
which sources have rows in it; `Blank` is a database whose metadata is not committed
yet, which `HybridSearchIndex` fills in and the contract check takes for a stranger.
`manifest` is there or not, `todo` what the rebuild under way has still to add. `lock`
and `indexLock` have their holders; `pc` and `task` say where each request and the
worker are. `provider` is that of this process. `dismantled` is a history variable as
in `SourceJobs`.

*Actions.* Whoever holds `_index_lock` and is at `"contract"` finds it met
(`ContractMet`) or goes through the rebuild one file operation at a time (`Rebuild`,
`OpenTemp`, `Fill` per source, `Swap`, `WriteManifest`; `RebuildFails` is the `except`
clause), then through the opening of the index in two steps (`Create`, `Open`) to its
own work: the query, the three removals of `delete_source`, the worker's `Insert` and
its manifest (`Tell`). The worker checks and marks before and after in transactions of
their own (`Mark`, `Check`, `Finish`), may be interrupted at each check and then
discards without looking at the contract (`Discard`). `delete_library` holds `_lock`
alone: `Rmtree` takes one file at a time, in any order. `Restart` is a close or a kill
at any moment, with any provider; the index may be found damaged.

*Abstractions.* Jobs are what `SourceJobs` has in detail: here one may be canceled or
retried at any time. Sources are slots, used again when nothing is left of them. The
index's write-ahead log is not modelled: the contract check, which comes first, opens
and closes the database and so checkpoints it before the rebuild removes the file. The
contract is the provider; a change of the schema version is the same to the code, and
one of the chunking is written to the manifest and never compared. Damage is found at a
start only. Artifacts are in `SourceJobs`. What a query returns is left out.

### ModelInstall

*State.* `jobs` are the rows of `model_jobs`, numbered in the order of `created_at`. A
handler takes that time before the lock (`Read`), so that of two the later may be inserted
first, and is still the latest.
`part` is the length of each `.part` file in blocks, `corrupt` says which has a block
that is not the asset's, `installed` what each destination file is. Per thread, `at` is
its place in `_run_model_install` and `install_e5_package`, `position` the bytes it has
counted, `appends` whether it opened the file to append. `handle` is `_model_thread`,
`cancel` the event that all jobs share. `overlapped` is a history variable: two threads
have been alive at once.

*Actions.* The handlers hold `_lock` for single statements, so each is a read (`Read`)
and what follows from it: `Insert` or `Requeue`, then `Launch`, which looks at the last
thread, and `Spawn`, which clears the event and starts another; or `Cancel`. The thread
has one action per file or network operation, and `Settle` writes the status whatever
the row holds by then. `Close` and `Die` end the process; `Start` is
`recover_model_jobs` and a thread for the latest of the pending jobs.

*Abstractions.* Files behave as on Windows, which is the platform that is released
(`docs/deployment.md`, 5): a file that another thread writes can be truncated and
cannot be replaced or removed. The server's answers are those that `urlopen` tells
apart: it continues (206), begins anew (200), refuses (416 if nothing lies beyond the
offset), or breaks off.

*What is not promised.* A cancellation is an event in memory and not a column: a job
canceled while its thread has not noticed and then killed with Core is taken up again.
A job retried while its old thread has not ended stays pending until Core starts again
(`Launch`); `RestartResumes` is about that restart. A retry read before another one may
run an installation whose job already reads `failed`.

### AgentAccess

*State.* A credential is a number. `rows` are the connections in
`agent-connections.sqlite`, `secrets` those in the vault, `grants` those in the memory
of the running Core, `scope` their libraries. `admin` is where each request of the
owner is inside `issue` or `revoke`, which hold the store's lock. `core` is the running
Core, numbered by its start, and `endpoint` the address in `agent-endpoint.json`.
`call` is the one call of each bridge and of each diagnosis: where it is, what its
credential allows, what it has shown.

*Actions.* The vault and the database are written in steps of their own, each of which
may fail or be the last before a crash; a backend may silently discard a secret. A call
of a connection finds the address (`Discover`) and the secret (`Secret`) anew, is
admitted (`Send`), is authorised, and looks up each source that the index named
(`Look`). `diagnose_connection` goes through the three tools and resolves its
credential again before each (`Rechecks`). `Delete` removes a source and may leave its
rows in the index, as `SourceJobs` shows it can.

*Left out.* The limits of the projection of answers; `list_sources` (its pages are in
`SourceLists`); `get_source_info` and `get_index_status`, which authorise and look up as
`read_source` does, once each.

### Chunking and Retrieval

A document is its number of tokens, the levels of its headings and the places of its
empty lines. `Window` is one round of `_chunks_for_range`, over the ranges that
`_generic_parent_ranges` yields. `TitlePath` is `_title_path_at` for every token.
`Retrieval` adds a query, whose two rankings are free, and the loop of
`HybridSearchIndex.search`: `Outscores` compares sums of `1 / (K + rank)` as fractions,
`Context` is `_context_for` in its three strategies. Fractions are exact, so two sums
that differ only by rounding in floating point are not told apart wrongly. Text of a
window is trimmed in the code and not in the model; the `semantic_markdown` strategy,
chosen by the evaluation only, is left out.

### SourceLists

`key` is the value that the list is sorted by and `Sources` are numbered in the order
of their identifiers. `Page` is a request with the cursor of the last; between two
pages rows come, change and go. `touched` is a history variable: what changed since
the walk began. `rows` are the sources with a row in `source_activity`, `favorite` and
`opened` its two columns, `Null` where nothing is. `Visit` is the three statements of
`record_source_visit` in one transaction: the upsert, the `UPDATE` that empties
`last_opened` beyond the bound (`Beyond`), and the `DELETE` of the rows that hold neither
column (`Useless`); `Unfavorite` has a `DELETE` of its own. `clock` is `utc_timestamp`,
which gives no time twice in a process. `chosen` and `visited` are history variables, what
the user did last with each source, against which the table is compared. A clock set back
between two lives of the process is left out. A library has finitely many sources
(`ListsAssumption`).

## Runs

| Run | Instance | Shows |
|---|---|---|
| `jobs_safety` | 1 document, 1 batch, 2 handlers, 2 attempts, every request, 1 duplicate, 1 crash or error | the safety properties, the action properties and the refinement |
| `jobs_liveness` | 2 documents, 1 batch, 2 attempts, 2 handlers, one that imports, one that seals, pauses, resumes, retries the batch and stops | leasing, termination of attempts, of a batch and of the process |
| `jobs_exhausted` | 1 document, 1 batch, 3 attempts; import, seal, pause, resume | the disagreement with ADR 0018 below |
| `desktop_safety` | 1 desktop, 3 Cores that may crash, 2 queued restarts | no orphan, and the right Core handed out and recorded |
| `desktop_liveness` | 1 desktop, 2 Cores, 2 queued restarts, every failure | the refinement, and that closing and crash loops end |
| `backup_restore` | 3 versions, 3 archives, 2 errors or decays, 2 kills | the safety properties, and that an accepted restore ends |
| `backup_rollback` | 2 versions, 2 archives, 1 error | the disagreement with ADR 0019 below |
| `index_rebuild` | 1 source, 1 client, 2 providers, 2 restarts, 1 fault | the safety properties, and that a stale index is rebuilt |
| `model_install` | 2 requests, 2 threads, 2 jobs, 2 assets of 2 blocks, 3 requests in all, 1 fault, 1 restart | a running job is driven, success is a package that verifies, interrupted downloads are put together rightly and taken up again |
| `agent_access` | 2 requests of the owner, 1 Agent, 1 diagnosis, 2 credentials, 2 libraries, 1 source, 2 starts, 1 fault | nothing is read with a revoked credential or outside its libraries; listed connections are usable |
| `retrieval` | every document of up to 8 tokens; those of up to 6 searched with every two rankings of 2 | windows, titles, fusion, contexts |
| `source_lists` | 3 sources, 2 sort keys, pages of 2, a history of 1, 4 visits or favourites | pages under change, two collections in one table |

*Bounds.* Every race in this code is between handlers, or a handler and the
worker, on the same document or batch; two handlers on one document with the worker
give all pairs of check and action and all points of the worker they may fall
on. Documents meet only in the lease (`NoneRunning`, the order of leases) and in a
batch's counts; the liveness run has two, and the proofs any number. It has no
deletion and no cancellation of a document, whose races with the worker the safety run
has. Two attempts
give a first, a last and an exhausted attempt; nothing compares attempts with
anything but the limit. A crash shows a recovery from every
state, and a second one recovers from states a first recovery already reaches; so does
the orderly end of a process, which is not bounded, after an error. The
handlers are interchangeable, so the safety run uses symmetry; the liveness run does
not. `MaxDocs`, `Batches`, `Clients`, `MaxDuplicates` and `MaxMishaps`
are bounds of the model; `MaxAttempts` is the 3 in `lease_next_job`.

A desktop holds at most one child, so a second and third Core are those it has let
go of, or the one that still clears its record while the next publishes. Two queued
restarts and a shutdown give every order of commands and rounds. The restart
budget is the code's own 3, not a bound. In `backup_restore`, three versions are a
backed-up one, the one that replaces it, and one written after that, or an attempt of
the worker (its lease and its end) around a backup; three archives are the one to be
restored, the recovery point and one more; two errors are one in the switch and one while
it is undone, or in the start that follows; two kills are one in a restore and one in the
restore that begins again. In
`index_rebuild`, a client and the worker are all who can be inside the index: a second
client waits for `_lock` from the beginning to the end of the first. Two restarts are
one that interrupts a rebuild or a first write and one that changes the contract
after it; one source is there or lost, and it is used again after a deletion. Sources
meet only in the selection of a rebuild, and the proofs have any number of them, of
clients and of restarts. In `model_install`, two threads are the one that ends and the one
that the race starts beside it; with three, `SucceededIsInstalled` and `WholeStaysWhole`
fail, since a third can replace by what two have mixed up what the first has just
validated. Two blocks make a download that is resumed in its middle, two assets one that
is complete while the other is not. In `agent_access`, one call at a time is enough, as
calls do not touch each other's state; two credentials are a connection and a grant, or
the one revoked and the one issued after it. In `retrieval`, a target of 2, a limit of 4
and an overlap of 1 make windows that end at the target, at an empty line before the
limit and at the end of their range; the budget of 4 is smaller than a parent and larger
than a window. In `source_lists`, three sources with pages of two have the cursor's own
row, one before it and one after; a history of one is over its bound with the second
visit, and four times are enough to choose a favourite, open it, push it out of the
history and open it again. The proofs have none of these bounds.

*Fairness.* `FairSpec` asks that a checked request runs on to its end, that the
worker thread is scheduled, that a process told to stop exits once its worker has
ended and that one that is down is started again. The first two are the operating
system's scheduling of threads and the fairness in practice of an `RLock` that is
held for short sections; the third is the end of `main`, the last the desktop
supervisor or the user. Nothing makes clients send anything or resume a batch.
For the desktop: the supervisor is a thread all of whose waits have a deadline, and
each Core a process that is scheduled; nothing makes the user act. For the restore:
a start and a handler run on to their end (weak), and Core is closed and started
again; closing has strong fairness, since a handler may hold the locks whenever it is
asked for but does not hold them for ever. For the index: the worker and a request
that was begun run on (weak); each lock is taken sometime by who waits for it (strong). For the installation: the
threads run on and their waits on the network have a deadline, `close()` gives up after
two seconds, Core is started again, and a request that was begun goes on.

## Properties

* `RunningIsOwned`, `StageIsOwned`: what the API shows as being worked on is
  being worked on, through all races, crashes and recoveries. The exception in
  `StageIsOwned` is real: a cancellation followed by a crash leaves the source
  in its stage, because the recovery looks at running jobs only.
* `RecordedSourceHasRaw`, `SucceededIsSearchable`: what is recorded can be read, and what
  is called done can be found. They fail if a discard ever hits a finished document or if
  a late retry lets two attempts overlap.
* `SettledIsDiscarded`, `FinishedBatchStaysFinished`: what a step may never do, whichever
  of the racing requests it belongs to.
* `ImplementsJobLife`: the refinement; among the rest, that only a retry revives a
  canceled job (`CanceledStaysCanceled`, proved on its own).
* `LeasableIsTaken`, `AttemptEnds`, `StopCompletes`: under `FairSpec`.
* `BatchEnds`: a sealed batch under way reports an end, or is paused or canceled, through
  late imports, retries of the batch and a pause in the middle of an attempt. Its
  exceptions (`Stuck`) are real: a job requeued at the attempt limit, which is the
  disagreement of `jobs_exhausted`, and an item whose document was deleted.
* `NoOrphan`, `HandsOutOwnCore`, `ReadyIsDiscoverable`: each process that runs has
  somebody who will stop it, and what the window and the discovery record name is the
  present Core, through restarts, timeouts, crashes and the non-atomic clearing of
  the record.
* `ImplementsCoreLife`, `CloseEnds`, `RecoveryIsBounded`: the
  status goes through its phases; the join in `stop_core` returns; no crash loop is
  endless.
* `UpHasExpected`: whatever a start did before it was killed, failed, or failed to
  undo its failure, Core comes up only with the whole of one version, and the right one.
  It rests on the marker, which is removed last, on the log being moved with its
  database, and on archives being made of no ready source with half a text.
* `RecoveryPointFirst`: what a restore will replace has been archived, with the text of
  the source if it is ready. What the worker writes or removes under no lock between the
  recovery point and the marker may be missing or torn in the archive; the property says
  that this is never the text of a ready source, because the worker writes texts of leased
  sources only.
* `RestoreEnds`: an accepted restore takes effect as long as its archive verifies.
* `AnswersAreComplete`: an index that is used as it is has every ready source. It fails
  if index and manifest are not written in one section (the defect D-A05 of
  `desktop-acceptance-issues.md`), if a manifest can vouch for a file created after it,
  or if a rebuild selects before a source is ready and replaces after it.
* `SwapIsExact`: a rebuild replaces the index with one that is its own, whole, and
  without the deleted, although the worker's rebuild runs beside cancellations, imports
  and the deletion of the library.
* `GoneIsErased`: a deletion of the library beside a worker that is writing into it
  leaves nothing. It rests on nobody creating the directory again.
* `StaleIsRebuilt`: while clients ask, an index of another contract is replaced, if
  the ready sources have their copies.
* `RunningIsDriven`: whatever races of start, retry and cancel there were, a model job
  that reads `running` has a thread in its installation.
* `SucceededIsInstalled`, `WholeStaysWhole`, `PartIsSound`: what is reported as installed
  verifies, a good file is not lost to a second thread, and a download interrupted and
  resumed any number of times is put together rightly or not put in place.
* `RestartResumes`: what the end of Core interrupts is taken up again and ends.
* `NoReadAfterRevocation`: a call, or a stage of a diagnosis, that begins after its
  credential was revoked reads nothing (`docs/phase-4-delivery.md` line 74,
  `docs/agent-setup-guide.md` line 19), whatever crashed or failed in between. One that
  was admitted before is finished, as the first of these says.
* `AnswerIsGranted`: it fails if a source that the index still finds were taken for one
  that exists, or if its library were not compared.
* `ListedHasSecret`, `LimitHolds`: the order of the two writes, and the lock around them.
* `EveryTokenIsCovered`, `WindowsAdvance`: no token is lost at an empty line, a heading or
  an overlap, and no window lies in another: `chunk_id` is made from the range and is
  unique in the index.
* `TitlesAreKept`: a citation names every section the text lies in.
* `AgreementIsKept`: a candidate that both rankings put first does not lose to another,
  through the fusion, the limit and the dropping of contexts that are already there.
* `ContextHoldsMatch`: the clipping at both edges of a parent keeps the match.
* `UnchangedIsShownOnce`: a keyset page loses or repeats nothing that stays as it is, even
  if the row its cursor was made from moves or goes.
* `CollectionsAreKept`: no statement of one collection takes an entry of the other, and the
  history forgets the oldest visit first. It fails if the `DELETE` after the pruning looks
  at one column only, or if the pruning counts from the wrong end.

## Disagreements between the code and what is written about it

Two are checked by runs of their own:

* `jobs_exhausted`. A batch paused while a job is in its third attempt puts the
  job back to `pending` (`service.py` 838-844), and `lease_next_job` never takes
  a job with three attempts (`database.py` 282). ADR 0018, decision 6, says such a
  job fails and does not stay in the queue.
* `backup_rollback`. The `except` clause of `apply_pending_restore` deletes
  `app.sqlite` and `libraries/` (`backups.py` 303-305) without asking whether they had
  been moved: an error of an early move deletes originals of which the rollback
  directory has no copy. ADR 0019, decision 5, says that a failed switch rolls back.
  `UpHasExpected` still holds, because the marker stays and the next start restores
  again; what is lost is the state before, of which the recovery point is the only
  copy.

The others were met while modelling. Each configuration reproduces its counterexample:

    tlc -config jobs_deleted.cfg MCSourceJobs
    tlc -config jobs_canceled.cfg MCSourceJobs
    tlc -config desktop_orphan.cfg MCDesktopSupervisor
    tlc -config index_stale.cfg MCIndexRebuild
    tlc -config model_resume.cfg MCModelInstall
    tlc -config model_twice.cfg MCModelInstall
    tlc -config title_path.cfg MCRetrieval

* `jobs_deleted`. The worker's check and its write are separate
  (`service.py` 790-802), and an interruption that finds no source row discards
  nothing (833-837): a deletion in between leaves the artifact or the index rows of a
  deleted document, which searches then find. `docs/api-contracts.md` line 72
  says that a deletion removes them.
* `jobs_canceled`. A cancellation after the last check (803) ends with the source
  `ready`, its content indexed, and its job `canceled`. The test
  `test_cancel_running_source_job_discards_derived_content` expects that canceled
  content does not stay searchable.
* `desktop_orphan`. `start_core` drops its `Child` without a kill when the version
  reply cannot be parsed or the process cannot be looked at (`lib.rs` 222-228): the
  Core runs on beside the next one, and after the desktop is closed.
  `docs/phase-3-delivery.md` line 81 says that no orphan is left after closing.
* `index_stale`. `delete_source` unlinks the copy before it removes the row
  (`service.py` 1069-1073), and a rebuild raises at the first ready source without a
  copy (428). After a kill in between and a change of the provider every rebuild
  raises, and with it every search, every import and every deletion of a source in that
  library, the repetition of the interrupted one included. `docs/development-plan.md`,
  5.4, says that the index can be rebuilt when the model changes.
* `model_resume`. A `.part` file that is complete, left by a kill between the last block
  and its check, is resumed with a range that begins at the end of the asset
  (`model_assets.py` 105-116); the server answers 416, the job fails, the file stays, and
  so does every retry. `docs/phase-3-delivery.md` line 114 says that the next job
  continues from the bytes that are there.
* `model_twice`. `_start_model_worker` looks at the last thread and starts another in two
  steps without a lock (`service.py` 252-262), and so do two requests that find no active
  job (210-225): two threads download at once. `docs/phase-3-delivery.md` line 115 says
  that there is at most one in a process.
* `title_path`. `path[: level - 1]` (`chunking.py` 95) supposes that the levels above are
  there. In a document whose headings begin at level 2, the second of two sections is
  cited as part of the first.

One more needs no run: a match longer than the context budget in a parent longer than
it gets a range that ends before the match does (`index.py` 440-448), while
`docs/phase-2.5-delivery.md` line 9 says that the range contains the matched child.
`ContextHoldsMatch` is stated for matches that fit.

## Proofs

`SourceJobsProofs` proves, for every number of documents, batches, handlers,
attempts, crashes and errors (from `ConstantsAssumption` alone):

* `TypeCorrect`: `Spec => []TypeOK`. The invariant is `TypeInv`, which adds to
  `TypeOK` that the worker has a document at hand exactly between a lease and
  the end of the run; without it, what the worker does to `cur` is not typed.
* `Invariance`: `Spec => []IInv`, and from it `RunningOwned`, `RecordedHasRaw`,
  `SucceededSearchable` and, for the steps, `CanceledStays`.

None of the three properties is inductive. `IInv` adds what they rest on: source and
job rows come and go together (`RowsMatch`); one holder of the lock, whose
document is in the state its section left it in (`Locks`); the job at hand cannot
succeed but by the worker's last transaction (`WorkerSource`); an interruption that
is not a pause found the job canceled or gone, and nothing but the worker's own
`_set_job` sets a job running, so the last transaction may leave the job
alone (`Interruption`); and what the stages so far have derived is still there
unless a deletion has begun (`Derived`). The proof of each part goes through the
handlers with three lemmas on what no handler does (`HandlerStatuses`,
`HandlerKeepsFiles`, `HandlerLeavesWorker`) and through the worker action by action.

On `IInv` rest the others:

* `StageOwned`. `StageIsOwned` alone is not inductive, as a job could end and leave its
  source in a stage; with `StageIsLive` it is: a source in a stage has a job under way or
  canceled, since every transaction that ends a job writes both rows.
* `SettledDiscarded`, for the steps. `Discarded` says that what the worker has removed
  stays removed until it settles the job: no handler writes artifacts or index rows
  (`HandlerWritesNothing`).
* `FinishedBatchStays`, for the steps: neither the worker nor the recovery takes a job
  out of those that ended, or puts one back in a batch (`WorkerReopensNone`): the job at
  hand has not succeeded or failed while its attempt is open (`AttemptsCounted`), and one
  canceled meanwhile is left canceled by the worker's guarded updates. Of the handlers
  only a retry, a recorded import and a deletion can (`HandlerReopens`). What a status says
  of the items is `StatusTells`, from the cardinalities of disjoint sets (`CountsCover`).
* `Refinement`: `Spec => ImplementsJobLife`, with one more invariant, `AttemptsCounted`:
  the attempt under way has been counted and only its own last transaction ends it, so
  that a late retry followed by `_set_job` is `Regain` and not a second lease.

`DesktopSupervisorProofs` proves, for any number of desktops, Cores and queued
commands: `TypeCorrect`; `HandsOut`, from an invariant that ties each place of
`supervise_core` to the child it holds and to what its last `update_snapshot`
showed; `OrphansNone`, that no Core is orphaned if no mishap can happen (`NoMishap`:
the desktop is not killed, replies parse, the child can be looked at), from the
invariant that the child is given up only where the process is gone;
`ReadyDiscoverable`, for one desktop (`OneDesktop`) without mishaps, from `RecordNames`:
the record names a Core from its publication until it leaves. This holds because a Core
that still clears the record is the only one alive, which is what `NoOrphan` gives; and
`Refinement`, `Spec => ImplementsCoreLife`, step by step. `Failures` is otherwise
arbitrary: crashes of Core are always included.

`BackupRestoreProofs` proves, for any number of versions, errors and kills:
`TypeCorrect`; `UpIsWhole` and `RecoveryFirst`, from an invariant with five parts: the
marker is there as long as the switch is not complete (`Complete`), how far the switch has
come tells what the directory holds (`Progress`), a handler between its recovery point and
its marker has an archive of the present version (`Handler`), while the worker is at the
source that source is not ready, and what it has finished writing is whole (`Worker`), and
every archive, the one asked for included, has the text of the source if it is ready in
its version (`Backed`). The last holds of old archives because a version's number is not
used again: a restored profile goes on above `latest`, not above what it was restored to.

`IndexRebuildProofs` proves, for any number of sources, providers, clients, restarts
and faults: `TypeCorrect`, `AnswersComplete`, `SwapExact` and `GoneErased`. None is
inductive; the invariant has seven more parts, each preserved by a lemma of its own that
says in its hypotheses on which others it rests. Who is inside the index holds
`_index_lock`, and a request holds `_lock` as well (`Holding`). Without the directory
there is no file (`Gone`), and while the library is removed every source has been
dismantled (`Dismantling`). What the rebuild has added and has still to add covers the
ready sources (`Selecting`, `Filling`): only the worker makes a source ready, so none
becomes so beside the worker's rebuild, and `_lock` keeps it out of a request's. Every
file a manifest vouches for is complete, and so is the index wherever somebody is about
to write a manifest (`Whole`); and what the worker has written is in the index until
it is called ready, unless a deletion takes it (`Stored`).

`ModelInstallProofs` proves, for any number of requests, threads, jobs, assets and blocks:
`TypeCorrect`; `RunningDriven`, without a condition; and, as long as no two threads have
been alive at once (`~overlapped`), `PartSound` and `SucceededInstalled`. The invariant
for the latter is `Single`: there is one thread, and what it has counted is what its file
holds (`Sound`): from the connection on, `position` is the length of the file, and what
`Check` has found good is good when `Place` moves it. With two threads this is false. What
then still holds is `WholeStays` and `SucceededInstalledByTwo`, for at most two threads
(`TwoThreads`; a third needs a second race in `_start_model_worker`). They rest on `WholeIsLeft`: from the moment a destination file
verifies nobody begins with its asset again, so the one thread that may still be at it is
alone, and what it puts in place is what it has checked, or nothing, because the other has
just moved the file away. With a third thread there could be two left, and the property is
false. A thread's validation then stays true until it writes `succeeded` (`Validated`).

`AgentAccessProofs` proves, for any number of owners, Agents, diagnoses, credentials and
starts: `TypeCorrect`, `RevokedReadsNothing`, `AnswersAreGranted`, `ListedAreUsable` and
`LimitsHold`. The invariant adds that the issued credentials are the first numbers
(`Numbered`, so that a fresh one is new), that one request at a time is in the store, and
which secret it has written or row it has removed (`Holder`), that no credential that is
revoked has a row or a grant (`Revocation`), and per call (`CallInv`) that what it has
shown lies in the library it asked for, that this library is in the scope of its
credential, and that what was gone when it began is gone still. The only fact about the
vault it needs is that nobody but the holder of the lock removes a secret.

`RetrievalProofs` proves, for every target, limit and overlap that `ChunkingConfig`
accepts, every document, every two rankings, and all other parameters of a search:

* `TypeCorrect`, `TokensCovered` and `WindowsDoAdvance`. The invariant adds
  `NextAdvances`: the next window begins within the last, or where it ends; in the first
  case a full window from there ends beyond the last one, which is what makes the ends
  advance although an empty line may have made the last window long.
* `MatchIsHeld`. `ParentHolds` shows that a window has a parent and lies in it;
  `AdjacentHolds` and `InParentHolds` do the arithmetic of the two clippings. The
  invariant `SearchInv` says that nothing changes once there is a query, so that each
  entry still has the context of its child.
* `AgreementKept`. `DominatesOutscores` compares the sums of fractions, by cases on which
  rankings have the two candidates; the invariant `TakenAreShown` says that what the loop
  has passed over has its context among the results.
* `TitlesKept`. `TitlePath` is recursive; the induction is over the set of the tokens up to
  which the claim holds (`Induction`, from the well-foundedness of the naturals), and so is
  the existence of the function (`PathExists`). The claim has to say also that a heading
  is no deeper in the path than its level (`PathIsGood`): this is why a later heading of a
  lower rank does not cut it off.
* `WindowsEnd` and `SearchEnds`: both loops always have a next round and each round leaves
  less to do, which is all of their termination but the scheduling. For the second, the
  comparison of scores is shown to be transitive (`Transitive`, `BestExists`).

`SourceListsProofs` proves, for every finite set of sources, all keys and page sizes:

* `ShownOnce`, from `WalkInv`: every unchanged source comes either at or before the
  cursor, and has been shown once, or after it, and has not been shown. A page is a
  beginning of the rows behind its cursor (`PageIsPrefix`) and the last one is all of
  them (`LastPageIsAll`), by counting the rows ahead of each.
* `CollectionsKept`, from `TableInv`, which adds that no two visits have the same time.
  The pruning takes only what is older than all it leaves (`PruneOldest`), by counting
  what is newer than each (`NewerFewer`), and leaves no more than the bound, by numbering
  what it leaves with these counts: two with one number would have one time
  (`PruneBounds`).

*Only model-checked*: the liveness properties (`LeasableIsTaken`, `BatchEnds`,
`AttemptEnds`, `StopCompletes`, `CloseEnds`, `RecoveryIsBounded`, `RestoreEnds`, `StaleIsRebuilt`,
`RestartResumes`), since fairness and `ENABLED` are outside the prover's reach. Every
invariant and action property that a run checks, and both refinements, are theorems; the
conditions of those that have one (`NoMishap`, `OneDesktop`, `TwoThreads`) are met by the
instances that TLC checks.

## Not modelled

* Migrations run alone before any other component. Their hazard is a crash between an
  `ALTER TABLE` and its `user_version` (`database.py` 97-100), after which the column is
  added again and the start fails.
* The web import flow issues the requests that `SourceJobs` allows in any order.
* URL snapshots, parsers, embeddings, settings and the evaluation: no state that two
  actors share.
* Of the parts that are modelled partly: renaming a library and a creation that fails,
  the OFFSET pages of the two collections, the `semantic_markdown` strategy, the SQL
  behind the rankings, the projection of answers.

## Plan

1. For the liveness properties, what a proof can give without fairness: that each round of a
   worker, supervisor or restore has a next step and a measure that it lowers, as
   `WindowsEnd` and `SearchEnds` say of their loops.
2. `HandsOut` and `ReadyDiscoverable` with the mishaps that only touch another Core.
3. Migrations with crashes, if the startup is to be composed with the restore.
