----------------------------- MODULE BackupRestore -----------------------------
(***************************************************************************)
(* Managed backups and their restoration at the next start of Core         *)
(* (storage/backups.py; create_backup, schedule_backup_restore and         *)
(* __init__ of application/service.py).                                    *)
(*                                                                         *)
(* A version stands for what app.sqlite and the libraries hold between two *)
(* changes made under the locks.  While Core runs, its last transactions   *)
(* are in the write-ahead log: app.sqlite alone is then the stale `Base',  *)
(* and only with its own log is it the version.  -shm goes wherever -wal   *)
(* goes.                                                                   *)
(*                                                                         *)
(* One thing changes under no lock: the worker writes and removes the text *)
(* of the document it indexes (libraries/.../artifacts).  It is modelled   *)
(* for one source, any that is not deleted; the text is made from the raw  *)
(* copy, so that there is one whole text of it.                            *)
(*                                                                         *)
(* Each file operation of apply_pending_restore is a step; any of them can *)
(* raise, and the process can be killed between any two.                   *)
(***************************************************************************)
EXTENDS Integers, FiniteSets

CONSTANTS
    MaxVersion,  \* bound: changes ever made under the locks
    MaxArchives, \* bound: different archives
    MaxFaults,   \* bound: file operations that raise, archives that decay
    MaxCrashes   \* bound: kills of the process

Versions == 1..MaxVersion
None == 0     \* no file, no marker
Base == -1    \* app.sqlite without the transactions in its log
Torn == -2    \* a directory partly removed by rmtree, a text partly written
Whole == -3   \* the whole text of the source

Files == {"db", "wal", "libraries", "text"}
Contents == Versions \cup {None, Base, Torn, Whole}
Texts == {None, Torn, Whole}
Stores == {s \in [Files -> Contents] : s["text"] \in Texts}
Empty == [f \in Files |-> None]

\* What moves, goes and comes with libraries/.
Inside == {"libraries", "text"}

\* A backup: the version it is of, and the text that was in the libraries.
Backups == [of : Versions, text : Texts]
NoBackup == [of |-> None, text |-> None]

ASSUME ConstantsAssumption ==
    MaxVersion \in Nat \ {0} /\ MaxArchives \in Nat /\ MaxFaults \in Nat /\ MaxCrashes \in Nat

VARIABLES
    root,       \* the data directory: app.sqlite, its log, libraries/
    rollback,   \* the restore-rollback-<uuid> directory of this start
    archives,   \* the archives in backups/ that verify
    marker,     \* the backup pending-restore.json asks for
    pc,         \* where the process is
    worker,     \* how far the worker thread is with the source
    request,    \* a handler inside its `with self._lock, self._index_lock'
    data,       \* auxiliary: the version last written or restored
    latest,     \* auxiliary: the version last written
    ready,      \* auxiliary: versions in which sources.status of the source is 'ready'
    before,     \* auxiliary: root when apply_pending_restore began to move
    faults, crashes

store  == <<root, rollback>>
budget == <<faults, crashes>>
known  == <<data, latest, ready>>
vars   == <<root, rollback, archives, marker, pc, worker, request, data, latest, ready,
            before, faults, crashes>>

Moving  == {"moveDb", "moveWal", "moveLibraries", "placeDb", "placeLibraries", "check", "unmark"}
Undoing == {"dropDb", "dropLibraries", "backDb", "backLibraries", "backWal"}
Pcs     == {"down", "start", "open", "up", "cleanUp", "failed"} \cup Moving \cup Undoing
Busy    == {"leased", "writing", "written", "discarding"}
Idle    == [op |-> "none", on |-> NoBackup]
Requests == {Idle} \cup [op : {"backUp", "mark"}, on : Backups]

TypeOK ==
    /\ root \in Stores /\ rollback \in Stores
    /\ archives \subseteq Backups
    /\ marker \in Backups \cup {NoBackup}
    /\ pc \in Pcs
    /\ worker \in Busy \cup {"free"}
    /\ request \in Requests
    /\ data \in Versions /\ latest \in Versions /\ ready \subseteq Versions
    /\ before \in Stores
    /\ faults \in 0..MaxFaults /\ crashes \in 0..MaxCrashes

\* A source that is ready has its text.
Fits(v, text) == v \in ready => text = Whole

\* The directory holds version v and nothing else.
Holds(files, v) ==
    /\ files["libraries"] = v /\ Fits(v, files["text"])
    /\ \/ files["db"] = v /\ files["wal"] = None
       \/ files["db"] = Base /\ files["wal"] = v

\* A profile opened before, in which the source is ready or was never indexed.
Init ==
    /\ \/ ready = {} /\ root = [db |-> Base, wal |-> 1, libraries |-> 1, text |-> None]
       \/ ready = {1} /\ root = [db |-> Base, wal |-> 1, libraries |-> 1, text |-> Whole]
    /\ rollback = Empty /\ before = Empty
    /\ archives = {} /\ marker = NoBackup
    /\ pc = "up" /\ worker = "free" /\ request = Idle
    /\ data = 1 /\ latest = 1
    /\ faults = 0 /\ crashes = 0

-----------------------------------------------------------------------------
(* The running Core. *)

Live == pc = "up" /\ UNCHANGED <<pc, rollback, before, crashes>>

AnyTime == TRUE          \* mutant: handlers and worker do not wait for the two locks
LocksFree == request = Idle

\* Something changes the database or the libraries under one of the locks, and with
\* it the source's status, perhaps.
Change(isReady) ==
    /\ Live /\ LocksFree /\ latest < MaxVersion
    /\ latest' = latest + 1 /\ data' = latest'
    /\ root' = [root EXCEPT !["db"] = Base, !["wal"] = latest', !["libraries"] = latest']
    /\ ready' = IF isReady THEN ready \cup {latest'} ELSE ready
    /\ UNCHANGED <<archives, marker, request, faults>>

\* A handler, or the worker with another document; a late retry or cancellation takes
\* the source from what it was, and none makes it ready.
Write ==
    /\ \E stays \in BOOLEAN : (stays => data \in ready) /\ Change(stays)
    /\ UNCHANGED worker

\* The worker takes up the source, which is pending.
Lease ==
    /\ worker = "free" /\ data \notin ready
    /\ Change(FALSE)
    /\ worker' = "leased"

Unlocked == Live /\ UNCHANGED <<archives, marker, request, known, faults>>

\* artifact_path.write_text truncates the file, ...
BeginText ==
    /\ Unlocked
    /\ worker = "leased" /\ worker' = "writing"
    /\ root' = [root EXCEPT !["text"] = Torn]

\* ... and fills it.
EndText ==
    /\ Unlocked
    /\ worker = "writing" /\ worker' = "written"
    /\ root' = [root EXCEPT !["text"] = Whole]

\* An interruption: _discard_source_derivatives
DropText ==
    /\ Unlocked
    /\ worker \in {"leased", "written"} /\ worker' = "discarding"
    /\ root' = [root EXCEPT !["text"] = None]

\* The last transaction of an attempt; any step of it may have failed before.
Settle ==
    /\ worker \in Busy /\ worker' = "free"
    /\ \E done \in BOOLEAN : (done => worker = "written") /\ Change(done)

Work == Lease \/ BeginText \/ EndText \/ DropText \/ Settle

\* Made under the locks, but from the text as it is at that moment.
Archive == archives' = archives \cup {[of |-> data, text |-> root["text"]]}
Room == Cardinality(archives) < MaxArchives

CreateBackup ==
    /\ Live /\ LocksFree /\ Room
    /\ Archive
    /\ UNCHANGED <<root, marker, worker, request, known, faults>>

\* schedule_backup_restore: verify the backup, ...
Schedule ==
    /\ Live /\ LocksFree /\ Room
    /\ \E b \in archives : request' = [op |-> "backUp", on |-> b]
    /\ UNCHANGED <<root, archives, marker, worker, known, faults>>

\* ... archive the present state as a recovery point, ...
RecoveryPoint ==
    /\ Live /\ request.op = "backUp"
    /\ Archive
    /\ request' = [request EXCEPT !.op = "mark"]
    /\ UNCHANGED <<root, marker, worker, known, faults>>

\* ... verify again, and replace the marker.
Mark ==
    /\ Live /\ request.op = "mark" /\ request.on \in archives
    /\ marker' = request.on /\ request' = Idle
    /\ UNCHANGED <<root, archives, worker, known, faults>>

\* No space for the archive or the marker: the request is refused.
ScheduleFails ==
    /\ Live /\ request # Idle
    /\ request.on \notin archives \/ faults < MaxFaults
    /\ faults' = IF request.on \notin archives THEN faults ELSE faults + 1
    /\ request' = Idle
    /\ UNCHANGED <<root, archives, marker, worker, known>>

\* close() checkpoints the log into app.sqlite and removes it, unless the worker does
\* not end in time.
Close ==
    /\ pc = "up" /\ LocksFree
    /\ root' = IF worker = "free" THEN [root EXCEPT !["db"] = data, !["wal"] = None]
               ELSE root
    /\ pc' = "down" /\ worker' = "free"
    /\ UNCHANGED <<rollback, archives, marker, request, known, before, budget>>

-----------------------------------------------------------------------------
(* apply_pending_restore, before any connection is opened. *)

Starting == UNCHANGED <<archives, worker, request, latest, ready, crashes>>
Go(next) == pc' = next

Start ==
    /\ pc \in {"down", "failed"} /\ Go("start")
    /\ Starting /\ UNCHANGED <<store, marker, data, before, faults>>

NoMarker ==
    /\ pc = "start" /\ marker = NoBackup /\ Go("open")
    /\ Starting /\ UNCHANGED <<store, marker, data, before, faults>>

\* The archive is extracted into a new directory and verified before anything moves.
Extract ==
    /\ pc = "start" /\ marker # NoBackup
    /\ IF marker \in archives
       THEN Go("moveDb") /\ rollback' = Empty /\ before' = root
       ELSE Go("failed") /\ UNCHANGED <<rollback, before>>
    /\ Starting /\ UNCHANGED <<root, marker, data, faults>>

Emptied(files, fs) == [f \in Files |-> IF f \in fs THEN None ELSE files[f]]
Copied(files, fs, from) == [f \in Files |-> IF f \in fs THEN from[f] ELSE files[f]]

Kept(fs, next) ==  \* mutant: the log is not moved with the database
    /\ IF "wal" \in fs THEN UNCHANGED store
       ELSE root' = Emptied(root, fs) /\ rollback' = Copied(rollback, fs, root)
    /\ Go(next) /\ UNCHANGED <<marker, data>>

\* os.replace of a file or a directory, if there is one.
Moved(fs, next) ==
    /\ root' = Emptied(root, fs) /\ rollback' = Copied(rollback, fs, root)
    /\ Go(next) /\ UNCHANGED <<marker, data>>

Placed(fs, next) ==
    /\ root' = [f \in Files |-> IF f \notin fs THEN root[f]
                              ELSE IF f = "text" THEN marker.text ELSE marker.of]
    /\ Go(next) /\ UNCHANGED <<rollback, marker, data>>

MoveDb         == pc = "moveDb" /\ Moved({"db"}, "moveWal")
MoveWal        == pc = "moveWal" /\ Moved({"wal"}, "moveLibraries")
MoveLibraries  == pc = "moveLibraries" /\ Moved(Inside, "placeDb")
PlaceDb        == pc = "placeDb" /\ Placed({"db"}, "placeLibraries")
PlaceLibraries == pc = "placeLibraries" /\ Placed(Inside, "check")

CheckDb        == pc = "check" /\ Go("unmark") /\ UNCHANGED <<store, marker, data>>

UnmarkNot ==  \* mutant: the marker stays
    /\ pc = "unmark" /\ Go("cleanUp")
    /\ data' = marker.of
    /\ UNCHANGED <<store, marker>>

\* The restore is done when the marker is gone.
Unmark ==
    /\ pc = "unmark" /\ Go("cleanUp")
    /\ marker' = NoBackup /\ data' = marker.of
    /\ UNCHANGED store

Switch ==
    /\ MoveDb \/ MoveWal \/ MoveLibraries \/ PlaceDb \/ PlaceLibraries \/ CheckDb \/ Unmark
    /\ Starting /\ UNCHANGED <<before, faults>>

\* Any of them raises: the except clause.
SwitchFails ==
    /\ pc \in Moving /\ faults < MaxFaults
    /\ faults' = faults + 1
    /\ Go("dropDb")
    /\ Starting /\ UNCHANGED <<store, marker, data, before>>

Dropped(fs, next) ==
    /\ root' = Emptied(root, fs)
    /\ Go(next) /\ UNCHANGED rollback

Returned(fs, next) ==
    /\ IF \A f \in fs : rollback[f] = None THEN UNCHANGED store
       ELSE rollback' = Emptied(rollback, fs) /\ root' = Copied(root, fs, rollback)
    /\ Go(next)

DropDb        == pc = "dropDb" /\ Dropped({"db"}, "dropLibraries")
DropLibraries == pc = "dropLibraries" /\ Dropped(Inside, "backDb")
BackDb        == pc = "backDb" /\ Returned({"db"}, "backLibraries")
BackLibraries == pc = "backLibraries" /\ Returned(Inside, "backWal")
BackWal       == pc = "backWal" /\ Returned({"wal"}, "cleanUp")

Undo ==
    /\ DropDb \/ DropLibraries \/ BackDb \/ BackLibraries \/ BackWal
    /\ Starting /\ UNCHANGED <<marker, data, before, faults>>

\* The except clause raises itself; what rmtree leaves behind is no library.
UndoFails ==
    /\ pc \in Undoing /\ faults < MaxFaults
    /\ faults' = faults + 1
    /\ IF pc = "dropLibraries" /\ root["libraries"] # None
       THEN /\ root' \in {root} \cup {[root EXCEPT !["libraries"] = Torn, !["text"] = x] :
                                          x \in {None, root["text"]}}
            /\ UNCHANGED rollback
       ELSE UNCHANGED store
    /\ Go("cleanUp")
    /\ Starting /\ UNCHANGED <<marker, data, before>>

\* The finally clause removes the rollback directory; the start goes on only
\* after a restore that succeeded.
CleanUp ==
    /\ pc = "cleanUp"
    /\ rollback' = Empty /\ before' = Empty
    /\ Go(IF marker = NoBackup THEN "open" ELSE "failed")
    /\ Starting /\ UNCHANGED <<root, marker, data, faults>>

CleanUpFails ==
    /\ pc = "cleanUp" /\ faults < MaxFaults
    /\ faults' = faults + 1
    /\ Go("failed")
    /\ rollback' = Empty /\ before' = Empty  \* forgotten, not removed
    /\ Starting /\ UNCHANGED <<root, marker, data>>

\* AppDatabase opens app.sqlite, whatever it finds.
Open ==
    /\ pc = "open" /\ Go("up")
    /\ Starting /\ UNCHANGED <<store, marker, data, before, faults>>

-----------------------------------------------------------------------------
Crash ==
    /\ pc # "down" /\ crashes < MaxCrashes
    /\ crashes' = crashes + 1
    /\ pc' = "down" /\ request' = Idle /\ worker' = "free"
    /\ rollback' = Empty /\ before' = Empty  \* forgotten: no later start looks there
    /\ UNCHANGED <<root, archives, marker, known, faults>>

\* An archive made before the last write no longer verifies.
Decay ==
    /\ faults < MaxFaults
    /\ faults' = faults + 1
    /\ \E b \in archives : b.of # data /\ archives' = archives \ {b}
    /\ UNCHANGED <<store, marker, pc, worker, request, known, before, crashes>>

Restoring ==
    Start \/ NoMarker \/ Extract \/ Switch \/ SwitchFails \/ Undo \/ UndoFails
          \/ CleanUp \/ CleanUpFails \/ Open
Serving == Write \/ Work \/ CreateBackup \/ Schedule \/ RecoveryPoint \/ Mark \/ ScheduleFails

Next == Serving \/ Close \/ Restoring \/ Crash \/ Decay

Spec == Init /\ [][Next]_vars

\* Core is closed and started again: the client restarts it after scheduling a
\* restore, and the desktop or the user start what is not running.
Fairness ==
    /\ WF_vars(Start \/ NoMarker \/ Extract \/ Switch \/ Undo \/ CleanUp \/ Open)
    /\ WF_vars(RecoveryPoint \/ Mark \/ ScheduleFails)
    /\ SF_vars(Close)

FairSpec == Spec /\ Fairness

-----------------------------------------------------------------------------
(* Properties. *)

\* A running Core has the whole of one version before it, database, log and
\* libraries: the one last written or the one whose restore was completed; and a
\* source that is ready there has its text, although the worker writes and removes
\* texts under no lock.  However a restore was killed, failed, or failed to be undone,
\* Core does not come up on a mixture or on an empty directory (apply_pending_restore).
UpHasExpected == pc = "up" => Holds(root, data)

\* When a restore is accepted, an archive of the very state it will replace exists:
\* nothing was changed under a lock between the recovery point and the marker, and the
\* text the worker may have changed meanwhile, which the archive may lack or have torn,
\* is not that of a source that is ready (schedule_backup_restore, ADR 0019).
RecoveryPointFirst ==
    [][marker' # marker /\ marker' # NoBackup =>
           \E b \in archives : b.of = data /\ Fits(data, b.text)]_vars

\* A restore that was accepted takes effect at some later start, whatever starts
\* failed or were killed before, as long as its archive verifies.
RestoreEnds ==
    (marker # NoBackup /\ marker \in archives) ~> (marker = NoBackup \/ marker \notin archives)

\* A restore that fails, with no second error while it is undone, leaves the data
\* directory as it was (ADR 0019, decision 5).
FailedSwitchRollsBack == pc = "cleanUp" /\ marker # NoBackup => root = before
================================================================================
