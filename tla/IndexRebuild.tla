------------------------------ MODULE IndexRebuild ------------------------------
(***************************************************************************)
(* The search index of one library: its build contract, its rebuilding     *)
(* from the raw copies, and everything that opens it (application/         *)
(* service.py, retrieval/index.py, storage/layout.py).                     *)
(*                                                                         *)
(* Searches and deletions hold `_lock' and `_index_lock'; the worker holds *)
(* `_index_lock' twice in a run, to ensure the contract and to write; the  *)
(* deletion of the library holds `_lock' only.  Whoever finds the contract *)
(* unmet rebuilds the index beside the active one and replaces it.  Core   *)
(* may be killed at any moment and start again with another provider of    *)
(* embeddings, which is another contract.                                  *)
(*                                                                         *)
(* What the handlers do to jobs and batches is in SourceJobs; here a job   *)
(* may be canceled, paused or retried at any time.  A source is a slot:    *)
(* it is used again once nothing is left of the source it stood for.       *)
(***************************************************************************)
EXTENDS Naturals

CONSTANTS
    Sources,     \* bound: sources at the same time
    Providers,   \* embedding providers Core may be started with
    Clients,     \* bound: requests at the same time
    Worker,      \* the source worker thread
    None,        \* nobody, no source
    MaxRestarts, \* bound: ends of the process
    MaxFaults    \* bound: errors of files and of parsing, damages of the index

\* index_metadata: who built the index, or why it does not say.
NoFile  == "noFile"
Blank   == "blank"     \* created, and the metadata not yet committed
Damaged == "damaged"   \* not a database any more

Actors == Clients \cup {Worker}

ASSUME ConstantsAssumption ==
    /\ None \notin Sources \cup Actors /\ Worker \notin Clients
    /\ {NoFile, Blank, Damaged} \cap Providers = {}
    /\ MaxRestarts \in Nat /\ MaxFaults \in Nat

VARIABLES
    listed,     \* the library has its row
    dir,        \* and its directory
    recorded,   \* sources with a row
    ready,      \* those of status 'ready'
    queue,      \* those with a pending job
    raw,        \* sources with a trusted copy
    index,      \* index.sqlite: who built it, which sources have rows
    temp,       \* index.sqlite.rebuild
    manifest,   \* manifest.json is there, of the current schema
    todo,       \* sources that the rebuild under way has still to add
    provider,   \* the provider of this process
    lock, indexLock,    \* who holds _lock and _index_lock
    pc, task,   \* per thread: where it is, its operation and source
    dismantled, \* history: sources that a deletion began to take apart
    restarts, faults

rows    == <<listed, recorded, ready, queue, dismantled>>
files   == <<dir, raw, index, temp, manifest, todo>>
threads == <<lock, indexLock, pc, task>>
budget  == <<restarts, faults>>
vars    == <<rows, files, provider, threads, budget>>

Absent == [by |-> NoFile, rows |-> {}]
Idle   == [op |-> "none", on |-> None]

Rebuilding == {"openTemp", "fill", "swap", "manifest"}
Opening    == {"create", "open"}
Erasing    == {"erase", "unlink", "drop"}
WorkerOnly == {"look", "ensure", "mark", "derive", "write", "insert", "tell", "check",
               "finish", "discard", "settle", "fail", "dead"}
Removing   == {"rmtree", "dropLibrary"}
Pcs == {"idle", "lock", "indexLock", "contract", "query"} \cup Rebuilding \cup Opening
          \cup Erasing \cup WorkerOnly \cup Removing

IndexFiles == [by : Providers \cup {NoFile, Blank, Damaged}, rows : SUBSET Sources]

TypeOK ==
    /\ listed \in BOOLEAN /\ dir \in BOOLEAN /\ manifest \in BOOLEAN
    /\ recorded \subseteq Sources /\ raw \subseteq Sources
    /\ ready \subseteq recorded /\ queue \subseteq recorded
    /\ dismantled \subseteq Sources /\ todo \subseteq Sources
    /\ index \in IndexFiles /\ temp \in IndexFiles
    /\ provider \in Providers
    /\ lock \in Clients \cup {None} /\ indexLock \in Actors \cup {None}
    /\ pc \in [Actors -> Pcs]
    /\ task \in [Actors -> [op : {"none", "index", "search", "delete", "deleteLibrary"},
                            on : Sources \cup {None}]]
    /\ restarts \in 0..MaxRestarts /\ faults \in 0..MaxFaults

\* A library that was just created.
Init ==
    /\ listed = TRUE /\ dir = TRUE
    /\ recorded = {} /\ ready = {} /\ queue = {} /\ raw = {} /\ dismantled = {}
    /\ index = Absent /\ temp = Absent /\ manifest = FALSE /\ todo = {}
    /\ provider \in Providers
    /\ lock = None /\ indexLock = None
    /\ pc = [a \in Actors |-> "idle"] /\ task = [a \in Actors |-> Idle]
    /\ restarts = 0 /\ faults = 0

-----------------------------------------------------------------------------
To(a, place) == pc' = [pc EXCEPT ![a] = place]
Fault == faults < MaxFaults /\ faults' = faults + 1
Of(a) == task[a].on
NoThread == UNCHANGED <<threads, provider, restarts>>

\* Both `with' blocks of a request are left, or the worker's.
Leave(a, place) ==
    /\ IF a = Worker
       THEN To(a, place) /\ UNCHANGED <<lock, task>>
       ELSE To(a, "idle") /\ task' = [task EXCEPT ![a] = Idle] /\ lock' = None
    /\ indexLock' = IF indexLock = a THEN None ELSE indexLock

\* An exception: the request is answered with an error, the job fails.
Raise(a) == Leave(a, "fail")

Steps(a, place) == To(a, place) /\ UNCHANGED <<lock, indexLock, task>>
Else == UNCHANGED <<provider, restarts>>

-----------------------------------------------------------------------------
(* What happens to sources in single transactions under `_lock'. *)

Named(s) ==
    \/ s \in recorded \cup raw \cup index.rows \cup temp.rows \cup todo \cup dismantled
    \/ \E a \in Actors : Of(a) = s

Import(s) ==
    /\ lock = None /\ listed /\ dir /\ ~Named(s)
    /\ recorded' = recorded \cup {s} /\ queue' = queue \cup {s} /\ raw' = raw \cup {s}
    /\ UNCHANGED <<listed, ready, dismantled, dir, index, temp, manifest, todo, faults>>
    /\ NoThread

\* A retry, also one that was checked while the job had failed and acts late.
Retry(s) ==
    /\ lock = None /\ s \in recorded
    /\ queue' = queue \cup {s} /\ ready' = ready \ {s}
    /\ UNCHANGED <<listed, recorded, dismantled, files, faults>>
    /\ NoThread

\* A cancellation, also one that acts when the job has succeeded.
Cancel(s) ==
    /\ lock = None /\ s \in recorded
    /\ queue' = queue \ {s} /\ ready' = ready \ {s}
    /\ UNCHANGED <<listed, recorded, dismantled, files, faults>>
    /\ NoThread

-----------------------------------------------------------------------------
(* Requests that open the index, and the deletion of the library. *)

Begin(c, op, s) ==
    /\ pc[c] = "idle" /\ listed
    /\ task' = [task EXCEPT ![c] = [op |-> op, on |-> s]]
    /\ To(c, "lock")
    /\ UNCHANGED <<rows, files, lock, indexLock, faults>> /\ Else

\* An index that is not there is answered with nothing, before any lock.
Search(c) == index.by # NoFile /\ Begin(c, "search", None)
DeleteSource(c) == \E s \in recorded : Begin(c, "delete", s)
DeleteLibrary(c) == Begin(c, "deleteLibrary", None)

TakeLock(c) ==
    /\ pc[c] = "lock" /\ lock = None
    /\ lock' = c
    /\ IF task[c].op = "deleteLibrary"
       THEN To(c, "rmtree") /\ dismantled' = dismantled \cup recorded
       ELSE To(c, "indexLock") /\ UNCHANGED dismantled
    /\ UNCHANGED <<listed, recorded, ready, queue, files, indexLock, task, faults>> /\ Else

\* A deletion cancels the job first.
TakeIndexLock(c) ==
    /\ pc[c] = "indexLock" /\ indexLock = None
    /\ indexLock' = c /\ To(c, "contract")
    /\ queue' = queue \ (IF task[c].op = "delete" THEN {Of(c)} ELSE {})
    /\ UNCHANGED <<listed, recorded, ready, dismantled, files, lock, task, faults>> /\ Else

-----------------------------------------------------------------------------
(* _ensure_index_contract and _rebuild_library_index. *)

Answers == index.by = NoFile \/ (manifest /\ index.by = provider)

\* Where the method returns to.
Ensured(a) ==
    IF a = Worker THEN Leave(a, "mark")
    ELSE Steps(a, IF index.by = NoFile /\ task[a].op = "delete" THEN "unlink" ELSE "create")

ContractMet(a) ==
    /\ pc[a] = "contract" /\ Answers
    /\ Ensured(a)
    /\ UNCHANGED <<rows, files, faults>> /\ Else

StartOn == UNCHANGED temp  \* mutant: a file left by an interrupted rebuild is kept
StartOver == temp' = Absent

\* What an interrupted rebuild left is removed; ready sources are selected.
Rebuild(a) ==
    /\ pc[a] = "contract" /\ ~Answers
    /\ StartOver
    /\ todo' = ready
    /\ Steps(a, "openTemp")
    /\ UNCHANGED <<rows, dir, raw, index, manifest, faults>> /\ Else

Accepts(file) == file.by \in {NoFile, Blank, provider}

OpenTemp(a) ==
    /\ pc[a] = "openTemp" /\ dir /\ Accepts(temp)
    /\ temp' = [temp EXCEPT !.by = provider]
    /\ Steps(a, "fill")
    /\ UNCHANGED <<rows, dir, raw, index, manifest, todo, faults>> /\ Else

\* Parse, chunk and embed one source.
Fill(a) ==
    /\ pc[a] = "fill"
    /\ \E s \in todo \cap raw :
        /\ todo' = todo \ {s}
        /\ temp' = IF temp.by = NoFile THEN temp ELSE [temp EXCEPT !.rows = @ \cup {s}]
    /\ UNCHANGED <<rows, dir, raw, index, manifest, threads, faults>> /\ Else

Filled(a) ==
    /\ pc[a] = "fill" /\ todo = {}
    /\ Steps(a, "swap")
    /\ UNCHANGED <<rows, files, faults>> /\ Else

Swap(a) ==
    /\ pc[a] = "swap" /\ temp.by # NoFile
    /\ index' = temp /\ temp' = Absent
    /\ Steps(a, "manifest")
    /\ UNCHANGED <<rows, dir, raw, manifest, todo, faults>> /\ Else

ManifestNot(a) ==  \* mutant: a rebuild does not write the manifest
    /\ pc[a] = "manifest" /\ dir
    /\ Ensured(a)
    /\ UNCHANGED <<rows, files, faults>> /\ Else

WriteManifest(a) ==
    /\ pc[a] = "manifest" /\ dir
    /\ manifest' = TRUE
    /\ Ensured(a)
    /\ UNCHANGED <<rows, dir, raw, index, temp, todo, faults>> /\ Else

\* A copy or the directory is gone, or anything raises.  The rebuild file is
\* removed, if that does not raise as well.
RebuildFails(a) ==
    /\ pc[a] \in Rebuilding
    /\ \/ UNCHANGED faults
          /\ \/ pc[a] \in {"openTemp", "manifest"} /\ ~dir
             \/ pc[a] = "openTemp" /\ ~Accepts(temp)
             \/ pc[a] = "fill" /\ todo \cap raw = {} /\ todo # {}
             \/ pc[a] = "swap" /\ temp.by = NoFile
          /\ temp' = Absent
       \/ Fault /\ temp' \in {temp, Absent}
    /\ todo' = {}
    /\ Raise(a)
    /\ UNCHANGED <<rows, dir, raw, index, manifest>> /\ Else

-----------------------------------------------------------------------------
(* HybridSearchIndex opens what is there, or creates it; a file that rmtree takes *)
(* from under a connection takes what is written to it along.                     *)

CreateParents(a) ==  \* mutant: the directory is created with the index
    /\ pc[a] = "create"
    /\ index' = IF index.by = NoFile THEN [by |-> Blank, rows |-> {}] ELSE index
    /\ Steps(a, "open")
    /\ UNCHANGED <<rows, dir, raw, temp, manifest, todo, faults>> /\ Else

Create(a) ==
    /\ pc[a] = "create" /\ (index.by # NoFile \/ dir)
    /\ index' = IF index.by = NoFile THEN [by |-> Blank, rows |-> {}] ELSE index
    /\ Steps(a, "open")
    /\ UNCHANGED <<rows, dir, raw, temp, manifest, todo, faults>> /\ Else

Opened(a) == IF a = Worker THEN "insert"
             ELSE IF task[a].op = "delete" THEN "erase" ELSE "query"

Open(a) ==
    /\ pc[a] = "open" /\ Accepts(index)
    /\ index' = IF index.by = NoFile THEN index ELSE [index EXCEPT !.by = provider]
    /\ Steps(a, Opened(a))
    /\ UNCHANGED <<rows, dir, raw, temp, manifest, todo, faults>> /\ Else

\* Refused by the contract, not a database, no directory, or any other error.
OpenFails(a) ==
    /\ pc[a] \in Opening
    /\ \/ UNCHANGED faults
          /\ \/ pc[a] = "create" /\ index.by = NoFile /\ ~dir
             \/ pc[a] = "open" /\ ~Accepts(index)
       \/ Fault
    /\ Raise(a)
    /\ UNCHANGED <<rows, files>> /\ Else

Query(c) ==
    /\ pc[c] = "query"
    /\ Leave(c, "idle")
    /\ UNCHANGED <<rows, files, faults>> /\ Else

-----------------------------------------------------------------------------
(* delete_source, behind the contract. *)

Erase(c) ==
    /\ pc[c] = "erase"
    /\ index' = [index EXCEPT !.rows = @ \ {Of(c)}]
    /\ dismantled' = dismantled \cup {Of(c)}
    /\ Steps(c, "unlink")
    /\ UNCHANGED <<listed, recorded, ready, queue, dir, raw, temp, manifest, todo, faults>>
    /\ Else

Unlink(c) ==
    /\ pc[c] = "unlink"
    /\ raw' = raw \ {Of(c)}
    /\ dismantled' = dismantled \cup {Of(c)}
    /\ Steps(c, "drop")
    /\ UNCHANGED <<listed, recorded, ready, queue, dir, index, temp, manifest, todo, faults>>
    /\ Else

Drop(c) ==
    /\ pc[c] = "drop"
    /\ recorded' = recorded \ {Of(c)} /\ ready' = ready \ {Of(c)} /\ queue' = queue \ {Of(c)}
    /\ dismantled' = dismantled \ {Of(c)}
    /\ Leave(c, "idle")
    /\ UNCHANGED <<listed, files, faults>> /\ Else

EraseFails(c) ==
    /\ pc[c] \in Erasing /\ Fault
    /\ Raise(c)
    /\ UNCHANGED <<rows, files>> /\ Else

-----------------------------------------------------------------------------
(* delete_library: rmtree takes the files in any order, under `_lock' alone. *)

Removed == raw = {} /\ index = Absent /\ temp = Absent /\ ~manifest

Rmtree(c) ==
    /\ pc[c] = "rmtree"
    /\ \/ \E s \in raw : raw' = raw \ {s} /\ UNCHANGED <<index, temp, manifest>>
       \/ index # Absent /\ index' = Absent /\ UNCHANGED <<raw, temp, manifest>>
       \/ temp # Absent /\ temp' = Absent /\ UNCHANGED <<raw, index, manifest>>
       \/ manifest /\ manifest' = FALSE /\ UNCHANGED <<raw, index, temp>>
    /\ UNCHANGED <<rows, dir, todo, threads, faults>> /\ Else

\* The directory goes when it is empty.
Rmdir(c) ==
    /\ pc[c] = "rmtree" /\ Removed
    /\ dir' = FALSE
    /\ Steps(c, "dropLibrary")
    /\ UNCHANGED <<rows, raw, index, temp, manifest, todo, faults>> /\ Else

\* A file is open elsewhere, or new in a directory that was listed before.
RmtreeFails(c) ==
    /\ pc[c] = "rmtree" /\ Fault
    /\ Raise(c)
    /\ UNCHANGED <<rows, files>> /\ Else

\* Sources and jobs go with the row.
DropLibrary(c) ==
    /\ pc[c] = "dropLibrary"
    /\ listed' = FALSE
    /\ recorded' = {} /\ ready' = {} /\ queue' = {} /\ dismantled' = {}
    /\ Leave(c, "idle")
    /\ UNCHANGED <<files, faults>> /\ Else

-----------------------------------------------------------------------------
(* The worker. *)

At(place) == pc[Worker] = place
Cur == Of(Worker)

Lease ==
    /\ At("idle") /\ lock = None
    /\ \E s \in queue :
        /\ queue' = queue \ {s}
        /\ task' = [task EXCEPT ![Worker] = [op |-> "index", on |-> s]]
    /\ To(Worker, "look")
    /\ UNCHANGED <<listed, recorded, ready, dismantled, files, lock, indexLock, faults>> /\ Else

\* The source and its trusted copy are looked up.
Look ==
    /\ At("look") /\ lock = None
    /\ Steps(Worker, IF Cur \in recorded \cap raw THEN "ensure" ELSE "fail")
    /\ UNCHANGED <<rows, files, faults>> /\ Else

Enter(from, into) ==
    /\ At(from) /\ indexLock = None
    /\ indexLock' = Worker /\ To(Worker, into)
    /\ UNCHANGED <<rows, files, lock, task, faults>> /\ Else

Ensure == Enter("ensure", "contract")

\* _ensure_job_active passes; the source is shown as being parsed.
Mark ==
    /\ At("mark") /\ lock = None /\ Cur \in recorded
    /\ ready' = ready \ {Cur} /\ queue' = queue \ {Cur}
    /\ Steps(Worker, "derive")
    /\ UNCHANGED <<listed, recorded, dismantled, files, faults>> /\ Else

Derive ==
    /\ At("derive") /\ lock = None /\ Cur \in recorded \cap raw
    /\ Steps(Worker, "write")
    /\ UNCHANGED <<rows, files, faults>> /\ Else

Write == Enter("write", "create")

\* replace_source, and the manifest in the same section.
Insert ==
    /\ At("insert")
    /\ index' = IF index.by = NoFile THEN index ELSE [index EXCEPT !.rows = @ \cup {Cur}]
    /\ Steps(Worker, "tell")
    /\ UNCHANGED <<rows, dir, raw, temp, manifest, todo, faults>> /\ Else

TellEarly ==  \* mutant: the index lock is released before the manifest is written
    /\ At("tell") /\ dir
    /\ \/ indexLock = Worker /\ indexLock' = None /\ UNCHANGED <<pc, manifest>>
       \/ indexLock # Worker /\ manifest' = TRUE /\ To(Worker, "check") /\ UNCHANGED indexLock
    /\ UNCHANGED <<lock, task>>

ToldInSection ==
    /\ At("tell") /\ dir
    /\ manifest' = TRUE
    /\ Leave(Worker, "check")

Tell ==
    /\ ToldInSection
    /\ UNCHANGED <<rows, dir, raw, index, temp, todo, faults>> /\ Else

\* The last check passes.
Check ==
    /\ At("check") /\ lock = None /\ Cur \in recorded
    /\ Steps(Worker, "finish")
    /\ UNCHANGED <<rows, files, faults>> /\ Else

Ends ==
    /\ To(Worker, "idle") /\ task' = [task EXCEPT ![Worker] = Idle]
    /\ UNCHANGED <<lock, indexLock>>

Finish ==
    /\ At("finish") /\ lock = None
    /\ ready' = ready \cup ({Cur} \cap recorded)
    /\ Ends
    /\ UNCHANGED <<listed, recorded, queue, dismantled, files, faults>> /\ Else

\* The work raises; a copy that has gone makes it.
WorkFails ==
    /\ \/ At("derive") /\ Cur \notin raw /\ UNCHANGED faults
       \/ At("tell") /\ ~dir /\ UNCHANGED faults
       \/ (At("derive") \/ At("insert") \/ At("tell")) /\ Fault
    /\ Raise(Worker)
    /\ UNCHANGED <<rows, files>> /\ Else

Fail ==
    /\ At("fail") /\ lock = None
    /\ ready' = ready \ {Cur}
    /\ Ends
    /\ UNCHANGED <<listed, recorded, queue, dismantled, files, faults>> /\ Else

\* A check finds the job canceled, paused, deleted, or Core being closed.
Interrupt ==
    /\ At("mark") \/ At("derive") \/ At("check")
    /\ lock = None
    /\ Steps(Worker, IF Cur \in recorded THEN "discard" ELSE "settle")
    /\ UNCHANGED <<rows, files, faults>> /\ Else

\* _discard_source_derivatives, which does not look at the contract.
Discard ==
    /\ At("discard") /\ indexLock = None
    /\ Accepts(index)
    /\ index' = IF index.by = NoFile THEN index
                ELSE [by |-> provider, rows |-> index.rows \ {Cur}]
    /\ Steps(Worker, "settle")
    /\ UNCHANGED <<rows, dir, raw, temp, manifest, todo, faults>> /\ Else

\* What it raises ends the thread.
DiscardFails ==
    /\ At("discard") /\ indexLock = None
    /\ \/ ~Accepts(index) /\ UNCHANGED faults
       \/ Fault
    /\ Steps(Worker, "dead")
    /\ UNCHANGED <<rows, files>> /\ Else

\* A paused job is pending again, a canceled one is not.
Settle ==
    /\ At("settle") /\ lock = None
    /\ ready' = ready \ {Cur}
    /\ queue' \in {queue, queue \cup ({Cur} \cap recorded)}
    /\ Ends
    /\ UNCHANGED <<listed, recorded, dismantled, files, faults>> /\ Else

-----------------------------------------------------------------------------
\* Core is closed or killed, and starts with some provider; a job that was running
\* is pending, or has failed at the limit, or was canceled.  The index may be found
\* damaged.
Restart ==
    /\ restarts < MaxRestarts /\ restarts' = restarts + 1
    /\ provider' \in Providers
    /\ ready' = ready \ {Cur}
    /\ queue' \in {queue, queue \cup ({Cur} \cap recorded)}
    /\ lock' = None /\ indexLock' = None /\ todo' = {}
    /\ pc' = [a \in Actors |-> "idle"] /\ task' = [a \in Actors |-> Idle]
    /\ \/ UNCHANGED <<index, faults>>
       \/ index.by # NoFile /\ Fault /\ index' = [by |-> Damaged, rows |-> {}]
    /\ UNCHANGED <<listed, recorded, dismantled, dir, raw, temp, manifest>>

Ensuring(a) ==
    ContractMet(a) \/ Rebuild(a) \/ OpenTemp(a) \/ Fill(a) \/ Filled(a) \/ Swap(a)
        \/ WriteManifest(a) \/ RebuildFails(a) \/ Create(a) \/ Open(a) \/ OpenFails(a)

Deleting(c) ==
    Erase(c) \/ Unlink(c) \/ Drop(c) \/ EraseFails(c)
        \/ Rmtree(c) \/ Rmdir(c) \/ RmtreeFails(c) \/ DropLibrary(c)

Handler(c) == TakeLock(c) \/ TakeIndexLock(c) \/ Ensuring(c) \/ Query(c) \/ Deleting(c)

Work ==
    Lease \/ Look \/ Ensure \/ Ensuring(Worker) \/ Mark \/ Derive \/ Write \/ Insert \/ Tell
        \/ Check \/ Finish \/ WorkFails \/ Fail \/ Interrupt \/ Discard \/ DiscardFails \/ Settle

Next ==
    \/ \E s \in Sources : Import(s) \/ Retry(s) \/ Cancel(s)
    \/ \E c \in Clients : Search(c) \/ DeleteSource(c) \/ DeleteLibrary(c) \/ Handler(c)
    \/ Work \/ Restart

Spec == Init /\ [][Next]_vars

\* The threads run, and whoever waits for a lock gets it sometime; nothing makes
\* a client ask, a job be interrupted or a thing go wrong.
Fairness ==
    /\ WF_vars(Work)
    /\ \A c \in Clients : WF_vars(Handler(c)) /\ SF_vars(TakeLock(c) \/ TakeIndexLock(c))

FairSpec == Spec /\ Fairness

-----------------------------------------------------------------------------
(* Properties. *)

\* An index that answers searches without being rebuilt has every ready source,
\* unless a deletion has begun to take it apart or the worker is at it again: no
\* kill, change of provider, failed or concurrent rebuild, or index that was being
\* created when somebody looked, loses a source (_ensure_index_contract,
\* _index_source; desktop-acceptance-issues.md, D-A05).
AnswersAreComplete ==
    Answers => ready \subseteq dismantled \cup {Cur} \cup index.rows

\* What replaces the active index was built for this process, has every source that
\* is ready by then, and nothing of a source that is gone, whatever an
\* interrupted rebuild had left in its place (_rebuild_library_index).
SwapIsExact == \A a \in Actors : pc[a] = "swap" /\ temp.by # NoFile =>
    /\ temp.by = provider
    /\ temp.rows \subseteq recorded
    /\ ready \subseteq dismantled \cup temp.rows

\* Nothing of a deleted library is left, and nothing comes back: not from a
\* worker or a rebuild that was inside it (delete_library).
GoneIsErased == ~listed =>
    ~dir /\ raw = {} /\ index = Absent /\ temp = Absent /\ ~manifest

\* As long as clients go on asking, an index of another contract, or a damaged
\* one, is replaced, if every ready source still has its copy.
StaleIsRebuilt ==
    []<>(\E c \in Clients : pc[c] = "contract") /\ <>[](ready \subseteq raw) => []<>Answers

\* The same without the condition on the copies, as long as nobody deletes the
\* library (development-plan.md, 5.4).
ChangedProviderIsRebuilt ==
    /\ [](\A c \in Clients : task[c].op # "deleteLibrary")
    /\ []<>(\E c \in Clients : pc[c] = "contract")
    => []<>Answers
================================================================================
