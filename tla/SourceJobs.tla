------------------------------ MODULE SourceJobs ------------------------------
(***************************************************************************)
(* The source job queue of LoreDock Core: documents are stored by HTTP     *)
(* handlers, queued as jobs in app.sqlite, and indexed by the one worker   *)
(* thread of the process (application/service.py, storage/database.py).    *)
(*                                                                         *)
(* Every handler runs in a thread of its own.  It first checks its target  *)
(* and later, in a separate transaction under `_lock', acts on it; a       *)
(* client's `req' is the handler between the two.  The worker takes `_lock'*)
(* for each database access and `_index_lock' for each index write, and    *)
(* holds neither between its stages.                                       *)
(*                                                                         *)
(* A document is one source row with its one job (both are inserted in one *)
(* transaction and the job row goes with the source row); documents are    *)
(* numbered in the order of jobs.created_at.                               *)
(***************************************************************************)
EXTENDS Integers, FiniteSets

CONSTANTS
    MaxDocs,        \* bound: documents ever stored
    Batches,        \* bound: import batches that can be created
    NoBatch,        \* jobs.batch_id IS NULL
    Clients,        \* bound: HTTP handlers running at the same time
    MaxAttempts,    \* attempts a job may use (3 in the code)
    ExpectedItems,  \* the expected_items a batch may be created with
    Offered,        \* the kinds of requests each client sends
    MaxDuplicates,  \* bound: duplicate items recorded for a batch
    MaxMishaps      \* bound: crashes of the process, and file or database errors
                    \* outside the indexing work

Docs == 1..MaxDocs

DocOps   == {"cancel", "retry", "delete"}
BatchOps == {"seal", "pause", "resume", "cancelBatch", "retryBatch"}

\* Handlers inside their `with self._lock' block: an import that has copied the
\* document, and a deletion that has some of its files still to remove.
Deleting == {"unlinkArtifact", "unlinkRaw", "deleteRow"}
Holding  == Deleting \cup {"record"}

Idle == [op |-> "idle", on |-> NoBatch]
Request ==
    [op : DocOps \cup Holding, on : Docs] \cup [op : BatchOps, on : Batches]
        \cup [op : {"import"}, on : Batches \cup {NoBatch}] \cup {Idle}

ASSUME ConstantsAssumption ==
    /\ MaxDocs \in Nat
    /\ NoBatch \notin Batches
    /\ MaxAttempts \in Nat \ {0}
    /\ ExpectedItems \subseteq Nat \ {0}
    /\ Offered \in [Clients -> SUBSET (DocOps \cup BatchOps \cup {"import", "stop"})]
    /\ MaxDuplicates \in Nat
    /\ MaxMishaps \in Nat

VARIABLES
    source,     \* sources.status of a document, or why it has no row
    job,        \* jobs.status, "none" without a row
    attempts,   \* jobs.attempts
    batchOf,    \* jobs.batch_id, kept by import_batch_items when the job goes
    control,    \* import_batches.control_state, "none" without a row
    sealed,     \* batches with import_batches.sealed = 1
    expected,   \* import_batches.expected_items
    dups,       \* items of the batch with outcome 'duplicate'
    raw,        \* documents with a trusted raw copy
    artifacts,  \* documents with a parsed text artifact
    indexed,    \* documents with rows in the library's search index
    pc,         \* where the worker thread is
    cur,        \* the document it leased last
    paused,     \* the interruption it handles is JobPaused
    proc,       \* the process: "up", "stopping" (_job_stop set), "down"
    req,        \* the handler each client waits for
    mishaps,    \* crashes and errors so far
    dismantled  \* history: documents a deletion began to take apart, and kept

store   == <<source, job, attempts, batchOf>>
batches == <<control, sealed, expected, dups>>
files   == <<raw, artifacts, indexed, dismantled>>
work    == <<pc, cur, paused>>
vars    == <<store, batches, files, work, proc, req, mishaps>>

Unrecorded == {"unborn", "copied", "deleted"}  \* no row in sources
Stages     == {"parsing", "chunking", "embedding"}
SourceStatus ==
    Unrecorded \cup Stages \cup {"pending", "ready", "failed", "canceled"}
JobStatus ==
    {"none", "pending", "running", "succeeded", "failed", "canceled"}

\* The worker checks its job before each stage; what it does next if the job
\* is still its to run.
Continue ==
    [checkParse    |-> "markParsing", checkArtifact |-> "artifact",
     checkEmbed    |-> "markEmbedding", checkDone   |-> "tellDone"]

\* The two transactions that announce a stage: the source's, then the job's.
Announces == [markParsing |-> "parsing", markChunking |-> "chunking",
              markEmbedding |-> "embedding"]
AfterMark == [markParsing |-> "tellParsing", markChunking |-> "tellChunking",
              markEmbedding |-> "tellEmbedding"]
AfterTellSkips ==  \* mutant: the index is not written
    [tellParsing |-> "parse", tellChunking |-> "checkEmbed",
     tellEmbedding |-> "checkDone", tellDone |-> "finish"]
AfterTell == [tellParsing |-> "parse", tellChunking |-> "checkEmbed",
              tellEmbedding |-> "index", tellDone |-> "finish"]

OffJob == {"idle", "polling", "stopped"}  \* the worker has no job at hand
WorkerPc ==
    OffJob \cup DOMAIN Continue \cup DOMAIN AfterMark \cup DOMAIN AfterTell
        \cup {"open", "parse", "artifact", "index", "finish",
              "failing", "discard", "unlink", "settle", "dead"}

TypeOK ==
    /\ source \in [Docs -> SourceStatus]
    /\ job \in [Docs -> JobStatus]
    /\ attempts \in [Docs -> 0..MaxAttempts]
    /\ batchOf \in [Docs -> Batches \cup {NoBatch}]
    /\ control \in [Batches -> {"none", "active", "paused", "canceled"}]
    /\ sealed \subseteq Batches
    /\ expected \in [Batches -> ExpectedItems \cup {0}]
    /\ dups \in [Batches -> 0..MaxDuplicates]
    /\ raw \subseteq Docs /\ artifacts \subseteq Docs
    /\ indexed \subseteq Docs /\ dismantled \subseteq Docs
    /\ pc \in WorkerPc /\ cur \in Docs \cup {0} /\ paused \in BOOLEAN
    /\ proc \in {"up", "stopping", "down"}
    /\ req \in [Clients -> Request]
    /\ mishaps \in 0..MaxMishaps

Init ==
    /\ source = [d \in Docs |-> "unborn"]
    /\ job = [d \in Docs |-> "none"]
    /\ attempts = [d \in Docs |-> 0]
    /\ batchOf = [d \in Docs |-> NoBatch]
    /\ control = [b \in Batches |-> "none"]
    /\ sealed = {}
    /\ expected = [b \in Batches |-> 0]
    /\ dups = [b \in Batches |-> 0]
    /\ raw = {} /\ artifacts = {} /\ indexed = {} /\ dismantled = {}
    /\ pc = "idle" /\ cur = 0 /\ paused = FALSE
    /\ proc = "up"
    /\ req = [c \in Clients |-> Idle]
    /\ mishaps = 0

-----------------------------------------------------------------------------
(* Rows and locks *)

HasRow(d) == source[d] \notin Unrecorded

\* UPDATE sources SET status=... / UPDATE jobs SET status=... on some documents.
SourcesTo(ds, status) ==
    [d \in Docs |-> IF d \in ds /\ HasRow(d) THEN status ELSE source[d]]
JobsTo(ds, status) == [d \in Docs |-> IF d \in ds THEN status ELSE job[d]]

JobIn(statuses) == {d \in Docs : job[d] \in statuses}
Of(b) == {d \in Docs : batchOf[d] = b /\ HasRow(d)}

LockFree      == \A c \in Clients : req[c].op \notin Holding
IndexLockFree == \A c \in Clients : req[c].op \notin Deleting

Step(c, op, x) == req' = [req EXCEPT ![c] = [op |-> op, on |-> x]]
Done(c) == req' = [req EXCEPT ![c] = Idle]

-----------------------------------------------------------------------------
(* Import batches as the API reports them *)

ItemsOf(b) ==
    {d \in Docs : batchOf[d] = b /\ source[d] \notin {"unborn", "copied"}}
CountOf(b, status) == Cardinality({d \in ItemsOf(b) : job[d] = status})

BatchStatus(b) ==
    LET succeeded == CountOf(b, "succeeded")
        failed    == CountOf(b, "failed")
        canceled  == CountOf(b, "canceled")
        items     == Cardinality(ItemsOf(b)) + dups[b]
    IN  IF control[b] \in {"canceled", "paused"} THEN control[b]
        ELSE IF b \notin sealed THEN "uploading"
        ELSE IF succeeded + dups[b] + failed + canceled < items
             THEN "processing"
        ELSE IF failed = 0 /\ canceled = 0 /\ items = expected[b]
             THEN "succeeded"
        ELSE IF succeeded > 0 \/ dups[b] > 0 THEN "partial"
        ELSE "failed"

CreateBatch(b) ==
    /\ proc = "up" /\ LockFree
    /\ control[b] = "none"
    /\ control' = [control EXCEPT ![b] = "active"]
    /\ \E n \in ExpectedItems : expected' = [expected EXCEPT ![b] = n]
    /\ UNCHANGED <<store, sealed, dups, files, work, proc, req, mishaps>>

-----------------------------------------------------------------------------
(* Handlers, first half: what a request is checked against *)

DocCheck(op, d) ==
    \/ op = "cancel" /\ job[d] \in {"pending", "running"}
    \/ op = "retry" /\ job[d] \in {"failed", "canceled"}
                    /\ attempts[d] < MaxAttempts /\ d \in raw
    \/ op = "delete" /\ HasRow(d)

BatchCheck(op, b) ==
    /\ control[b] # "none"
    /\ \/ op = "seal"
       \/ op = "pause" /\ BatchStatus(b) \in {"uploading", "processing"}
       \/ op = "resume" /\ BatchStatus(b) = "paused"
       \/ op = "cancelBatch"
            /\ BatchStatus(b) \in {"uploading", "processing", "paused"}
       \/ op = "retryBatch"
            /\ BatchStatus(b) \in {"failed", "partial", "canceled"}

Accepts(b) == b \notin sealed /\ control[b] \in {"active", "paused"}

Check(c) ==
    /\ proc = "up" /\ LockFree
    /\ req[c] = Idle
    /\ \/ \E op \in DocOps \cap Offered[c], d \in Docs :
              DocCheck(op, d) /\ Step(c, op, d)
       \/ \E op \in BatchOps \cap Offered[c], b \in Batches :
              BatchCheck(op, b) /\ Step(c, op, b)
       \/ /\ "import" \in Offered[c]
          /\ \/ Step(c, "import", NoBatch)
             \/ \E b \in Batches : Accepts(b) /\ Step(c, "import", b)
    /\ UNCHANGED <<store, batches, files, work, proc, mishaps>>

-----------------------------------------------------------------------------
(* Importing *)

Handles(c, op) == proc = "up" /\ req[c].op = op

\* The upload is not a supported document, or is too large: nothing is kept.
ImportRefused(c) ==
    /\ Handles(c, "import")
    /\ Done(c)
    /\ UNCHANGED <<store, batches, files, work, proc, mishaps>>

\* The content hash is already in the library: only a batch item is added.
ImportDuplicate(c) ==
    LET b == req[c].on IN
    /\ Handles(c, "import") /\ LockFree
    /\ \E d \in Docs : HasRow(d)
    /\ IF b = NoBatch THEN dups' = dups
       ELSE dups[b] < MaxDuplicates /\ dups' = [dups EXCEPT ![b] = @ + 1]
    /\ Done(c)
    /\ UNCHANGED <<store, control, sealed, expected, files, work, proc, mishaps>>

\* Take the lock and put the raw copy in place (.part, then os.replace).
ImportCopy(c) ==
    /\ Handles(c, "import") /\ LockFree
    /\ \E d \in Docs :
        /\ source[d] = "unborn" /\ \A e \in 1..(d - 1) : source[e] # "unborn"
        /\ source' = [source EXCEPT ![d] = "copied"]
        /\ batchOf' = [batchOf EXCEPT ![d] = req[c].on]
        /\ raw' = raw \cup {d}
        /\ Step(c, "record", d)
    /\ UNCHANGED <<job, attempts, batches, artifacts, indexed, dismantled,
                   work, proc, mishaps>>

\* One transaction inserts the source, its job and the batch item.
ImportRecord(c) ==
    LET d == req[c].on IN
    /\ Handles(c, "record")
    /\ source' = [source EXCEPT ![d] = "pending"]
    /\ job' = [job EXCEPT ![d] = "pending"]
    /\ Done(c)
    /\ UNCHANGED <<attempts, batchOf, batches, files, work, proc, mishaps>>

ImportHalfFails(c) ==  \* mutant: the row is kept without its copy
    LET d == req[c].on IN
    /\ Handles(c, "record") /\ mishaps < MaxMishaps
    /\ source' = [source EXCEPT ![d] = "failed"]
    /\ job' = [job EXCEPT ![d] = "failed"]
    /\ raw' = raw \ {d}
    /\ mishaps' = mishaps + 1
    /\ Done(c)
    /\ UNCHANGED <<attempts, batchOf, batches, artifacts, indexed, dismantled,
                   work, proc>>

\* The transaction fails (source_store_failed): the copy is removed again.
ImportFails(c) ==
    LET d == req[c].on IN
    /\ Handles(c, "record") /\ mishaps < MaxMishaps
    /\ source' = [source EXCEPT ![d] = "deleted"]
    /\ batchOf' = [batchOf EXCEPT ![d] = NoBatch]
    /\ raw' = raw \ {d}
    /\ mishaps' = mishaps + 1
    /\ Done(c)
    /\ UNCHANGED <<job, attempts, batches, artifacts, indexed, dismantled,
                   work, proc>>

-----------------------------------------------------------------------------
(* Handlers, second half: the transactions on one job or source *)

Cancel(c) ==
    LET d == req[c].on IN
    /\ Handles(c, "cancel") /\ LockFree
    /\ job' = JobsTo({d} \cap JobIn({"pending", "running"}), "canceled")
    /\ source' = SourcesTo({d}, "canceled")
    /\ Done(c)
    /\ UNCHANGED <<attempts, batchOf, batches, files, work, proc, mishaps>>

Retry(c) ==
    LET d == req[c].on IN
    /\ Handles(c, "retry") /\ LockFree
    /\ job' = JobsTo({d} \ JobIn({"none"}), "pending")
    /\ source' = SourcesTo({d}, "pending")
    /\ Done(c)
    /\ UNCHANGED <<attempts, batchOf, batches, files, work, proc, mishaps>>

\* Deletion holds both locks from the removal of the index rows to the end.
\* Its first UPDATE of jobs stays uncommitted until the rows go, and nobody
\* reads jobs without the lock, so it is part of the last step.  The second
\* of two deletions finds nothing to remove.
DeleteIndexed(c) ==
    LET d == req[c].on IN
    /\ Handles(c, "delete") /\ LockFree
    /\ indexed' = indexed \ {d}
    /\ dismantled' = dismantled \cup {d}
    /\ Step(c, "unlinkArtifact", d)
    /\ UNCHANGED <<store, batches, raw, artifacts, work, proc, mishaps>>

DeleteArtifact(c) ==
    LET d == req[c].on IN
    /\ Handles(c, "unlinkArtifact")
    /\ artifacts' = artifacts \ {d}
    /\ Step(c, "unlinkRaw", d)
    /\ UNCHANGED <<store, batches, raw, indexed, dismantled, work, proc, mishaps>>

DeleteRaw(c) ==
    LET d == req[c].on IN
    /\ Handles(c, "unlinkRaw")
    /\ raw' = raw \ {d}
    /\ Step(c, "deleteRow", d)
    /\ UNCHANGED <<store, batches, artifacts, indexed, dismantled, work, proc,
                   mishaps>>

\* The job row goes with the source row (ON DELETE CASCADE).
DeleteRow(c) ==
    LET d == req[c].on IN
    /\ Handles(c, "deleteRow")
    /\ source' = [source EXCEPT ![d] = "deleted"]
    /\ job' = [job EXCEPT ![d] = "none"]
    /\ attempts' = [attempts EXCEPT ![d] = 0]
    /\ dismantled' = dismantled \ {d}
    /\ Done(c)
    /\ UNCHANGED <<batchOf, batches, raw, artifacts, indexed, work, proc, mishaps>>

\* A deletion fails: at the index contract, the removal of the index rows or an
\* unlink, and the UPDATE of jobs it left open is committed with whatever
\* transaction comes next; or in its last transaction, which rolls it back.
DeleteFails(c) ==
    LET d == req[c].on IN
    /\ proc = "up" /\ mishaps < MaxMishaps
    /\ \/ /\ \/ req[c].op \in {"unlinkArtifact", "unlinkRaw"}
             \/ req[c].op = "delete" /\ LockFree
          /\ job' = JobsTo({d} \cap JobIn({"pending", "running"}), "canceled")
       \/ req[c].op = "deleteRow" /\ job' = job
    /\ mishaps' = mishaps + 1
    /\ Done(c)
    /\ UNCHANGED <<source, attempts, batchOf, batches, files, work, proc>>

-----------------------------------------------------------------------------
(* Handlers, second half: the transactions on a batch *)

Seal(c) ==
    /\ Handles(c, "seal") /\ LockFree
    /\ sealed' = sealed \cup {req[c].on}
    /\ Done(c)
    /\ UNCHANGED <<store, control, expected, dups, files, work, proc, mishaps>>

Pause(c) ==
    /\ Handles(c, "pause") /\ LockFree
    /\ control' = [control EXCEPT ![req[c].on] = "paused"]
    /\ Done(c)
    /\ UNCHANGED <<store, sealed, expected, dups, files, work, proc, mishaps>>

Resume(c) ==
    /\ Handles(c, "resume") /\ LockFree
    /\ control' = [control EXCEPT ![req[c].on] = "active"]
    /\ Done(c)
    /\ UNCHANGED <<store, sealed, expected, dups, files, work, proc, mishaps>>

CancelBatch(c) ==
    LET b == req[c].on IN
    /\ Handles(c, "cancelBatch") /\ LockFree
    /\ sealed' = sealed \cup {b}
    /\ control' = [control EXCEPT ![b] = "canceled"]
    /\ job' = JobsTo(Of(b) \cap JobIn({"pending", "running"}), "canceled")
    /\ source' = SourcesTo({d \in Of(b) : job'[d] = "canceled"}, "canceled")
    /\ Done(c)
    /\ UNCHANGED <<attempts, batchOf, expected, dups, files, work, proc, mishaps>>

RetryBatch(c) ==
    LET b == req[c].on IN
    /\ Handles(c, "retryBatch") /\ LockFree
    /\ sealed' = sealed \cup {b}
    /\ control' = [control EXCEPT ![b] = "active"]
    /\ job' = JobsTo({d \in Of(b) \cap JobIn({"failed", "canceled"}) :
                          attempts[d] < MaxAttempts}, "pending")
    /\ source' = SourcesTo({d \in Of(b) : job'[d] = "pending"}, "pending")
    /\ Done(c)
    /\ UNCHANGED <<attempts, batchOf, expected, dups, files, work, proc, mishaps>>

-----------------------------------------------------------------------------
(* The worker: leasing *)

Go(next) == pc' = next /\ UNCHANGED <<cur, paused>>
Rest == pc' = "idle" /\ cur' = 0 /\ paused' = FALSE

AfterPollOn == "polling"   \* mutant: the loop does not look at _job_stop
AfterPollEnd == "stopped"  \* mutant: the loop runs once
AfterPoll == IF proc = "up" THEN "polling" ELSE "stopped"

\* The loop condition, read before the lock is taken.
Poll ==
    /\ pc = "idle" /\ proc \in {"up", "stopping"}
    /\ Go(AfterPoll)
    /\ UNCHANGED <<store, batches, files, proc, req, mishaps>>

LeasableOnce(d) ==  \* mutant: the last attempt is never given
    /\ job[d] = "pending" /\ attempts[d] < MaxAttempts - 1
    /\ batchOf[d] # NoBatch => control[batchOf[d]] = "active"
Leasable(d) ==
    /\ job[d] = "pending" /\ attempts[d] < MaxAttempts
    /\ batchOf[d] # NoBatch => control[batchOf[d]] = "active"

\* lease_next_job: the oldest leasable job.
Lease ==
    /\ pc = "polling" /\ LockFree
    /\ \E d \in Docs :
        /\ Leasable(d) /\ \A e \in 1..(d - 1) : ~Leasable(e)
        /\ job' = [job EXCEPT ![d] = "running"]
        /\ attempts' = [attempts EXCEPT ![d] = @ + 1]
        /\ cur' = d
    /\ pc' = "open"
    /\ UNCHANGED <<source, batchOf, batches, files, paused, proc, req, mishaps>>

NothingToLease ==
    /\ pc = "polling" /\ LockFree
    /\ \A d \in Docs : ~Leasable(d)
    /\ Go("idle")
    /\ UNCHANGED <<store, batches, files, proc, req, mishaps>>

\* Read the source row and look for the raw copy.
Open ==
    /\ pc = "open" /\ LockFree
    /\ Go(IF HasRow(cur) /\ cur \in raw THEN "checkParse" ELSE "failing")
    /\ UNCHANGED <<store, batches, files, proc, req, mishaps>>

-----------------------------------------------------------------------------
(* The worker: stage boundaries *)

Interrupted == ~HasRow(cur) \/ job[cur] = "canceled" \/ proc = "stopping"
BatchPaused == batchOf[cur] # NoBatch /\ control[batchOf[cur]] = "paused"

\* _ensure_job_active
Proceed ==
    /\ pc \in DOMAIN Continue /\ LockFree
    /\ ~Interrupted /\ ~BatchPaused
    /\ Go(Continue[pc])
    /\ UNCHANGED <<store, batches, files, proc, req, mishaps>>

InterruptUnpaused ==  \* mutant: the worker waits for a paused batch
    /\ pc \in DOMAIN Continue /\ LockFree
    /\ Interrupted
    /\ pc' = "discard"
    /\ paused' = FALSE
    /\ UNCHANGED <<store, batches, files, cur, proc, req, mishaps>>

Interrupt ==
    /\ pc \in DOMAIN Continue /\ LockFree
    /\ Interrupted \/ BatchPaused
    /\ pc' = "discard"
    /\ paused' = ~Interrupted
    /\ UNCHANGED <<store, batches, files, cur, proc, req, mishaps>>

\* _set_source_status: whatever the status was
MarkSource ==
    /\ pc \in DOMAIN AfterMark /\ LockFree
    /\ source' = SourcesTo({cur}, Announces[pc])
    /\ Go(AfterMark[pc])
    /\ UNCHANGED <<job, attempts, batchOf, batches, files, proc, req, mishaps>>

TellableAll == Docs \ JobIn({"none"})  \* mutant: without the WHERE clause
\* _set_job: "running", unless the job is canceled
Tellable == Docs \ JobIn({"none", "canceled"})

TellJob ==
    /\ pc \in DOMAIN AfterTell /\ LockFree
    /\ job' = JobsTo({cur} \cap Tellable, "running")
    /\ Go(AfterTell[pc])
    /\ UNCHANGED <<source, attempts, batchOf, batches, files, proc, req, mishaps>>

-----------------------------------------------------------------------------
(* The worker: the stages' work, done without a lock but for the index *)

ParseRaw ==
    /\ pc = "parse" /\ cur \in raw
    /\ Go("checkArtifact")
    /\ UNCHANGED <<store, batches, files, proc, req, mishaps>>

WriteArtifact ==
    /\ pc = "artifact"
    /\ artifacts' = artifacts \cup {cur}
    /\ Go("markChunking")
    /\ UNCHANGED <<store, batches, raw, indexed, dismantled, proc, req, mishaps>>

\* replace_source and the manifest, under the index lock
WriteIndex ==
    /\ pc = "index" /\ IndexLockFree
    /\ indexed' = indexed \cup {cur}
    /\ Go("checkDone")
    /\ UNCHANGED <<store, batches, raw, artifacts, dismantled, proc, req, mishaps>>

\* The index contract is refused, or parsing, chunking, embedding or writing
\* raises; the index may have been written before the manifest failed.
WorkFails ==
    /\ pc \in {"checkParse", "parse", "artifact", "checkEmbed", "index"}
    /\ \/ pc # "index" /\ indexed' = indexed
       \/ pc = "index" /\ IndexLockFree /\ indexed' \in {indexed, indexed \cup {cur}}
    /\ Go("failing")
    /\ UNCHANGED <<store, batches, raw, artifacts, dismantled, proc, req, mishaps>>

-----------------------------------------------------------------------------
(* The worker: how a run ends *)

Finish ==
    /\ pc = "finish" /\ LockFree
    /\ source' = SourcesTo({cur}, "ready")
    /\ job' = JobsTo({cur} \cap JobIn({"running"}), "succeeded")
    /\ Rest
    /\ UNCHANGED <<attempts, batchOf, batches, files, proc, req, mishaps>>

Fail ==
    /\ pc = "failing" /\ LockFree
    /\ source' = SourcesTo({cur}, "failed")
    /\ job' = JobsTo({cur} \cap JobIn({"running"}), "failed")
    /\ Rest
    /\ UNCHANGED <<attempts, batchOf, batches, files, proc, req, mishaps>>

\* get_source, then _discard_source_derivatives; nothing is discarded when the
\* source row is gone.
DiscardIndexed ==
    /\ pc = "discard" /\ LockFree
    /\ IF HasRow(cur) THEN indexed' = indexed \ {cur} /\ Go("unlink")
       ELSE indexed' = indexed /\ Go("settle")
    /\ UNCHANGED <<store, batches, raw, artifacts, dismantled, proc, req, mishaps>>

DiscardArtifactNot ==  \* mutant: only the index is cleared
    /\ pc = "unlink"
    /\ Go("settle")
    /\ UNCHANGED <<store, batches, files, proc, req, mishaps>>

DiscardArtifact ==
    /\ pc = "unlink"
    /\ artifacts' = artifacts \ {cur}
    /\ Go("settle")
    /\ UNCHANGED <<store, batches, raw, indexed, dismantled, proc, req, mishaps>>

\* Only AppError is caught here: any other error ends the worker thread.
DiscardFails ==
    /\ pc \in {"discard", "unlink"} /\ HasRow(cur)
    /\ mishaps < MaxMishaps
    /\ mishaps' = mishaps + 1
    /\ Go("dead")
    /\ UNCHANGED <<store, batches, files, proc, req>>

\* The last transaction of an interruption: back to the queue, or canceled.
Settle ==
    /\ pc = "settle" /\ LockFree
    /\ IF proc = "stopping" \/ paused
       THEN /\ job' = JobsTo({cur} \cap JobIn({"running"}), "pending")
            /\ source' = SourcesTo({cur}, "pending")
       ELSE /\ job' = job
            /\ source' = SourcesTo({cur}, "canceled")
    /\ Rest
    /\ UNCHANGED <<attempts, batchOf, batches, files, proc, req, mishaps>>

-----------------------------------------------------------------------------
(* The process *)

\* close() runs when the server has drained its requests.
Stop ==
    /\ \E c \in Clients : "stop" \in Offered[c]
    /\ proc = "up" /\ \A c \in Clients : req[c] = Idle
    /\ proc' = "stopping"
    /\ UNCHANGED <<store, batches, files, work, req, mishaps>>

GoDown ==
    /\ proc' = "down"
    /\ Rest
    /\ req' = [c \in Clients |-> Idle]
    /\ UNCHANGED <<store, batches, files>>

\* The worker thread has ended, so close() closes the database.
Exit ==
    /\ proc = "stopping" /\ pc \in {"stopped", "dead"}
    /\ GoDown
    /\ UNCHANGED mishaps

\* The process is killed, or exits while the worker outlives close()'s join.
Crash ==
    /\ proc \in {"up", "stopping"} /\ mishaps < MaxMishaps
    /\ mishaps' = mishaps + 1
    /\ GoDown

RecoveredJobKept(d) == job[d]  \* mutant: running jobs are not looked for
RecoveredJobAlso(d) ==         \* mutant: failed jobs are tried again too
    IF job[d] \in {"running", "failed"} THEN "pending" ELSE job[d]
\* recover_interrupted_jobs.  The sources of jobs that were exhausted before
\* are marked failed again, which they are already.
RecoveredJob(d) ==
    IF job[d] # "running" THEN job[d]
    ELSE IF attempts[d] < MaxAttempts THEN "pending" ELSE "failed"

RecoveredSourceKept(d) == source[d]  \* mutant: only jobs are recovered
RecoveredSource(d) ==
    IF RecoveredJob(d) = "pending" THEN "pending"
    ELSE IF job[d] = "running" THEN "failed" ELSE source[d]

\* A new process: the recovery, then a worker that starts from nothing.
Restart ==
    /\ proc = "down"
    /\ proc' = "up"
    /\ job' = [d \in Docs |-> RecoveredJob(d)]
    /\ source' = [d \in Docs |-> RecoveredSource(d)]
    /\ UNCHANGED <<attempts, batchOf, batches, files, work, req, mishaps>>

-----------------------------------------------------------------------------
Handler(c) ==
    \/ ImportRefused(c) \/ ImportDuplicate(c) \/ ImportCopy(c)
    \/ ImportRecord(c) \/ ImportFails(c)
    \/ Cancel(c) \/ Retry(c)
    \/ DeleteIndexed(c) \/ DeleteArtifact(c) \/ DeleteRaw(c) \/ DeleteRow(c)
    \/ DeleteFails(c)
    \/ Seal(c) \/ Pause(c) \/ Resume(c) \/ CancelBatch(c) \/ RetryBatch(c)

Worker ==
    \/ Poll \/ Lease \/ NothingToLease \/ Open
    \/ Proceed \/ Interrupt \/ MarkSource \/ TellJob
    \/ ParseRaw \/ WriteArtifact \/ WriteIndex \/ WorkFails
    \/ Finish \/ Fail \/ DiscardIndexed \/ DiscardArtifact \/ DiscardFails
    \/ Settle

Next ==
    \/ \E b \in Batches : CreateBatch(b)
    \/ \E c \in Clients : Check(c) \/ Handler(c)
    \/ Worker
    \/ Stop \/ Exit \/ Crash \/ Restart

Spec == Init /\ [][Next]_vars

\* A checked request runs to its end, the worker thread keeps running, and a
\* process told to stop exits and one that is down is started again.  Clients
\* need not send anything, and nothing has to crash.
Fairness ==
    /\ \A c \in Clients : WF_vars(Handler(c))
    /\ WF_vars(Worker)
    /\ WF_vars(Exit) /\ WF_vars(Restart)

FairSpec == Spec /\ Fairness

-----------------------------------------------------------------------------
(* Safety *)

\* While the process lives, a job marked running is the one the worker leased
\* last: neither a cancellation, a retry or a deletion that races with it nor a
\* restart leaves another one running (_run_job_worker's last transactions,
\* recover_interrupted_jobs).  A worker thread that died in a discard keeps its
\* job until the next restart.
RunningIsOwned ==
    proc # "down" => \A d \in Docs : job[d] = "running" => cur = d

\* A source row always has its trusted raw copy, unless a deletion has begun
\* to take it apart: import_source copies before it inserts, and removes the
\* copy of a row it could not insert.
RecordedSourceHasRaw ==
    \A d \in Docs : HasRow(d) => d \in raw \cup dismantled

\* A succeeded job's document can be found, read and retried from its copy, at
\* every later time until a deletion begins: no discard, late cancellation or
\* restart takes its derivatives away.
SucceededIsSearchable ==
    \A d \in Docs : job[d] = "succeeded" =>
        d \in dismantled \/ d \in raw \cap artifacts \cap indexed

\* A source shown in a stage is the one the worker leased last, unless its job
\* was canceled (a crash may then leave the stage behind for good): every end of
\* a run, and the recovery, takes it out of the stage.  A worker thread that died
\* in a discard leaves it there until the next restart.
StageIsOwned ==
    proc # "down" => \A d \in Docs : source[d] \in Stages =>
        cur = d \/ job[d] = "canceled"

-----------------------------------------------------------------------------
(* Steps that may never happen *)

RetryInFlight(d) ==
    \E c \in Clients : \/ req[c] = [op |-> "retry", on |-> d]
                       \/ req[c] = [op |-> "retryBatch", on |-> batchOf[d]]

\* A canceled job is revived by a retry and by nothing else: the worker's
\* unconditional-looking updates and the recovery after a crash leave it alone.
CanceledStaysCanceled ==
    [][\A d \in Docs : job[d] = "canceled" /\ job'[d] # "canceled" =>
           \/ job'[d] = "none"
           \/ job'[d] = "pending" /\ RetryInFlight(d)]_vars

\* When the worker has dealt with an interruption, nothing it derived from the
\* document is left (_discard_source_derivatives before the last transaction).
SettledIsDiscarded ==
    [][pc = "settle" /\ pc' = "idle" /\ proc' # "down" /\ HasRow(cur) =>
           cur \notin artifacts \cup indexed]_vars

\* A batch reported finished is under way again only because of a request: a
\* retry, an import that was checked before the batch was sealed, or the
\* deletion of one of its documents.  Worker and recovery never reopen it.
Finished == {"succeeded", "partial", "failed"}
FinishedBatchStaysFinished ==
    [][\A b \in Batches :
           BatchStatus(b) \in Finished /\ BatchStatus(b)' = "processing" =>
               \E c \in Clients :
                   /\ req[c].op \in {"retry", "retryBatch", "record", "deleteRow"}
                   /\ req'[c] = Idle]_vars

\* The queue keeps the promises of JobLife.
JL == INSTANCE JobLife
ImplementsJobLife == JL!Spec

-----------------------------------------------------------------------------
(* Liveness *)

\* A job that may be leased is leased, or becomes unleasable (canceled, paused,
\* deleted), unless the worker thread is lost or the process is told to stop:
\* later imports never starve it, and no wake-up is lost for good.
LeasableIsTaken ==
    \A d \in Docs :
        Leasable(d) ~> ~Leasable(d) \/ pc = "dead" \/ proc = "stopping"

\* A batch that is sealed and under way reports an end at last, or is paused or
\* canceled, whatever joins it late or is retried: each of its jobs is settled
\* (_import_batch, lease_next_job, retry_import_batch).  Three things can keep it
\* from that: the loss of the worker thread, a job requeued at the attempt limit,
\* and an item whose document was deleted.
Stuck(d) ==
    \/ job[d] = "pending" /\ attempts[d] = MaxAttempts
    \/ source[d] = "deleted"
BatchEnds ==
    \A b \in Batches :
        BatchStatus(b) = "processing" ~>
            \/ BatchStatus(b) # "processing"
            \/ \E d \in ItemsOf(b) : Stuck(d)
            \/ pc = "dead" \/ proc = "stopping"

\* Every attempt ends, so a cancellation or a pause is noticed at last and the
\* next document gets its turn.
AttemptEnds == \A d \in Docs : cur = d ~> cur # d \/ pc = "dead"

\* A process told to stop goes down, whatever the worker is doing.
StopCompletes == proc = "stopping" ~> proc = "down"

-----------------------------------------------------------------------------
(* What the documents say and the code does not do *)

\* ADR 0018: a job at the attempt limit fails explicitly and does not stay in
\* the queue for ever.
ExhaustedLeavesQueue ==
    \A d \in Docs :
        job[d] = "pending" /\ attempts[d] = MaxAttempts ~> job[d] # "pending"

\* API contract: DELETE removes the raw copy, the artifact and the index rows.
DeletedIsErased ==
    \A d \in Docs : source[d] = "deleted" =>
        cur = d \/ d \notin raw \cup artifacts \cup indexed

\* Tests and ADR 0018: canceling a source job discards what was derived; with
\* the worker elsewhere and no request under way, nothing is left to find.
CanceledIsDiscarded ==
    \A d \in Docs :
        /\ job[d] = "canceled" /\ cur # d
        /\ \A c \in Clients : req[c] = Idle
        => d \notin indexed
=============================================================================
