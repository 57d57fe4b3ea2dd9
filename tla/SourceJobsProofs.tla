--------------------------- MODULE SourceJobsProofs ---------------------------
(* What holds of SourceJobs for every number of documents, batches, clients, *)
(* attempts and mishaps.                                                     *)
EXTENDS SourceJobs, FiniteSetTheorems, TLAPS

-----------------------------------------------------------------------------
(* Requests *)

LEMMA RequestMade ==
  /\ Idle \in Request
  /\ \A op \in DocOps \cup Holding, d \in Docs : [op |-> op, on |-> d] \in Request
  /\ \A op \in BatchOps, b \in Batches : [op |-> op, on |-> b] \in Request
  /\ \A b \in Batches \cup {NoBatch} : [op |-> "import", on |-> b] \in Request
  BY DEF Request

LEMMA RequestOn ==
  ASSUME NEW r \in Request
  PROVE  /\ r.op \in DocOps \cup Holding => r.on \in Docs
         /\ r.op \in BatchOps => r.on \in Batches
         /\ r.op = "import" => r.on \in Batches \cup {NoBatch}
  BY DEF Request, Idle, DocOps, BatchOps, Holding, Deleting

LEMMA SourcesToType ==
  ASSUME TypeOK, NEW ds, NEW status \in SourceStatus
  PROVE  SourcesTo(ds, status) \in [Docs -> SourceStatus]
  BY DEF TypeOK, SourcesTo

LEMMA JobsToType ==
  ASSUME TypeOK, NEW ds, NEW status \in JobStatus
  PROVE  JobsTo(ds, status) \in [Docs -> JobStatus]
  BY DEF TypeOK, JobsTo

-----------------------------------------------------------------------------
(* Types *)

\* The worker has a document at hand exactly between a lease and the last
\* transaction for it.
AtHand == IF pc \in OffJob THEN cur = 0 ELSE cur \in Docs

TypeInv == TypeOK /\ AtHand

LEMMA InitType == Init => TypeInv
<1> SUFFICES ASSUME Init PROVE TypeInv
  OBVIOUS
<1>1. /\ source \in [Docs -> SourceStatus]
      /\ job \in [Docs -> JobStatus]
      /\ batchOf \in [Docs -> Batches \cup {NoBatch}]
      /\ control \in [Batches -> {"none", "active", "paused", "canceled"}]
      /\ expected \in [Batches -> ExpectedItems \cup {0}]
      /\ req \in [Clients -> Request]
  BY RequestMade DEF Init, SourceStatus, Unrecorded, JobStatus
<1>2. /\ attempts \in [Docs -> 0..MaxAttempts]
      /\ dups \in [Batches -> 0..MaxDuplicates]
      /\ mishaps \in 0..MaxMishaps
  BY ConstantsAssumption DEF Init, ConstantsAssumption
<1>3. pc \in WorkerPc /\ cur \in Docs \cup {0} /\ paused \in BOOLEAN
  BY DEF Init, WorkerPc, OffJob
<1> QED
  BY <1>1, <1>2, <1>3 DEF Init, TypeInv, TypeOK, AtHand, OffJob

LEMMA HandlerType ==
  ASSUME TypeOK, NEW c \in Clients, Handler(c)
  PROVE  TypeOK'
<1> USE DEF Handles, Done, Step, store, batches, files, work
<1>0. /\ req[c] \in Request
      /\ req[c].op \in DocOps \cup Holding => req[c].on \in Docs
      /\ req[c].op \in BatchOps => req[c].on \in Batches
      /\ req[c].op = "import" => req[c].on \in Batches \cup {NoBatch}
  BY RequestOn DEF TypeOK
<1>1. CASE ImportRefused(c)
  BY <1>1, RequestMade DEF ImportRefused, TypeOK
<1>2. CASE ImportDuplicate(c)
  BY <1>0, <1>2, RequestMade, ConstantsAssumption
     DEF ImportDuplicate, TypeOK, ConstantsAssumption
<1>3. CASE ImportCopy(c)
  BY <1>0, <1>3, RequestMade DEF ImportCopy, TypeOK, Holding, SourceStatus, Unrecorded
<1>4. CASE ImportRecord(c)
  BY <1>0, <1>4, RequestMade DEF ImportRecord, TypeOK, SourceStatus, JobStatus
<1>5. CASE ImportFails(c)
  BY <1>0, <1>5, RequestMade, ConstantsAssumption
     DEF ImportFails, TypeOK, ConstantsAssumption, Holding, SourceStatus, Unrecorded
<1>6. CASE Cancel(c)
  BY <1>0, <1>6, RequestMade, SourcesToType, JobsToType
     DEF Cancel, TypeOK, SourceStatus, JobStatus
<1>7. CASE Retry(c)
  BY <1>0, <1>7, RequestMade, SourcesToType, JobsToType
     DEF Retry, TypeOK, SourceStatus, JobStatus
<1>8. CASE DeleteIndexed(c)
  BY <1>0, <1>8, RequestMade DEF DeleteIndexed, TypeOK, DocOps, Holding, Deleting
<1>9. CASE DeleteArtifact(c)
  BY <1>0, <1>9, RequestMade DEF DeleteArtifact, TypeOK, Holding, Deleting
<1>10. CASE DeleteRaw(c)
  BY <1>0, <1>10, RequestMade DEF DeleteRaw, TypeOK, Holding, Deleting
<1>11. CASE DeleteRow(c)
  BY <1>0, <1>11, RequestMade, ConstantsAssumption
     DEF DeleteRow, TypeOK, ConstantsAssumption, Holding, Deleting, SourceStatus,
         Unrecorded, JobStatus
<1>12. CASE DeleteFails(c)
  BY <1>0, <1>12, RequestMade, JobsToType, ConstantsAssumption
     DEF DeleteFails, TypeOK, ConstantsAssumption, JobStatus
<1>13. CASE Seal(c)
  BY <1>0, <1>13, RequestMade DEF Seal, TypeOK, BatchOps
<1>14. CASE Pause(c)
  BY <1>0, <1>14, RequestMade DEF Pause, TypeOK
<1>15. CASE Resume(c)
  BY <1>0, <1>15, RequestMade DEF Resume, TypeOK
<1>16. CASE CancelBatch(c)
  BY <1>0, <1>16, RequestMade, SourcesToType, JobsToType
     DEF CancelBatch, TypeOK, BatchOps, SourceStatus, JobStatus
<1>17. CASE RetryBatch(c)
  BY <1>0, <1>17, RequestMade, SourcesToType, JobsToType
     DEF RetryBatch, TypeOK, BatchOps, SourceStatus, JobStatus
<1> QED
  BY <1>1, <1>2, <1>3, <1>4, <1>5, <1>6, <1>7, <1>8, <1>9, <1>10, <1>11, <1>12,
     <1>13, <1>14, <1>15, <1>16, <1>17 DEF Handler

\* Every program point a step moves the worker to is one of its program points.
LEMMA PcType ==
  /\ {"idle", "polling", "stopped", "open", "checkParse", "failing", "checkArtifact",
      "markChunking", "checkDone", "discard", "unlink", "settle", "dead"} \subseteq WorkerPc
  /\ \A p \in DOMAIN Continue : Continue[p] \in WorkerPc
  /\ \A p \in DOMAIN AfterMark :
        AfterMark[p] \in WorkerPc /\ Announces[p] \in SourceStatus
  /\ \A p \in DOMAIN AfterTell : AfterTell[p] \in WorkerPc
  BY DEF WorkerPc, OffJob, Continue, AfterMark, AfterTell, Announces, SourceStatus, Stages

LEMMA WorkerType ==
  ASSUME TypeInv, Worker
  PROVE  TypeOK'
<1> USE PcType DEF Go, Rest, store, batches, files, work
<1>0. TypeOK /\ (pc \notin OffJob => cur \in Docs)
  BY DEF TypeInv, AtHand
<1>1. CASE Poll
  BY <1>0, <1>1 DEF Poll, AfterPoll, TypeOK
<1>2. CASE Lease
  <2> PICK d \in Docs : /\ Leasable(d)
                       /\ job' = [job EXCEPT ![d] = "running"]
                       /\ attempts' = [attempts EXCEPT ![d] = @ + 1]
                       /\ cur' = d
    BY <1>2 DEF Lease
  <2>1. attempts' \in [Docs -> 0..MaxAttempts]
    BY <1>0, ConstantsAssumption DEF ConstantsAssumption, Leasable, TypeOK
  <2> QED
    BY <1>0, <1>2, <2>1 DEF Lease, TypeOK, JobStatus
<1>3. CASE NothingToLease
  BY <1>0, <1>3 DEF NothingToLease, TypeOK
<1>4. CASE Open
  BY <1>0, <1>4 DEF Open, TypeOK
<1>5. CASE Proceed
  BY <1>0, <1>5 DEF Proceed, TypeOK
<1>6. CASE Interrupt
  BY <1>0, <1>6 DEF Interrupt, TypeOK, Interrupted
<1>7. CASE MarkSource
  BY <1>0, <1>7, SourcesToType DEF MarkSource, TypeOK
<1>8. CASE TellJob
  BY <1>0, <1>8, JobsToType DEF TellJob, TypeOK, JobStatus
<1>9. CASE ParseRaw
  BY <1>0, <1>9 DEF ParseRaw, TypeOK
<1>10. CASE WriteArtifact
  BY <1>0, <1>10 DEF WriteArtifact, TypeOK, OffJob
<1>11. CASE WriteIndex
  BY <1>0, <1>11 DEF WriteIndex, TypeOK, OffJob
<1>12. CASE WorkFails
  BY <1>0, <1>12 DEF WorkFails, TypeOK, OffJob
<1>13. CASE Finish
  BY <1>0, <1>13, SourcesToType, JobsToType DEF Finish, TypeOK, SourceStatus, JobStatus
<1>14. CASE Fail
  BY <1>0, <1>14, SourcesToType, JobsToType DEF Fail, TypeOK, SourceStatus, JobStatus
<1>15. CASE DiscardIndexed
  BY <1>0, <1>15 DEF DiscardIndexed, TypeOK
<1>16. CASE DiscardArtifact
  BY <1>0, <1>16 DEF DiscardArtifact, TypeOK
<1>17. CASE DiscardFails
  BY <1>0, <1>17, ConstantsAssumption DEF DiscardFails, TypeOK, ConstantsAssumption
<1>18. CASE Settle
  <2>1. source' \in [Docs -> SourceStatus]
    BY <1>0, <1>18, SourcesToType DEF Settle, SourceStatus
  <2>2. job' \in [Docs -> JobStatus]
    BY <1>0, <1>18, JobsToType DEF Settle, TypeOK, JobStatus
  <2> QED
    BY <1>0, <1>18, <2>1, <2>2 DEF Settle, TypeOK
<1> QED
  BY <1>1, <1>2, <1>3, <1>4, <1>5, <1>6, <1>7, <1>8, <1>9, <1>10, <1>11, <1>12,
     <1>13, <1>14, <1>15, <1>16, <1>17, <1>18 DEF Worker

LEMMA WorkerAtHand ==
  ASSUME TypeInv, Worker
  PROVE  AtHand'
<1> USE DEF TypeInv, AtHand, OffJob, Go, Rest
<1>1. CASE Poll \/ NothingToLease
  BY <1>1 DEF Poll, AfterPoll, NothingToLease
<1>2. CASE Lease
  BY <1>2 DEF Lease
<1>3. CASE Open \/ Interrupt \/ ParseRaw \/ WriteArtifact \/ WriteIndex \/ WorkFails
  BY <1>3 DEF Open, Interrupt, ParseRaw, WriteArtifact, WriteIndex, WorkFails, Continue
<1>4. CASE Proceed \/ MarkSource \/ TellJob
  BY <1>4 DEF Proceed, MarkSource, TellJob, Continue, AfterMark, AfterTell
<1>5. CASE Finish \/ Fail \/ Settle
  BY <1>5 DEF Finish, Fail, Settle
<1>6. CASE DiscardIndexed \/ DiscardArtifact \/ DiscardFails
  BY <1>6 DEF DiscardIndexed, DiscardArtifact, DiscardFails
<1> QED
  BY <1>1, <1>2, <1>3, <1>4, <1>5, <1>6 DEF Worker

\* Only the worker and the end of the process move the worker.
LEMMA HandlerLeavesWorker ==
  ASSUME NEW c \in Clients, Handler(c)
  PROVE  UNCHANGED <<pc, cur, paused, proc>> /\ proc = "up"
  BY DEF Handler, Handles, work, ImportRefused, ImportDuplicate, ImportCopy,
     ImportRecord, ImportFails, Cancel, Retry, DeleteIndexed, DeleteArtifact,
     DeleteRaw, DeleteRow, DeleteFails, Seal, Pause, Resume, CancelBatch, RetryBatch

LEMMA NextType == TypeInv /\ [Next]_vars => TypeInv'
<1> SUFFICES ASSUME TypeInv, [Next]_vars PROVE TypeInv'
  OBVIOUS
<1> USE DEF TypeInv, store, batches, files, work
<1>1. ASSUME NEW b \in Batches, CreateBatch(b) PROVE TypeInv'
  BY <1>1 DEF CreateBatch, TypeOK, AtHand
<1>2. ASSUME NEW c \in Clients, Check(c) PROVE TypeInv'
  <2>1. req' \in [Clients -> Request]
    BY <1>2, RequestMade DEF Check, Step, TypeOK
  <2> QED
    BY <1>2, <2>1 DEF Check, TypeOK, AtHand
<1>3. ASSUME NEW c \in Clients, Handler(c) PROVE TypeInv'
  BY <1>3, HandlerType, HandlerLeavesWorker DEF AtHand
<1>4. CASE Worker
  BY <1>4, WorkerType, WorkerAtHand
<1>5. CASE Stop
  BY <1>5 DEF Stop, TypeOK, AtHand
<1>6. CASE Exit
  BY <1>6, PcType, RequestMade DEF Exit, GoDown, Rest, TypeOK, AtHand, OffJob
<1>7. CASE Crash
  <2>1. mishaps' \in 0..MaxMishaps
    BY <1>7, ConstantsAssumption DEF Crash, TypeOK, ConstantsAssumption
  <2> QED
    BY <1>7, <2>1, PcType, RequestMade DEF Crash, GoDown, Rest, TypeOK, AtHand, OffJob
<1>8. CASE Restart
  BY <1>8 DEF Restart, RecoveredJob, RecoveredSource, TypeOK, SourceStatus, JobStatus,
     AtHand
<1>9. CASE UNCHANGED vars
  BY <1>9 DEF vars, TypeOK, AtHand
<1> QED
  BY <1>1, <1>2, <1>3, <1>4, <1>5, <1>6, <1>7, <1>8, <1>9 DEF Next

\* Every reachable state has the types of TypeOK; the attempts of a job stay
\* within the limit that lease_next_job tests.
THEOREM TypeCorrect == Spec => []TypeOK
<1>1. TypeInv => TypeOK
  BY DEF TypeInv
<1> QED
  BY <1>1, InitType, NextType, PTL DEF Spec

-----------------------------------------------------------------------------
(* The inductive invariant *)

\* sources and jobs rows come and go together.
RowsMatch == \A d \in Docs : job[d] = "none" <=> ~HasRow(d)

\* `_lock' has one holder; an import holding it has copied its document and not
\* inserted it, and a deletion holding it is on record in the history.
OneHolder ==
  \A c1, c2 \in Clients : req[c1].op \in Holding /\ req[c2].op \in Holding => c1 = c2
CopyWaits ==
  \A c \in Clients : req[c].op = "record" =>
      source[req[c].on] = "copied" /\ req[c].on \in raw
DeletionMarks ==
  \A c \in Clients : req[c].op \in Deleting => req[c].on \in dismantled

\* No worker outlives its process.
DownAtRest == proc = "down" => pc = "idle"

\* The job at hand was recorded, and only the last transaction makes it succeed.
WorkerSource ==
  cur # 0 => source[cur] \notin {"unborn", "copied"} /\ job[cur] # "succeeded"

\* An interruption that is not a pause was a cancellation or a deletion, and
\* nobody has set the job running since, unless the process is stopping, when
\* the last transaction requeues the job.
Interruption ==
  pc \in {"discard", "unlink", "settle"} /\ ~paused /\ proc = "up" => job[cur] # "running"

\* What the worker has derived so far is there, unless a deletion took it.
ArtifactWritten ==
  {"markChunking", "tellChunking", "checkEmbed", "markEmbedding", "tellEmbedding",
   "index", "checkDone", "tellDone", "finish"}
IndexWritten == {"checkDone", "tellDone", "finish"}
Derived ==
  cur # 0 /\ HasRow(cur) /\ cur \notin dismantled =>
      /\ pc \in ArtifactWritten => cur \in artifacts
      /\ pc \in IndexWritten => cur \in indexed

Locks == OneHolder /\ CopyWaits /\ DeletionMarks
Ownership == DownAtRest /\ WorkerSource /\ Interruption /\ RunningIsOwned
Files == RecordedSourceHasRaw /\ Derived /\ SucceededIsSearchable

IInv == TypeInv /\ RowsMatch /\ Locks /\ Ownership /\ Files

LEMMA InitInv == Init => IInv
<1> SUFFICES ASSUME Init PROVE IInv
  OBVIOUS
<1>1. RowsMatch
  BY DEF Init, RowsMatch, HasRow, Unrecorded
<1>2. Locks
  BY DEF Init, Locks, OneHolder, CopyWaits, DeletionMarks, Idle, Holding, Deleting
<1>3. Ownership
  BY DEF Init, Ownership, DownAtRest, WorkerSource, Interruption, RunningIsOwned
<1>4. Files
  BY DEF Init, Files, RecordedSourceHasRaw, Derived, SucceededIsSearchable, HasRow, Unrecorded
<1> QED
  BY <1>1, <1>2, <1>3, <1>4, InitType DEF IInv

-----------------------------------------------------------------------------
(* Locks *)

\* A handler inside its locked section is the only one, and one that enters it
\* found the lock free.
LEMMA HandlerLocks ==
  ASSUME IInv, NEW c \in Clients, Handler(c)
  PROVE  Locks'
<1> USE DEF IInv, Locks, OneHolder, CopyWaits, DeletionMarks, LockFree, Handles, Done,
        Step, Idle, Holding, Deleting, TypeInv
<1>0. req \in [Clients -> Request]
  BY DEF TypeOK
<1>1. CASE ImportRefused(c) \/ ImportDuplicate(c) \/ Seal(c) \/ Pause(c) \/ Resume(c)
  BY <1>0, <1>1 DEF ImportRefused, ImportDuplicate, Seal, Pause, Resume, store, files
<1>2. CASE Cancel(c) \/ Retry(c) \/ CancelBatch(c) \/ RetryBatch(c)
  BY <1>0, <1>2 DEF Cancel, Retry, CancelBatch, RetryBatch, files
<1>3. CASE ImportCopy(c)
  <2>1. PICK d \in Docs : /\ source' = [source EXCEPT ![d] = "copied"]
                         /\ raw' = raw \cup {d}
                         /\ req' = [req EXCEPT ![c] = [op |-> "record", on |-> d]]
    BY <1>3 DEF ImportCopy
  <2> QED
    BY <1>0, <1>3, <2>1 DEF ImportCopy, TypeOK
<1>4. CASE ImportRecord(c) \/ ImportFails(c)
  BY <1>0, <1>4 DEF ImportRecord, ImportFails, files
<1>5. CASE DeleteIndexed(c)
  BY <1>0, <1>5 DEF DeleteIndexed, store
<1>6. CASE DeleteArtifact(c) \/ DeleteRaw(c)
  BY <1>0, <1>6 DEF DeleteArtifact, DeleteRaw, store
<1>7. CASE DeleteRow(c) \/ DeleteFails(c)
  BY <1>0, <1>7 DEF DeleteRow, DeleteFails, files
<1> QED
  BY <1>1, <1>2, <1>3, <1>4, <1>5, <1>6, <1>7 DEF Handler

LEMMA WorkerLocks ==
  ASSUME IInv, Worker
  PROVE  Locks'
<1> USE DEF IInv, Locks, OneHolder, CopyWaits, DeletionMarks, LockFree, Holding, Deleting
<1>1. CASE Poll \/ NothingToLease \/ Open \/ Proceed \/ Interrupt \/ ParseRaw \/ DiscardFails
  BY <1>1 DEF Poll, NothingToLease, Open, Proceed, Interrupt, ParseRaw, DiscardFails,
     store, files
<1>2. CASE WriteArtifact \/ WriteIndex \/ WorkFails \/ DiscardArtifact \/ DiscardIndexed
  BY <1>2 DEF WriteArtifact, WriteIndex, WorkFails, DiscardArtifact, DiscardIndexed, store
<1>3. CASE Lease \/ MarkSource \/ TellJob \/ Finish \/ Fail \/ Settle
  BY <1>3 DEF Lease, MarkSource, TellJob, Finish, Fail, Settle, files
<1> QED
  BY <1>1, <1>2, <1>3 DEF Worker

-----------------------------------------------------------------------------
(* Rows *)

\* An UPDATE of sources neither makes nor removes a row.
LEMMA UpdateKeepsRows ==
  ASSUME NEW ds, NEW status, status \notin Unrecorded, source' = SourcesTo(ds, status)
  PROVE  \A d \in Docs : HasRow(d)' <=> HasRow(d)
  BY DEF SourcesTo, HasRow

LEMMA HandlerRows ==
  ASSUME IInv, NEW c \in Clients, Handler(c)
  PROVE  RowsMatch'
<1> USE DEF IInv, RowsMatch, TypeInv, Handles
<1>0. /\ req[c] \in Request
      /\ req[c].op \in DocOps \cup Holding => req[c].on \in Docs
  BY RequestOn DEF TypeOK
<1>1. CASE \/ ImportRefused(c) \/ ImportDuplicate(c) \/ Seal(c) \/ Pause(c) \/ Resume(c)
           \/ DeleteIndexed(c) \/ DeleteArtifact(c) \/ DeleteRaw(c)
  BY <1>1 DEF ImportRefused, ImportDuplicate, Seal, Pause, Resume, DeleteIndexed,
     DeleteArtifact, DeleteRaw, store, HasRow
<1>2. CASE ImportCopy(c)
  BY <1>2 DEF ImportCopy, TypeOK, HasRow, Unrecorded
<1>3. CASE ImportRecord(c)
  BY <1>0, <1>3 DEF ImportRecord, TypeOK, HasRow, Unrecorded, Holding
<1>4. CASE ImportFails(c)
  <2>1. source[req[c].on] = "copied"
    BY <1>4 DEF ImportFails, Locks, CopyWaits
  <2> QED
    BY <1>0, <1>4, <2>1 DEF ImportFails, TypeOK, HasRow, Unrecorded
<1>5. CASE DeleteRow(c)
  BY <1>0, <1>5 DEF DeleteRow, TypeOK, HasRow, Unrecorded, Holding, Deleting
<1>6. CASE DeleteFails(c)
  BY <1>6 DEF DeleteFails, JobsTo, JobIn, HasRow
<1>7. CASE Cancel(c) \/ Retry(c)
  <2>1. \A d \in Docs : HasRow(d)' <=> HasRow(d)
    BY <1>7, UpdateKeepsRows DEF Cancel, Retry, Unrecorded
  <2> QED
    BY <1>7, <2>1 DEF Cancel, Retry, JobsTo, JobIn
<1>8. CASE CancelBatch(c) \/ RetryBatch(c)
  <2>1. \A d \in Docs : HasRow(d)' <=> HasRow(d)
    BY <1>8, UpdateKeepsRows DEF CancelBatch, RetryBatch, Unrecorded
  <2> QED
    BY <1>8, <2>1 DEF CancelBatch, RetryBatch, JobsTo, JobIn
<1> QED
  BY <1>1, <1>2, <1>3, <1>4, <1>5, <1>6, <1>7, <1>8 DEF Handler

LEMMA WorkerRows ==
  ASSUME IInv, Worker
  PROVE  RowsMatch'
<1> USE DEF IInv, RowsMatch
<1>1. CASE \/ Poll \/ NothingToLease \/ Open \/ Proceed \/ Interrupt \/ ParseRaw
           \/ DiscardFails \/ WriteArtifact \/ WriteIndex \/ WorkFails
           \/ DiscardArtifact \/ DiscardIndexed
  BY <1>1 DEF Poll, NothingToLease, Open, Proceed, Interrupt, ParseRaw, DiscardFails,
     WriteArtifact, WriteIndex, WorkFails, DiscardArtifact, DiscardIndexed, store, HasRow
<1>2. CASE Lease
  BY <1>2 DEF Lease, Leasable, HasRow, TypeInv, TypeOK
<1>3. CASE MarkSource
  <2>1. Announces[pc] \notin Unrecorded
    BY <1>3 DEF MarkSource, AfterMark, Announces, Unrecorded
  <2> QED
    BY <1>3, <2>1, UpdateKeepsRows DEF MarkSource
<1>4. CASE TellJob
  BY <1>4 DEF TellJob, JobsTo, Tellable, JobIn, HasRow
<1>5. CASE Finish \/ Fail \/ Settle
  <2>1. \A d \in Docs : HasRow(d)' <=> HasRow(d)
    BY <1>5, UpdateKeepsRows DEF Finish, Fail, Settle, Unrecorded
  <2> QED
    BY <1>5, <2>1 DEF Finish, Fail, Settle, JobsTo, JobIn
<1> QED
  BY <1>1, <1>2, <1>3, <1>4, <1>5 DEF Worker

-----------------------------------------------------------------------------
(* Handlers against the worker *)

\* A handler sets no job running or succeeded and un-records nothing but what it
\* deletes.
LEMMA HandlerStatuses ==
  ASSUME IInv, NEW c \in Clients, Handler(c), NEW d \in Docs
  PROVE  /\ job'[d] \in {job[d], "pending", "canceled", "none"}
         /\ source[d] \notin {"unborn", "copied"} => source'[d] \notin {"unborn", "copied"}
         /\ HasRow(d)' => HasRow(d) \/ (source[d] = "copied" /\ d \in raw')
<1>0. /\ source \in [Docs -> SourceStatus] /\ job \in [Docs -> JobStatus]
      /\ req[c].op = "record" => source[req[c].on] = "copied" /\ req[c].on \in raw
  BY DEF IInv, TypeInv, TypeOK, Locks, CopyWaits
<1> USE DEF HasRow, Unrecorded
<1>1. CASE \/ ImportRefused(c) \/ ImportDuplicate(c) \/ Seal(c) \/ Pause(c) \/ Resume(c)
           \/ DeleteIndexed(c) \/ DeleteArtifact(c) \/ DeleteRaw(c)
  BY <1>0, <1>1 DEF ImportRefused, ImportDuplicate, Seal, Pause, Resume, DeleteIndexed,
     DeleteArtifact, DeleteRaw, store
<1>2. CASE ImportCopy(c) \/ DeleteRow(c)
  BY <1>0, <1>2 DEF ImportCopy, DeleteRow
<1>3. CASE ImportRecord(c) \/ ImportFails(c)
  BY <1>0, <1>3 DEF ImportRecord, ImportFails, Handles, files
<1>4. CASE Cancel(c) \/ Retry(c) \/ CancelBatch(c) \/ RetryBatch(c) \/ DeleteFails(c)
  BY <1>0, <1>4 DEF Cancel, Retry, CancelBatch, RetryBatch, DeleteFails, SourcesTo, JobsTo
<1> QED
  BY <1>1, <1>2, <1>3, <1>4 DEF Handler

\* A handler removes no file of a recorded document, unless it is a deletion, and
\* forgets a deletion only with the row.
LEMMA HandlerKeepsFiles ==
  ASSUME IInv, NEW c \in Clients, Handler(c), NEW d \in Docs, HasRow(d)', d \notin dismantled'
  PROVE  /\ d \notin dismantled
         /\ d \in raw => d \in raw'
         /\ d \in artifacts => d \in artifacts'
         /\ d \in indexed => d \in indexed'
<1> USE DEF IInv, TypeInv, HasRow, Unrecorded, files
<1>0. /\ source \in [Docs -> SourceStatus]
      /\ req[c].op \in Deleting => req[c].on \in dismantled
  BY DEF TypeOK, Locks, DeletionMarks
<1>1. CASE \/ ImportRefused(c) \/ ImportDuplicate(c) \/ Seal(c) \/ Pause(c) \/ Resume(c)
           \/ ImportRecord(c) \/ ImportCopy(c)
  BY <1>1 DEF ImportRefused, ImportDuplicate, Seal, Pause, Resume, ImportRecord, ImportCopy
<1>2. CASE Cancel(c) \/ Retry(c) \/ CancelBatch(c) \/ RetryBatch(c) \/ DeleteFails(c)
  BY <1>2 DEF Cancel, Retry, CancelBatch, RetryBatch, DeleteFails
<1>3. CASE ImportFails(c) \/ DeleteRow(c)
  BY <1>0, <1>3 DEF ImportFails, DeleteRow
<1>4. CASE DeleteIndexed(c) \/ DeleteArtifact(c) \/ DeleteRaw(c)
  BY <1>0, <1>4 DEF DeleteIndexed, DeleteArtifact, DeleteRaw, Handles, Deleting
<1> QED
  BY <1>1, <1>2, <1>3, <1>4 DEF Handler

LEMMA HandlerOwnership ==
  ASSUME IInv, NEW c \in Clients, Handler(c)
  PROVE  Ownership'
<1> USE DEF IInv, TypeInv, Ownership
<1>0. cur \in Docs \cup {0} /\ (cur # 0 <=> cur \in Docs)
  BY ConstantsAssumption DEF TypeOK, Docs, ConstantsAssumption
<1>1. DownAtRest' /\ WorkerSource'
  BY <1>0, HandlerStatuses, HandlerLeavesWorker DEF DownAtRest, WorkerSource
<1>2. Interruption'
  <2>1. pc \in {"discard", "unlink", "settle"} => cur \in Docs
    BY DEF AtHand, OffJob
  <2> QED
    BY <2>1, HandlerStatuses, HandlerLeavesWorker DEF Interruption
<1>3. RunningIsOwned'
  BY HandlerStatuses, HandlerLeavesWorker DEF RunningIsOwned
<1> QED
  BY <1>1, <1>2, <1>3

LEMMA HandlerFiles ==
  ASSUME IInv, NEW c \in Clients, Handler(c)
  PROVE  Files'
<1> USE DEF IInv, TypeInv, Files
<1>0. cur \in Docs \cup {0} /\ (cur # 0 <=> cur \in Docs)
  BY ConstantsAssumption DEF TypeOK, Docs, ConstantsAssumption
<1>1. RecordedSourceHasRaw'
  BY HandlerStatuses, HandlerKeepsFiles DEF RecordedSourceHasRaw
<1>2. Derived'
  <2>1. cur # 0 /\ HasRow(cur)' => HasRow(cur)
    BY <1>0, HandlerStatuses, HandlerLeavesWorker DEF Ownership, WorkerSource, HasRow
  <2> QED
    BY <1>0, <2>1, HandlerKeepsFiles, HandlerLeavesWorker DEF Derived
<1>3. SucceededIsSearchable'
  <2> SUFFICES ASSUME NEW d \in Docs, job'[d] = "succeeded", d \notin dismantled'
               PROVE  d \in raw' \cap artifacts' \cap indexed'
    BY DEF SucceededIsSearchable
  <2>1. job[d] = "succeeded"
    BY HandlerStatuses
  <2>2. HasRow(d)'
    BY HandlerRows DEF RowsMatch
  <2> QED
    BY <2>1, <2>2, HandlerKeepsFiles DEF SucceededIsSearchable
<1> QED
  BY <1>1, <1>2, <1>3

-----------------------------------------------------------------------------
(* The worker against the handlers *)

\* What the worker knows of the document at hand, and of itself.
LEMMA WorkerKnows ==
  ASSUME IInv
  PROVE  /\ job \in [Docs -> JobStatus] /\ source \in [Docs -> SourceStatus]
         /\ 0 \notin Docs /\ cur \in Docs \cup {0}
         /\ pc \in OffJob => cur = 0
         /\ pc \notin OffJob => cur \in Docs
         /\ pc # "idle" => proc # "down"
         /\ cur \in Docs => (job[cur] = "none" <=> ~HasRow(cur))
  BY ConstantsAssumption DEF IInv, TypeInv, TypeOK, AtHand, Docs, ConstantsAssumption,
     Ownership, DownAtRest, RowsMatch

LEMMA WorkerOwnership ==
  ASSUME IInv, Worker
  PROVE  Ownership'
<1> USE WorkerKnows DEF OffJob, Ownership, DownAtRest, WorkerSource, Interruption,
        RunningIsOwned, Go, Rest
<1>0. Ownership
  BY DEF IInv
<1>1. CASE Poll \/ NothingToLease
  BY <1>0, <1>1 DEF Poll, AfterPoll, NothingToLease, store
<1>2. CASE Open \/ ParseRaw \/ WriteArtifact \/ WriteIndex \/ WorkFails \/ DiscardFails
  BY <1>0, <1>2 DEF Open, ParseRaw, WriteArtifact, WriteIndex, WorkFails, DiscardFails, store
<1>3. CASE Proceed
  BY <1>0, <1>3 DEF Proceed, Continue, store
<1>4. CASE Interrupt
  BY <1>0, <1>4 DEF Interrupt, Interrupted, Continue, store
<1>5. CASE DiscardIndexed \/ DiscardArtifact
  BY <1>0, <1>5 DEF DiscardIndexed, DiscardArtifact, store
<1>6. CASE Lease
  <2> PICK d \in Docs : /\ job[d] = "pending"
                       /\ job' = [job EXCEPT ![d] = "running"]
                       /\ cur' = d
    BY <1>6 DEF Lease, Leasable
  <2>1. source[d] \notin {"unborn", "copied"}
    BY DEF IInv, RowsMatch, HasRow, Unrecorded
  <2> QED
    BY <1>0, <1>6, <2>1 DEF Lease
<1>7. CASE MarkSource
  <2>1. Announces[pc] \in Stages /\ AfterMark[pc] \notin {"discard", "unlink", "settle", "idle"}
    BY <1>7 DEF MarkSource, AfterMark, Announces, Stages
  <2> QED
    BY <1>0, <1>7, <2>1 DEF MarkSource, AfterMark, SourcesTo, Stages
<1>8. CASE TellJob
  <2>1. AfterTell[pc] \notin {"discard", "unlink", "settle", "idle"}
    BY <1>8 DEF TellJob, AfterTell
  <2> QED
    BY <1>0, <1>8, <2>1 DEF TellJob, AfterTell, JobsTo, Tellable, JobIn
<1>9. CASE Finish \/ Fail
  BY <1>0, <1>9 DEF Finish, Fail, JobsTo, JobIn
<1>10. CASE Settle
  BY <1>0, <1>10 DEF Settle, JobsTo, JobIn, IInv, TypeInv, TypeOK
<1> QED
  BY <1>1, <1>2, <1>3, <1>4, <1>5, <1>6, <1>7, <1>8, <1>9, <1>10 DEF Worker

LEMMA WorkerFiles ==
  ASSUME IInv, Worker
  PROVE  Files'
<1> USE WorkerKnows DEF OffJob, Files, RecordedSourceHasRaw, Derived, SucceededIsSearchable,
        Go, Rest
<1>0. /\ Files
      /\ cur \in Docs => job[cur] # "succeeded"
  BY DEF IInv, Ownership, WorkerSource
<1>1. CASE Poll \/ NothingToLease \/ Open \/ ParseRaw \/ Interrupt \/ DiscardFails
  BY <1>0, <1>1 DEF Poll, AfterPoll, NothingToLease, Open, ParseRaw, Interrupt, DiscardFails,
     store, files, HasRow, ArtifactWritten, IndexWritten
<1>2. CASE Proceed
  BY <1>0, <1>2 DEF Proceed, Continue, store, files, HasRow, ArtifactWritten, IndexWritten
<1>3. CASE WriteArtifact \/ WriteIndex \/ WorkFails
  BY <1>0, <1>3 DEF WriteArtifact, WriteIndex, WorkFails, store, HasRow, ArtifactWritten,
     IndexWritten
<1>4. CASE DiscardIndexed \/ DiscardArtifact
  BY <1>0, <1>4 DEF DiscardIndexed, DiscardArtifact, store, HasRow, ArtifactWritten,
     IndexWritten
<1>5. CASE Lease
  BY <1>0, <1>5 DEF Lease, files, HasRow, ArtifactWritten, IndexWritten
<1>6. CASE MarkSource
  <2>1. \A d \in Docs : HasRow(d)' <=> HasRow(d)
    <3>1. Announces[pc] \notin Unrecorded
      BY <1>6 DEF MarkSource, AfterMark, Announces, Unrecorded
    <3> QED
      BY <1>6, <3>1, UpdateKeepsRows DEF MarkSource
  <2> QED
    BY <1>0, <1>6, <2>1 DEF MarkSource, AfterMark, files, HasRow, ArtifactWritten, IndexWritten
<1>7. CASE TellJob
  BY <1>0, <1>7 DEF TellJob, AfterTell, JobsTo, files, HasRow, ArtifactWritten, IndexWritten
<1>8. CASE Finish \/ Fail \/ Settle
  <2>1. \A d \in Docs : HasRow(d)' <=> HasRow(d)
    BY <1>8, UpdateKeepsRows DEF Finish, Fail, Settle, Unrecorded
  <2>2. \A d \in Docs : job'[d] = "succeeded" =>
           \/ job[d] = "succeeded"
           \/ d = cur /\ pc = "finish" /\ HasRow(cur)
    BY <1>8 DEF Finish, Fail, Settle, JobsTo, JobIn
  <2> QED
    BY <1>0, <1>8, <2>1, <2>2 DEF Finish, Fail, Settle, files, IndexWritten, ArtifactWritten
<1> QED
  BY <1>1, <1>2, <1>3, <1>4, <1>5, <1>6, <1>7, <1>8 DEF Worker

-----------------------------------------------------------------------------
(* The process *)

LEMMA DownInv ==
  ASSUME IInv, GoDown
  PROVE  RowsMatch' /\ Locks' /\ Ownership' /\ Files'
<1> USE DEF IInv, GoDown, Rest, store, files
<1>1. RowsMatch'
  BY DEF RowsMatch, HasRow
<1>2. Locks'
  BY DEF Locks, OneHolder, CopyWaits, DeletionMarks, Idle, Holding, Deleting
<1>3. Ownership'
  BY DEF Ownership, DownAtRest, WorkerSource, Interruption, RunningIsOwned
<1>4. Files'
  BY DEF Files, RecordedSourceHasRaw, Derived, SucceededIsSearchable, HasRow
<1> QED
  BY <1>1, <1>2, <1>3, <1>4

LEMMA RestartInv ==
  ASSUME IInv, Restart
  PROVE  RowsMatch' /\ Locks' /\ Ownership' /\ Files'
<1> USE DEF IInv, Restart, files, work
<1>0. /\ cur = 0 /\ pc = "idle"
      /\ \A d \in Docs :
           /\ job'[d] = RecoveredJob(d) /\ source'[d] = RecoveredSource(d)
           /\ HasRow(d)' <=> HasRow(d)
           /\ source[d] = "copied" => source'[d] = "copied"
           /\ job'[d] = "none" <=> job[d] = "none"
           /\ job'[d] # "running"
           /\ job'[d] = "succeeded" => job[d] = "succeeded"
  BY DEF Ownership, DownAtRest, TypeInv, AtHand, OffJob, RowsMatch, HasRow, Unrecorded,
     RecoveredJob, RecoveredSource
<1>1. RowsMatch'
  BY <1>0 DEF RowsMatch
<1>2. Locks'
  BY <1>0, RequestOn DEF Locks, OneHolder, CopyWaits, DeletionMarks, TypeInv, TypeOK,
     Holding, Deleting
<1>3. Ownership'
  BY <1>0 DEF Ownership, DownAtRest, WorkerSource, Interruption, RunningIsOwned
<1>4. Files'
  BY <1>0 DEF Files, RecordedSourceHasRaw, Derived, SucceededIsSearchable
<1> QED
  BY <1>1, <1>2, <1>3, <1>4

\* The steps that only take note of a request.
LEMMA NoteInv ==
  ASSUME IInv, \/ \E b \in Batches : CreateBatch(b)
               \/ \E c \in Clients : Check(c)
               \/ Stop
               \/ UNCHANGED vars
  PROVE  RowsMatch' /\ Locks' /\ Ownership' /\ Files'
<1> USE DEF IInv
<1>1. /\ UNCHANGED <<store, files, work>>
      /\ UNCHANGED proc \/ (proc = "up" /\ proc' = "stopping")
  BY DEF CreateBatch, Check, Stop, vars
<1> USE <1>1 DEF store, files, work
<1>2. RowsMatch' /\ Files'
  BY DEF RowsMatch, HasRow, Files, RecordedSourceHasRaw, Derived, SucceededIsSearchable
<1>3. Ownership'
  BY DEF Ownership, DownAtRest, WorkerSource, Interruption, RunningIsOwned
<1>4. Locks'
  <2>1. CASE UNCHANGED req
    BY <2>1 DEF Locks, OneHolder, CopyWaits, DeletionMarks
  <2>2. CASE \E c \in Clients : Check(c)
    <3>1. PICK c \in Clients : Check(c)
      BY <2>2
    <3>2. req'[c].op \notin Holding /\ \A e \in Clients \ {c} : req'[e] = req[e]
      BY <3>1 DEF Check, Step, DocOps, BatchOps, Holding, Deleting, TypeInv, TypeOK
    <3> QED
      BY <3>2 DEF Locks, OneHolder, CopyWaits, DeletionMarks, Holding
  <2> QED
    BY <2>1, <2>2 DEF CreateBatch, Stop, vars
<1> QED
  BY <1>2, <1>3, <1>4

LEMMA NextInv == IInv /\ [Next]_vars => IInv'
<1> SUFFICES ASSUME IInv, [Next]_vars PROVE RowsMatch' /\ Locks' /\ Ownership' /\ Files'
  BY NextType DEF IInv
<1>1. ASSUME NEW c \in Clients, Handler(c)
      PROVE  RowsMatch' /\ Locks' /\ Ownership' /\ Files'
  BY <1>1, HandlerRows, HandlerLocks, HandlerOwnership, HandlerFiles
<1>2. CASE Worker
  BY <1>2, WorkerRows, WorkerLocks, WorkerOwnership, WorkerFiles
<1>3. CASE Exit \/ Crash
  BY <1>3, DownInv DEF Exit, Crash
<1>4. CASE Restart
  BY <1>4, RestartInv
<1> QED
  BY <1>1, <1>2, <1>3, <1>4, NoteInv DEF Next

THEOREM Invariance == Spec => []IInv
BY InitInv, NextInv, PTL DEF Spec

\* While the process lives, the only job marked running is the one its worker has
\* at hand (lease_next_job, _set_job, recover_interrupted_jobs), whatever handlers
\* race with it.
THEOREM RunningOwned == Spec => []RunningIsOwned
<1>1. IInv => RunningIsOwned
  BY DEF IInv, Ownership
<1> QED
  BY <1>1, Invariance, PTL

\* A source row has its raw copy until a deletion begins (import_source,
\* delete_source).
THEOREM RecordedHasRaw == Spec => []RecordedSourceHasRaw
<1>1. IInv => RecordedSourceHasRaw
  BY DEF IInv, Files
<1> QED
  BY <1>1, Invariance, PTL

\* A succeeded job's document is copied, parsed and indexed, and stays so until a
\* deletion begins (_run_job_worker, _index_source).
THEOREM SucceededSearchable == Spec => []SucceededIsSearchable
<1>1. IInv => SucceededIsSearchable
  BY DEF IInv, Files
<1> QED
  BY <1>1, Invariance, PTL

-----------------------------------------------------------------------------
(* Canceled jobs *)

LEMMA RetryRequest ==
  ASSUME NEW r \in Request, r.op \in {"retry", "retryBatch"}
  PROVE  r = [op |-> r.op, on |-> r.on]
  BY DEF Request, Idle

LEMMA HandlerRevives ==
  ASSUME IInv, NEW c \in Clients, Handler(c), NEW d \in Docs,
         job[d] = "canceled", job'[d] # "canceled"
  PROVE  job'[d] = "none" \/ (job'[d] = "pending" /\ RetryInFlight(d))
<1> USE DEF Handles
<1>0. /\ req[c] \in Request /\ job \in [Docs -> JobStatus]
      /\ req[c].op = "record" => job[req[c].on] # "canceled"
  <2>1. req[c] \in Request /\ job \in [Docs -> JobStatus]
    BY DEF IInv, TypeInv, TypeOK
  <2>2. ASSUME req[c].op = "record" PROVE job[req[c].on] = "none"
    <3>1. req[c].on \in Docs
      BY <2>1, <2>2, RequestOn DEF Holding
    <3>2. source[req[c].on] = "copied"
      BY <2>2 DEF IInv, Locks, CopyWaits
    <3> QED
      BY <3>1, <3>2 DEF IInv, RowsMatch, HasRow, Unrecorded
  <2> QED
    BY <2>1, <2>2
<1>1. CASE \/ ImportRefused(c) \/ ImportDuplicate(c) \/ Seal(c) \/ Pause(c) \/ Resume(c)
           \/ DeleteIndexed(c) \/ DeleteArtifact(c) \/ DeleteRaw(c)
           \/ ImportCopy(c) \/ ImportFails(c)
  BY <1>1 DEF ImportRefused, ImportDuplicate, Seal, Pause, Resume, DeleteIndexed,
     DeleteArtifact, DeleteRaw, ImportCopy, ImportFails, store
<1>2. CASE ImportRecord(c) \/ DeleteRow(c)
  BY <1>0, <1>2 DEF ImportRecord, DeleteRow
<1>3. CASE Cancel(c) \/ CancelBatch(c) \/ DeleteFails(c)
  BY <1>3 DEF Cancel, CancelBatch, DeleteFails, JobsTo
<1>4. CASE Retry(c)
  BY <1>0, <1>4, RetryRequest DEF Retry, JobsTo, RetryInFlight
<1>5. CASE RetryBatch(c)
  BY <1>0, <1>5, RetryRequest DEF RetryBatch, JobsTo, RetryInFlight, Of
<1> QED
  BY <1>1, <1>2, <1>3, <1>4, <1>5 DEF Handler

LEMMA WorkerRevivesNone ==
  ASSUME IInv, Worker, NEW d \in Docs, job[d] = "canceled"
  PROVE  job'[d] = "canceled"
<1>1. CASE \/ Poll \/ NothingToLease \/ Open \/ Proceed \/ Interrupt \/ ParseRaw
           \/ DiscardFails \/ WriteArtifact \/ WriteIndex \/ WorkFails
           \/ DiscardArtifact \/ DiscardIndexed \/ MarkSource
  BY <1>1 DEF Poll, NothingToLease, Open, Proceed, Interrupt, ParseRaw, DiscardFails,
     WriteArtifact, WriteIndex, WorkFails, DiscardArtifact, DiscardIndexed, MarkSource, store
<1>2. CASE Lease
  BY <1>2 DEF Lease, Leasable, IInv, TypeInv, TypeOK
<1>3. CASE TellJob
  BY <1>3 DEF TellJob, JobsTo, Tellable, JobIn
<1>4. CASE Finish \/ Fail \/ Settle
  BY <1>4 DEF Finish, Fail, Settle, JobsTo, JobIn
<1> QED
  BY <1>1, <1>2, <1>3, <1>4 DEF Worker

\* A canceled job leaves that status through a retry that was checked before, or
\* with its row, and in no other way: not through the worker's updates, nor through
\* recover_interrupted_jobs.
THEOREM CanceledStays == Spec => CanceledStaysCanceled
<1> DEFINE Stays ==
      \A d \in Docs : job[d] = "canceled" /\ job'[d] # "canceled" =>
          \/ job'[d] = "none"
          \/ job'[d] = "pending" /\ RetryInFlight(d)
<1>1. IInv /\ [Next]_vars => Stays
  <2> SUFFICES ASSUME IInv, [Next]_vars, NEW d \in Docs,
                      job[d] = "canceled", job'[d] # "canceled"
               PROVE  job'[d] = "none" \/ (job'[d] = "pending" /\ RetryInFlight(d))
    OBVIOUS
  <2>1. ASSUME NEW c \in Clients, Handler(c)
        PROVE  job'[d] = "none" \/ (job'[d] = "pending" /\ RetryInFlight(d))
    BY <2>1, HandlerRevives
  <2>2. ~Worker
    BY WorkerRevivesNone
  <2>3. ~Restart
    BY DEF Restart, RecoveredJob
  <2>4. UNCHANGED job \/ Worker \/ Restart \/ \E c \in Clients : Handler(c)
    BY DEF Next, CreateBatch, Check, Stop, Exit, Crash, GoDown, vars, store
  <2> QED
    BY <2>1, <2>2, <2>3, <2>4
<1> HIDE DEF Stays
<1>2. [][Next]_vars /\ []IInv => [][Stays]_vars
  BY <1>1, PTL
<1>3. [][Stays]_vars => CanceledStaysCanceled
  BY DEF Stays, CanceledStaysCanceled
<1> QED
  BY <1>2, <1>3, Invariance, PTL DEF Spec

-----------------------------------------------------------------------------
(* Attempts *)

\* What the job life cycle needs of attempts: a row that is gone has used none, the
\* attempt the worker is in has been counted, and only its own last transaction
\* ends it.
AttemptsCounted ==
  /\ \A d \in Docs : job[d] = "none" => attempts[d] = 0
  /\ cur # 0 =>
        /\ job[cur] # "none" => attempts[cur] > 0
        /\ job[cur] # "failed"

\* The handlers leave the attempts alone, but for the deletion of the row.
LEMMA HandlerAttempts ==
  ASSUME IInv, AttemptsCounted, NEW c \in Clients, Handler(c)
  PROVE  AttemptsCounted'
<1> USE DEF Handles
<1>0. /\ cur \in Docs \cup {0} /\ 0 \notin Docs /\ cur' = cur
      /\ job \in [Docs -> JobStatus] /\ attempts \in [Docs -> 0..MaxAttempts]
      /\ MaxAttempts \in Nat
      /\ req[c].op \in {"record", "deleteRow"} => req[c].on \in Docs
  BY WorkerKnows, HandlerLeavesWorker, RequestOn, ConstantsAssumption
     DEF IInv, TypeInv, TypeOK, ConstantsAssumption, Holding, Deleting
<1>1. CASE DeleteRow(c)
  BY <1>0, <1>1 DEF DeleteRow, AttemptsCounted
<1>2. CASE ImportRecord(c)
  <2>1. req[c].on # cur
    BY <1>0, <1>2 DEF ImportRecord, IInv, Locks, CopyWaits, Ownership, WorkerSource
  <2> QED
    BY <1>0, <1>2, <2>1 DEF ImportRecord, AttemptsCounted
<1>3. CASE ~DeleteRow(c) /\ ~ImportRecord(c)
  <2>1. attempts' = attempts
    BY <1>3 DEF Handler, ImportRefused, ImportDuplicate, ImportCopy, ImportFails, Cancel,
       Retry, DeleteIndexed, DeleteArtifact, DeleteRaw, DeleteFails, Seal, Pause, Resume,
       CancelBatch, RetryBatch, store
  <2>2. \A d \in Docs : (job'[d] = "none") <=> (job[d] = "none")
    BY <1>3, <1>0 DEF Handler, ImportRefused, ImportDuplicate, ImportCopy, ImportFails, Cancel,
       Retry, DeleteIndexed, DeleteArtifact, DeleteRaw, DeleteFails, Seal, Pause, Resume,
       CancelBatch, RetryBatch, store, JobsTo, JobIn
  <2> QED
    BY <1>0, <2>1, <2>2, HandlerStatuses DEF AttemptsCounted
<1> QED
  BY <1>1, <1>2, <1>3

LEMMA WorkerAttempts ==
  ASSUME IInv, AttemptsCounted, Worker
  PROVE  AttemptsCounted'
<1> USE WorkerKnows DEF AttemptsCounted, Go, Rest, OffJob
<1>0. attempts \in [Docs -> 0..MaxAttempts] /\ MaxAttempts \in Nat
  BY ConstantsAssumption DEF IInv, TypeInv, TypeOK, ConstantsAssumption
<1>1. CASE \/ Poll \/ NothingToLease \/ Open \/ Proceed \/ Interrupt \/ ParseRaw
           \/ DiscardFails \/ WriteArtifact \/ WriteIndex \/ WorkFails
           \/ DiscardArtifact \/ DiscardIndexed \/ MarkSource
  BY <1>1 DEF Poll, NothingToLease, Open, Proceed, Interrupt, ParseRaw, DiscardFails,
     WriteArtifact, WriteIndex, WorkFails, DiscardArtifact, DiscardIndexed, MarkSource, store
<1>2. CASE Lease
  BY <1>0, <1>2 DEF Lease, Leasable
<1>3. CASE TellJob
  BY <1>3 DEF TellJob, JobsTo, Tellable, JobIn
<1>4. CASE Finish \/ Fail \/ Settle
  BY <1>4 DEF Finish, Fail, Settle, JobsTo, JobIn
<1> QED
  BY <1>1, <1>2, <1>3, <1>4 DEF Worker

LEMMA Attempts == Spec => []AttemptsCounted
<1>1. Init => AttemptsCounted
  BY DEF Init, AttemptsCounted
<1>2. IInv /\ AttemptsCounted /\ [Next]_vars => AttemptsCounted'
  <2> SUFFICES ASSUME IInv, AttemptsCounted, [Next]_vars PROVE AttemptsCounted'
    OBVIOUS
  <2>1. ASSUME NEW c \in Clients, Handler(c) PROVE AttemptsCounted'
    BY <2>1, HandlerAttempts
  <2>2. CASE Worker
    BY <2>2, WorkerAttempts
  <2>3. CASE Restart
    BY <2>3, WorkerKnows DEF Restart, RecoveredJob, AttemptsCounted, work, IInv, Ownership, DownAtRest, OffJob
  <2>4. CASE UNCHANGED store /\ (UNCHANGED cur \/ cur' = 0)
    BY <2>4 DEF AttemptsCounted, store
  <2> QED
    BY <2>1, <2>2, <2>3, <2>4
       DEF Next, CreateBatch, Check, Stop, Exit, Crash, GoDown, Rest, vars, work
<1> QED
  BY <1>1, <1>2, Invariance, PTL DEF Spec

-----------------------------------------------------------------------------
(* Stages *)

\* A source is shown in a stage only while its job is under way or canceled; no
\* transaction ends a job and leaves the stage behind.
StageIsLive ==
  \A d \in Docs : source[d] \in Stages => job[d] \in {"pending", "running", "canceled"}

Staged == StageIsLive /\ StageIsOwned

\* A handler puts no source in a stage, and takes the stage away with the status
\* of the job, unless it cancels the job.
LEMMA HandlerStages ==
  ASSUME IInv, NEW c \in Clients, Handler(c), NEW d \in Docs, source'[d] \in Stages
  PROVE  source[d] \in Stages /\ job'[d] \in {job[d], "canceled"}
<1> USE DEF Handles, Stages
<1>0. /\ source \in [Docs -> SourceStatus] /\ job \in [Docs -> JobStatus]
      /\ req[c].op \in Holding \cup DocOps => req[c].on \in Docs
  BY RequestOn DEF IInv, TypeInv, TypeOK
<1>1. CASE \/ ImportRefused(c) \/ ImportDuplicate(c) \/ Seal(c) \/ Pause(c) \/ Resume(c)
           \/ DeleteIndexed(c) \/ DeleteArtifact(c) \/ DeleteRaw(c)
  BY <1>1 DEF ImportRefused, ImportDuplicate, Seal, Pause, Resume, DeleteIndexed,
     DeleteArtifact, DeleteRaw, store
<1>2. CASE ImportCopy(c) \/ ImportRecord(c) \/ ImportFails(c) \/ DeleteRow(c)
  BY <1>0, <1>2 DEF ImportCopy, ImportRecord, ImportFails, DeleteRow, Holding, Deleting
<1>3. CASE Cancel(c) \/ DeleteFails(c)
  BY <1>0, <1>3 DEF Cancel, DeleteFails, SourcesTo, JobsTo
<1>4. CASE Retry(c)
  <2>1. d # req[c].on
    BY <1>0, <1>4 DEF Retry, SourcesTo, HasRow, Unrecorded
  <2> QED
    BY <1>0, <1>4, <2>1 DEF Retry, SourcesTo, JobsTo
<1>5. CASE CancelBatch(c)
  BY <1>0, <1>5 DEF CancelBatch, SourcesTo, JobsTo
<1>6. CASE RetryBatch(c)
  <2>1. d \notin Of(req[c].on) \/ job'[d] # "pending"
    BY <1>0, <1>6 DEF RetryBatch, SourcesTo, HasRow, Unrecorded, Of
  <2> QED
    BY <1>0, <1>6, <2>1 DEF RetryBatch, SourcesTo, JobsTo
<1> QED
  BY <1>1, <1>2, <1>3, <1>4, <1>5, <1>6 DEF Handler

LEMMA WorkerStages ==
  ASSUME IInv, AttemptsCounted, Staged, Worker
  PROVE  Staged'
<1> USE WorkerKnows DEF Staged, StageIsLive, StageIsOwned, Go, Rest, OffJob
<1>0. /\ proc' = proc /\ proc # "down"
      /\ cur \in Docs /\ source[cur] \in Stages => job[cur] \in {"pending", "running", "canceled"}
      /\ cur \in Docs => job[cur] \notin {"succeeded", "failed"}
      /\ HasRow(cur) <=> source[cur] \notin Unrecorded
  BY DEF Worker, Poll, Lease, NothingToLease, Open, Proceed, Interrupt, MarkSource,
     TellJob, ParseRaw, WriteArtifact, WriteIndex, WorkFails, Finish, Fail,
     DiscardIndexed, DiscardArtifact, DiscardFails, Settle, Continue, AfterMark, AfterTell,
     IInv, Ownership, WorkerSource, AttemptsCounted, HasRow
<1>1. CASE \/ Poll \/ NothingToLease \/ Open \/ Proceed \/ Interrupt \/ ParseRaw
           \/ DiscardFails \/ WriteArtifact \/ WriteIndex \/ WorkFails
           \/ DiscardArtifact \/ DiscardIndexed
  BY <1>0, <1>1 DEF Poll, NothingToLease, Open, Proceed, Interrupt, ParseRaw, DiscardFails,
     WriteArtifact, WriteIndex, WorkFails, DiscardArtifact, DiscardIndexed, store
<1>2. CASE Lease
  BY <1>0, <1>2 DEF Lease, Leasable
<1>3. CASE MarkSource
  <2>1. cur \in Docs /\ UNCHANGED <<job, cur>>
    BY <1>3 DEF MarkSource, AfterMark
  <2>2. HasRow(cur) => job[cur] \in {"pending", "running", "canceled"}
    BY <1>0, <2>1 DEF JobStatus
  <2> QED
    BY <1>0, <1>3, <2>1, <2>2 DEF MarkSource, SourcesTo
<1>4. CASE TellJob
  BY <1>0, <1>4 DEF TellJob, JobsTo
<1>5. CASE Finish \/ Fail \/ Settle
  <2>1. cur \in Docs /\ source'[cur] \notin Stages
    BY <1>5 DEF Finish, Fail, Settle, SourcesTo, HasRow, Unrecorded, Stages
  <2>2. \A d \in Docs \ {cur} : source'[d] = source[d] /\ job'[d] = job[d]
    BY <1>5 DEF Finish, Fail, Settle, SourcesTo, JobsTo
  <2> QED
    BY <1>0, <2>1, <2>2
<1> QED
  BY <1>1, <1>2, <1>3, <1>4, <1>5 DEF Worker

LEMMA NextStages == IInv /\ AttemptsCounted /\ Staged /\ [Next]_vars => Staged'
<1> SUFFICES ASSUME IInv, AttemptsCounted, Staged, [Next]_vars PROVE Staged'
  OBVIOUS
<1> USE DEF Staged, StageIsLive, StageIsOwned
<1>1. ASSUME NEW c \in Clients, Handler(c) PROVE Staged'
  BY <1>1, HandlerStages, HandlerLeavesWorker
<1>2. CASE Worker
  BY <1>2, WorkerStages
<1>3. CASE Exit \/ Crash
  BY <1>3 DEF Exit, Crash, GoDown, store
<1>4. CASE Restart
  BY <1>4 DEF Restart, RecoveredJob, RecoveredSource, Stages
<1>5. CASE UNCHANGED <<source, job, cur>> /\ (UNCHANGED proc \/ proc = "up")
  BY <1>5
<1> QED
  BY <1>1, <1>2, <1>3, <1>4, <1>5
     DEF Next, CreateBatch, Check, Stop, vars, store, work

\* While the process lives, a source shown as parsing, chunking or embedding is
\* the one the worker has at hand, or its job was canceled: every last transaction
\* of a run and the recovery of a crashed one move the source out of its stage
\* (_set_source_status, _finish_job, recover_interrupted_jobs).
THEOREM StageOwned == Spec => []StageIsOwned
<1>1. Init => Staged
  BY DEF Init, Staged, StageIsLive, StageIsOwned, Stages
<1>2. Staged => StageIsOwned
  BY DEF Staged
<1> QED
  BY <1>1, <1>2, NextStages, Attempts, Invariance, PTL DEF Spec

-----------------------------------------------------------------------------
(* Interruptions *)

\* What the worker has discarded of the document at hand stays discarded until it
\* has settled the job.
Discarded ==
  cur # 0 /\ HasRow(cur) =>
      /\ pc \in {"unlink", "settle"} => cur \notin indexed
      /\ pc = "settle" => cur \notin artifacts

LEMMA HandlerWritesNothing ==
  ASSUME NEW c \in Clients, Handler(c)
  PROVE  artifacts' \subseteq artifacts /\ indexed' \subseteq indexed
  BY DEF Handler, files, ImportRefused, ImportDuplicate, ImportCopy, ImportRecord,
     ImportFails, Cancel, Retry, DeleteIndexed, DeleteArtifact, DeleteRaw, DeleteRow,
     DeleteFails, Seal, Pause, Resume, CancelBatch, RetryBatch

LEMMA NextDiscarded == IInv /\ Discarded /\ [Next]_vars => Discarded'
<1> SUFFICES ASSUME IInv, Discarded, [Next]_vars PROVE Discarded'
  OBVIOUS
<1> USE WorkerKnows DEF Discarded, OffJob
<1>1. ASSUME NEW c \in Clients, Handler(c) PROVE Discarded'
  <2>1. cur # 0 /\ HasRow(cur)' => HasRow(cur)
    BY <1>1, HandlerStatuses, HandlerLeavesWorker
       DEF IInv, Ownership, WorkerSource, HasRow
  <2> QED
    BY <1>1, <2>1, HandlerWritesNothing, HandlerLeavesWorker
<1>2. CASE Worker
  <2> USE DEF Go, Rest
  <2>1. CASE \/ Poll \/ NothingToLease \/ Open \/ Interrupt \/ ParseRaw \/ DiscardFails
             \/ WriteArtifact \/ WriteIndex \/ WorkFails \/ Lease
    BY <2>1 DEF Poll, AfterPoll, NothingToLease, Open, Interrupt, ParseRaw, DiscardFails,
       WriteArtifact, WriteIndex, WorkFails, Lease
  <2>2. CASE Proceed \/ MarkSource \/ TellJob
    <3>1. pc' \notin {"unlink", "settle"}
      BY <2>2 DEF Proceed, Continue, MarkSource, AfterMark, TellJob, AfterTell
    <3> QED
      BY <3>1
  <2>3. CASE DiscardIndexed \/ DiscardArtifact
    BY <2>3 DEF DiscardIndexed, DiscardArtifact, store, HasRow
  <2>4. CASE Finish \/ Fail \/ Settle
    BY <2>4 DEF Finish, Fail, Settle
  <2> QED
    BY <1>2, <2>1, <2>2, <2>3, <2>4 DEF Worker
<1>3. CASE Exit \/ Crash
  BY <1>3 DEF Exit, Crash, GoDown, Rest
<1>4. CASE Restart
  BY <1>4 DEF Restart, work, IInv, Ownership, DownAtRest
<1>5. CASE UNCHANGED <<source, artifacts, indexed, pc, cur>>
  BY <1>5 DEF HasRow
<1> QED
  BY <1>1, <1>2, <1>3, <1>4, <1>5
     DEF Next, CreateBatch, Check, Stop, vars, store, files, work

\* When the last transaction of an interruption commits, nothing the worker derived
\* from a document that still has its row is left: _discard_source_derivatives ran
\* first, and nothing wrote in between.
THEOREM SettledDiscarded == Spec => SettledIsDiscarded
<1> DEFINE Clean ==
      pc = "settle" /\ pc' = "idle" /\ proc' # "down" /\ HasRow(cur) =>
          cur \notin artifacts \cup indexed
<1>1. Init => Discarded
  BY DEF Init, Discarded
<1>2. IInv /\ Discarded => Clean
  BY WorkerKnows DEF Discarded, OffJob
<1> HIDE DEF Clean
<1>3. [][Next]_vars /\ []IInv /\ []Discarded => [][Clean]_vars
  BY <1>2, PTL
<1>4. [][Clean]_vars => SettledIsDiscarded
  BY DEF Clean, SettledIsDiscarded
<1> QED
  BY <1>1, <1>3, <1>4, NextDiscarded, Invariance, PTL DEF Spec

-----------------------------------------------------------------------------
(* Batches *)

Settled == {"succeeded", "failed", "canceled"}

LEMMA CountDisjoint ==
  ASSUME NEW S, IsFiniteSet(S), NEW T, IsFiniteSet(T), S \cap T = {}
  PROVE  IsFiniteSet(S \cup T) /\ Cardinality(S \cup T) = Cardinality(S) + Cardinality(T)
<1>1. Cardinality(S \cup T) = Cardinality(S) + Cardinality(T) - Cardinality({})
  BY FS_Union
<1> QED
  BY <1>1, FS_Union, FS_EmptySet, FS_CardinalityType

\* The three counts of get_import_batch cover the items exactly when every item's
\* job has ended.
LEMMA CountsCover ==
  ASSUME NEW b \in Batches
  PROVE  /\ Cardinality(ItemsOf(b)) \in Nat
         /\ \A status : CountOf(b, status) \in Nat
         /\ \A status : CountOf(b, status) = 0 => \A d \in ItemsOf(b) : job[d] # status
         /\ CountOf(b, "succeeded") + CountOf(b, "failed") + CountOf(b, "canceled")
              >= Cardinality(ItemsOf(b))
            <=> \A d \in ItemsOf(b) : job[d] \in Settled
<1> DEFINE S(status) == {d \in ItemsOf(b) : job[d] = status}
           A == S("succeeded")
           B == S("failed")
           C == S("canceled")
           T == A \cup B
           U == T \cup C
<1>1. IsFiniteSet(ItemsOf(b))
  <2>1. IsFiniteSet(Docs)
    BY FS_Interval, ConstantsAssumption DEF Docs, ConstantsAssumption
  <2> QED
    BY <2>1, FS_Subset DEF ItemsOf
<1>2. \A status : IsFiniteSet(S(status)) /\ Cardinality(S(status)) \in Nat
  BY <1>1, FS_Subset, FS_CardinalityType
<1>3. IsFiniteSet(T) /\ Cardinality(T) = Cardinality(A) + Cardinality(B)
  <2>1. A \cap B = {} /\ IsFiniteSet(A) /\ IsFiniteSet(B)
    BY <1>2
  <2> HIDE DEF A, B
  <2> QED
    BY <2>1, CountDisjoint
<1>4. IsFiniteSet(U) /\ Cardinality(U) = Cardinality(T) + Cardinality(C)
  <2>1. T \cap C = {} /\ IsFiniteSet(C)
    BY <1>2
  <2> HIDE DEF T, C
  <2> QED
    BY <1>3, <2>1, CountDisjoint
<1>5. Cardinality(U) >= Cardinality(ItemsOf(b)) <=> U = ItemsOf(b)
  <2>1. U \subseteq ItemsOf(b)
    OBVIOUS
  <2> QED
    BY <1>1, <1>4, <2>1, FS_Subset, FS_CardinalityType
<1>6. U = ItemsOf(b) <=> \A d \in ItemsOf(b) : job[d] \in Settled
  BY DEF Settled
<1>7. \A status : Cardinality(S(status)) = 0 => S(status) = {}
  BY <1>2, FS_EmptySet
<1>8. \A status : CountOf(b, status) = Cardinality(S(status))
  BY DEF CountOf
<1> HIDE DEF S, A, B, C, T, U
<1>9. \A status : S(status) = {} => \A d \in ItemsOf(b) : job[d] # status
  BY DEF S
<1> QED
  BY <1>1, <1>2, <1>3, <1>4, <1>5, <1>6, <1>7, <1>8, <1>9, FS_CardinalityType DEF A, B, C

\* A batch that reports success has only succeeded jobs; one that reports any end
\* has only ended jobs, and one under way has a job that has not ended.
Reports ==
  \A b \in Batches :
      /\ BatchStatus(b) = "succeeded" => \A d \in ItemsOf(b) : job[d] = "succeeded"
      /\ BatchStatus(b) \in Finished =>
            b \in sealed /\ \A d \in ItemsOf(b) : job[d] \in Settled
      /\ BatchStatus(b) = "processing" =>
            \E d \in ItemsOf(b) : job[d] \notin Settled

LEMMA StatusTells == TypeInv => Reports
<1> SUFFICES ASSUME TypeInv, NEW b \in Batches
             PROVE  /\ BatchStatus(b) = "succeeded" =>
                          \A d \in ItemsOf(b) : job[d] = "succeeded"
                    /\ BatchStatus(b) \in Finished =>
                          b \in sealed /\ \A d \in ItemsOf(b) : job[d] \in Settled
                    /\ BatchStatus(b) = "processing" =>
                          \E d \in ItemsOf(b) : job[d] \notin Settled
  BY DEF Reports
<1>1. dups[b] \in Nat
  BY ConstantsAssumption DEF TypeInv, TypeOK, ConstantsAssumption
<1>2. control[b] \in {"none", "active", "paused", "canceled"}
  BY DEF TypeInv, TypeOK
<1> DEFINE s == CountOf(b, "succeeded")
           f == CountOf(b, "failed")
           k == CountOf(b, "canceled")
           n == Cardinality(ItemsOf(b))
<1>3. s \in Nat /\ f \in Nat /\ k \in Nat /\ n \in Nat
  BY CountsCover
<1>4. BatchStatus(b) =
        IF control[b] \in {"canceled", "paused"} THEN control[b]
        ELSE IF b \notin sealed THEN "uploading"
        ELSE IF s + dups[b] + f + k < n + dups[b] THEN "processing"
        ELSE IF f = 0 /\ k = 0 /\ n + dups[b] = expected[b] THEN "succeeded"
        ELSE IF s > 0 \/ dups[b] > 0 THEN "partial"
        ELSE "failed"
  BY DEF BatchStatus
<1>5. s + f + k >= n <=> \A d \in ItemsOf(b) : job[d] \in Settled
  BY CountsCover
<1>6. /\ f = 0 => \A d \in ItemsOf(b) : job[d] # "failed"
      /\ k = 0 => \A d \in ItemsOf(b) : job[d] # "canceled"
  BY CountsCover
<1> HIDE DEF s, f, k, n
<1>7. BatchStatus(b) \in Finished => b \in sealed /\ s + f + k >= n
  BY <1>1, <1>2, <1>3, <1>4 DEF Finished
<1>8. BatchStatus(b) = "succeeded" => f = 0 /\ k = 0
  BY <1>1, <1>2, <1>3, <1>4
<1>9. BatchStatus(b) = "processing" => ~(s + f + k >= n)
  BY <1>1, <1>2, <1>3, <1>4
<1> QED
  BY <1>5, <1>6, <1>7, <1>8, <1>9 DEF Settled, Finished

Reopens(op) == op \in {"retry", "retryBatch", "record", "deleteRow"}

\* Only a retry, a recorded import or a deletion makes a job of a batch that has
\* not ended out of one that has, or out of none.
LEMMA HandlerReopens ==
  ASSUME IInv, NEW c \in Clients, Handler(c), ~Reopens(req[c].op), NEW d \in Docs
  PROVE  /\ job[d] \in Settled => job'[d] \in Settled
         /\ batchOf'[d] # batchOf[d] \/ source[d] \in {"unborn", "copied"} =>
               source'[d] \in {"unborn", "copied"}
<1> USE DEF Handles, Settled, Reopens
<1>1. CASE \/ ImportRefused(c) \/ ImportDuplicate(c) \/ Seal(c) \/ Pause(c) \/ Resume(c)
           \/ DeleteIndexed(c) \/ DeleteArtifact(c) \/ DeleteRaw(c)
  BY <1>1 DEF ImportRefused, ImportDuplicate, Seal, Pause, Resume, DeleteIndexed,
     DeleteArtifact, DeleteRaw, store
<1>2. CASE ImportCopy(c)
  BY <1>2 DEF ImportCopy, IInv, TypeInv, TypeOK
<1>3. CASE Cancel(c) \/ CancelBatch(c) \/ DeleteFails(c)
  BY <1>3 DEF Cancel, CancelBatch, DeleteFails, JobsTo, SourcesTo, HasRow, Unrecorded
<1>4. ~(ImportRecord(c) \/ ImportFails(c) \/ Retry(c) \/ RetryBatch(c) \/ DeleteRow(c))
  BY DEF ImportRecord, ImportFails, Retry, RetryBatch, DeleteRow
<1> QED
  BY <1>1, <1>2, <1>3, <1>4 DEF Handler

\* Nor does the worker, nor the recovery.
LEMMA WorkerReopensNone ==
  ASSUME IInv, AttemptsCounted, Worker \/ Restart, NEW d \in Docs
  PROVE  /\ job[d] \in Settled => job'[d] \in Settled
         /\ batchOf' = batchOf
         /\ source[d] \in {"unborn", "copied"} => source'[d] \in {"unborn", "copied"}
<1> USE WorkerKnows DEF Settled, OffJob
<1>0. /\ cur \in Docs => job[cur] \notin {"succeeded", "failed"}
      /\ source[d] \in {"unborn", "copied"} => ~HasRow(d) /\ job[d] = "none"
  BY DEF IInv, Ownership, WorkerSource, AttemptsCounted, RowsMatch, HasRow, Unrecorded
<1>1. CASE \/ Poll \/ NothingToLease \/ Open \/ Proceed \/ Interrupt \/ ParseRaw
           \/ DiscardFails \/ WriteArtifact \/ WriteIndex \/ WorkFails
           \/ DiscardArtifact \/ DiscardIndexed
  BY <1>1 DEF Poll, NothingToLease, Open, Proceed, Interrupt, ParseRaw, DiscardFails,
     WriteArtifact, WriteIndex, WorkFails, DiscardArtifact, DiscardIndexed, store
<1>2. CASE Lease
  BY <1>2 DEF Lease, Leasable
<1>3. CASE MarkSource
  BY <1>0, <1>3 DEF MarkSource, SourcesTo
<1>4. CASE TellJob
  <2>1. cur \in Docs
    BY <1>4 DEF TellJob, AfterTell
  <2> QED
    BY <1>0, <1>4, <2>1 DEF TellJob, JobsTo, Tellable, JobIn
<1>5. CASE Finish \/ Fail \/ Settle
  BY <1>0, <1>5 DEF Finish, Fail, Settle, JobsTo, JobIn, SourcesTo
<1>6. CASE Restart
  BY <1>0, <1>6 DEF Restart, RecoveredJob, RecoveredSource
<1> QED
  BY <1>1, <1>2, <1>3, <1>4, <1>5, <1>6 DEF Worker

\* A batch that was reported finished is reported as processing again only when a
\* retry, an import checked before the seal or a deletion of one of its documents
\* ends with this very step; neither the worker nor the recovery reopens it.
THEOREM FinishedBatchStays == Spec => FinishedBatchStaysFinished
<1> DEFINE Stays ==
      \A b \in Batches :
          BatchStatus(b) \in Finished /\ BatchStatus(b)' = "processing" =>
              \E c \in Clients : /\ req[c].op \in {"retry", "retryBatch", "record", "deleteRow"}
                                 /\ req'[c] = Idle
<1>0. TypeInv' => Reports'
  BY StatusTells, PTL
<1>1. IInv /\ AttemptsCounted /\ [Next]_vars => Stays
  <2> SUFFICES ASSUME IInv, AttemptsCounted, [Next]_vars, NEW b \in Batches,
                      BatchStatus(b) \in Finished, BatchStatus(b)' = "processing"
               PROVE  \E c \in Clients : Reopens(req[c].op) /\ req'[c] = Idle
    BY DEF Reopens
  <2>1. \A d \in ItemsOf(b) : job[d] \in Settled
    BY StatusTells DEF IInv, Reports
  <2>2. PICK d \in ItemsOf(b)' : job'[d] \notin Settled
    BY <1>0, NextType DEF IInv, Reports
  <2>3. d \in Docs /\ batchOf'[d] = b /\ source'[d] \notin {"unborn", "copied"}
    BY DEF ItemsOf
  <2>4. ~(/\ job[d] \in Settled => job'[d] \in Settled
          /\ batchOf'[d] # batchOf[d] \/ source[d] \in {"unborn", "copied"} =>
                source'[d] \in {"unborn", "copied"})
    BY <2>1, <2>2, <2>3 DEF ItemsOf
  <2>5. ~Worker /\ ~Restart /\ ~UNCHANGED store
    BY <2>3, <2>4, WorkerReopensNone DEF store
  <2>6. PICK c \in Clients : Handler(c)
    BY <2>5 DEF Next, CreateBatch, Check, Stop, Exit, Crash, GoDown, vars
  <2>7. Reopens(req[c].op)
    BY <2>3, <2>4, <2>6, HandlerReopens
  <2>8. req'[c] = Idle
    <3>1. \/ ImportRecord(c) \/ ImportFails(c) \/ Retry(c) \/ RetryBatch(c) \/ DeleteRow(c)
          \/ DeleteFails(c)
      BY <2>6, <2>7 DEF Handler, Handles, Reopens, ImportRefused, ImportDuplicate,
         ImportCopy, Cancel, DeleteIndexed, DeleteArtifact, DeleteRaw, Seal,
         Pause, Resume, CancelBatch
    <3>2. req' = [req EXCEPT ![c] = Idle] /\ req \in [Clients -> Request]
      BY <3>1 DEF ImportRecord, ImportFails, Retry, RetryBatch, DeleteRow, DeleteFails,
         Done, IInv, TypeInv, TypeOK
    <3> QED
      BY <3>2
  <2> QED
    BY <2>7, <2>8
<1> HIDE DEF Stays
<1>2. [][Next]_vars /\ []IInv /\ []AttemptsCounted => [][Stays]_vars
  BY <1>1, PTL
<1>3. [][Stays]_vars => FinishedBatchStaysFinished
  BY DEF Stays, FinishedBatchStaysFinished
<1> QED
  BY <1>2, <1>3, Invariance, Attempts, PTL DEF Spec

-----------------------------------------------------------------------------
(* SourceJobs implements JobLife *)

LEMMA HandlerImplements ==
  ASSUME IInv, AttemptsCounted, NEW c \in Clients, Handler(c)
  PROVE  [JL!Next]_JL!vars
<1> USE DEF Handles, JL!vars
<1>0. /\ job \in [Docs -> JobStatus] /\ attempts \in [Docs -> 0..MaxAttempts]
      /\ req[c].op \in DocOps \cup Holding => req[c].on \in Docs
      /\ \A d \in Docs : job[d] = "none" => attempts[d] = 0
  BY RequestOn DEF IInv, TypeInv, TypeOK, AttemptsCounted
<1>1. CASE \/ ImportRefused(c) \/ ImportDuplicate(c) \/ Seal(c) \/ Pause(c) \/ Resume(c)
           \/ DeleteIndexed(c) \/ DeleteArtifact(c) \/ DeleteRaw(c)
           \/ ImportCopy(c) \/ ImportFails(c)
  BY <1>1 DEF ImportRefused, ImportDuplicate, Seal, Pause, Resume, DeleteIndexed,
     DeleteArtifact, DeleteRaw, ImportCopy, ImportFails, store
<1>2. CASE ImportRecord(c)
  <2>1. req[c].on \in Docs /\ job[req[c].on] = "none"
    BY <1>0, <1>2 DEF ImportRecord, IInv, Locks, CopyWaits, RowsMatch, HasRow, Unrecorded,
       Holding
  <2>2. JL!Accept(req[c].on)
    BY <1>0, <1>2, <2>1 DEF ImportRecord, JL!Accept, JL!To
  <2> QED
    BY <2>1, <2>2 DEF JL!Next
<1>3. CASE Cancel(c) \/ DeleteFails(c)
  <2> DEFINE ds == {req[c].on} \cap JobIn({"pending", "running"})
  <2>1. CASE Cancel(c) \/ (DeleteFails(c) /\ job' = JobsTo(ds, "canceled"))
    <3>1. ds \in SUBSET Docs /\ JL!Cancel(ds)
      BY <1>3, <2>1 DEF Cancel, DeleteFails, JL!Cancel, JL!To, JobsTo, JobIn
    <3> QED
      BY <3>1 DEF JL!Next
  <2>2. CASE DeleteFails(c) /\ job' = job
    BY <2>2 DEF DeleteFails
  <2> QED
    BY <1>3, <2>1, <2>2 DEF DeleteFails
<1>4. CASE Retry(c)
  <2>1. req[c].on \in Docs
    BY <1>0, <1>4 DEF Retry, DocOps
  <2>2. CASE job[req[c].on] = "none"
    BY <1>0, <1>4, <2>1, <2>2 DEF Retry, JobsTo, JobIn
  <2>3. CASE job[req[c].on] # "none"
    <3>1. JL!RequeueLate(req[c].on)
      BY <1>4, <2>1, <2>3 DEF Retry, JL!RequeueLate, JL!To, JobsTo, JobIn
    <3> QED
      BY <2>1, <3>1 DEF JL!Next
  <2> QED
    BY <2>2, <2>3
<1>5. CASE DeleteRow(c)
  <2>1. req[c].on \in Docs
    BY <1>0, <1>5 DEF DeleteRow, Holding, Deleting
  <2>2. CASE job[req[c].on] = "none"
    BY <1>0, <1>5, <2>1, <2>2 DEF DeleteRow
  <2>3. CASE job[req[c].on] # "none"
    <3>1. JL!Remove(req[c].on)
      BY <1>0, <1>5, <2>1, <2>3 DEF DeleteRow, JL!Remove, JL!To
    <3> QED
      BY <2>1, <3>1 DEF JL!Next
  <2> QED
    BY <2>2, <2>3
<1>6. CASE CancelBatch(c)
  <2> DEFINE ds == Of(req[c].on) \cap JobIn({"pending", "running"})
  <2>1. ds \in SUBSET Docs /\ JL!Cancel(ds)
    BY <1>6 DEF CancelBatch, JL!Cancel, JL!To, JobsTo, JobIn, Of
  <2> QED
    BY <2>1 DEF JL!Next
<1>7. CASE RetryBatch(c)
  <2> DEFINE ds == {d \in Of(req[c].on) \cap JobIn({"failed", "canceled"}) :
                       attempts[d] < MaxAttempts}
  <2>1. ds \in SUBSET Docs /\ JL!Requeue(ds)
    BY <1>7 DEF RetryBatch, JL!Requeue, JL!To, JobsTo, JobIn, Of
  <2> QED
    BY <2>1 DEF JL!Next
<1> QED
  BY <1>1, <1>2, <1>3, <1>4, <1>5, <1>6, <1>7 DEF Handler

LEMMA WorkerImplements ==
  ASSUME IInv, AttemptsCounted, Worker
  PROVE  [JL!Next]_JL!vars
<1> USE WorkerKnows DEF JL!vars, OffJob
<1>0. /\ attempts \in [Docs -> 0..MaxAttempts] /\ MaxAttempts \in Nat
      /\ \A d \in Docs : job[d] = "running" => cur = d
      /\ cur # 0 =>
            /\ job[cur] \notin {"succeeded", "failed"}
            /\ job[cur] # "none" => attempts[cur] > 0
  <2>1. proc # "down"
    BY DEF Worker, Poll, Lease, NothingToLease, Open, Proceed, Interrupt, MarkSource,
       TellJob, ParseRaw, WriteArtifact, WriteIndex, WorkFails, Finish, Fail,
       DiscardIndexed, DiscardArtifact, DiscardFails, Settle, Continue, AfterMark, AfterTell
  <2>2. \A d \in Docs : job[d] = "running" => cur = d
    BY <2>1 DEF IInv, Ownership, RunningIsOwned
  <2>3. cur # 0 =>
           /\ job[cur] \notin {"succeeded", "failed"}
           /\ job[cur] # "none" => attempts[cur] > 0
    BY DEF IInv, Ownership, WorkerSource, AttemptsCounted
  <2> QED
    BY <2>2, <2>3, ConstantsAssumption DEF IInv, TypeInv, TypeOK, ConstantsAssumption
<1>1. CASE \/ Poll \/ NothingToLease \/ Open \/ Proceed \/ Interrupt \/ ParseRaw
           \/ DiscardFails \/ WriteArtifact \/ WriteIndex \/ WorkFails
           \/ DiscardArtifact \/ DiscardIndexed \/ MarkSource
  BY <1>1 DEF Poll, NothingToLease, Open, Proceed, Interrupt, ParseRaw, DiscardFails,
     WriteArtifact, WriteIndex, WorkFails, DiscardArtifact, DiscardIndexed, MarkSource, store
<1>2. CASE Lease
  <2> PICK d \in Docs : /\ Leasable(d)
                       /\ job' = [job EXCEPT ![d] = "running"]
                       /\ attempts' = [attempts EXCEPT ![d] = @ + 1]
    BY <1>2 DEF Lease
  <2>1. JL!Lease(d)
    BY <1>0, <1>2 DEF Lease, Leasable, JL!Lease, JL!NoneRunning, JL!To
  <2> QED
    BY <2>1 DEF JL!Next
<1>3. CASE TellJob
  <2>1. cur \in Docs
    BY <1>3 DEF TellJob, AfterTell
  <2>2. CASE job[cur] # "pending"
    <3>1. job' = job /\ attempts' = attempts
      BY <1>0, <1>3, <2>1, <2>2 DEF TellJob, JobsTo, Tellable, JobIn, JobStatus
    <3> QED
      BY <3>1
  <2>3. CASE job[cur] = "pending"
    <3>1. JL!Regain(cur)
      BY <1>0, <1>3, <2>1, <2>3
         DEF TellJob, JobsTo, Tellable, JobIn, JL!Regain, JL!To, JL!NoneRunning
    <3> QED
      BY <2>1, <3>1 DEF JL!Next
  <2> QED
    BY <2>2, <2>3
<1>4. CASE Finish \/ Fail \/ Settle
  <2>1. cur \in Docs
    BY <1>4 DEF Finish, Fail, Settle
  <2>2. CASE job' = job
    BY <1>4, <2>2 DEF Finish, Fail, Settle
  <2>3. CASE job' # job
    <3>1. job[cur] = "running"
      BY <1>4, <2>1, <2>3 DEF Finish, Fail, Settle, JobsTo, JobIn
    <3>2. JL!End(cur)
      BY <1>4, <2>1, <2>3, <3>1 DEF Finish, Fail, Settle, JobsTo, JobIn, JL!End, JL!To
    <3> QED
      BY <2>1, <3>2 DEF JL!Next
  <2> QED
    BY <2>2, <2>3
<1> QED
  BY <1>1, <1>2, <1>3, <1>4 DEF Worker

LEMMA StepImplements ==
  IInv /\ AttemptsCounted /\ [Next]_vars => [JL!Next]_JL!vars
<1> SUFFICES ASSUME IInv, AttemptsCounted, [Next]_vars PROVE [JL!Next]_JL!vars
  OBVIOUS
<1>1. ASSUME NEW c \in Clients, Handler(c) PROVE [JL!Next]_JL!vars
  BY <1>1, HandlerImplements
<1>2. CASE Worker
  BY <1>2, WorkerImplements
<1>3. CASE Restart
  <2>1. JL!Recover
    BY <1>3 DEF Restart, RecoveredJob, JL!Recover
  <2> QED
    BY <2>1 DEF JL!Next
<1>4. CASE UNCHANGED store
  BY <1>4 DEF store, JL!vars
<1> QED
  BY <1>1, <1>2, <1>3, <1>4 DEF Next, CreateBatch, Check, Stop, Exit, Crash, GoDown, vars

\* Whoever polls GET /jobs/{id} sees what JobLife promises: one job running at a time,
\* attempts within the limit, and no change of status that JobLife does not name,
\* through every race of handlers, worker, crash and recovery.
THEOREM Refinement == Spec => ImplementsJobLife
<1>1. Init => JL!Init
  BY DEF Init, JL!Init
<1> QED
  BY <1>1, StepImplements, Invariance, Attempts, PTL DEF Spec, ImplementsJobLife, JL!Spec
===============================================================================
