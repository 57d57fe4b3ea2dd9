--------------------------- MODULE IndexRebuildProofs ---------------------------
(* What holds of IndexRebuild for every number of sources, providers and clients. *)
EXTENDS IndexRebuild, TLAPS

-----------------------------------------------------------------------------
(* The inductive invariant. *)

InIndex == {"contract"} \cup Rebuilding \cup Opening

\* Who holds what, in which place, for which source.
Holding ==
    /\ \A a \in Actors : pc[a] \in InIndex => indexLock = a
    /\ pc[Worker] \in {"insert", "tell"} => indexLock = Worker
    /\ IF pc[Worker] = "idle" THEN Cur = None ELSE Cur \in Sources
    /\ pc[Worker] \in {"idle"} \cup InIndex \cup WorkerOnly
    /\ \A c \in Clients :
          /\ pc[c] \in {"query"} \cup Erasing => indexLock = c
          /\ pc[c] \in {"indexLock", "query"} \cup InIndex \cup Erasing \cup Removing => lock = c
          /\ pc[c] \notin WorkerOnly
          /\ pc[c] \in Erasing => Of(c) \in Sources
          /\ task[c].op = "delete" => Of(c) \in Sources

\* Without the directory there is no file.
Gone ==
    /\ ~dir => raw = {} /\ index = Absent /\ temp = Absent /\ ~manifest
    /\ ~listed => ~dir
    /\ \A c \in Clients : pc[c] = "dropLibrary" => ~dir
    /\ index.by \in {NoFile, Blank} => index.rows = {}
    /\ temp.by = NoFile => temp.rows = {}

\* A library that is being removed can only lose sources.
Dismantling == \A c \in Clients : pc[c] = "rmtree" => recorded \subseteq dismantled

\* What a rebuild has done, and has still to do.
Filling == \A a \in Actors : pc[a] \in {"fill", "swap"} /\ temp.by # NoFile =>
    /\ temp.by = provider
    /\ temp.rows \cup todo \subseteq recorded
    /\ ready \subseteq dismantled \cup todo \cup temp.rows
    /\ pc[a] = "swap" => todo = {}

Selecting == \A a \in Actors : pc[a] = "openTemp" =>
    /\ temp = Absent /\ ready \subseteq dismantled \cup todo
    /\ dir => todo \subseteq recorded

Complete == ready \subseteq dismantled \cup {Cur} \cup index.rows

\* Where the index holds every ready source: whoever built it, if there is a
\* manifest, and wherever the worker or a rebuild is about to write one.
Whole ==
    /\ manifest /\ index.by # Damaged => Complete
    /\ index.by \in {NoFile, Blank} => Complete
    /\ \A a \in Actors : pc[a] = "manifest" => Complete
    /\ pc[Worker] \in {"mark", "derive", "write", "insert", "tell"} \cup Opening => Complete

CurLost == Cur \in recorded => Cur \in dismantled
InFile  == index.by = provider /\ Cur \in index.rows

\* What the worker has written stays until it says so, unless it is deleted.
Stored ==
    /\ pc[Worker] \in {"open", "insert"} /\ index.by = NoFile => CurLost
    /\ pc[Worker] = "insert" => index.by \in {NoFile, provider}
    /\ pc[Worker] = "tell" => CurLost \/ InFile
    /\ pc[Worker] \in {"check", "finish"} =>
          \/ CurLost
          \/ InFile /\ manifest /\ \A a \in Actors : pc[a] \notin Rebuilding

IInv == TypeOK /\ Holding /\ Gone /\ Dismantling /\ Filling /\ Selecting /\ Whole /\ Stored

-----------------------------------------------------------------------------
(* One step.  The places, the files and the vocabulary of the actions are expanded *)
(* throughout; the invariants and the actions where they are used.                 *)

USE ConstantsAssumption
    DEF Absent, Accepts, Actors, Answers, At, Begin, Blank, Cur, Damaged, Else, Ends,
        Ensured, Enter, Erasing, Fault, Idle, InIndex, IndexFiles, Leave, Named,
        NoFile, NoThread, Of, Opened, Opening, Pcs, Raise, Rebuilding, Removed,
        Removing, StartOver, Steps, To, ToldInSection, WorkerOnly, budget, files, rows,
        threads

\* Only `Holding' says that a deletion and the worker have a source in hand.
LEMMA TypeStep == ASSUME TypeOK, Holding, [Next]_vars PROVE TypeOK'
<1> USE DEF TypeOK, Holding
<1>1. ASSUME NEW s \in Sources, Import(s) \/ Retry(s) \/ Cancel(s)
      PROVE  TypeOK'
  BY <1>1 DEF Import, Retry, Cancel
<1>2. ASSUME NEW c \in Clients,
            \/ Search(c) \/ DeleteSource(c) \/ DeleteLibrary(c)
            \/ TakeLock(c) \/ TakeIndexLock(c) \/ Query(c)
      PROVE  TypeOK'
  BY <1>2 DEF Search, DeleteSource, DeleteLibrary, TakeLock, TakeIndexLock, Query
<1>3. ASSUME NEW a \in Actors,
            \/ ContractMet(a) \/ Rebuild(a) \/ OpenTemp(a) \/ Fill(a)
            \/ Filled(a) \/ Swap(a) \/ WriteManifest(a) \/ RebuildFails(a)
      PROVE  TypeOK'
  <2>1. CASE ContractMet(a) \/ Rebuild(a) \/ OpenTemp(a) \/ Fill(a)
    BY <2>1 DEF ContractMet, Rebuild, OpenTemp, Fill
  <2>2. CASE Filled(a) \/ Swap(a)
    BY <2>2 DEF Filled, Swap
  <2>3. CASE WriteManifest(a)
    BY <2>3 DEF WriteManifest
  <2>4. CASE RebuildFails(a)
    BY <2>4 DEF RebuildFails
  <2> QED
    BY <1>3, <2>1, <2>2, <2>3, <2>4
<1>4. ASSUME NEW a \in Actors, Create(a) \/ Open(a) \/ OpenFails(a)
      PROVE  TypeOK'
  BY <1>4 DEF Create, Open, OpenFails
<1>5. ASSUME NEW c \in Clients, Erase(c) \/ Unlink(c) \/ Drop(c) \/ EraseFails(c)
      PROVE  TypeOK'
  BY <1>5 DEF Erase, Unlink, Drop, EraseFails
<1>6. ASSUME NEW c \in Clients,
            \/ Rmtree(c) \/ Rmdir(c)
            \/ RmtreeFails(c) \/ DropLibrary(c)
      PROVE  TypeOK'
  <2>1. listed' \in BOOLEAN /\ dir' \in BOOLEAN /\ manifest' \in BOOLEAN
    BY <1>6, Zenon DEF Rmtree, Rmdir, RmtreeFails, DropLibrary
  <2> QED
    BY <1>6, <2>1 DEF Rmtree, Rmdir, RmtreeFails, DropLibrary
<1>7. CASE Lease \/ Look \/ Ensure \/ Mark \/ Derive \/ Write
  BY <1>7 DEF Lease, Look, Ensure, Mark, Derive, Write
<1>8. CASE Insert \/ Tell \/ Check \/ Finish \/ WorkFails
  <2>1. CASE Insert
    BY <2>1 DEF Insert
  <2>2. CASE Tell
    BY <2>2 DEF Tell
  <2>3. CASE Check \/ Finish \/ WorkFails
    BY <2>3 DEF Check, Finish, WorkFails
  <2> QED
    BY <1>8, <2>1, <2>2, <2>3
<1>9. CASE Fail \/ Interrupt \/ Discard \/ DiscardFails \/ Settle
  BY <1>9 DEF Fail, Interrupt, Discard, DiscardFails, Settle
<1>10. CASE Restart
  BY <1>10 DEF Restart
<1>11. CASE UNCHANGED vars
  BY <1>11 DEF vars
<1> QED
  BY <1>1, <1>2, <1>3, <1>4, <1>5, <1>6, <1>7, <1>8, <1>9, <1>10, <1>11
     DEF Next, Handler, Ensuring, Deleting, Work

\* A lock is taken when it is free, and left only by its holder or with the process.
LEMMA HoldingStep == ASSUME TypeOK, Holding, [Next]_vars PROVE Holding'
<1> USE DEF TypeOK, Holding
<1>1. ASSUME NEW s \in Sources, Import(s) \/ Retry(s) \/ Cancel(s)
      PROVE  Holding'
  BY <1>1 DEF Import, Retry, Cancel
<1>2. ASSUME NEW c \in Clients,
            \/ Search(c) \/ DeleteSource(c) \/ DeleteLibrary(c)
            \/ TakeLock(c) \/ TakeIndexLock(c) \/ Query(c)
      PROVE  Holding'
  BY <1>2 DEF Search, DeleteSource, DeleteLibrary, TakeLock, TakeIndexLock, Query
<1>3. ASSUME NEW a \in Actors,
            \/ ContractMet(a) \/ Rebuild(a) \/ OpenTemp(a) \/ Fill(a)
            \/ Filled(a) \/ Swap(a) \/ WriteManifest(a) \/ RebuildFails(a)
      PROVE  Holding'
  BY <1>3 DEF ContractMet, Rebuild, OpenTemp, Fill, Filled, Swap, WriteManifest,
              RebuildFails
<1>4. ASSUME NEW a \in Actors, Create(a) \/ Open(a) \/ OpenFails(a)
      PROVE  Holding'
  BY <1>4 DEF Create, Open, OpenFails
<1>5. ASSUME NEW c \in Clients, Erase(c) \/ Unlink(c) \/ Drop(c) \/ EraseFails(c)
      PROVE  Holding'
  BY <1>5 DEF Erase, Unlink, Drop, EraseFails
<1>6. ASSUME NEW c \in Clients,
            \/ Rmtree(c) \/ Rmdir(c)
            \/ RmtreeFails(c) \/ DropLibrary(c)
      PROVE  Holding'
  BY <1>6 DEF Rmtree, Rmdir, RmtreeFails, DropLibrary
<1>7. CASE Lease \/ Look \/ Ensure \/ Mark \/ Derive \/ Write
  BY <1>7 DEF Lease, Look, Ensure, Mark, Derive, Write
<1>8. CASE Insert \/ Tell \/ Check \/ Finish \/ WorkFails
  BY <1>8 DEF Insert, Tell, Check, Finish, WorkFails
<1>9. CASE Fail \/ Interrupt \/ Discard \/ DiscardFails \/ Settle
  BY <1>9 DEF Fail, Interrupt, Discard, DiscardFails, Settle
<1>10. CASE Restart
  BY <1>10 DEF Restart
<1>11. CASE UNCHANGED vars
  BY <1>11 DEF vars
<1> QED
  BY <1>1, <1>2, <1>3, <1>4, <1>5, <1>6, <1>7, <1>8, <1>9, <1>10, <1>11
     DEF Next, Handler, Ensuring, Deleting, Work

\* The only files made where no file was are the rebuild's and the created index, both
\* behind a look at the directory.
LEMMA GoneStep == ASSUME TypeOK, Holding, Gone, Filling, Stored, [Next]_vars PROVE Gone'
<1> USE DEF TypeOK, Holding, Gone, Filling, Stored, CurLost, InFile
<1>1. ASSUME NEW s \in Sources, Import(s) \/ Retry(s) \/ Cancel(s)
      PROVE  Gone'
  BY <1>1 DEF Import, Retry, Cancel
<1>2. ASSUME NEW c \in Clients,
            \/ Search(c) \/ DeleteSource(c) \/ DeleteLibrary(c)
            \/ TakeLock(c) \/ TakeIndexLock(c) \/ Query(c)
      PROVE  Gone'
  BY <1>2 DEF Search, DeleteSource, DeleteLibrary, TakeLock, TakeIndexLock, Query
<1>3. ASSUME NEW a \in Actors,
            \/ ContractMet(a) \/ Rebuild(a) \/ OpenTemp(a) \/ Fill(a)
            \/ Filled(a) \/ Swap(a) \/ WriteManifest(a) \/ RebuildFails(a)
      PROVE  Gone'
  BY <1>3 DEF ContractMet, Rebuild, OpenTemp, Fill, Filled, Swap, WriteManifest,
              RebuildFails
<1>4. ASSUME NEW a \in Actors, Create(a) \/ Open(a) \/ OpenFails(a)
      PROVE  Gone'
  BY <1>4 DEF Create, Open, OpenFails
<1>5. ASSUME NEW c \in Clients, Erase(c) \/ Unlink(c) \/ Drop(c) \/ EraseFails(c)
      PROVE  Gone'
  BY <1>5 DEF Erase, Unlink, Drop, EraseFails
<1>6. ASSUME NEW c \in Clients,
            \/ Rmtree(c) \/ Rmdir(c)
            \/ RmtreeFails(c) \/ DropLibrary(c)
      PROVE  Gone'
  BY <1>6 DEF Rmtree, Rmdir, RmtreeFails, DropLibrary
<1>7. CASE Lease \/ Look \/ Ensure \/ Mark \/ Derive \/ Write
  BY <1>7 DEF Lease, Look, Ensure, Mark, Derive, Write
<1>8. CASE Insert \/ Tell \/ Check \/ Finish \/ WorkFails
  BY <1>8 DEF Insert, Tell, Check, Finish, WorkFails
<1>9. CASE Fail \/ Interrupt \/ Discard \/ DiscardFails \/ Settle
  BY <1>9 DEF Fail, Interrupt, Discard, DiscardFails, Settle
<1>10. CASE Restart
  BY <1>10 DEF Restart
<1>11. CASE UNCHANGED vars
  BY <1>11 DEF vars
<1> QED
  BY <1>1, <1>2, <1>3, <1>4, <1>5, <1>6, <1>7, <1>8, <1>9, <1>10, <1>11
     DEF Next, Handler, Ensuring, Deleting, Work

\* An import needs `_lock', which the deletion of the library holds.
LEMMA DismantlingStep == ASSUME TypeOK, Holding, Dismantling, [Next]_vars PROVE Dismantling'
<1> USE DEF TypeOK, Holding, Dismantling
<1>1. ASSUME NEW s \in Sources, Import(s) \/ Retry(s) \/ Cancel(s)
      PROVE  Dismantling'
  BY <1>1 DEF Import, Retry, Cancel
<1>2. ASSUME NEW c \in Clients,
            \/ Search(c) \/ DeleteSource(c) \/ DeleteLibrary(c)
            \/ TakeLock(c) \/ TakeIndexLock(c) \/ Query(c)
      PROVE  Dismantling'
  BY <1>2 DEF Search, DeleteSource, DeleteLibrary, TakeLock, TakeIndexLock, Query
<1>3. ASSUME NEW a \in Actors,
            \/ ContractMet(a) \/ Rebuild(a) \/ OpenTemp(a) \/ Fill(a)
            \/ Filled(a) \/ Swap(a) \/ WriteManifest(a) \/ RebuildFails(a)
      PROVE  Dismantling'
  BY <1>3 DEF ContractMet, Rebuild, OpenTemp, Fill, Filled, Swap, WriteManifest,
              RebuildFails
<1>4. ASSUME NEW a \in Actors, Create(a) \/ Open(a) \/ OpenFails(a)
      PROVE  Dismantling'
  BY <1>4 DEF Create, Open, OpenFails
<1>5. ASSUME NEW c \in Clients, Erase(c) \/ Unlink(c) \/ Drop(c) \/ EraseFails(c)
      PROVE  Dismantling'
  BY <1>5 DEF Erase, Unlink, Drop, EraseFails
<1>6. ASSUME NEW c \in Clients,
            \/ Rmtree(c) \/ Rmdir(c)
            \/ RmtreeFails(c) \/ DropLibrary(c)
      PROVE  Dismantling'
  BY <1>6 DEF Rmtree, Rmdir, RmtreeFails, DropLibrary
<1>7. CASE Lease \/ Look \/ Ensure \/ Mark \/ Derive \/ Write
  BY <1>7 DEF Lease, Look, Ensure, Mark, Derive, Write
<1>8. CASE Insert \/ Tell \/ Check \/ Finish \/ WorkFails
  BY <1>8 DEF Insert, Tell, Check, Finish, WorkFails
<1>9. CASE Fail \/ Interrupt \/ Discard \/ DiscardFails \/ Settle
  BY <1>9 DEF Fail, Interrupt, Discard, DiscardFails, Settle
<1>10. CASE Restart
  BY <1>10 DEF Restart
<1>11. CASE UNCHANGED vars
  BY <1>11 DEF vars
<1> QED
  BY <1>1, <1>2, <1>3, <1>4, <1>5, <1>6, <1>7, <1>8, <1>9, <1>10, <1>11
     DEF Next, Handler, Ensuring, Deleting, Work

\* The rebuild of a request holds `_lock': no source comes, goes or becomes ready beside
\* it.  The worker's holds `_index_lock' alone, but only the worker makes sources ready,
\* and a library that is dropped beside it has no file left to be swapped in.
LEMMA FillingStep == ASSUME TypeOK, Holding, Gone, Dismantling, Filling, Selecting,
                            [Next]_vars PROVE Filling'
<1> USE DEF TypeOK, Holding, Gone, Dismantling, Filling, Selecting
<1>1. ASSUME NEW s \in Sources, Import(s) \/ Retry(s) \/ Cancel(s)
      PROVE  Filling'
  BY <1>1 DEF Import, Retry, Cancel
<1>2. ASSUME NEW c \in Clients,
            \/ Search(c) \/ DeleteSource(c) \/ DeleteLibrary(c)
            \/ TakeLock(c) \/ TakeIndexLock(c) \/ Query(c)
      PROVE  Filling'
  BY <1>2 DEF Search, DeleteSource, DeleteLibrary, TakeLock, TakeIndexLock, Query
<1>3. ASSUME NEW a \in Actors,
            \/ ContractMet(a) \/ Rebuild(a) \/ OpenTemp(a) \/ Fill(a)
            \/ Filled(a) \/ Swap(a) \/ WriteManifest(a) \/ RebuildFails(a)
      PROVE  Filling'
  BY <1>3 DEF ContractMet, Rebuild, OpenTemp, Fill, Filled, Swap, WriteManifest,
              RebuildFails
<1>4. ASSUME NEW a \in Actors, Create(a) \/ Open(a) \/ OpenFails(a)
      PROVE  Filling'
  BY <1>4 DEF Create, Open, OpenFails
<1>5. ASSUME NEW c \in Clients, Erase(c) \/ Unlink(c) \/ Drop(c) \/ EraseFails(c)
      PROVE  Filling'
  BY <1>5 DEF Erase, Unlink, Drop, EraseFails
<1>6. ASSUME NEW c \in Clients,
            \/ Rmtree(c) \/ Rmdir(c)
            \/ RmtreeFails(c) \/ DropLibrary(c)
      PROVE  Filling'
  BY <1>6 DEF Rmtree, Rmdir, RmtreeFails, DropLibrary
<1>7. CASE Lease \/ Look \/ Ensure \/ Mark \/ Derive \/ Write
  BY <1>7 DEF Lease, Look, Ensure, Mark, Derive, Write
<1>8. CASE Insert \/ Tell \/ Check \/ Finish \/ WorkFails
  BY <1>8 DEF Insert, Tell, Check, Finish, WorkFails
<1>9. CASE Fail \/ Interrupt \/ Discard \/ DiscardFails \/ Settle
  BY <1>9 DEF Fail, Interrupt, Discard, DiscardFails, Settle
<1>10. CASE Restart
  BY <1>10 DEF Restart
<1>11. CASE UNCHANGED vars
  BY <1>11 DEF vars
<1> QED
  BY <1>1, <1>2, <1>3, <1>4, <1>5, <1>6, <1>7, <1>8, <1>9, <1>10, <1>11
     DEF Next, Handler, Ensuring, Deleting, Work

\* The same before the new file is opened.
LEMMA SelectingStep == ASSUME TypeOK, Holding, Gone, Dismantling, Selecting,
                              [Next]_vars PROVE Selecting'
<1> USE DEF TypeOK, Holding, Gone, Dismantling, Selecting
<1>1. ASSUME NEW s \in Sources, Import(s) \/ Retry(s) \/ Cancel(s)
      PROVE  Selecting'
  BY <1>1 DEF Import, Retry, Cancel
<1>2. ASSUME NEW c \in Clients,
            \/ Search(c) \/ DeleteSource(c) \/ DeleteLibrary(c)
            \/ TakeLock(c) \/ TakeIndexLock(c) \/ Query(c)
      PROVE  Selecting'
  BY <1>2 DEF Search, DeleteSource, DeleteLibrary, TakeLock, TakeIndexLock, Query
<1>3. ASSUME NEW a \in Actors,
            \/ ContractMet(a) \/ Rebuild(a) \/ OpenTemp(a) \/ Fill(a)
            \/ Filled(a) \/ Swap(a) \/ WriteManifest(a) \/ RebuildFails(a)
      PROVE  Selecting'
  BY <1>3 DEF ContractMet, Rebuild, OpenTemp, Fill, Filled, Swap, WriteManifest,
              RebuildFails
<1>4. ASSUME NEW a \in Actors, Create(a) \/ Open(a) \/ OpenFails(a)
      PROVE  Selecting'
  BY <1>4 DEF Create, Open, OpenFails
<1>5. ASSUME NEW c \in Clients, Erase(c) \/ Unlink(c) \/ Drop(c) \/ EraseFails(c)
      PROVE  Selecting'
  BY <1>5 DEF Erase, Unlink, Drop, EraseFails
<1>6. ASSUME NEW c \in Clients,
            \/ Rmtree(c) \/ Rmdir(c)
            \/ RmtreeFails(c) \/ DropLibrary(c)
      PROVE  Selecting'
  BY <1>6 DEF Rmtree, Rmdir, RmtreeFails, DropLibrary
<1>7. CASE Lease \/ Look \/ Ensure \/ Mark \/ Derive \/ Write
  BY <1>7 DEF Lease, Look, Ensure, Mark, Derive, Write
<1>8. CASE Insert \/ Tell \/ Check \/ Finish \/ WorkFails
  BY <1>8 DEF Insert, Tell, Check, Finish, WorkFails
<1>9. CASE Fail \/ Interrupt \/ Discard \/ DiscardFails \/ Settle
  BY <1>9 DEF Fail, Interrupt, Discard, DiscardFails, Settle
<1>10. CASE Restart
  BY <1>10 DEF Restart
<1>11. CASE UNCHANGED vars
  BY <1>11 DEF vars
<1> QED
  BY <1>1, <1>2, <1>3, <1>4, <1>5, <1>6, <1>7, <1>8, <1>9, <1>10, <1>11
     DEF Next, Handler, Ensuring, Deleting, Work

\* A source becomes ready where the worker has stored it, and a manifest is written where
\* a rebuild has filled the index or the worker has ensured it.
LEMMA WholeStep == ASSUME TypeOK, Holding, Gone, Dismantling, Filling, Whole, Stored,
                          [Next]_vars PROVE Whole'
<1> USE DEF TypeOK, Holding, Gone, Dismantling, Filling, Whole, Stored, Complete,
            CurLost, InFile
<1>1. ASSUME NEW s \in Sources, Import(s) \/ Retry(s) \/ Cancel(s)
      PROVE  Whole'
  BY <1>1 DEF Import, Retry, Cancel
<1>2. ASSUME NEW c \in Clients,
            \/ Search(c) \/ DeleteSource(c) \/ DeleteLibrary(c)
            \/ TakeLock(c) \/ TakeIndexLock(c) \/ Query(c)
      PROVE  Whole'
  BY <1>2 DEF Search, DeleteSource, DeleteLibrary, TakeLock, TakeIndexLock, Query
<1>3. ASSUME NEW a \in Actors,
            \/ ContractMet(a) \/ Rebuild(a) \/ OpenTemp(a) \/ Fill(a)
            \/ Filled(a) \/ Swap(a) \/ WriteManifest(a) \/ RebuildFails(a)
      PROVE  Whole'
  BY <1>3 DEF ContractMet, Rebuild, OpenTemp, Fill, Filled, Swap, WriteManifest,
              RebuildFails
<1>4. ASSUME NEW a \in Actors, Create(a) \/ Open(a) \/ OpenFails(a)
      PROVE  Whole'
  BY <1>4 DEF Create, Open, OpenFails
<1>5. ASSUME NEW c \in Clients, Erase(c) \/ Unlink(c) \/ Drop(c) \/ EraseFails(c)
      PROVE  Whole'
  BY <1>5 DEF Erase, Unlink, Drop, EraseFails
<1>6. ASSUME NEW c \in Clients,
            \/ Rmtree(c) \/ Rmdir(c)
            \/ RmtreeFails(c) \/ DropLibrary(c)
      PROVE  Whole'
  BY <1>6 DEF Rmtree, Rmdir, RmtreeFails, DropLibrary
<1>7. CASE Lease \/ Look \/ Ensure \/ Mark \/ Derive \/ Write
  BY <1>7 DEF Lease, Look, Ensure, Mark, Derive, Write
<1>8. CASE Insert \/ Tell \/ Check \/ Finish \/ WorkFails
  BY <1>8 DEF Insert, Tell, Check, Finish, WorkFails
<1>9. CASE Fail \/ Interrupt \/ Discard \/ DiscardFails \/ Settle
  BY <1>9 DEF Fail, Interrupt, Discard, DiscardFails, Settle
<1>10. CASE Restart
  BY <1>10 DEF Restart
<1>11. CASE UNCHANGED vars
  BY <1>11 DEF vars
<1> QED
  BY <1>1, <1>2, <1>3, <1>4, <1>5, <1>6, <1>7, <1>8, <1>9, <1>10, <1>11
     DEF Next, Handler, Ensuring, Deleting, Work

\* The index lock is held from the insertion to the manifest; after that only a rebuild
\* replaces the file, and none begins while index and manifest are in order.
LEMMA StoredStep == ASSUME TypeOK, Holding, Gone, Dismantling, Filling, Whole, Stored,
                           [Next]_vars PROVE Stored'
<1> USE DEF TypeOK, Holding, Gone, Dismantling, Filling, Whole, Stored, Complete,
            CurLost, InFile
<1>1. ASSUME NEW s \in Sources, Import(s) \/ Retry(s) \/ Cancel(s)
      PROVE  Stored'
  BY <1>1 DEF Import, Retry, Cancel
<1>2. ASSUME NEW c \in Clients,
            \/ Search(c) \/ DeleteSource(c) \/ DeleteLibrary(c)
            \/ TakeLock(c) \/ TakeIndexLock(c) \/ Query(c)
      PROVE  Stored'
  BY <1>2 DEF Search, DeleteSource, DeleteLibrary, TakeLock, TakeIndexLock, Query
<1>3. ASSUME NEW a \in Actors,
            \/ ContractMet(a) \/ Rebuild(a) \/ OpenTemp(a) \/ Fill(a)
            \/ Filled(a) \/ Swap(a) \/ WriteManifest(a) \/ RebuildFails(a)
      PROVE  Stored'
  BY <1>3 DEF ContractMet, Rebuild, OpenTemp, Fill, Filled, Swap, WriteManifest,
              RebuildFails
<1>4. ASSUME NEW a \in Actors, Create(a) \/ Open(a) \/ OpenFails(a)
      PROVE  Stored'
  BY <1>4 DEF Create, Open, OpenFails
<1>5. ASSUME NEW c \in Clients, Erase(c) \/ Unlink(c) \/ Drop(c) \/ EraseFails(c)
      PROVE  Stored'
  BY <1>5 DEF Erase, Unlink, Drop, EraseFails
<1>6. ASSUME NEW c \in Clients,
            \/ Rmtree(c) \/ Rmdir(c)
            \/ RmtreeFails(c) \/ DropLibrary(c)
      PROVE  Stored'
  BY <1>6 DEF Rmtree, Rmdir, RmtreeFails, DropLibrary
<1>7. CASE Lease \/ Look \/ Ensure \/ Mark \/ Derive \/ Write
  BY <1>7 DEF Lease, Look, Ensure, Mark, Derive, Write
<1>8. CASE Insert \/ Tell \/ Check \/ Finish \/ WorkFails
  BY <1>8 DEF Insert, Tell, Check, Finish, WorkFails
<1>9. CASE Fail \/ Interrupt \/ Discard \/ DiscardFails \/ Settle
  BY <1>9 DEF Fail, Interrupt, Discard, DiscardFails, Settle
<1>10. CASE Restart
  BY <1>10 DEF Restart
<1>11. CASE UNCHANGED vars
  BY <1>11 DEF vars
<1> QED
  BY <1>1, <1>2, <1>3, <1>4, <1>5, <1>6, <1>7, <1>8, <1>9, <1>10, <1>11
     DEF Next, Handler, Ensuring, Deleting, Work


LEMMA InitInv == Init => IInv
<1> USE DEF Init
<1>1. Init => TypeOK
  <2>1. Init => listed \in BOOLEAN /\ dir \in BOOLEAN /\ manifest \in BOOLEAN
    BY Zenon
  <2> QED
    BY <2>1 DEF TypeOK
<1>2. Init => Holding /\ Gone /\ Dismantling
  BY DEF Holding, Gone, Dismantling
<1>3. Init => Filling /\ Selecting /\ Stored
  BY DEF Filling, Selecting, Stored
<1>4. Init => Whole
  BY DEF Whole, Complete
<1> QED
  BY <1>1, <1>2, <1>3, <1>4 DEF IInv

LEMMA Invariance == Spec => []IInv
<1>1. IInv /\ [Next]_vars => IInv'
  BY TypeStep, HoldingStep, GoneStep, DismantlingStep, FillingStep, SelectingStep,
     WholeStep, StoredStep DEF IInv
<1> QED
  BY InitInv, <1>1, PTL DEF Spec

\* Every reachable state is well typed.
THEOREM TypeCorrect == Spec => []TypeOK
  BY Invariance, PTL DEF IInv

\* An index that answers without a rebuild has every ready source, for every number of
\* sources, clients and restarts and through every kill, fault and change of provider.
THEOREM AnswersComplete == Spec => []AnswersAreComplete
<1>1. IInv => AnswersAreComplete
  BY DEF IInv, TypeOK, Whole, Complete, AnswersAreComplete
<1> QED
  BY Invariance, <1>1, PTL

\* A rebuild replaces the active index only with one that is its own, whole, and has
\* nothing of a source that is gone.
THEOREM SwapExact == Spec => []SwapIsExact
<1>1. IInv => SwapIsExact
  BY DEF IInv, Filling, SwapIsExact
<1> QED
  BY Invariance, <1>1, PTL

\* Nothing is left of a deleted library, and nothing comes back.
THEOREM GoneErased == Spec => []GoneIsErased
<1>1. IInv => GoneIsErased
  BY DEF IInv, Gone, GoneIsErased
<1> QED
  BY Invariance, <1>1, PTL
====================================================================================
