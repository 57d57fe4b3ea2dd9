-------------------------- MODULE BackupRestoreProofs --------------------------
(* What holds of BackupRestore for every number of versions, faults and kills. *)
EXTENDS BackupRestore, TLAPS

-----------------------------------------------------------------------------
(* The inductive invariant. *)

\* The marker stays for as long as the switch is not complete; what is in the
\* directory matters only when there is none, or when Core runs.
Complete ==
    /\ pc \in Moving \cup Undoing => marker # NoBackup
    /\ pc = "open" => marker = NoBackup
    /\ marker = NoBackup \/ pc = "up" => Holds(root, data)

\* How far the switch has come.
Progress ==
    /\ pc \in {"moveLibraries", "placeDb", "placeLibraries", "check", "unmark"} =>
          root["wal"] = None
    /\ pc \in {"placeLibraries", "check", "unmark"} => root["db"] = marker.of
    /\ pc \in {"check", "unmark"} =>
          root["libraries"] = marker.of /\ root["text"] = marker.text

\* A handler runs only in a running Core, and has archived what is there.
Handler ==
    /\ request # Idle => pc = "up"
    /\ request.op = "mark" => \E b \in archives : b.of = data

\* The source is not ready while the worker has it, and has its text when the worker
\* has written it.
Worker ==
    /\ worker # "free" => pc = "up" /\ data \notin ready
    /\ worker = "written" => root["text"] = Whole

\* A backup is of a version written before it, with the text of the source if the
\* source is ready in that version: no later change is given that version's number.
Sound(b) == b.of <= latest /\ Fits(b.of, b.text)
Backed ==
    /\ \A b \in archives : Sound(b)
    /\ request # Idle => Sound(request.on)
    /\ marker # NoBackup => Sound(marker)
    /\ data <= latest /\ \A v \in ready : v <= latest

IInv == TypeOK /\ Complete /\ Progress /\ Handler /\ Worker /\ Backed

LEMMA Constants ==
  /\ MaxVersion \in Nat /\ 1 \in Versions /\ Versions \subseteq Nat \ {0}
  /\ MaxFaults \in Nat /\ MaxCrashes \in Nat
  /\ NoBackup \notin Backups
  /\ Versions \subseteq Contents /\ {None, Base, Torn, Whole} \subseteq Contents
  /\ Empty \in Stores
  /\ Idle.op = "none"
  BY ConstantsAssumption
     DEF ConstantsAssumption, Files, Stores, Texts, Versions, None, Base, Torn, Whole, Empty, Contents, Backups,
         NoBackup, Idle

LEMMA InitInv == Init => IInv
<1> SUFFICES ASSUME Init PROVE IInv
  OBVIOUS
<1>0. root = [db |-> Base, wal |-> 1, libraries |-> 1, text |-> root["text"]]
      /\ root["text"] \in {None, Whole} /\ (1 \in ready => root["text"] = Whole)
  BY DEF Init
<1>1. TypeOK
  <2>1. root \in Stores
    BY <1>0, Constants DEF Files, Stores, Texts
  <2> QED
    BY <2>1, Constants DEF Init, TypeOK, Pcs, Requests
<1>2. Complete /\ Progress /\ Handler /\ Worker
  BY <1>0, Constants
     DEF Init, Complete, Progress, Handler, Worker, Holds, Fits, Moving, Undoing
<1>3. Backed
  BY DEF Init, Backed, Sound
<1> QED
  BY <1>1, <1>2, <1>3 DEF IInv

-----------------------------------------------------------------------------
(* Types *)

\* A change under the locks makes the next version, which is no earlier one.
LEMMA ChangeMakes ==
  ASSUME TypeOK, NEW isReady \in BOOLEAN, Change(isReady)
  PROVE  /\ latest' = latest + 1 /\ data' = latest' /\ latest' \in Versions
         /\ root' \in Stores
         /\ root'["db"] = Base /\ root'["wal"] = latest' /\ root'["libraries"] = latest'
         /\ root'["text"] = root["text"]
         /\ ready' = IF isReady THEN ready \cup {latest'} ELSE ready
         /\ UNCHANGED <<pc, rollback, before, crashes, archives, marker, request, faults>>
<1>1. latest' = latest + 1 /\ data' = latest' /\ latest' \in Versions
  BY Constants DEF Change, TypeOK, Versions
<1>2. latest' \in Contents /\ Base \in Contents
  BY <1>1, Constants
<1> QED
  BY <1>1, <1>2 DEF Change, Live, TypeOK, Files, Stores

LEMMA ServingType == ASSUME TypeOK, Serving PROVE TypeOK'
<1> USE Constants DEF Live, Unlocked, known
<1>1. CASE Write
  <2> PICK stays \in BOOLEAN : Change(stays)
    BY <1>1 DEF Write
  <2> QED
    BY <1>1, ChangeMakes DEF Write, TypeOK
<1>2. CASE Lease
  BY <1>2, ChangeMakes DEF Lease, TypeOK, Busy
<1>3. CASE Settle
  <2> PICK done \in BOOLEAN : Change(done)
    BY <1>3 DEF Settle
  <2> QED
    BY <1>3, ChangeMakes DEF Settle, TypeOK
<1>4. CASE BeginText \/ EndText \/ DropText
  <2>1. \A x \in Texts : [root EXCEPT !["text"] = x] \in Stores
    BY DEF TypeOK, Stores, Texts, Files
  <2> QED
    BY <1>4, <2>1 DEF BeginText, EndText, DropText, TypeOK, Busy, Texts
<1>5. CASE CreateBackup \/ RecoveryPoint
  <2>1. [of |-> data, text |-> root["text"]] \in Backups
    BY DEF Backups, TypeOK, Stores
  <2>2. archives' \subseteq Backups
    BY <1>5, <2>1 DEF CreateBackup, RecoveryPoint, Archive, TypeOK
  <2> QED
    BY <1>5, <2>2 DEF CreateBackup, RecoveryPoint, TypeOK, Requests, Idle
<1>6. CASE Schedule \/ Mark
  <2>1. CASE Schedule
    BY <2>1 DEF Schedule, TypeOK, Requests
  <2>2. CASE Mark
    BY <2>2 DEF Mark, TypeOK, Requests
  <2> QED
    BY <1>6, <2>1, <2>2
<1>7. CASE ScheduleFails
  BY <1>7 DEF ScheduleFails, TypeOK, Requests
<1> QED
  BY <1>1, <1>2, <1>3, <1>4, <1>5, <1>6, <1>7 DEF Serving, Work
LEMMA MovedType ==
  ASSUME TypeOK, marker \in Backups, NEW fs \in SUBSET Files, ("text" \in fs <=> "libraries" \in fs),
         NEW next, Moved(fs, next) \/ Placed(fs, next) \/ Returned(fs, next) \/ Dropped(fs, next)
  PROVE  root' \in Stores /\ rollback' \in Stores
<1>1. \A s, x \in Stores : Emptied(s, fs) \in Stores /\ Copied(s, fs, x) \in Stores
  BY Constants DEF Emptied, Copied, Stores, Texts, Files
<1>2. CASE Placed(fs, next)
  BY <1>2, Constants DEF Placed, TypeOK, Stores, Texts, Files, Backups
<1>3. CASE ~Placed(fs, next)
  BY <1>1, <1>3 DEF Moved, Returned, Dropped, TypeOK, store
<1> QED
  BY <1>2, <1>3

LEMMA SwitchType == ASSUME IInv, Switch PROVE TypeOK'
<1> USE DEF Go, Starting
<1>0. /\ TypeOK /\ marker \in Backups
      /\ {"db", "wal", "libraries", "text"} = Files /\ Inside = {"libraries", "text"}
  <2>1. pc \in Moving
    BY DEF Switch, MoveDb, MoveWal, MoveLibraries, PlaceDb, PlaceLibraries, CheckDb, Unmark,
       Moving
  <2> QED
    BY <2>1 DEF IInv, Complete, Files, Inside, TypeOK
<1>1. root' \in Stores /\ rollback' \in Stores
  <2>1. CASE MoveDb \/ MoveWal \/ MoveLibraries \/ PlaceDb \/ PlaceLibraries
    BY <1>0, <2>1, MovedType DEF MoveDb, MoveWal, MoveLibraries, PlaceDb, PlaceLibraries
  <2>2. CASE CheckDb \/ Unmark
    BY <1>0, <2>2 DEF CheckDb, Unmark, TypeOK, store
  <2> QED
    BY <2>1, <2>2 DEF Switch
<1>2. pc' \in Pcs /\ marker' \in Backups \cup {NoBackup} /\ data' \in Versions
  <2>1. CASE Unmark
    BY <1>0, <2>1 DEF Unmark, Backups, Pcs, Moving
  <2>2. CASE MoveDb \/ MoveWal \/ MoveLibraries \/ PlaceDb \/ PlaceLibraries \/ CheckDb
    BY <1>0, <2>2 DEF MoveDb, MoveWal, MoveLibraries, PlaceDb, PlaceLibraries, CheckDb, Moved,
       Placed, TypeOK, Pcs, Moving
  <2> QED
    BY <2>1, <2>2 DEF Switch
<1> QED
  BY <1>0, <1>1, <1>2 DEF Switch, TypeOK

LEMMA UndoType == ASSUME IInv, Undo PROVE TypeOK'
<1> USE DEF Go, Starting
<1>0. /\ TypeOK /\ marker \in Backups
      /\ {"db", "wal", "libraries", "text"} = Files /\ Inside = {"libraries", "text"}
  <2>1. pc \in Undoing
    BY DEF Undo, DropDb, DropLibraries, BackDb, BackLibraries, BackWal, Undoing
  <2> QED
    BY <2>1 DEF IInv, Complete, Files, Inside, TypeOK
<1>1. root' \in Stores /\ rollback' \in Stores
  BY <1>0, MovedType DEF Undo, DropDb, DropLibraries, BackDb, BackLibraries, BackWal
<1>2. pc' \in Pcs
  BY DEF Undo, DropDb, DropLibraries, BackDb, BackLibraries, BackWal, Dropped, Returned, Pcs,
     Undoing
<1> QED
  BY <1>0, <1>1, <1>2 DEF Undo, TypeOK

LEMMA StepType == ASSUME IInv, [Next]_vars PROVE TypeOK'
<1> USE DEF Go, Starting, store, budget, known
<1>0. TypeOK
  BY DEF IInv
<1>1. CASE Start \/ NoMarker \/ Open
  BY <1>0, <1>1 DEF Start, NoMarker, Open, TypeOK, Pcs
<1>2. CASE Extract
  BY <1>0, <1>2, Constants DEF Extract, TypeOK, Pcs, Moving
<1>3. CASE SwitchFails
  BY <1>0, <1>3, Constants DEF SwitchFails, TypeOK, Pcs, Undoing
<1>4. CASE UndoFails
  <2>1. \A x \in {None, root["text"]} :
           [root EXCEPT !["libraries"] = Torn, !["text"] = x] \in Stores
    BY <1>0, Constants DEF TypeOK, Stores, Texts, Files
  <2>2. root' \in Stores /\ rollback' \in Stores
    BY <1>0, <1>4, <2>1 DEF UndoFails, TypeOK
  <2> QED
    BY <1>0, <1>4, <2>2, Constants DEF UndoFails, TypeOK, Pcs
<1>5. CASE CleanUp \/ CleanUpFails
  <2>1. CASE CleanUp
    BY <1>0, <2>1, Constants DEF CleanUp, TypeOK, Pcs
  <2>2. CASE CleanUpFails
    BY <1>0, <2>2, Constants DEF CleanUpFails, TypeOK, Pcs
  <2> QED
    BY <1>5, <2>1, <2>2
<1>6. CASE Close
  <2>1. root' \in Stores
    BY <1>0, <1>6, Constants DEF Close, TypeOK, Files, Stores
  <2> QED
    BY <1>0, <1>6, <2>1 DEF Close, TypeOK, Pcs
<1>7. CASE Crash \/ Decay
  <2>1. CASE Crash
    BY <1>0, <2>1, Constants DEF Crash, TypeOK, Pcs, Requests
  <2>2. CASE Decay
    BY <1>0, <2>2, Constants DEF Decay, TypeOK
  <2> QED
    BY <1>7, <2>1, <2>2
<1>8. CASE UNCHANGED vars
  BY <1>0, <1>8 DEF vars, TypeOK
<1> QED
  BY <1>0, <1>1, <1>2, <1>3, <1>4, <1>5, <1>6, <1>7, <1>8, ServingType, SwitchType, UndoType
     DEF Next, Restoring

-----------------------------------------------------------------------------
(* The running Core *)

\* Whatever is changed under the locks is whole, and no backup is of it yet.
LEMMA ChangeStep ==
  ASSUME IInv, NEW isReady \in BOOLEAN, Change(isReady), isReady => root["text"] = Whole
  PROVE  /\ Holds(root, data)' /\ Backed' /\ (data' \in ready' <=> isReady)
         /\ pc = "up" /\ request = Idle
<1>0. TypeOK /\ Backed /\ latest \in Nat
  BY Constants DEF IInv, TypeOK
<1>1. pc = "up" /\ request = Idle
  BY DEF Change, Live, LocksFree
<1>2. data' \in ready' <=> isReady
  BY <1>0, ChangeMakes DEF Backed
<1>3. Holds(root, data)'
  BY <1>0, <1>2, ChangeMakes DEF Holds, Fits
<1>4. \A n \in Nat : n <= latest => n <= latest' /\ (n \in ready' => n \in ready)
  BY <1>0, ChangeMakes
<1>5. /\ \A b \in archives : b.of \in Nat
      /\ marker # NoBackup => marker.of \in Nat
      /\ data \in Nat /\ ready \subseteq Nat
  BY <1>0, Constants DEF TypeOK, Backups
<1>6. Backed'
  <2>1. latest' = latest + 1 /\ data' = latest' /\ latest' \in Nat /\ ready' \subseteq ready \cup {latest'}
        /\ UNCHANGED <<archives, marker, request>>
    BY <1>0, ChangeMakes
  <2>2. \A v \in ready' : v <= latest'
    BY <1>0, <1>5, <2>1 DEF Backed
  <2>3. (\A b \in archives : Sound(b)') /\ (marker # NoBackup => Sound(marker)')
    BY <1>0, <1>4, <1>5, <2>1 DEF Backed, Sound, Fits
  <2> QED
    BY <1>1, <2>1, <2>2, <2>3 DEF Backed
<1> QED
  BY <1>1, <1>2, <1>3, <1>6

LEMMA ServingStep ==
  ASSUME IInv, Serving
  PROVE  Complete' /\ Progress' /\ Handler' /\ Worker' /\ Backed'
<1> USE DEF Live, Unlocked, known
<1>0. /\ TypeOK /\ Holds(root, data) /\ Handler /\ Worker /\ Backed
      /\ pc = "up" /\ pc' = "up"
  BY DEF Serving, Work, Write, Lease, BeginText, EndText, DropText, Settle, Change,
     CreateBackup, Schedule, RecoveryPoint, Mark, ScheduleFails, IInv, Complete
<1>1. Progress'
  BY <1>0 DEF Progress
<1>2. SUFFICES Holds(root, data)' /\ Handler' /\ Worker' /\ Backed'
  BY <1>0, <1>1 DEF Complete, Moving, Undoing
<1>3. CASE Write
  <2> PICK stays \in BOOLEAN : (stays => data \in ready) /\ Change(stays)
    BY <1>3 DEF Write
  <2>1. stays => root["text"] = Whole
    BY <1>0 DEF Holds, Fits
  <2> QED
    BY <1>0, <1>3, <2>1, ChangeStep, ChangeMakes, Constants DEF Write, Handler, Worker
<1>4. CASE Lease
  BY <1>0, <1>4, ChangeStep, ChangeMakes, Constants DEF Lease, Handler, Worker
<1>5. CASE Settle
  <2> PICK done \in BOOLEAN : (done => worker = "written") /\ Change(done)
    BY <1>5 DEF Settle
  <2> QED
    BY <1>0, <1>5, ChangeStep, ChangeMakes, Constants DEF Settle, Handler, Worker
<1>6. CASE BeginText \/ EndText \/ DropText
  BY <1>0, <1>6
     DEF BeginText, EndText, DropText, Holds, Fits, Handler, Worker, Backed, Sound, TypeOK,
         Stores, Files, Busy
<1>7. CASE CreateBackup \/ RecoveryPoint
  <2>1. Sound([of |-> data, text |-> root["text"]])
    BY <1>0 DEF Sound, Holds, Backed
  <2>2. Backed'
    BY <1>0, <1>7, <2>1
       DEF CreateBackup, RecoveryPoint, Archive, Backed, Sound, Fits, TypeOK, Requests, Idle
  <2>3. Holds(root, data)' /\ Worker'
    BY <1>0, <1>7 DEF CreateBackup, RecoveryPoint, Holds, Fits, Worker
  <2>4. Handler'
    <3>1. \E b \in archives' : b.of = data'
      <4> DEFINE new == [of |-> data, text |-> root["text"]]
      <4>1. new \in archives' /\ new.of = data /\ data' = data
        BY <1>7 DEF CreateBackup, RecoveryPoint, Archive
      <4> QED
        BY <4>1
    <3> QED
      BY <1>0, <3>1 DEF Handler
  <2> QED
    BY <2>2, <2>3, <2>4
<1>8. CASE Schedule \/ Mark \/ ScheduleFails
  BY <1>0, <1>8
     DEF Schedule, Mark, ScheduleFails, Holds, Fits, Handler, Worker, Backed, Sound, Idle
<1> QED
  BY <1>3, <1>4, <1>5, <1>6, <1>7, <1>8 DEF Serving, Work

-----------------------------------------------------------------------------
(* The directory *)

LEMMA SwitchStep ==
  ASSUME IInv, Switch
  PROVE  Complete' /\ Progress' /\ Handler' /\ Worker' /\ Backed'
<1> USE DEF Go, Starting
<1>0. /\ pc \in Moving /\ marker \in Backups /\ marker # NoBackup
      /\ root \in [Files -> Contents]
      /\ Files = {"db", "wal", "libraries", "text"} /\ Inside = {"libraries", "text"}
      /\ Progress /\ Backed /\ request = Idle /\ worker = "free"
  <2>1. pc \in Moving
    BY DEF Switch, MoveDb, MoveWal, MoveLibraries, PlaceDb, PlaceLibraries, CheckDb, Unmark,
       Moving
  <2> QED
    BY <2>1 DEF IInv, TypeOK, Stores, Complete, Handler, Worker, Files, Inside, Moving
<1>1. Handler' /\ Worker'
  BY <1>0, Constants DEF Switch, Handler, Worker
<1>2. CASE Unmark
  <2>1. Backed' /\ Fits(marker.of, marker.text)
    BY <1>0, <1>2 DEF Unmark, Switch, Backed, Sound, Fits, Idle
  <2>2. Holds(root, data)'
    BY <1>0, <1>2, <2>1 DEF Unmark, Switch, Progress, Holds, Fits, store
  <2> QED
    BY <1>1, <1>2, <2>1, <2>2 DEF Unmark, Complete, Progress, Moving, Undoing
<1>3. CASE MoveDb \/ MoveWal \/ MoveLibraries \/ PlaceDb \/ PlaceLibraries \/ CheckDb
  <2>1. marker' = marker /\ data' = data /\ pc' \in Moving
    BY <1>0, <1>3 DEF MoveDb, MoveWal, MoveLibraries, PlaceDb, PlaceLibraries,
       CheckDb, Moved, Placed, Moving
  <2>2. Complete' /\ Backed'
    BY <1>0, <2>1 DEF Complete, Moving, Undoing, Switch, Backed, Sound, Fits
  <2>3. Progress'
    BY <1>0, <1>3 DEF MoveDb, MoveWal, MoveLibraries, PlaceDb, PlaceLibraries, CheckDb, Moved,
       Placed, Emptied, Progress, Moving, store
  <2> QED
    BY <1>1, <2>2, <2>3
<1> QED
  BY <1>2, <1>3 DEF Switch

LEMMA StepInv == IInv /\ [Next]_vars => IInv'
<1> SUFFICES ASSUME IInv, [Next]_vars
             PROVE  Complete' /\ Progress' /\ Handler' /\ Worker' /\ Backed'
  BY StepType DEF IInv
<1> USE Constants DEF Go, Starting, store, budget, known, Complete, Progress, Handler, Worker,
        Backed, Sound, Fits, Moving, Undoing
<1>0. TypeOK /\ Complete /\ Progress /\ Handler /\ Worker /\ Backed
  BY DEF IInv
<1>1. CASE Start \/ NoMarker \/ Open \/ Extract
  BY <1>0, <1>1 DEF Start, NoMarker, Open, Extract, Holds
<1>2. CASE SwitchFails
  BY <1>0, <1>2 DEF SwitchFails, Holds
<1>3. CASE Undo
  BY <1>0, <1>3 DEF Undo, DropDb, DropLibraries, BackDb, BackLibraries, BackWal, Dropped,
     Returned
<1>4. CASE UndoFails
  BY <1>0, <1>4 DEF UndoFails
<1>5. CASE CleanUp \/ CleanUpFails
  BY <1>0, <1>5 DEF CleanUp, CleanUpFails, Holds
<1>6. CASE Close
  <2>1. Holds(root', data)
    BY <1>0, <1>6 DEF Close, Holds, TypeOK, Stores, Files
  <2> QED
    BY <1>0, <1>6, <2>1 DEF Close, LocksFree, Holds
<1>7. CASE Crash
  BY <1>0, <1>7 DEF Crash, Holds
<1>8. CASE Decay
  BY <1>0, <1>8 DEF Decay, Holds
<1>9. CASE UNCHANGED vars
  BY <1>0, <1>9 DEF vars, Holds
<1> QED
  BY <1>1, <1>2, <1>3, <1>4, <1>5, <1>6, <1>7, <1>8, <1>9, ServingStep, SwitchStep
     DEF Next, Restoring

LEMMA Invariance == Spec => []IInv
  BY InitInv, StepInv, PTL DEF Spec

\* Every reachable state is well typed.
THEOREM TypeCorrect == Spec => []TypeOK
  BY Invariance, PTL DEF IInv

\* A Core that runs has the whole of the version last written or restored, with the
\* text of a source that is ready in it, after any sequence of kills and failing file
\* operations in the restore and in its undoing, and whatever the worker was writing.
THEOREM UpIsWhole == Spec => []UpHasExpected
<1>1. IInv => UpHasExpected
  BY DEF IInv, Complete, UpHasExpected
<1> QED
  BY Invariance, <1>1, PTL

\* An accepted restore has an archive of the very version it will replace, and a source
\* that is ready there has its text in the archive, although the worker went on writing
\* and removing texts while it was made.
THEOREM RecoveryFirst == Spec => RecoveryPointFirst
<1>1. IInv /\ [Next]_vars
        => [marker' # marker /\ marker' # NoBackup =>
               \E b \in archives : b.of = data /\ Fits(data, b.text)]_vars
  <2> SUFFICES ASSUME IInv, Next, marker' # marker, marker' # NoBackup
               PROVE  \E b \in archives : b.of = data /\ Fits(data, b.text)
    OBVIOUS
  <2>1. Mark
    BY DEF Next, Serving, Restoring, Work, Write, Lease, BeginText, EndText, DropText, Settle,
       Unlocked, Change, CreateBackup, Schedule, RecoveryPoint, ScheduleFails, Close, Start,
       NoMarker, Extract, Switch, MoveDb, MoveWal, MoveLibraries, PlaceDb, PlaceLibraries,
       CheckDb, Unmark, Moved, Placed, SwitchFails, Undo, UndoFails, CleanUp, CleanUpFails,
       Open, Crash, Decay
  <2>2. PICK b \in archives : b.of = data
    BY <2>1 DEF Mark, IInv, Handler
  <2> QED
    BY <2>2 DEF IInv, Backed, Sound
<1> QED
  BY Invariance, <1>1, PTL DEF Spec, RecoveryPointFirst
================================================================================
