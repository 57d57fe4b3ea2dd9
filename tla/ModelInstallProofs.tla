-------------------------- MODULE ModelInstallProofs --------------------------
(* What holds of ModelInstall for every number of clients, threads, jobs, assets, *)
(* blocks, faults and ends of the process.                                        *)
EXTENDS ModelInstall, TLAPS

-----------------------------------------------------------------------------
(* The inductive invariant. *)

InAssets == {"look", "connect", "read", "check", "place"}

\* What a thread has counted is what the .part file holds, and what it has checked is
\* so; this is for one thread at a time only.
Sound(t) ==
    /\ at[t] \notin {"connect", "read"} => position[t] = 0
    /\ at[t] = "connect" =>
          position[t] = (IF part[asset[t]] = Missing THEN 0 ELSE part[asset[t]])
    /\ at[t] = "read" => part[asset[t]] = position[t]
    /\ at[t] = "place" => Checked(t)
    /\ at[t] \in {"validate", "succeeded"} => manifest
    /\ at[t] = "succeeded" => Verifies

Single ==
    /\ \A t, u \in Threads : Alive(t) /\ Alive(u) => t = u
    /\ \A t \in Threads : Sound(t)

Alone == ~overlapped => Single /\ PartIsSound /\ SucceededIsInstalled

IInv == TypeOK /\ RunningIsDriven /\ Alone

USE ConstantsAssumption DEF ConstantsAssumption, Jobs, Missing

LEMMA InitInv == Init => IInv
<1> SUFFICES ASSUME Init PROVE IInv
  OBVIOUS
<1>1. jobs \in [Jobs -> Statuses] /\ request \in [Clients -> Tasks]
  BY DEF Init, Idle, Statuses, Tasks
<1>2. /\ part \in [1..Assets -> {Missing} \cup Nat]
      /\ installed \in [1..Assets -> {"missing", "whole", "broken"}]
  BY DEF Init
<1>3. /\ at \in [Threads -> Places] /\ on \in [Threads -> Jobs] /\ asset \in [Threads -> 1..Assets]
      /\ position \in [Threads -> 0..Size] /\ appends \in [Threads -> BOOLEAN]
  BY DEF Init, Places
<1>4. TypeOK
  <2>1. /\ corrupt \in SUBSET (1..Assets) /\ manifest \in BOOLEAN /\ handle \in Threads \cup {Nobody}
        /\ cancel \in BOOLEAN /\ process \in {"up", "stopping", "down"} /\ overlapped \in BOOLEAN
    BY DEF Init
  <2>2. requests \in 0..MaxRequests /\ faults \in 0..MaxFaults /\ restarts \in 0..MaxRestarts
    BY DEF Init
  <2> QED
    BY <1>1, <1>2, <1>3, <2>1, <2>2 DEF TypeOK
<1>5. RunningIsDriven
  BY DEF Init, RunningIsDriven
<1>6. Alone
  BY DEF Init, Alone, Single, Sound, Alive, PartIsSound, SucceededIsInstalled
<1> QED
  BY <1>4, <1>5, <1>6 DEF IInv

-----------------------------------------------------------------------------
(* Types. *)

LEMMA RequestType == ASSUME TypeOK, NEW c \in Clients, Request(c) PROVE TypeOK'
<1> USE DEF Serving, Statuses, thread, stream, files, budgets
<1>1. request \in [Clients -> Tasks]
  BY DEF TypeOK
<1>2. request[c].op # "idle" => request[c].job \in Jobs
  BY <1>1 DEF Tasks
<1>3. \A op \in {"insert", "requeue", "cancel", "launch", "spawn"}, j \in Jobs :
            Goes(c, op, j) => request' \in [Clients -> Tasks]
  BY <1>1 DEF Goes, Tasks
<1>4. Answers(c) => request' \in [Clients -> Tasks]
  BY <1>1 DEF Answers, Idle, Tasks
<1>6. request' \in [Clients -> Tasks]
  <2>1. CASE Read(c)
    BY <1>3, <2>1 DEF Read
  <2>2. CASE Insert(c)
    BY <1>2, <1>3, <2>2 DEF Insert
  <2>3. CASE Requeue(c)
    BY <1>2, <1>3, <2>3 DEF Requeue
  <2>4. CASE Cancel(c)
    BY <1>4, <2>4 DEF Cancel
  <2>5. CASE Launch(c)
    BY <1>2, <1>3, <1>4, <2>5 DEF Launch
  <2>6. CASE Spawn(c)
    BY <1>4, <2>6 DEF Spawn
  <2> QED
    BY <2>1, <2>2, <2>3, <2>4, <2>5, <2>6 DEF Request
<1>7. requests' \in 0..MaxRequests
  BY DEF Request, Read, Insert, Requeue, Cancel, Launch, Spawn, TypeOK
<1>8. UNCHANGED <<process, budgets, files>>
  BY DEF Request, Read, Insert, Requeue, Cancel, Launch, Spawn
<1>9. jobs' \in [Jobs -> Statuses]
  BY DEF Request, Read, Insert, Requeue, Cancel, Launch, Spawn, TypeOK
<1>10. cancel' \in BOOLEAN
  BY DEF Request, Read, Insert, Requeue, Cancel, Launch, Spawn, TypeOK
<1>11. CASE UNCHANGED thread
  BY <1>6, <1>7, <1>8, <1>9, <1>10, <1>11 DEF TypeOK
<1>12. CASE Spawn(c)
  <2> PICK t \in Threads : ~Alive(t) /\ Starts(t, request[c].job)
    BY <1>12 DEF Spawn
  <2>1. at' \in [Threads -> Places] /\ overlapped' \in BOOLEAN /\ handle' \in Threads \cup {Nobody}
    BY DEF Starts, TypeOK, Places
  <2> QED
    BY <1>2, <1>6, <1>7, <1>8, <1>9, <1>10, <1>12, <2>1 DEF TypeOK, Starts, Spawn
<1> QED
  BY <1>11, <1>12 DEF Request, Read, Insert, Requeue, Cancel, Launch

LEMMA InstallType == ASSUME TypeOK, NEW t \in Threads, Install(t) PROVE TypeOK'
<1> USE DEF Runs, To, Opens, Closes, NoFault, Fault, files, stream
<1>1. UNCHANGED <<handle, overlapped, cancel, request, requests, process, restarts>> /\ (NoFault \/ Fault)
  <2>1. Settle(t) => \E how \in Outcomes : Runs(t, how) /\ NoFault
    BY DEF Settle
  <2>2. \A place : Runs(t, place) => UNCHANGED <<handle, overlapped, cancel, request, requests, process, restarts>>
    OBVIOUS
  <2> HIDE DEF Runs, NoFault, Fault, To, Opens, Closes
  <2>3. CASE Begin(t) \/ Look(t) \/ Continue(t) \/ Restart(t) \/ Refuse(t) \/ Block(t) \/ Interrupt(t) \/ Eof(t)
    BY <2>2, <2>3 DEF Begin, Look, Continue, Restart, Refuse, Block, Interrupt, Eof
  <2>4. CASE Break(t) \/ Check(t) \/ Place(t) \/ Manifest(t) \/ Validate(t) \/ Settle(t) \/ Exit(t)
    BY <2>1, <2>2, <2>4 DEF Break, Check, Place, Manifest, Validate, Exit
  <2> QED
    BY <2>3, <2>4 DEF Install
<1>7. faults' \in 0..MaxFaults
  BY <1>1 DEF TypeOK
<1>2. at' \in [Threads -> Places]
  <2>1. \A place \in Places : To(t, place) => at' \in [Threads -> Places]
    BY DEF TypeOK
  <2>2. {"off", "look", "connect", "read", "check", "place", "manifest", "validate", "ending",
         "canceled", "failed", "succeeded"} \subseteq Places
    BY DEF Places, Outcomes
  <2>3. Follows(t) => at' \in [Threads -> Places]
    BY <2>1, <2>2 DEF Follows
  <2>4. UNCHANGED at => at' \in [Threads -> Places]
    BY DEF TypeOK
  <2> HIDE DEF To
  <2> QED
    BY <2>1, <2>2, <2>3, <2>4 DEF Install, Begin, Look, Continue, Restart, Refuse, Block, Interrupt, Eof,
         Break, Check, Place, Manifest, Validate, Settle, Exit
<1>3. jobs' \in [Jobs -> Statuses]
  <2>1. on[t] \in Jobs
    BY DEF TypeOK
  <2>2. CASE Begin(t)
    BY <2>1, <2>2 DEF Begin, TypeOK, Statuses
  <2>3. CASE Settle(t)
    BY <2>1, <2>3 DEF Settle, TypeOK, Statuses, Outcomes
  <2>4. CASE UNCHANGED jobs
    BY <2>4 DEF TypeOK
  <2> QED
    BY <2>2, <2>3, <2>4 DEF Install, Look, Continue, Restart, Refuse, Block, Interrupt, Eof,
         Break, Check, Place, Manifest, Validate, Exit
<1>4. on' \in [Threads -> Jobs] /\ asset' \in [Threads -> 1..Assets]
  <2>1. asset[t] \in 1..Assets /\ asset \in [Threads -> 1..Assets] /\ 1 \in 1..Assets /\ 1 \in Jobs
    BY DEF TypeOK
  <2>2. Follows(t) => asset' \in [Threads -> 1..Assets]
    BY <2>1 DEF Follows
  <2>3. CASE Look(t) \/ Place(t)
    BY <2>1, <2>2, <2>3 DEF Look, Place, TypeOK
  <2>4. CASE Settle(t)
    BY <2>1, <2>4 DEF Settle, TypeOK
  <2>5. CASE UNCHANGED <<on, asset>>
    BY <2>5 DEF TypeOK
  <2> HIDE DEF To, Opens, Closes, NoFault, Fault
  <2> QED
    BY <2>3, <2>4, <2>5 DEF Install, Begin, Continue, Restart, Refuse, Block, Interrupt, Eof, Break, Check,
         Manifest, Validate, Exit
<1>5. position' \in [Threads -> 0..Size] /\ appends' \in [Threads -> BOOLEAN]
  <2>1. \A from \in 0..Size, append \in BOOLEAN : Opens(t, from, append) =>
          position' \in [Threads -> 0..Size] /\ appends' \in [Threads -> BOOLEAN]
    BY DEF TypeOK
  <2>2. position[t] \in 0..Size /\ appends[t] \in BOOLEAN /\ part[asset[t]] \in {Missing} \cup Nat
    BY DEF TypeOK
  <2> HIDE DEF Opens
  <2>3. CASE Look(t)
    <3>1. part[asset[t]] <= Size => (IF part[asset[t]] = Missing THEN 0 ELSE part[asset[t]]) \in 0..Size
      BY <2>2
    <3> QED
      BY <2>1, <2>3, <3>1 DEF Look, TypeOK
  <2>4. CASE Block(t)
    BY <2>1, <2>2, <2>4 DEF Block, More
  <2>5. CASE Continue(t) \/ Restart(t) \/ Refuse(t) \/ Interrupt(t) \/ Eof(t) \/ Break(t)
    <3>1. 0 \in 0..Size /\ TRUE \in BOOLEAN /\ FALSE \in BOOLEAN
      OBVIOUS
    <3>2. CASE Continue(t)
      BY <2>1, <2>2, <3>1, <3>2 DEF Continue
    <3>3. CASE Restart(t)
      BY <2>1, <3>1, <3>3 DEF Restart
    <3>4. Closes(t) => Opens(t, 0, FALSE)
      BY DEF Closes
    <3>5. CASE Refuse(t) \/ Interrupt(t) \/ Eof(t) \/ Break(t)
      BY <2>1, <3>1, <3>4, <3>5 DEF Refuse, Interrupt, Eof, Break
    <3> QED
      BY <2>5, <3>2, <3>3, <3>5
  <2>6. CASE UNCHANGED stream
    BY <2>6 DEF TypeOK
  <2> QED
    BY <2>3, <2>4, <2>5, <2>6 DEF Install, Begin, Check, Place, Manifest, Validate, Settle, Exit
<1>6. /\ part' \in [1..Assets -> {Missing} \cup Nat] /\ corrupt' \subseteq 1..Assets
      /\ installed' \in [1..Assets -> {"missing", "whole", "broken"}] /\ manifest' \in BOOLEAN
  <2>1. asset[t] \in 1..Assets /\ position[t] \in 0..Size /\ part[asset[t]] \in {Missing} \cup Nat
    BY DEF TypeOK
  <2>2. \A a \in 1..Assets : Unlink(a) => part' \in [1..Assets -> {Missing} \cup Nat] /\ corrupt' \subseteq 1..Assets
    BY DEF Unlink, TypeOK
  <2>3. CASE Look(t)
    BY <2>1, <2>2, <2>3 DEF Look, TypeOK
  <2>4. CASE Continue(t) \/ Restart(t)
    <3>1. part' \in [1..Assets -> {Missing} \cup Nat]
      <4> DEFINE held == IF part[asset[t]] = Missing THEN 0 ELSE part[asset[t]]
      <4>1. held \in {Missing} \cup Nat
        BY <2>1
      <4>2. part' = [part EXCEPT ![asset[t]] = held] \/ part' = [part EXCEPT ![asset[t]] = 0]
        BY <2>4 DEF Continue, Restart
      <4> HIDE DEF held
      <4>3. \E h \in {Missing} \cup Nat : part' = [part EXCEPT ![asset[t]] = h]
        BY <4>1, <4>2
      <4> QED
        BY <4>3 DEF TypeOK
    <3>2. corrupt' \subseteq 1..Assets /\ UNCHANGED <<installed, manifest>>
      BY <2>4 DEF Continue, Restart, TypeOK
    <3> QED
      BY <3>1, <3>2 DEF TypeOK
  <2>5. CASE Block(t)
    <3>1. part' \in [1..Assets -> {Missing} \cup Nat]
      <4> DEFINE held == part[asset[t]]
                 next == IF appends[t] THEN held + 1 ELSE IF held > position[t] THEN held ELSE position[t] + 1
      <4>1. part' = [part EXCEPT ![asset[t]] = next]
        BY <2>5 DEF Block
      <4>2. next \in {Missing} \cup Nat
        BY <2>1
      <4> HIDE DEF next
      <4> QED
        BY <4>1, <4>2 DEF TypeOK
    <3> QED
      BY <2>1, <2>5, <3>1 DEF Block, TypeOK
  <2>6. CASE Check(t)
    BY <2>1, <2>2, <2>6 DEF Check, TypeOK
  <2>7. CASE Place(t)
    BY <2>1, <2>2, <2>7 DEF Place, TypeOK
  <2>8. CASE Manifest(t)
    BY <2>8 DEF Manifest, TypeOK
  <2>9. CASE UNCHANGED files
    BY <2>9 DEF TypeOK
  <2> QED
    BY <2>3, <2>4, <2>5, <2>6, <2>7, <2>8, <2>9 DEF Install, Begin, Refuse, Interrupt, Eof, Break, Validate, Settle, Exit
<1> QED
  BY <1>1, <1>2, <1>3, <1>4, <1>5, <1>6, <1>7 DEF TypeOK

LEMMA ProcessType == ASSUME TypeOK, Close \/ Die \/ Start PROVE TypeOK'
<1> USE DEF files, thread, stream, budgets
<1>1. CASE Close
  BY <1>1 DEF Close, TypeOK
<1>2. CASE Die
  <2>1. request' \in [Clients -> Tasks]
    BY <1>2 DEF Die, Idle, Tasks
  <2>2. at' \in [Threads -> Places] /\ handle' \in Threads \cup {Nobody}
    BY <1>2 DEF Die, Places
  <2>3. /\ on' \in [Threads -> Jobs] /\ asset' \in [Threads -> 1..Assets]
        /\ position' \in [Threads -> 0..Size] /\ appends' \in [Threads -> BOOLEAN]
    BY <1>2 DEF Die
  <2>4. UNCHANGED <<jobs, files, overlapped, requests, faults>>
    BY <1>2 DEF Die
  <2>5. restarts' \in 0..MaxRestarts /\ process' = "down" /\ cancel' = FALSE
    BY <1>2 DEF Die, TypeOK
  <2> QED
    BY <2>1, <2>2, <2>3, <2>4, <2>5 DEF TypeOK
<1>3. CASE Start
  <2>1. jobs' \in [Jobs -> Statuses]
    BY <1>3 DEF Start, Recovered, TypeOK, Statuses
  <2>2. CASE UNCHANGED thread
    BY <1>3, <2>1, <2>2 DEF Start, TypeOK
  <2>3. CASE \E t \in Threads, j \in Jobs : Starts(t, j)
    BY <1>3, <2>1, <2>3 DEF Start, Starts, TypeOK, Places
  <2> QED
    BY <1>3, <2>2, <2>3 DEF Start
<1> QED
  BY <1>1, <1>2, <1>3

LEMMA VarsType == ASSUME TypeOK, UNCHANGED vars PROVE TypeOK'
BY DEF TypeOK, vars

THEOREM TypeCorrect == Spec => []TypeOK
<1>1. Init => TypeOK
  BY InitInv DEF IInv
<1>2. TypeOK /\ [Next]_vars => TypeOK'
  BY RequestType, InstallType, ProcessType, VarsType DEF Next
<1> QED
  BY <1>1, <1>2, PTL DEF Spec

-----------------------------------------------------------------------------
(* A running job is driven. *)

Driving == Places \ {"off", "begin", "ending"}

\* A step that leaves the threads that drive a job as they are, and makes no job run.
LEMMA StillDriven ==
    ASSUME TypeOK, RunningIsDriven, process # "down" \/ process' = "down",
           \A j \in Jobs : jobs'[j] = "running" => jobs[j] = "running",
           \A t \in Threads : at[t] \in Driving => at'[t] \in Driving /\ on'[t] = on[t]
    PROVE  RunningIsDriven'
<1> SUFFICES ASSUME process' # "down", NEW j \in Jobs, jobs'[j] = "running"
             PROVE  \E t \in Threads : on'[t] = j /\ at'[t] \notin {"off", "begin", "ending"}
  BY DEF RunningIsDriven
<1> PICK t \in Threads : on[t] = j /\ at[t] \notin {"off", "begin", "ending"}
  BY DEF RunningIsDriven
<1> QED
  BY DEF Driving, TypeOK

LEMMA InstallDriven == ASSUME TypeOK, RunningIsDriven, NEW t \in Threads, Install(t) PROVE RunningIsDriven'
<1> USE DEF Runs, To
<1>0. process # "down" /\ UNCHANGED process
  BY DEF Install, Begin, Look, Continue, Restart, Refuse, Block, Interrupt, Eof, Break, Check, Place, Manifest,
         Validate, Settle, Exit
<1>1. CASE Begin(t)
  <2> SUFFICES ASSUME NEW j \in Jobs, jobs'[j] = "running"
               PROVE  \E u \in Threads : on'[u] = j /\ at'[u] \notin {"off", "begin", "ending"}
    BY DEF RunningIsDriven
  <2>1. on' = on /\ at'[t] \in {"look", "failed"} /\ \A u \in Threads : u # t => at'[u] = at[u]
    BY <1>1 DEF Begin, TypeOK
  <2>2. CASE j = on[t]
    BY <2>1, <2>2
  <2>3. CASE j # on[t]
    <3>1. jobs[j] = "running"
      BY <1>1, <2>3 DEF Begin, TypeOK
    <3> PICK u \in Threads : on[u] = j /\ at[u] \notin {"off", "begin", "ending"}
      BY <1>0, <3>1 DEF RunningIsDriven
    <3> QED
      BY <2>1
  <2> QED
    BY <2>2, <2>3
<1>2. CASE Settle(t)
  <2> SUFFICES ASSUME NEW j \in Jobs, jobs'[j] = "running"
               PROVE  \E u \in Threads : on'[u] = j /\ at'[u] \notin {"off", "begin", "ending"}
    BY DEF RunningIsDriven
  <2>1. j # on[t] /\ jobs[j] = "running"
    BY <1>2 DEF Settle, TypeOK, Outcomes
  <2> PICK u \in Threads : on[u] = j /\ at[u] \notin {"off", "begin", "ending"}
    BY <1>0, <2>1 DEF RunningIsDriven
  <2> QED
    BY <1>2, <2>1 DEF Settle, TypeOK
<1>3. CASE Exit(t)
  <2>1. UNCHANGED <<jobs, on>> /\ at[t] = "ending" /\ \A u \in Threads : u # t => at'[u] = at[u]
    BY <1>3 DEF Exit, TypeOK
  <2> QED
    BY <1>0, <2>1, StillDriven DEF Driving
<1>4. CASE ~Begin(t) /\ ~Settle(t) /\ ~Exit(t)
  <2>1. UNCHANGED <<jobs, on>>
    BY <1>4 DEF Install, Look, Continue, Restart, Refuse, Block, Interrupt, Eof, Break, Check, Place, Manifest, Validate
  <2>2. at' = at \/ \E place \in Driving : at' = [at EXCEPT ![t] = place]
    <3>1. Follows(t) => \E place \in Driving : at' = [at EXCEPT ![t] = place]
      BY DEF Follows, Driving, Places
    <3>2. \A place \in {"look", "connect", "read", "check", "place", "manifest", "validate", "canceled", "failed",
                        "succeeded"} : To(t, place) => \E p \in Driving : at' = [at EXCEPT ![t] = p]
      BY DEF Driving, Places, Outcomes
    <3> HIDE DEF To
    <3> QED
      BY <1>4, <3>1, <3>2 DEF Install, Look, Continue, Restart, Refuse, Block, Interrupt, Eof, Break, Check, Place,
           Manifest, Validate
  <2>3. \A u \in Threads : at[u] \in Driving => at'[u] \in Driving
    BY <2>2 DEF TypeOK
  <2> QED
    BY <1>0, <2>1, <2>3, StillDriven
<1> QED
  BY <1>1, <1>2, <1>3, <1>4

LEMMA RequestDriven == ASSUME TypeOK, RunningIsDriven, NEW c \in Clients, Request(c) PROVE RunningIsDriven'
<1>1. \A j \in Jobs : jobs'[j] = "running" => jobs[j] = "running"
  BY DEF Request, Read, Insert, Requeue, Cancel, Launch, Spawn, TypeOK
<1>2. UNCHANGED process
  BY DEF Request, Read, Insert, Requeue, Cancel, Launch, Spawn, Serving
<1>3. \A t \in Threads : at[t] \in Driving => at'[t] \in Driving /\ on'[t] = on[t]
  <2>1. CASE UNCHANGED thread
    BY <2>1 DEF thread
  <2>2. CASE Spawn(c)
    <3> PICK u \in Threads : ~Alive(u) /\ Starts(u, request[c].job)
      BY <2>2 DEF Spawn
    <3> QED
      BY DEF Starts, Alive, Driving, TypeOK
  <2> QED
    BY <2>1, <2>2 DEF Request, Read, Insert, Requeue, Cancel, Launch
<1> QED
  BY <1>1, <1>2, <1>3, StillDriven

LEMMA ProcessDriven == ASSUME TypeOK, RunningIsDriven, Close \/ Die \/ Start PROVE RunningIsDriven'
<1>1. CASE Close
  BY <1>1, StillDriven DEF Close, thread
<1>2. CASE Die
  BY <1>2 DEF Die, RunningIsDriven
<1>3. CASE Start
  <2>1. \A j \in Jobs : jobs'[j] # "running"
    BY <1>3 DEF Start, Recovered
  <2> QED
    BY <2>1 DEF RunningIsDriven
<1> QED
  BY <1>1, <1>2, <1>3

\* While Core is up, a running model job has a thread in its installation, for any number
\* of requests and threads (service.py:252-311).
THEOREM RunningDriven == Spec => []RunningIsDriven
<1>1. Init => RunningIsDriven
  BY InitInv DEF IInv
<1>2. TypeOK /\ RunningIsDriven /\ [Next]_vars => RunningIsDriven'
  <2>1. TypeOK /\ RunningIsDriven /\ UNCHANGED vars => RunningIsDriven'
    BY DEF RunningIsDriven, vars
  <2> QED
    BY <2>1, RequestDriven, InstallDriven, ProcessDriven DEF Next
<1> QED
  BY <1>1, <1>2, TypeCorrect, PTL DEF Spec

-----------------------------------------------------------------------------
(* One thread at a time. *)

\* Only the thread that steps is alive, and the step keeps what Sound says of it.
LEMMA InstallSound ==
    ASSUME TypeOK, NEW t \in Threads, Install(t), Single, PartIsSound, SucceededIsInstalled, ~overlapped
    PROVE  Sound(t)' /\ PartIsSound' /\ SucceededIsInstalled'
<1> USE DEF Runs, To, NoFault, Fault, files, stream, Opens, Closes
<1> DEFINE a == asset[t]
<1>1. /\ a \in 1..Assets /\ position[t] \in 0..Size /\ part[a] \in {Missing} \cup Nat
      /\ at[t] \in Places /\ on[t] \in Jobs /\ faults \in Nat
  BY DEF TypeOK
<1>2. Sound(t)
  BY DEF Single
<1>3. ~overlapped' /\ process # "down"
  BY DEF Install, Begin, Look, Continue, Restart, Refuse, Block, Interrupt, Eof, Break, Check, Place, Manifest,
         Validate, Settle, Exit
<1>4. at[t] # "off"
  BY DEF Install, Begin, Look, Continue, Restart, Refuse, Block, Interrupt, Eof, Break, Check, Place, Manifest,
         Validate, Settle, Exit, Outcomes
<1>5. ~OpenElsewhere(t)
  BY <1>4 DEF OpenElsewhere, Single, Alive
<1>6. /\ faults = 0 => corrupt = {}
      /\ \A b \in 1..Assets : installed[b] # "broken"
  BY DEF PartIsSound
\* steps that change no file and no job
<1>7. ASSUME UNCHANGED <<files, jobs>>, faults' >= faults PROVE PartIsSound' /\ SucceededIsInstalled'
  BY <1>1, <1>6, <1>7 DEF PartIsSound, SucceededIsInstalled
<1>8. ASSUME UNCHANGED <<installed, manifest, jobs>>, corrupt' = {} \/ corrupt' \subseteq corrupt \/ faults' > 0, faults' >= faults
      PROVE  PartIsSound' /\ SucceededIsInstalled'
  BY <1>1, <1>6, <1>8 DEF PartIsSound, SucceededIsInstalled
<1>10. CASE Begin(t)
  <2>1. Sound(t)'
    BY <1>1, <1>2, <1>10 DEF Begin, Sound, TypeOK
  <2>2. \A j \in Jobs : jobs'[j] = "succeeded" => jobs[j] = "succeeded"
    BY <1>10 DEF Begin, TypeOK
  <2> QED
    BY <1>1, <1>3, <1>6, <1>10, <2>1, <2>2 DEF Begin, PartIsSound, SucceededIsInstalled
<1>11. CASE Look(t)
  <2>1. PartIsSound' /\ SucceededIsInstalled'
    BY <1>1, <1>8, <1>11 DEF Look, Unlink
  <2>2. CASE Kept(t)
    <3>1. UNCHANGED <<files, stream>> /\ at'[t] \in {"look", "manifest"}
      BY <1>11, <2>2 DEF Look, Follows, TypeOK
    <3> QED
      BY <1>2, <1>11, <2>1, <3>1 DEF Sound, Look
  <2>3. CASE ~Kept(t) /\ part[a] <= Size
    <3>1. at'[t] = "connect" /\ asset' = asset /\ UNCHANGED files
      BY <1>11, <2>3 DEF Look, TypeOK
    <3>2. position'[t] = IF part[a] = Missing THEN 0 ELSE part[a]
      BY <1>11, <2>3 DEF Look, TypeOK
    <3> QED
      BY <2>1, <3>1, <3>2 DEF Sound
  <2>4. CASE ~Kept(t) /\ ~(part[a] <= Size)
    <3>1. at'[t] = "connect" /\ asset' = asset /\ part'[a] = Missing /\ position' = position
      BY <1>1, <1>5, <1>11, <2>4 DEF Look, Unlink, TypeOK
    <3> QED
      BY <1>2, <1>11, <2>1, <3>1 DEF Sound, Look
  <2> QED
    BY <2>2, <2>3, <2>4
<1>12. CASE Continue(t)
  <2>1. position[t] > 0 /\ part[a] = position[t]
    BY <1>2, <1>12 DEF Continue, Resumable, Sound
  <2>2. at'[t] = "read" /\ asset' = asset /\ position'[t] = position[t] /\ part'[a] = part[a]
    BY <1>1, <1>12, <2>1 DEF Continue, TypeOK
  <2> QED
    BY <1>1, <1>8, <1>12, <2>1, <2>2 DEF Continue, Sound
<1>13. CASE Restart(t)
  <2>1. at'[t] = "read" /\ asset' = asset /\ position'[t] = 0 /\ part'[a] = 0
    BY <1>1, <1>13 DEF Restart, TypeOK
  <2> QED
    BY <1>1, <1>8, <1>13, <2>1 DEF Restart, Sound
<1>14. CASE Refuse(t) \/ Interrupt(t) \/ Eof(t) \/ Break(t)
  <2>1. at'[t] \in {"failed", "canceled", "check"} /\ position'[t] = 0 /\ UNCHANGED <<files, jobs>>
    BY <1>14 DEF Refuse, Interrupt, Eof, Break, TypeOK
  <2>2. faults' >= faults
    BY <1>1, <1>14 DEF Refuse, Interrupt, Eof, Break
  <2> QED
    BY <1>7, <2>1, <2>2 DEF Sound
<1>15. CASE Block(t)
  <2>1. at[t] = "read" /\ part[a] = position[t] /\ at' = at /\ asset' = asset
    BY <1>2, <1>15 DEF Block, Sound
  <2>2. position'[t] = position[t] + 1
    BY <1>15 DEF Block, TypeOK
  <2>3. part'[a] = position[t] + 1
    BY <1>1, <1>15, <2>1 DEF Block, TypeOK
  <2>4. corrupt' = corrupt \/ faults' > 0
    BY <1>1, <1>15, <2>1 DEF Block
  <2> QED
    BY <1>1, <1>8, <1>15, <2>1, <2>2, <2>3, <2>4 DEF Block, Sound
<1>16. CASE Check(t)
  <2>1. PartIsSound' /\ SucceededIsInstalled'
    BY <1>1, <1>8, <1>16 DEF Check, Unlink
  <2>2. asset' = asset /\ position' = position /\ at[t] = "check"
    BY <1>16 DEF Check
  <2>3. CASE Checked(t)
    BY <1>2, <1>16, <2>1, <2>2, <2>3 DEF Check, Sound, Checked, TypeOK
  <2>4. CASE ~Checked(t)
    BY <1>2, <1>16, <2>1, <2>2, <2>4 DEF Check, Sound, TypeOK
  <2> QED
    BY <2>3, <2>4
<1>17. CASE Place(t)
  <2>1. at[t] = "place" /\ Checked(t)
    BY <1>2, <1>17 DEF Place, Sound
  <2>2. part[a] # Missing
    BY <2>1 DEF Checked
  <2>3. installed' = [installed EXCEPT ![a] = "whole"] /\ Unlink(a) /\ Follows(t)
    BY <1>5, <1>17, <2>1, <2>2 DEF Place, Checked
  <2>4. at'[t] \in {"look", "manifest"} /\ position' = position
    BY <1>17, <2>3 DEF Place, Follows, TypeOK
  <2>5. \A b \in 1..Assets : installed'[b] = installed[b] \/ installed'[b] = "whole"
    BY <2>3 DEF TypeOK
  <2> QED
    BY <1>2, <1>6, <1>17, <2>1, <2>3, <2>4, <2>5 DEF Place, Unlink, Sound, PartIsSound, SucceededIsInstalled
<1>18. CASE Manifest(t)
  <2>1. UNCHANGED <<jobs, part, corrupt, installed, asset, stream>> /\ (manifest' = manifest \/ manifest' = TRUE)
    BY <1>18 DEF Manifest
  <2>2. (at'[t] = "validate" /\ manifest' = TRUE) \/ at'[t] = "failed"
    BY <1>18 DEF Manifest, TypeOK
  <2>3. faults' >= faults
    BY <1>1, <1>18 DEF Manifest
  <2> QED
    BY <1>1, <1>2, <1>6, <1>18, <2>1, <2>2, <2>3 DEF Manifest, Sound, PartIsSound, SucceededIsInstalled
<1>19. CASE Validate(t)
  <2>1. at[t] = "validate" /\ manifest /\ position[t] = 0
    BY <1>2, <1>19 DEF Validate, Sound
  <2>2. UNCHANGED <<jobs, files, asset, stream, faults>>
    BY <1>19 DEF Validate
  <2>3. (at'[t] = "succeeded" /\ Verifies) \/ at'[t] = "failed"
    BY <1>19 DEF Validate, TypeOK
  <2> QED
    BY <1>1, <1>7, <2>1, <2>2, <2>3 DEF Sound, Verifies
<1>20. CASE Settle(t)
  <2>1. UNCHANGED <<files, stream, faults>> /\ at'[t] = "ending" /\ position[t] = 0
    BY <1>2, <1>20 DEF Settle, Sound, TypeOK, Outcomes
  <2>2. \A j \in Jobs : jobs'[j] = "succeeded" => jobs[j] = "succeeded" \/ at[t] = "succeeded"
    BY <1>20 DEF Settle, TypeOK
  <2>3. at[t] = "succeeded" => manifest /\ Verifies
    BY <1>2 DEF Sound
  <2> QED
    BY <1>6, <2>1, <2>2, <2>3 DEF Sound, PartIsSound, SucceededIsInstalled, Verifies
<1>21. CASE Exit(t)
  <2>1. at'[t] = "off" /\ position[t] = 0 /\ UNCHANGED <<jobs, files, stream, faults>>
    BY <1>2, <1>21 DEF Exit, Sound, TypeOK
  <2> QED
    BY <1>1, <1>7, <2>1 DEF Sound
<1> QED
  BY <1>10, <1>11, <1>12, <1>13, <1>14, <1>15, <1>16, <1>17, <1>18, <1>19, <1>20, <1>21 DEF Install

LEMMA InstallAlone == ASSUME TypeOK, Alone, NEW t \in Threads, Install(t) PROVE Alone'
<1> USE DEF Runs, To
<1>1. UNCHANGED overlapped
  BY DEF Install, Begin, Look, Continue, Restart, Refuse, Block, Interrupt, Eof, Break, Check, Place, Manifest,
         Validate, Settle, Exit
<1> SUFFICES ASSUME ~overlapped PROVE Single' /\ PartIsSound' /\ SucceededIsInstalled'
  BY <1>1 DEF Alone
<1>2. Single /\ PartIsSound /\ SucceededIsInstalled
  BY DEF Alone
<1>3. at[t] # "off"
  BY DEF Install, Begin, Look, Continue, Restart, Refuse, Block, Interrupt, Eof, Break, Check, Place, Manifest,
         Validate, Settle, Exit, Outcomes
<1>4. \A u \in Threads : u # t => at[u] = "off" /\ position[u] = 0
  BY <1>2, <1>3 DEF Single, Alive, Sound
<1>5. \A u \in Threads : u # t => at'[u] = at[u] /\ position'[u] = position[u]
  <2> USE DEF Opens, Closes, Follows, stream, TypeOK
  <2>1. CASE Begin(t) \/ Look(t) \/ Continue(t) \/ Restart(t) \/ Refuse(t) \/ Block(t) \/ Interrupt(t)
    BY <2>1 DEF Begin, Look, Continue, Restart, Refuse, Block, Interrupt
  <2>2. CASE Eof(t) \/ Break(t) \/ Check(t) \/ Place(t) \/ Manifest(t) \/ Validate(t) \/ Settle(t) \/ Exit(t)
    BY <2>2 DEF Eof, Break, Check, Place, Manifest, Validate, Settle, Exit
  <2> QED
    BY <2>1, <2>2 DEF Install
<1>6. \A u \in Threads : u # t => Sound(u)'
  BY <1>4, <1>5 DEF Sound
<1>7. \A u, v \in Threads : at'[u] # "off" /\ at'[v] # "off" => u = v
  BY <1>4, <1>5
<1> QED
  BY <1>2, <1>6, <1>7, InstallSound DEF Single, Alive

\* A thread starts.
LEMMA StartAlone ==
    ASSUME TypeOK, Alone, NEW t \in Threads, NEW j \in Jobs, ~Alive(t), Starts(t, j),
           UNCHANGED <<files, faults>>, \A k \in Jobs : jobs'[k] = "succeeded" => jobs[k] = "succeeded"
    PROVE  Alone'
<1> SUFFICES ASSUME ~overlapped' PROVE Single' /\ PartIsSound' /\ SucceededIsInstalled'
  BY DEF Alone
<1>1. ~overlapped /\ \A u \in Threads : at[u] = "off"
  BY DEF Starts, Alive
<1>2. Single /\ PartIsSound /\ SucceededIsInstalled
  BY <1>1 DEF Alone
<1>3. \A u \in Threads : at'[u] = IF u = t THEN "begin" ELSE "off"
  BY <1>1 DEF Starts, TypeOK
<1>4. \A u \in Threads : position'[u] = 0
  BY <1>1, <1>2 DEF Single, Sound, Starts, stream
<1>5. Single'
  BY <1>3, <1>4 DEF Single, Sound, Alive
<1> QED
  BY <1>1, <1>2, <1>5 DEF PartIsSound, SucceededIsInstalled, files

\* A step that changes no thread.
LEMMA SameAlone ==
    ASSUME Alone, UNCHANGED <<files, thread, faults>>,
           \A k \in Jobs : jobs'[k] = "succeeded" => jobs[k] = "succeeded"
    PROVE  Alone'
BY DEF Alone, Single, Sound, Alive, Checked, Verifies, PartIsSound, SucceededIsInstalled, files, thread, stream

LEMMA RequestAlone == ASSUME TypeOK, Alone, NEW c \in Clients, Request(c) PROVE Alone'
<1>1. \A j \in Jobs : jobs'[j] = "succeeded" => jobs[j] = "succeeded"
  BY DEF Request, Read, Insert, Requeue, Cancel, Launch, Spawn, TypeOK
<1>2. UNCHANGED <<files, faults>>
  BY DEF Request, Read, Insert, Requeue, Cancel, Launch, Spawn, Serving, budgets
<1>3. CASE UNCHANGED thread
  BY <1>1, <1>2, <1>3, SameAlone
<1>4. CASE Spawn(c)
  <2>1. request[c].job \in Jobs
    BY <1>4 DEF Spawn, Serving, TypeOK, Tasks
  <2> QED
    BY <1>1, <1>2, <1>4, <2>1, StartAlone DEF Spawn
<1> QED
  BY <1>3, <1>4 DEF Request, Read, Insert, Requeue, Cancel, Launch

\* While Core is down no thread is alive.
DownIsOff == process = "down" => \A t \in Threads : at[t] = "off"

LEMMA DownStep == ASSUME TypeOK, DownIsOff, [Next]_vars PROVE DownIsOff'
<1>1. ASSUME NEW t \in Threads, Install(t) PROVE process # "down" /\ UNCHANGED process
  BY <1>1 DEF Install, Begin, Look, Continue, Restart, Refuse, Block, Interrupt, Eof, Break, Check, Place, Manifest,
         Validate, Settle, Exit, Runs
<1>2. ASSUME NEW c \in Clients, Request(c) PROVE process = "up" /\ UNCHANGED process
  BY <1>2 DEF Request, Read, Insert, Requeue, Cancel, Launch, Spawn, Serving
<1> QED
  BY <1>1, <1>2 DEF Next, Close, Die, Start, DownIsOff, vars

LEMMA ProcessAlone == ASSUME TypeOK, Alone, DownIsOff, Close \/ Die \/ Start PROVE Alone'
<1>1. CASE Close
  BY <1>1, SameAlone DEF Close, budgets
<1>2. CASE Die
  BY <1>2 DEF Die, Alone, Single, Sound, Alive, PartIsSound, SucceededIsInstalled, files
<1>3. CASE Start
  <2>1. \A j \in Jobs : jobs'[j] = "succeeded" => jobs[j] = "succeeded"
    BY <1>3 DEF Start, Recovered
  <2>2. CASE UNCHANGED thread
    BY <1>3, <2>1, <2>2, SameAlone DEF Start, budgets
  <2>3. CASE \E t \in Threads, j \in Jobs : Starts(t, j)
    BY <1>3, <2>1, <2>3, StartAlone DEF Start, DownIsOff, Alive, budgets
  <2> QED
    BY <1>3, <2>2, <2>3 DEF Start
<1> QED
  BY <1>1, <1>2, <1>3

THEOREM AloneHolds == Spec => []Alone
<1>1. Init => Alone /\ DownIsOff
  BY InitInv DEF IInv, Init, DownIsOff
<1>2. TypeOK /\ Alone /\ DownIsOff /\ [Next]_vars => Alone' /\ DownIsOff'
  <2>1. Alone /\ UNCHANGED vars => Alone'
    BY SameAlone DEF vars, files, thread, stream
  <2> QED
    BY <2>1, DownStep, RequestAlone, InstallAlone, ProcessAlone DEF Next
<1> QED
  BY <1>1, <1>2, TypeCorrect, PTL DEF Spec

\* Without a fault the .part files hold what the server sent, and no destination file is ever
\* broken, however often a download is resumed; for one thread at a time (model_assets.py:104-138).
THEOREM PartSound == Spec => []PartIsSound
<1>1. Alone => PartIsSound
  BY DEF Alone, PartIsSound
<1> QED
  BY <1>1, AloneHolds, PTL

\* With one thread at a time a job that succeeded has its package, whole and with a manifest
\* (model_assets.py:74-80, 159).
THEOREM SucceededInstalled == Spec => [](~overlapped => SucceededIsInstalled)
<1>1. Alone => (~overlapped => SucceededIsInstalled)
  BY DEF Alone
<1> QED
  BY <1>1, AloneHolds, PTL

-----------------------------------------------------------------------------
(* Two threads at a time. *)

\* The bound that the runs have, too: with three threads a third can bring back a file that
\* two others have mixed up.
TwoThreads == \A t, u, v \in Threads : t = u \/ u = v \/ t = v

Works(t, a) == at[t] \in {"connect", "read", "check", "place"} /\ asset[t] = a

\* Once the destination file verifies no other thread begins with the asset: if one is left at it,
\* it is alone, and what it has checked is still so or has just been moved by the other.
WholeIsLeft ==
    \A a \in 1..Assets : installed[a] = "whole" =>
        /\ \A t, u \in Threads : Works(t, a) /\ Works(u, a) => t = u
        /\ \A t \in Threads : Works(t, a) /\ at[t] = "place" => part[a] = Missing \/ Checked(t)

Stays == \A a \in 1..Assets : installed[a] = "whole" => installed'[a] = "whole"

\* Only the thread that steps goes to another place.
LEMMA OthersStay ==
    ASSUME TypeOK, NEW t \in Threads, Install(t), NEW u \in Threads, u # t
    PROVE  at'[u] = at[u] /\ asset'[u] = asset[u]
<1> USE DEF To, Follows, TypeOK
<1>1. CASE Begin(t) \/ Look(t) \/ Continue(t) \/ Restart(t) \/ Refuse(t) \/ Block(t) \/ Interrupt(t)
  BY <1>1 DEF Begin, Look, Continue, Restart, Refuse, Block, Interrupt
<1>2. CASE Eof(t) \/ Break(t) \/ Check(t) \/ Place(t) \/ Manifest(t) \/ Validate(t) \/ Settle(t) \/ Exit(t)
  BY <1>2 DEF Eof, Break, Check, Place, Manifest, Validate, Settle, Exit
<1> QED
  BY <1>1, <1>2 DEF Install

\* A thread changes no file but those of its asset, and those only if it works on it or has
\* just seen that it must; only Place writes a destination file.
LEMMA OwnFiles ==
    ASSUME TypeOK, NEW t \in Threads, Install(t)
    PROVE  /\ \A b \in 1..Assets : b # asset[t] =>
                /\ part'[b] = part[b] /\ installed'[b] = installed[b]
                /\ b \in corrupt' <=> b \in corrupt
           /\ Works(t, asset[t]) \/ ~Kept(t) \/ UNCHANGED <<part, corrupt>>
           /\ Place(t) \/ UNCHANGED installed
<1> USE DEF Unlink, TypeOK, files
<1>1. asset[t] \in 1..Assets
  OBVIOUS
<1>2. CASE Look(t)
  BY <1>1, <1>2 DEF Look, Kept
<1>3. CASE Continue(t) \/ Restart(t)
  BY <1>1, <1>3 DEF Continue, Restart, Works, Runs
<1>4. CASE Block(t)
  <2>1. Works(t, asset[t]) /\ UNCHANGED installed
    BY <1>4 DEF Block, Works, Runs
  <2>2. corrupt' = corrupt \/ corrupt' = corrupt \cup {asset[t]}
    BY <1>4 DEF Block
  <2>3. \A b \in 1..Assets : b # asset[t] => part'[b] = part[b]
    BY <1>4 DEF Block
  <2> QED
    BY <2>1, <2>2, <2>3
<1>5. CASE Check(t)
  BY <1>1, <1>5 DEF Check, Works, Runs
<1>6. CASE Place(t)
  BY <1>1, <1>6 DEF Place, Works, Runs
<1>7. CASE ~Look(t) /\ ~Continue(t) /\ ~Restart(t) /\ ~Block(t) /\ ~Check(t) /\ ~Place(t)
  <2>1. UNCHANGED <<part, corrupt, installed>>
    BY <1>7 DEF Install, Begin, Refuse, Interrupt, Eof, Break, Manifest, Validate, Settle, Exit
  <2> QED
    BY <2>1
<1> QED
  BY <1>2, <1>3, <1>4, <1>5, <1>6, <1>7

\* A thread is at its asset until it leaves it; it begins only if the destination does not
\* verify, and it goes to Place only with what it has checked.
LEMMA OwnPlace ==
    ASSUME TypeOK, NEW t \in Threads, Install(t)
    PROVE  /\ \A b : Works(t, b)' => b = asset[t] /\ (Works(t, b) \/ ~Kept(t))
           /\ at'[t] = "place" => Checked(t)'
<1> USE DEF To, TypeOK, Runs
<1>1. asset[t] \in 1..Assets
  OBVIOUS
<1>2. CASE Look(t)
  <2>1. Kept(t) => at'[t] \in {"look", "manifest"}
    BY <1>2 DEF Look, Follows
  <2>2. ~Kept(t) => at'[t] \in {"connect", "failed"} /\ asset' = asset
    BY <1>2 DEF Look
  <2> QED
    BY <2>1, <2>2 DEF Works
<1>3. CASE Continue(t) \/ Restart(t) \/ Eof(t)
  BY <1>3 DEF Continue, Restart, Eof, Works
<1>4. CASE Block(t)
  BY <1>4 DEF Block, Works
<1>5. CASE Check(t)
  <2>1. at[t] = "check" /\ asset' = asset /\ at'[t] \in {"place", "failed"}
    BY <1>5 DEF Check
  <2>2. at'[t] = "place" => Checked(t) /\ UNCHANGED <<part, corrupt>>
    BY <1>5 DEF Check
  <2> QED
    BY <2>1, <2>2 DEF Works, Checked
<1>6. CASE Place(t)
  BY <1>6 DEF Place, Follows, Works
<1>7. CASE Begin(t) \/ Refuse(t) \/ Interrupt(t) \/ Break(t)
  BY <1>7 DEF Begin, Refuse, Interrupt, Break, Works
<1>8. CASE Manifest(t) \/ Validate(t) \/ Settle(t) \/ Exit(t)
  BY <1>8 DEF Manifest, Validate, Settle, Exit, Works
<1> QED
  BY <1>2, <1>3, <1>4, <1>5, <1>6, <1>7, <1>8 DEF Install

\* What Place makes of the file.
LEMMA PlaceMoves ==
    ASSUME TypeOK, NEW t \in Threads, Place(t), installed' # installed
    PROVE  /\ Works(t, asset[t]) /\ at[t] = "place" /\ part[asset[t]] # Missing
           /\ Checked(t) => installed'[asset[t]] = "whole"
           /\ part'[asset[t]] = Missing /\ \A b : ~Works(t, b)'
BY DEF Place, Runs, To, Follows, Unlink, Works, Checked, TypeOK

LEMMA InstallWhole ==
    ASSUME TypeOK, TwoThreads, WholeIsLeft, NEW t \in Threads, Install(t)
    PROVE  WholeIsLeft' /\ Stays
<1> DEFINE a == asset[t]
<1>1. \A u \in Threads : u # t => at'[u] = at[u] /\ asset'[u] = asset[u]
  BY OthersStay
<1>2. \A u \in Threads : u # t => \A b : Works(u, b)' <=> Works(u, b)
  BY <1>1 DEF Works
<1>3. ASSUME NEW b \in 1..Assets, installed[b] = "whole"
      PROVE  /\ installed'[b] = "whole"
             /\ \A u, v \in Threads : Works(u, b)' /\ Works(v, b)' => u = v
             /\ \A u \in Threads : Works(u, b)' /\ at'[u] = "place" => part'[b] = Missing \/ Checked(u)'
  <2>1. installed'[b] = "whole"
    <3>1. CASE installed' = installed
      BY <1>3, <3>1
    <3>2. CASE b # a
      BY <1>3, <3>2, OwnFiles
    <3>3. CASE installed' # installed /\ b = a
      <4>1. Place(t)
        BY <3>3, OwnFiles
      <4>2. Works(t, b) /\ at[t] = "place" /\ part[b] # Missing /\ (Checked(t) => installed'[b] = "whole")
        BY <3>3, <4>1, PlaceMoves
      <4> QED
        BY <1>3, <4>2 DEF WholeIsLeft
    <3> QED
      BY <3>1, <3>2, <3>3
  <2>2. Works(t, b)' => Works(t, b)
    BY <1>3, OwnPlace DEF Kept
  <2>3. \A u, v \in Threads : Works(u, b)' /\ Works(v, b)' => u = v
    BY <1>2, <1>3, <2>2 DEF WholeIsLeft
  <2>4. ASSUME NEW u \in Threads, Works(u, b)', at'[u] = "place"
        PROVE  part'[b] = Missing \/ Checked(u)'
    <3>1. CASE u = t
      BY <2>4, <3>1, OwnPlace
    <3>2. CASE u # t
      <4>1. Works(u, b) /\ at[u] = "place" /\ asset'[u] = b /\ asset[u] = b
        BY <1>1, <1>2, <2>4, <3>2 DEF Works
      <4>2. part[b] = Missing \/ Checked(u)
        BY <1>3, <4>1 DEF WholeIsLeft
      <4>3. part'[b] = part[b] /\ (b \in corrupt' <=> b \in corrupt)
        <5>1. CASE b # a
          BY <5>1, OwnFiles
        <5>2. CASE b = a
          <6>1. ~Works(t, a)
            BY <1>3, <3>2, <4>1, <5>2 DEF WholeIsLeft
          <6>2. Kept(t)
            BY <1>3, <5>2 DEF Kept
          <6> QED
            BY <6>1, <6>2, OwnFiles
        <5> QED
          BY <5>1, <5>2
      <4> QED
        BY <4>1, <4>2, <4>3 DEF Checked
    <3> QED
      BY <3>1, <3>2
  <2> QED
    BY <2>1, <2>3, <2>4
<1>4. ASSUME NEW b \in 1..Assets, installed[b] # "whole", installed'[b] = "whole"
      PROVE  /\ \A u, v \in Threads : Works(u, b)' /\ Works(v, b)' => u = v
             /\ part'[b] = Missing
  <2>1. b = a /\ installed' # installed
    BY <1>4, OwnFiles
  <2>2. part'[b] = Missing /\ ~Works(t, b)'
    BY <2>1, OwnFiles, PlaceMoves
  <2> QED
    BY <2>2 DEF TwoThreads
<1> QED
  BY <1>3, <1>4 DEF WholeIsLeft, Stays

\* A step that no thread begins with an asset in, and that leaves the files as they are.
LEMMA SameWhole ==
    ASSUME WholeIsLeft, UNCHANGED files,
           \A t \in Threads : at'[t] \in {"off", "begin"} \/ (at'[t] = at[t] /\ asset'[t] = asset[t])
    PROVE  WholeIsLeft' /\ Stays
<1>1. \A a : \A t \in Threads : Works(t, a)' => Works(t, a) /\ at'[t] = at[t] /\ (Checked(t)' <=> Checked(t))
  BY DEF Works, Checked, files
<1> QED
  BY <1>1 DEF WholeIsLeft, Stays, files

LEMMA StepWhole == ASSUME TypeOK, TwoThreads, WholeIsLeft, [Next]_vars PROVE WholeIsLeft' /\ Stays
<1>1. ASSUME NEW c \in Clients, Request(c) PROVE WholeIsLeft' /\ Stays
  <2>1. UNCHANGED files
    BY <1>1 DEF Request, Read, Insert, Requeue, Cancel, Launch, Spawn, Serving
  <2>2. CASE UNCHANGED thread
    BY <2>1, <2>2, SameWhole DEF thread
  <2>3. CASE Spawn(c)
    BY <2>1, <2>3, SameWhole DEF Spawn, Starts, TypeOK
  <2> QED
    BY <1>1, <2>2, <2>3 DEF Request, Read, Insert, Requeue, Cancel, Launch
<1>2. CASE Close \/ UNCHANGED vars
  BY <1>2, SameWhole DEF Close, vars, files, thread
<1>3. CASE Die
  BY <1>3, SameWhole DEF Die
<1>4. CASE Start
  BY <1>4, SameWhole DEF Start, Starts, thread, TypeOK
<1> QED
  BY <1>1, <1>2, <1>3, <1>4, InstallWhole DEF Next

LEMMA WholeInvariance == ASSUME TwoThreads PROVE Spec => [](TypeOK /\ WholeIsLeft)
<1>1. Init => WholeIsLeft
  BY DEF Init, WholeIsLeft
<1>2. TypeOK /\ WholeIsLeft /\ [Next]_vars => WholeIsLeft'
  BY StepWhole
<1> QED
  BY <1>1, <1>2, TypeCorrect, PTL DEF Spec

\* A destination file that verifies stays, for two threads that install at once, whatever they
\* download, lose and resume (model_assets.py:95-103, 133-138).
THEOREM WholeStays == TwoThreads => (Spec => WholeStaysWhole)
<1> SUFFICES ASSUME TwoThreads PROVE Spec => WholeStaysWhole
  OBVIOUS
<1>1. TypeOK /\ WholeIsLeft /\ [Next]_vars =>
          [\A a \in 1..Assets : installed[a] = "whole" => installed'[a] = "whole"]_vars
  BY StepWhole DEF Stays
<1>2. Spec => [](TypeOK /\ WholeIsLeft)
  BY WholeInvariance
<1> QED
  BY <1>1, <1>2, PTL DEF Spec, WholeStaysWhole

\* What a thread has validated.
Validated ==
    \A t \in Threads : /\ at[t] \in {"validate", "succeeded"} => manifest
                       /\ at[t] = "succeeded" => Verifies

LEMMA InstallValidated ==
    ASSUME TypeOK, Stays, Validated, SucceededIsInstalled, NEW t \in Threads, Install(t)
    PROVE  Validated' /\ SucceededIsInstalled'
<1> USE DEF To, Runs, TypeOK
<1>1. manifest => manifest'
  BY DEF Install, Begin, Look, Continue, Restart, Refuse, Block, Interrupt, Eof, Break, Check, Place, Manifest,
         Validate, Settle, Exit, files
<1>2. Verifies => Verifies'
  BY DEF Verifies, Stays
<1>3. \A u \in Threads : u # t => at'[u] = at[u]
  BY OthersStay
<1>4. at'[t] \in {"validate", "succeeded"} => manifest'
  <2>1. CASE Manifest(t)
    BY <2>1 DEF Manifest
  <2>2. CASE Validate(t)
    BY <1>1, <2>2 DEF Validate, Validated
  <2>3. CASE ~Manifest(t) /\ ~Validate(t)
    <3>1. CASE Begin(t) \/ Continue(t) \/ Restart(t) \/ Refuse(t) \/ Block(t) \/ Interrupt(t)
      BY <3>1 DEF Begin, Continue, Restart, Refuse, Block, Interrupt
    <3>2. CASE Look(t) \/ Place(t)
      BY <3>2 DEF Look, Place, Follows
    <3>3. CASE Eof(t) \/ Break(t) \/ Check(t) \/ Settle(t) \/ Exit(t)
      BY <3>3 DEF Eof, Break, Check, Settle, Exit
    <3> QED
      BY <2>3, <3>1, <3>2, <3>3 DEF Install
  <2> QED
    BY <2>1, <2>2, <2>3
<1>5. at'[t] = "succeeded" => Verifies'
  <2>1. CASE Validate(t)
    BY <1>2, <2>1 DEF Validate
  <2>2. CASE ~Validate(t)
    <3>1. CASE Begin(t) \/ Continue(t) \/ Restart(t) \/ Refuse(t) \/ Block(t) \/ Interrupt(t)
      BY <3>1 DEF Begin, Continue, Restart, Refuse, Block, Interrupt
    <3>2. CASE Look(t) \/ Place(t)
      BY <3>2 DEF Look, Place, Follows
    <3>3. CASE Eof(t) \/ Break(t) \/ Check(t) \/ Manifest(t) \/ Settle(t) \/ Exit(t)
      BY <3>3 DEF Eof, Break, Check, Manifest, Settle, Exit
    <3> QED
      BY <2>2, <3>1, <3>2, <3>3 DEF Install
  <2> QED
    BY <2>1, <2>2
<1>6. Validated'
  BY <1>1, <1>2, <1>3, <1>4, <1>5 DEF Validated
<1>7. \A j \in Jobs : jobs'[j] = "succeeded" => jobs[j] = "succeeded" \/ at[t] = "succeeded"
  <2>1. CASE Begin(t) \/ Settle(t)
    BY <2>1 DEF Begin, Settle
  <2>2. CASE ~Begin(t) /\ ~Settle(t)
    BY <2>2 DEF Install, Look, Continue, Restart, Refuse, Block, Interrupt, Eof, Break, Check, Place, Manifest,
       Validate, Exit
  <2> QED
    BY <2>1, <2>2
<1> QED
  BY <1>1, <1>2, <1>6, <1>7 DEF Validated, SucceededIsInstalled, Verifies

\* A step of a request or of the process.
LEMMA SameValidated ==
    ASSUME Validated, SucceededIsInstalled, UNCHANGED files,
           \A t \in Threads : at'[t] \in {"off", "begin"} \/ at'[t] = at[t],
           \A j \in Jobs : jobs'[j] = "succeeded" => jobs[j] = "succeeded"
    PROVE  Validated' /\ SucceededIsInstalled'
BY DEF Validated, SucceededIsInstalled, Verifies, files

LEMMA StepValidated ==
    ASSUME TypeOK, Stays, Validated, SucceededIsInstalled, [Next]_vars
    PROVE  Validated' /\ SucceededIsInstalled'
<1>1. ASSUME NEW c \in Clients, Request(c) PROVE Validated' /\ SucceededIsInstalled'
  <2>1. UNCHANGED files
    BY <1>1 DEF Request, Read, Insert, Requeue, Cancel, Launch, Spawn, Serving
  <2>2. \A j \in Jobs : jobs'[j] = "succeeded" => jobs[j] = "succeeded"
    BY <1>1 DEF Request, Read, Insert, Requeue, Cancel, Launch, Spawn, TypeOK
  <2>3. CASE UNCHANGED thread
    BY <2>1, <2>2, <2>3, SameValidated DEF thread
  <2>4. CASE Spawn(c)
    BY <2>1, <2>2, <2>4, SameValidated DEF Spawn, Starts, TypeOK
  <2> QED
    BY <1>1, <2>3, <2>4 DEF Request, Read, Insert, Requeue, Cancel, Launch
<1>2. CASE Close \/ UNCHANGED vars
  BY <1>2, SameValidated DEF Close, vars, files, thread
<1>3. CASE Die
  BY <1>3, SameValidated DEF Die
<1>4. CASE Start
  BY <1>4, SameValidated DEF Start, Starts, Recovered, thread, TypeOK
<1> QED
  BY <1>1, <1>2, <1>3, <1>4, InstallValidated DEF Next

\* If a job succeeded the package is there, whole and with its manifest, also when two threads
\* have installed at once and through any number of retries, faults and ends of the process
\* (model_assets.py:74-80, 159).
THEOREM SucceededInstalledByTwo == TwoThreads => (Spec => []SucceededIsInstalled)
<1> SUFFICES ASSUME TwoThreads PROVE Spec => []SucceededIsInstalled
  OBVIOUS
<1>1. Init => Validated /\ SucceededIsInstalled
  BY DEF Init, Validated, SucceededIsInstalled
<1>2. TypeOK /\ WholeIsLeft /\ Validated /\ SucceededIsInstalled /\ [Next]_vars
        => Validated' /\ SucceededIsInstalled'
  BY StepWhole, StepValidated
<1>3. Spec => [](TypeOK /\ WholeIsLeft)
  BY WholeInvariance
<1> QED
  BY <1>1, <1>2, <1>3, PTL DEF Spec

===============================================================================
