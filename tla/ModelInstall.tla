----------------------------- MODULE ModelInstall -----------------------------
(***************************************************************************)
(* The managed installation of the embedding model: the model job handlers *)
(* and the installer thread of application/service.py, and the download    *)
(* itself, retrieval/model_assets.py.                                      *)
(*                                                                         *)
(* Handlers run in a thread pool and hold the lock only for each statement *)
(* on the database; what one has read may be old when it acts.  A job is a *)
(* number: its created_at, in order.  A file is a number of blocks, `corrupt'*)
(* if one of them is not the asset's.  Files behave as on Windows, the     *)
(* platform that is released: one that another thread has open for writing *)
(* can be opened and truncated, and cannot be replaced or removed.         *)
(***************************************************************************)
EXTENDS Integers

CONSTANTS
    Clients,      \* requests that may be in progress at once
    Threads,      \* bound: installer threads that may be alive at once
    MaxJobs,      \* bound: model jobs ever created
    Assets,       \* number of assets of the package (E5_ASSETS)
    Size,         \* blocks of an asset
    MaxRequests,  \* bound: requests that are not refused or answered at once
    MaxFaults,    \* bound: errors of the network, the server or the disk
    MaxRestarts   \* bound: ends of the process, orderly or not

ASSUME ConstantsAssumption ==
    /\ {MaxJobs, Assets, Size} \subseteq Nat \ {0}
    /\ {MaxRequests, MaxFaults, MaxRestarts} \subseteq Nat

Jobs == 1..MaxJobs
Nobody == "nobody"
Missing == -1

VARIABLES
    jobs,       \* the status of each row of model_jobs, "none" before its insertion
    part,       \* blocks in each .part file, or Missing
    corrupt,    \* assets whose .part file has a block that is not the asset's
    installed,  \* what the destination file of each asset is
    manifest,   \* whether manifest.json exists
    at,         \* where each thread is
    on,         \* its job, ...
    asset,      \* ... the asset it is at, ...
    position,   \* ... the blocks of it that it has, counting those it resumed from, ...
    appends,    \* ... and whether it opened the .part file to append
    handle,     \* _model_thread: the thread started last
    cancel,     \* the event _model_cancel
    request,    \* the request of each client: its next step and its job
    process,    \* "up", "stopping" (the event _model_stop) or "down"
    overlapped, \* auxiliary: two threads have been alive at once
    requests, faults, restarts

files   == <<part, corrupt, installed, manifest>>
stream  == <<position, appends>>   \* kept only while it has a response open
thread  == <<at, on, asset, stream, handle, overlapped>>
budgets == <<faults, restarts>>
vars == <<jobs, part, corrupt, installed, manifest, at, on, asset, position, appends,
          handle, cancel, request, process, overlapped, requests, faults, restarts>>

Statuses == {"none", "pending", "running", "canceled", "failed", "succeeded"}
Outcomes == {"canceled", "failed", "succeeded"}   \* reached, and not yet written to the job
Places   == {"off", "begin", "look", "connect", "read", "check", "place", "manifest",
             "validate", "ending"} \cup Outcomes
Idle     == [op |-> "idle", job |-> 0]
Tasks    == [op : {"idle"}, job : {0}]
            \cup [op : {"insert", "requeue", "cancel", "launch", "spawn"}, job : Jobs]

TypeOK ==
    /\ jobs \in [Jobs -> Statuses]
    /\ part \in [1..Assets -> {Missing} \cup Nat]
    /\ corrupt \subseteq 1..Assets
    /\ installed \in [1..Assets -> {"missing", "whole", "broken"}]
    /\ manifest \in BOOLEAN
    /\ at \in [Threads -> Places]
    /\ on \in [Threads -> Jobs]
    /\ asset \in [Threads -> 1..Assets]
    /\ position \in [Threads -> 0..Size]
    /\ appends \in [Threads -> BOOLEAN]
    /\ handle \in Threads \cup {Nobody}
    /\ cancel \in BOOLEAN
    /\ request \in [Clients -> Tasks]
    /\ process \in {"up", "stopping", "down"}
    /\ overlapped \in BOOLEAN
    /\ requests \in 0..MaxRequests /\ faults \in 0..MaxFaults /\ restarts \in 0..MaxRestarts

Created == {j \in Jobs : jobs[j] # "none"}
Claimed == {j \in Jobs : \E c \in Clients : request[c] = [op |-> "insert", job |-> j]}
Latest(j, S) == j \in S /\ \A k \in S : k <= j
Alive(t) == at[t] # "off"

Init ==
    /\ jobs = [j \in Jobs |-> "none"]
    /\ part = [a \in 1..Assets |-> Missing] /\ corrupt = {}
    /\ installed = [a \in 1..Assets |-> "missing"] /\ manifest = FALSE
    /\ at = [t \in Threads |-> "off"] /\ on = [t \in Threads |-> 1]
    /\ asset = [t \in Threads |-> 1] /\ position = [t \in Threads |-> 0]
    /\ appends = [t \in Threads |-> FALSE]
    /\ handle = Nobody /\ cancel = FALSE
    /\ request = [c \in Clients |-> Idle]
    /\ process = "up" /\ overlapped = FALSE
    /\ requests = 0 /\ faults = 0 /\ restarts = 0

-----------------------------------------------------------------------------
(* Requests. *)

Goes(c, op, j) == request' = [request EXCEPT ![c] = [op |-> op, job |-> j]]
Answers(c) == request' = [request EXCEPT ![c] = Idle]
Serving(c, op) ==
    /\ process = "up" /\ request[c].op = op
    /\ UNCHANGED <<process, budgets, files>>
    /\ requests' = IF op = "idle" THEN requests + 1 ELSE requests
    /\ requests' <= MaxRequests

\* The clock never gives a time twice, nor an earlier one.
NextTime(j) ==
    LET taken == Created \cup Claimed IN
    /\ \A k \in taken : k < j
    /\ j = 1 \/ j - 1 \in taken

Active == {j \in Jobs : Latest(j, Created) /\ jobs[j] \in {"pending", "running"}}

\* A handler reads the job that it is about: the latest, or the one it is given.  If that is
\* active already, or not in a status to be retried or canceled, this is the answer.  A new
\* job gets its time here, before the lock: of two, the later may be inserted first.
Read(c) ==
    /\ Serving(c, "idle")
    /\ \/ Active = {} /\ \E j \in Jobs : NextTime(j) /\ Goes(c, "insert", j)
       \/ \E j \in Jobs : jobs[j] \in {"failed", "canceled"} /\ Goes(c, "requeue", j)
       \/ \E j \in Jobs : jobs[j] \in {"pending", "running"} /\ Goes(c, "cancel", j)
    /\ UNCHANGED <<jobs, thread, cancel>>

\* start_model_install
Insert(c) ==
    /\ Serving(c, "insert")
    /\ jobs' = [jobs EXCEPT ![request[c].job] = "pending"]
    /\ Goes(c, "launch", request[c].job)
    /\ UNCHANGED <<thread, cancel>>

\* retry_model_install: whatever the status is by now
Requeue(c) ==
    /\ Serving(c, "requeue")
    /\ jobs' = [jobs EXCEPT ![request[c].job] = "pending"]
    /\ Goes(c, "launch", request[c].job)
    /\ UNCHANGED <<thread, cancel>>

\* cancel_model_install: the event is one for all the jobs.
Cancel(c) ==
    /\ Serving(c, "cancel")
    /\ cancel' = TRUE /\ Answers(c)
    /\ UNCHANGED <<jobs, thread>>

\* _start_model_worker looks at the thread started last, ...
Launch(c) ==
    /\ Serving(c, "launch")
    /\ IF handle # Nobody /\ Alive(handle)
       THEN Answers(c)
       ELSE Goes(c, "spawn", request[c].job)
    /\ UNCHANGED <<jobs, thread, cancel>>

Starts(t, j) ==
    /\ at' = [at EXCEPT ![t] = "begin"] /\ on' = [on EXCEPT ![t] = j]
    /\ handle' = t
    /\ overlapped' = (overlapped \/ \E u \in Threads : Alive(u))
    /\ UNCHANGED <<asset, stream>>

\* ... clears the event and starts another.
Spawn(c) ==
    /\ Serving(c, "spawn")
    /\ \E t \in Threads : ~Alive(t) /\ Starts(t, request[c].job)
    /\ cancel' = FALSE /\ Answers(c)
    /\ UNCHANGED jobs

Request(c) == Read(c) \/ Insert(c) \/ Requeue(c) \/ Cancel(c) \/ Launch(c) \/ Spawn(c)

-----------------------------------------------------------------------------
(* The installer thread: _run_model_install and install_e5_package. *)

Runs(t, place) ==
    /\ process # "down" /\ at[t] = place
    /\ UNCHANGED <<handle, overlapped, cancel, request, requests, process, restarts>>
To(t, place) == at' = [at EXCEPT ![t] = place]

Fault  == faults < MaxFaults /\ faults' = faults + 1
NoFault == UNCHANGED faults
Stopped == cancel \/ process = "stopping"

Opens(t, from, append) ==
    position' = [position EXCEPT ![t] = from] /\ appends' = [appends EXCEPT ![t] = append]
Closes(t) == Opens(t, 0, FALSE)

\* The job becomes running if it is pending; without space on the disk it fails.
Begin(t) ==
    /\ Runs(t, "begin")
    /\ jobs' = [jobs EXCEPT ![on[t]] = IF @ = "pending" THEN "running" ELSE @]
    /\ \/ NoFault /\ To(t, "look")
       \/ Fault /\ To(t, "failed")
    /\ UNCHANGED <<files, on, asset, stream>>

Follows(t) == \* to the next asset, or to the manifest
    IF asset[t] < Assets
    THEN asset' = [asset EXCEPT ![t] = @ + 1] /\ To(t, "look")
    ELSE asset' = [asset EXCEPT ![t] = 1] /\ To(t, "manifest")

OpenElsewhere(t) == \E u \in Threads \ {t} : at[u] = "read" /\ asset[u] = asset[t]
Unlink(a) == part' = [part EXCEPT ![a] = Missing] /\ corrupt' = corrupt \ {a}

KeptNever(t) == FALSE                 \* mutant: every asset is downloaded again
Kept(t) == installed[asset[t]] = "whole"

\* A destination that verifies is kept.  A .part file that is too long is removed.
Look(t) ==
    LET a == asset[t] IN
    /\ Runs(t, "look") /\ NoFault
    /\ \/ Kept(t) /\ Follows(t) /\ UNCHANGED <<part, corrupt, stream>>
       \/ /\ ~Kept(t) /\ part[a] <= Size
          /\ Opens(t, IF part[a] = Missing THEN 0 ELSE part[a], FALSE)
          /\ To(t, "connect") /\ UNCHANGED <<part, corrupt, asset>>
       \/ /\ ~Kept(t) /\ part[a] > Size
          /\ IF OpenElsewhere(t)
             THEN To(t, "failed") /\ UNCHANGED <<part, corrupt>>
             ELSE To(t, "connect") /\ Unlink(a)
          /\ UNCHANGED <<asset, stream>>
    /\ UNCHANGED <<jobs, on, installed, manifest>>

Resumable(t) == position[t] > 0 /\ position[t] < Size

\* The server continues from the offset (206), ...
Continue(t) ==
    /\ Runs(t, "connect") /\ NoFault
    /\ Resumable(t)
    /\ Opens(t, position[t], TRUE) /\ To(t, "read")
    /\ part' = [part EXCEPT ![asset[t]] = IF @ = Missing THEN 0 ELSE @]
    /\ UNCHANGED <<jobs, on, corrupt, installed, manifest, asset>>

\* ... or sends the asset from its beginning, and the file is truncated, ...
Restart(t) ==
    /\ Runs(t, "connect") /\ NoFault
    /\ Opens(t, 0, FALSE) /\ To(t, "read")
    /\ part' = [part EXCEPT ![asset[t]] = 0] /\ corrupt' = corrupt \ {asset[t]}
    /\ UNCHANGED <<jobs, on, installed, manifest, asset>>

\* ... or refuses: without any fault when nothing lies beyond the offset (416).
Refuse(t) ==
    /\ Runs(t, "connect")
    /\ IF position[t] = Size THEN NoFault ELSE Fault
    /\ Closes(t) /\ To(t, "failed")
    /\ UNCHANGED <<jobs, files, on, asset>>

More(t) == position[t] < Size

\* A block is written at the end of the file, or where this thread stands in it.
Block(t) ==
    LET a == asset[t]
        misplaced == IF appends[t] THEN part[a] # position[t] ELSE part[a] < position[t] IN
    /\ Runs(t, "read")
    /\ More(t) /\ ~Stopped
    /\ part' = [part EXCEPT ![a] =
            IF appends[t] THEN @ + 1 ELSE IF @ > position[t] THEN @ ELSE position[t] + 1]
    /\ Opens(t, position[t] + 1, appends[t])
    /\ \/ NoFault /\ corrupt' = IF misplaced THEN corrupt \cup {a} ELSE corrupt
       \/ Fault /\ corrupt' = corrupt \cup {a}
    /\ UNCHANGED <<jobs, at, on, installed, manifest, asset>>

\* A cancellation and the stop are looked at between two blocks.
Interrupt(t) ==
    /\ Runs(t, "read") /\ NoFault
    /\ More(t) /\ Stopped
    /\ Closes(t) /\ To(t, "canceled")
    /\ UNCHANGED <<jobs, files, on, asset>>

\* The response ends, when all is read or before.
Eof(t) ==
    /\ Runs(t, "read")
    /\ IF position[t] = Size THEN NoFault ELSE Fault
    /\ Closes(t) /\ To(t, "check")
    /\ UNCHANGED <<jobs, files, on, asset>>

\* Reading or writing raises.
Break(t) ==
    /\ Runs(t, "read") /\ Fault
    /\ Closes(t) /\ To(t, "failed")
    /\ UNCHANGED <<jobs, files, on, asset>>

OfRightSize(t) == part[asset[t]] = Size   \* mutant: no checksum
Checked(t) == part[asset[t]] = Size /\ asset[t] \notin corrupt

\* The size, then the checksum: a .part file with another checksum is removed.
Check(t) ==
    LET a == asset[t] IN
    /\ Runs(t, "check") /\ NoFault
    /\ To(t, IF Checked(t) THEN "place" ELSE "failed")
    /\ IF ~Checked(t) /\ part[a] = Size /\ ~OpenElsewhere(t)
       THEN Unlink(a) ELSE UNCHANGED <<part, corrupt>>
    /\ UNCHANGED <<jobs, on, installed, manifest, asset, stream>>

\* os.replace: of whatever the .part file is by now.
Place(t) ==
    LET a == asset[t] IN
    /\ Runs(t, "place") /\ NoFault
    /\ IF part[a] = Missing \/ OpenElsewhere(t)
       THEN To(t, "failed") /\ UNCHANGED <<part, corrupt, installed, asset>>
       ELSE /\ installed' = [installed EXCEPT
                    ![a] = IF part[a] = Size /\ a \notin corrupt THEN "whole" ELSE "broken"]
            /\ Unlink(a) /\ Follows(t)
    /\ UNCHANGED <<jobs, on, manifest, stream>>

Manifest(t) ==
    /\ Runs(t, "manifest")
    /\ \/ NoFault /\ manifest' = TRUE /\ To(t, "validate")
       \/ Fault /\ To(t, "failed") /\ UNCHANGED manifest
    /\ UNCHANGED <<jobs, on, part, corrupt, installed, asset, stream>>

Unverified == TRUE                    \* mutant: the package is not validated at the end
Verifies == \A a \in 1..Assets : installed[a] = "whole"   \* validate_e5_package

Validate(t) ==
    /\ Runs(t, "validate") /\ NoFault
    /\ To(t, IF Verifies THEN "succeeded" ELSE "failed")
    /\ UNCHANGED <<jobs, files, on, asset, stream>>

\* The status is written whatever the row holds by now.  What the stop interrupts is pending.
Settle(t) ==
    /\ \E how \in Outcomes :
        /\ Runs(t, how) /\ NoFault
        /\ jobs' = [jobs EXCEPT ![on[t]] =
                IF how = "canceled" /\ process = "stopping" THEN "pending" ELSE how]
    /\ To(t, "ending")
    /\ on' = [on EXCEPT ![t] = 1] /\ asset' = [asset EXCEPT ![t] = 1]
    /\ UNCHANGED <<files, stream>>

\* The thread is alive for a moment after its last statement.
Exit(t) ==
    /\ Runs(t, "ending") /\ NoFault
    /\ To(t, "off")
    /\ UNCHANGED <<jobs, files, on, asset, stream>>

Install(t) ==
    \/ Begin(t) \/ Look(t) \/ Continue(t) \/ Restart(t) \/ Refuse(t) \/ Block(t) \/ Interrupt(t)
    \/ Eof(t) \/ Break(t) \/ Check(t) \/ Place(t) \/ Manifest(t) \/ Validate(t) \/ Settle(t) \/ Exit(t)

-----------------------------------------------------------------------------
(* The process. *)

\* close(), after the last request.
Close ==
    /\ process = "up" /\ restarts < MaxRestarts
    /\ \A c \in Clients : request[c] = Idle
    /\ process' = "stopping"
    /\ UNCHANGED <<jobs, files, thread, cancel, request, requests, budgets>>

\* The process ends: killed, or after close() has waited for the thread or given up.
Die ==
    /\ process # "down" /\ restarts < MaxRestarts
    /\ process' = "down" /\ restarts' = restarts + 1
    /\ at' = [t \in Threads |-> "off"]
    /\ handle' = Nobody /\ cancel' = FALSE
    /\ request' = [c \in Clients |-> Idle]
    /\ on' = [t \in Threads |-> 1] /\ asset' = [t \in Threads |-> 1]
    /\ position' = [t \in Threads |-> 0] /\ appends' = [t \in Threads |-> FALSE]
    /\ UNCHANGED <<jobs, files, overlapped, requests, faults>>

RecoveredNot(j) == jobs[j]            \* mutant: running jobs are not recovered
Recovered(j) == IF jobs[j] = "running" THEN "pending" ELSE jobs[j]

\* recover_model_jobs, and a thread for the latest of the pending jobs.
Start ==
    /\ process = "down" /\ process' = "up"
    /\ jobs' = [j \in Jobs |-> Recovered(j)]
    /\ LET pending == {j \in Jobs : Recovered(j) = "pending"} IN
       \/ pending = {} /\ UNCHANGED thread
       \/ \E t \in Threads, j \in Jobs : Latest(j, pending) /\ Starts(t, j)
    /\ UNCHANGED <<files, cancel, request, requests, budgets>>

Next ==
    \/ \E c \in Clients : Request(c)
    \/ \E t \in Threads : Install(t)
    \/ Close \/ Die \/ Start

Spec == Init /\ [][Next]_vars

\* Threads and begun requests go on, the network answers or times out, close() waits two
\* seconds, and Core is started again.  Nobody has to ask for anything.
FairSpec ==
    /\ Spec
    /\ \A t \in Threads : WF_vars(Install(t))
    /\ \A c \in Clients : WF_vars(request[c] # Idle /\ Request(c))
    /\ WF_vars(process = "stopping" /\ Die)
    /\ WF_vars(Start)

-----------------------------------------------------------------------------
(* Properties. *)

\* While Core is up, a job that is running has a thread in its installation, whatever races
\* of start, retry and cancel there were (service.py:252-311).
RunningIsDriven ==
    process # "down" => \A j \in Jobs : jobs[j] = "running" =>
        \E t \in Threads : on[t] = j /\ at[t] \notin {"off", "begin", "ending"}

\* If an installation is reported as succeeded, the package is there and verifies, also
\* when two threads install at once (model_assets.py:74-80, 159).  Not with three: a third
\* can replace by a file two others have mixed up what the first has just validated.
SucceededIsInstalled ==
    (\E j \in Jobs : jobs[j] = "succeeded") => manifest /\ \A a \in 1..Assets : installed[a] = "whole"

\* However often it is interrupted and resumed, a download that the server serves rightly is
\* put together rightly, and what is not put together rightly is never put in place
\* (model_assets.py:104-138).
PartIsSound ==
    ~overlapped =>
        /\ faults = 0 => corrupt = {}
        /\ \A a \in 1..Assets : installed[a] # "broken"

\* A destination file that verifies stays, also when two threads install at once
\* (model_assets.py:95-103, 133-138); not with three.
WholeStaysWhole == [][\A a \in 1..Assets : installed[a] = "whole" => installed'[a] = "whole"]_vars

\* An installation that an end of Core interrupts is taken up again, and ends, with nobody asking.
RestartResumes ==
    \A j \in Jobs : process = "down" /\ j \in Active ~> jobs[j] \notin {"pending", "running"}

\* In one process at most one thread downloads.
OneThread == \A t, u \in Threads : Alive(t) /\ Alive(u) => t = u

\* An installation fails only if the network, the server or the disk does.
FailsByFault == [][\A t \in Threads : at'[t] = "failed" /\ at[t] # "failed" => faults' > 0]_vars
===============================================================================
