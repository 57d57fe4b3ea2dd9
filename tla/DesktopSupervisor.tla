--------------------------- MODULE DesktopSupervisor ---------------------------
(***************************************************************************)
(* The desktop shell's supervisor thread (apps/desktop/src-tauri/src/      *)
(* lib.rs), the Core processes it starts on one profile directory, and the *)
(* profile's discovery record, agent-endpoint.json, which each Core        *)
(* publishes and clears (app.py, mcp/discovery.py).                        *)
(*                                                                         *)
(* Time is abstracted: a deadline (15 s to start, 5 s to stop, the backoff *)
(* delays, the 250 ms between looks at the child) may pass at any moment   *)
(* at which the code waits for it.  `kill' ends a process at once.         *)
(*                                                                         *)
(* A Core is one process slot: a slot is used again once its process is    *)
(* gone and neither a desktop nor the record names it, so a slot stands    *)
(* for one process and one instance id as long as anyone can tell.         *)
(***************************************************************************)
EXTENDS Integers, Sequences

CONSTANTS
    Desktops,   \* desktop applications opened by the user on the profile
    Cores,      \* bound: Core processes alive at the same time
    None,       \* no child, no connection, no discovery record
    MaxInbox,   \* bound: restart commands waiting in the channel
    Failures    \* which failures of the surroundings can happen

MaxAutomaticRestarts == 3

FailureKinds == {"coreDies", "desktopDies", "garbledReply", "checkError"}

ASSUME ConstantsAssumption ==
    /\ None \notin Cores
    /\ MaxInbox \in Nat
    /\ Failures \subseteq FailureKinds

VARIABLES
    sup,        \* per desktop: where supervise_core is, and its locals
    view,       \* per desktop: the RuntimeSnapshot the commands read
    inbox,      \* per desktop: the channel of SupervisorCommands
    closing,    \* per desktop: the main thread is in stop_core
    core,       \* per Core: where the process is in app.py's lifespan
    endpoint    \* the Core that agent-endpoint.json names

vars == <<sup, view, inbox, closing, core, endpoint>>

Stopping == {"stopToRestart", "stopToEnd"}
Places   == {"off", "begin", "spawn", "probe", "backoff", "failed", "watch"} \cup Stopping
Phases   == {"starting", "recovering", "failed"}
Stages   == {"absent", "booting", "published", "serving", "leaving", "clearing", "closing"}

TypeOK ==
    /\ sup \in [Desktops -> [at : Places, phase : Phases,
                             count : 0..MaxAutomaticRestarts, child : Cores \cup {None}]]
    /\ view \in [Desktops -> [state : Phases \cup {"ready", "stopped"},
                              connection : Cores \cup {None},
                              count : 0..MaxAutomaticRestarts]]
    /\ inbox \in [Desktops -> Seq({"restart", "shutdown"})]
    /\ closing \in [Desktops -> BOOLEAN]
    /\ core \in [Cores -> Stages]
    /\ endpoint \in Cores \cup {None}

Live(c) == core[c] # "absent"

-----------------------------------------------------------------------------
(* The supervisor's locals and the snapshot it publishes. *)

Fresh == [at |-> "begin", phase |-> "starting", count |-> 0, child |-> None]

Init ==
    /\ sup = [d \in Desktops |-> [Fresh EXCEPT !.at = "off"]]
    /\ view = [d \in Desktops |-> [state |-> "starting", connection |-> None, count |-> 0]]
    /\ inbox = [d \in Desktops |-> <<>>]
    /\ closing = [d \in Desktops |-> FALSE]
    /\ core = [c \in Cores |-> "absent"]
    /\ endpoint = None

ShowKept(d, state, connection, count) ==  \* mutant: the old connection stays
    view' = [view EXCEPT ![d] = [state |-> state, count |-> count,
                connection |-> IF connection = None THEN @.connection ELSE connection]]

\* update_snapshot.
Show(d, state, connection, count) ==
    view' = [view EXCEPT ![d] = [state |-> state, connection |-> connection, count |-> count]]

Move(d, at, phase, count, child) ==
    sup' = [sup EXCEPT ![d] = [at |-> at, phase |-> phase, count |-> count, child |-> child]]

KillNot(c) == UNCHANGED core  \* mutant: the child is not killed

\* Child::kill; Windows' TerminateProcess or SIGKILL: the process cleans nothing up.
Kill(c) == core' = [core EXCEPT ![c] = "absent"]

At(d, place) == sup[d].at = place

-----------------------------------------------------------------------------
(* The user and the main thread. *)

\* run: the supervisor thread is spawned with a fresh snapshot and channel.
Open(d) ==
    /\ At(d, "off")
    /\ sup' = [sup EXCEPT ![d] = Fresh]
    /\ Show(d, "starting", None, 0)
    /\ inbox' = [inbox EXCEPT ![d] = <<>>]
    /\ closing' = [closing EXCEPT ![d] = FALSE]
    /\ UNCHANGED <<core, endpoint>>

\* The restart_core command: the Restart button, or a restore that was scheduled.
RequestRestart(d) ==
    /\ ~At(d, "off") /\ ~closing[d]
    /\ Len(inbox[d]) < MaxInbox
    /\ inbox' = [inbox EXCEPT ![d] = Append(@, "restart")]
    /\ UNCHANGED <<sup, view, closing, core, endpoint>>

\* stop_core sends Shutdown and joins the supervisor on the main thread, which
\* handles no further command.
Close(d) ==
    /\ ~At(d, "off") /\ ~closing[d]
    /\ closing' = [closing EXCEPT ![d] = TRUE]
    /\ inbox' = [inbox EXCEPT ![d] = Append(@, "shutdown")]
    /\ UNCHANGED <<sup, view, core, endpoint>>

-----------------------------------------------------------------------------
(* supervise_core: starting. *)

Begin(d) ==
    /\ At(d, "begin")
    /\ Show(d, sup[d].phase, None, sup[d].count)
    /\ sup' = [sup EXCEPT ![d].at = "spawn"]
    /\ UNCHANGED <<inbox, closing, core, endpoint>>

Spent(n) == n + 1

Exhausted(n) == n > MaxAutomaticRestarts

\* start_core returned an error: back off and try again while the budget lasts.
StartFailed(d) ==
    /\ UNCHANGED <<inbox, closing, endpoint>>
    /\ LET n == sup[d].count IN
       IF n >= MaxAutomaticRestarts
       THEN Show(d, "failed", None, n) /\ Move(d, "failed", sup[d].phase, n, None)
       ELSE /\ Show(d, "recovering", None, Spent(n))
            /\ Move(d, "backoff", "recovering", Spent(n), None)

Spawn(d) ==
    /\ At(d, "spawn")
    /\ \E c \in Cores :
        /\ ~Live(c) /\ endpoint # c
        /\ \A e \in Desktops : c \notin {sup[e].child, view[e].connection}
        /\ core' = [core EXCEPT ![c] = "booting"]
        /\ sup' = [sup EXCEPT ![d].at = "probe", ![d].child = c]
    /\ UNCHANGED <<view, inbox, closing, endpoint>>

\* No data directory, no port, no executable, or no process.
SpawnFails(d) == At(d, "spawn") /\ StartFailed(d) /\ UNCHANGED core

AnsweredAfresh(d) ==  \* mutant: a Core that became ready gets the budget back
    /\ At(d, "probe") /\ core[sup[d].child] = "serving"
    /\ Show(d, "ready", sup[d].child, 0)
    /\ sup' = [sup EXCEPT ![d].at = "watch", ![d].count = 0]
    /\ UNCHANGED <<inbox, closing, core, endpoint>>

\* The version handshake succeeds.
Answered(d) ==
    /\ At(d, "probe") /\ core[sup[d].child] = "serving"
    /\ Show(d, "ready", sup[d].child, sup[d].count)
    /\ sup' = [sup EXCEPT ![d].at = "watch"]
    /\ UNCHANGED <<inbox, closing, core, endpoint>>

ExitedEarly(d) ==
    At(d, "probe") /\ ~Live(sup[d].child) /\ StartFailed(d) /\ UNCHANGED core

\* The fifteen seconds are over, or the version is not the desktop's.
StartKills(d) == At(d, "probe") /\ Kill(sup[d].child) /\ StartFailed(d)

\* The `?' after the parse of the version: the child is let go of, not killed.
GarbledReply(d) ==
    /\ "garbledReply" \in Failures
    /\ At(d, "probe") /\ core[sup[d].child] = "serving"
    /\ StartFailed(d) /\ UNCHANGED core

\* The `?' after try_wait in start_core, with the same effect.
StartCheckFails(d) ==
    "checkError" \in Failures /\ At(d, "probe") /\ StartFailed(d) /\ UNCHANGED core

-----------------------------------------------------------------------------
(* supervise_core: commands.  wait_for_command and recv return the oldest     *)
(* command; a delay passes only while there is none.                          *)

AwaitsInFailed == {"failed"}      \* mutant: the backoff does not look at commands
AwaitsCommand == {"backoff", "failed"}

Takes(d, command) ==
    /\ inbox[d] # <<>> /\ Head(inbox[d]) = command
    /\ inbox' = [inbox EXCEPT ![d] = Tail(@)]

Ends(d) ==
    /\ Show(d, "stopped", None, sup[d].count)
    /\ Move(d, "off", sup[d].phase, sup[d].count, None)

RestartWithoutCore(d) ==
    /\ sup[d].at \in AwaitsCommand /\ Takes(d, "restart")
    /\ Move(d, "begin", "starting", 0, None)
    /\ UNCHANGED <<view, closing, core, endpoint>>

EndWithoutCore(d) ==
    /\ sup[d].at \in AwaitsCommand /\ Takes(d, "shutdown")
    /\ Ends(d)
    /\ UNCHANGED <<closing, core, endpoint>>

BackoffOver(d) ==
    /\ At(d, "backoff") /\ inbox[d] = <<>>
    /\ sup' = [sup EXCEPT ![d].at = "begin"]
    /\ UNCHANGED <<view, inbox, closing, core, endpoint>>

\* stop_child asks Core to shut down; a Core that does not serve does not hear it.
AskToStop(d) ==
    /\ At(d, "watch")
    /\ \/ Takes(d, "restart")  /\ sup' = [sup EXCEPT ![d].at = "stopToRestart"]
       \/ Takes(d, "shutdown") /\ sup' = [sup EXCEPT ![d].at = "stopToEnd"]
    /\ LET c == sup[d].child IN
       IF core[c] = "serving" THEN core' \in {core, [core EXCEPT ![c] = "leaving"]}
                              ELSE UNCHANGED core
    /\ UNCHANGED <<view, closing, endpoint>>

\* stop_child returns: Core has exited, or is killed after five seconds.
Stopped(d) ==
    /\ Kill(sup[d].child)
    /\ \/ At(d, "stopToRestart") /\ Move(d, "begin", "starting", 0, None) /\ UNCHANGED view
       \/ At(d, "stopToEnd") /\ Ends(d)
    /\ UNCHANGED <<inbox, closing, endpoint>>

-----------------------------------------------------------------------------
(* supervise_core: watching. *)

ExitSeen(d) ==
    /\ At(d, "watch") /\ inbox[d] = <<>> /\ ~Live(sup[d].child)
    /\ LET n == Spent(sup[d].count) IN
       IF Exhausted(n)
       THEN /\ Show(d, "failed", None, MaxAutomaticRestarts)
            /\ Move(d, "failed", "failed", MaxAutomaticRestarts, None)
       ELSE Show(d, "recovering", None, n) /\ Move(d, "backoff", "recovering", n, None)
    /\ UNCHANGED <<inbox, closing, core, endpoint>>

\* try_wait fails: the handle is dropped with the process still there.
WatchCheckFails(d) ==
    /\ "checkError" \in Failures
    /\ At(d, "watch") /\ inbox[d] = <<>>
    /\ Show(d, "failed", None, sup[d].count)
    /\ Move(d, "failed", "failed", sup[d].count, None)
    /\ UNCHANGED <<inbox, closing, core, endpoint>>

-----------------------------------------------------------------------------
(* A Core process: app.py's lifespan around uvicorn's server. *)

Step(c, from, to) == core[c] = from /\ core' = [core EXCEPT ![c] = to]

Publish(c) ==
    /\ Step(c, "booting", "published") /\ endpoint' = c
    /\ UNCHANGED <<sup, view, inbox, closing>>

\* uvicorn binds the port, or finds that another process took it meanwhile.
Bind(c) ==
    /\ Step(c, "published", "serving") \/ Step(c, "published", "leaving")
    /\ UNCHANGED <<sup, view, inbox, closing, endpoint>>

\* clear_endpoint reads whose record it is and, if its own, unlinks the file.
ReadEndpoint(c) ==
    /\ Step(c, "leaving", IF endpoint = c THEN "clearing" ELSE "closing")
    /\ UNCHANGED <<sup, view, inbox, closing, endpoint>>

Unlink(c) ==
    /\ Step(c, "clearing", "closing") /\ endpoint' = None
    /\ UNCHANGED <<sup, view, inbox, closing>>

\* LoreDockService.close has stopped the worker and the process ends.
Exit(c) == Step(c, "closing", "absent") /\ UNCHANGED <<sup, view, inbox, closing, endpoint>>

\* A start that fails before the record is published, or, as a failure, a crash.
Die(c) ==
    /\ core[c] = "booting" \/ (Live(c) /\ "coreDies" \in Failures)
    /\ Kill(c)
    /\ UNCHANGED <<sup, view, inbox, closing, endpoint>>

\* The desktop process is killed; nothing ends its child.
DesktopDies(d) ==
    /\ "desktopDies" \in Failures
    /\ ~At(d, "off")
    /\ view' = [view EXCEPT ![d].state = "stopped", ![d].connection = None]
    /\ Move(d, "off", sup[d].phase, sup[d].count, None)
    /\ UNCHANGED <<inbox, closing, core, endpoint>>

-----------------------------------------------------------------------------
Supervise(d) ==
    \/ Begin(d) \/ Spawn(d) \/ SpawnFails(d)
    \/ Answered(d) \/ ExitedEarly(d) \/ StartKills(d)
    \/ RestartWithoutCore(d) \/ EndWithoutCore(d) \/ BackoffOver(d)
    \/ AskToStop(d) \/ Stopped(d) \/ ExitSeen(d)

Mishap(d) == GarbledReply(d) \/ StartCheckFails(d) \/ WatchCheckFails(d) \/ DesktopDies(d)

Run(c) == Publish(c) \/ Bind(c) \/ ReadEndpoint(c) \/ Unlink(c) \/ Exit(c)

Next ==
    \/ \E d \in Desktops :
        Open(d) \/ RequestRestart(d) \/ Close(d) \/ Supervise(d) \/ Mishap(d)
    \/ \E c \in Cores : Run(c) \/ Die(c)

Spec == Init /\ [][Next]_vars

\* The supervisor is a thread and a Core a process, and every wait of the
\* supervisor has a deadline; nothing makes a user act or a mishap happen.
Fairness ==
    /\ \A d \in Desktops : WF_vars(Supervise(d))
    /\ \A c \in Cores : WF_vars(Run(c))

FairSpec == Spec /\ Fairness

-----------------------------------------------------------------------------
(* Properties. *)

\* No Core runs without a desktop that holds its handle and will stop it: not
\* after a start that failed, an exit, a restart or a close (start_core,
\* stop_child).  Holds while no mishap makes the supervisor let go of a child.
NoOrphan == \A c \in Cores : Live(c) => \E d \in Desktops : sup[d].child = c

\* Once every desktop on the profile has closed, no Core is left running
\* (phase-3-delivery.md, ADR 0006).
CloseLeavesNoCore == (\A d \in Desktops : At(d, "off")) => \A c \in Cores : ~Live(c)

\* core_connection hands out the connection of the desktop's own present child,
\* or, for the moment between stopping it and the next start, of the Core just
\* stopped; never one of an earlier start, and none unless the status is ready.
HandsOutOwnCore == \A d \in Desktops : LET c == view[d].connection IN
    IF view[d].state # "ready" THEN c = None
    ELSE c # None /\ (c = sup[d].child \/ (At(d, "begin") /\ ~Live(c)))

\* The MCP bridge finds the Core that the desktop shows: while it serves, the
\* discovery record names it and was not overwritten or unlinked by the Core
\* before it (publish_endpoint, clear_endpoint), as long as no Core is orphaned
\* and one desktop is open.
ReadyIsDiscoverable == \A d \in Desktops :
    At(d, "watch") /\ core[sup[d].child] = "serving" => endpoint = sup[d].child

\* The status the user polls goes through the phases, and uses up the three
\* recoveries, as CoreLife says (ADR 0006).
Life == INSTANCE CoreLife WITH
    MaxRecoveries <- MaxAutomaticRestarts,
    state <- [d \in Desktops |-> view[d].state],
    recoveries <- [d \in Desktops |-> view[d].count]
ImplementsCoreLife == Life!Spec

\* Closing the window ends: the main thread's join in stop_core returns, behind
\* whatever start, backoff or queued restart the supervisor is in.
CloseEnds == \A d \in Desktops : closing[d] ~> At(d, "off")

\* There is no endless crash loop: a desktop that gets no more commands comes
\* to rest with a Core it watches or with the failure shown (recovery_delay, the
\* budget that a Core that became ready does not get back).
RecoveryIsBounded == \A d \in Desktops :
    <>[](inbox[d] = <<>> /\ ~At(d, "off")) => <>[](sup[d].at \in {"watch", "failed"})
================================================================================
