------------------------ MODULE DesktopSupervisorProofs ------------------------
(* What holds of DesktopSupervisor for every number of desktops and of Cores. *)
EXTENDS DesktopSupervisor, TLAPS

-----------------------------------------------------------------------------
(* The inductive invariant: what the snapshot shows in each place of           *)
(* supervise_core.                                                             *)

HasCore == {"probe", "watch"} \cup Stopping

\* The handle is held exactly in the places that use it.
HandleHeld(d) == sup[d].child # None <=> sup[d].at \in HasCore

\* `begin' is reached by a command, with the budget reset, or after a backoff.
BeginsWith(d) == At(d, "begin") =>
    /\ sup[d].phase \in {"starting", "recovering"}
    /\ sup[d].phase = "starting" => sup[d].count = 0
    /\ sup[d].phase = "recovering" =>
          view[d].state = "recovering" /\ view[d].count = sup[d].count
    /\ view[d].state = "ready" => ~Live(view[d].connection)

Shows(d) ==
    /\ sup[d].at \in {"spawn", "probe"} =>
          sup[d].phase # "failed" /\ view[d].state = sup[d].phase
    /\ At(d, "backoff") => sup[d].phase = "recovering" /\ view[d].state = "recovering"
    /\ At(d, "failed") => view[d].state = "failed"
    /\ sup[d].at \in {"watch"} \cup Stopping =>
          view[d].state = "ready" /\ view[d].connection = sup[d].child
    /\ At(d, "off") => view[d].state # "ready"
    /\ sup[d].at \notin {"off", "begin"} => view[d].count = sup[d].count

Connected(d) == view[d].state = "ready" <=> view[d].connection # None

Agrees(d) == HandleHeld(d) /\ BeginsWith(d) /\ Shows(d) /\ Connected(d)

IInv == TypeOK /\ \A d \in Desktops : Agrees(d)

SupType == [at : Places, phase : Phases, count : 0..MaxAutomaticRestarts,
            child : Cores \cup {None}]
ViewType == [state : Phases \cup {"ready", "stopped"}, connection : Cores \cup {None},
             count : 0..MaxAutomaticRestarts]

LEMMA InitInv == Init => IInv
<1> SUFFICES ASSUME Init PROVE IInv
  OBVIOUS
<1>1. TypeOK
  BY DEF Init, TypeOK, Fresh, Places, Phases, Stages, MaxAutomaticRestarts
<1>2. \A d \in Desktops : Agrees(d)
  BY DEF Init, Fresh, Agrees, HandleHeld, BeginsWith, Shows, Connected, At, HasCore, Stopping
<1> QED
  BY <1>1, <1>2 DEF IInv

-----------------------------------------------------------------------------
(* Types *)

LEMMA MoveType ==
  ASSUME TypeOK, NEW d \in Desktops, NEW at \in Places, NEW phase \in Phases,
         NEW n \in 0..MaxAutomaticRestarts, NEW c \in Cores \cup {None},
         Move(d, at, phase, n, c)
  PROVE  sup' \in [Desktops -> SupType]
  BY DEF Move, TypeOK, SupType

LEMMA AtType ==
  ASSUME TypeOK, NEW d \in Desktops, NEW at \in Places, sup' = [sup EXCEPT ![d].at = at]
  PROVE  sup' \in [Desktops -> SupType]
  BY DEF TypeOK, SupType

LEMMA ShowType ==
  ASSUME TypeOK, NEW d \in Desktops, NEW state \in Phases \cup {"ready", "stopped"},
         NEW c \in Cores \cup {None}, NEW n \in 0..MaxAutomaticRestarts,
         Show(d, state, c, n)
  PROVE  view' \in [Desktops -> ViewType]
  BY DEF Show, TypeOK, ViewType

LEMMA TakesType ==
  ASSUME TypeOK, NEW d \in Desktops, NEW command, Takes(d, command)
  PROVE  inbox' \in [Desktops -> Seq({"restart", "shutdown"})]
<1>1. inbox[d] \in Seq({"restart", "shutdown"}) /\ inbox[d] # <<>>
  BY DEF TypeOK, Takes
<1>2. Tail(inbox[d]) \in Seq({"restart", "shutdown"})
  BY <1>1
<1> QED
  BY <1>2 DEF TypeOK, Takes

LEMMA KillType == ASSUME TypeOK, NEW c, Kill(c) PROVE core' \in [Cores -> Stages]
  BY DEF Kill, TypeOK, Stages

LEMMA StartFailedType ==
  ASSUME TypeOK, NEW d \in Desktops, StartFailed(d)
  PROVE  sup' \in [Desktops -> SupType] /\ view' \in [Desktops -> ViewType]
<1>1. sup[d] \in SupType /\ None \in Cores \cup {None}
  BY DEF TypeOK, SupType
<1>2. /\ sup[d].phase \in Phases /\ {"starting", "recovering", "failed"} \subseteq Phases
      /\ {"failed", "backoff"} \subseteq Places
  BY <1>1 DEF SupType, Phases, Places
<1>3. CASE sup[d].count >= MaxAutomaticRestarts
  BY <1>1, <1>2, <1>3, MoveType, ShowType DEF StartFailed, SupType
<1>4. CASE ~(sup[d].count >= MaxAutomaticRestarts)
  <2>1. sup[d].count + 1 \in 0..MaxAutomaticRestarts
    BY <1>1, <1>4 DEF SupType, MaxAutomaticRestarts
  <2> QED
    BY <1>2, <1>4, <2>1, MoveType, ShowType DEF StartFailed, Spent
<1> QED
  BY <1>3, <1>4

LEMMA SuperviseType ==
  ASSUME IInv, NEW d \in Desktops, Supervise(d) \/ Mishap(d)
  PROVE  TypeOK'
<1> DEFINE Typed == sup' \in [Desktops -> SupType] /\ view' \in [Desktops -> ViewType]
<1>0. /\ TypeOK
      /\ sup[d] \in SupType /\ view[d] \in ViewType
      /\ sup[d].at \in HasCore => sup[d].child \in Cores
  BY DEF IInv, TypeOK, Agrees, HandleHeld, SupType, ViewType
<1>a. /\ sup[d].phase \in Phases /\ sup[d].count \in 0..MaxAutomaticRestarts
      /\ None \in Cores \cup {None} /\ 0 \in 0..MaxAutomaticRestarts
      /\ {"begin", "off", "backoff", "failed"} \subseteq Places
      /\ {"starting", "recovering", "failed"} \subseteq Phases
  BY <1>0 DEF SupType, Places, Phases, MaxAutomaticRestarts
<1>b. ASSUME Ends(d) PROVE Typed
  BY <1>0, <1>a, <1>b, MoveType, ShowType DEF Ends
<1>c. ASSUME Typed, core' \in [Cores -> Stages], UNCHANGED <<closing, endpoint>>,
             inbox' = inbox \/ \E command : Takes(d, command)
      PROVE  TypeOK'
  BY <1>0, <1>c, TakesType DEF TypeOK, SupType, ViewType
<1>1. CASE Begin(d)
  <2>1. view' \in [Desktops -> ViewType]
    BY <1>0, <1>a, <1>1, ShowType DEF Begin
  <2> QED
    BY <1>0, <1>c, <1>1, <2>1, AtType DEF Begin, TypeOK, Places
<1>2. CASE Spawn(d)
  BY <1>0, <1>2 DEF Spawn, At, TypeOK, Places, Stages
<1>4. CASE \/ SpawnFails(d) \/ ExitedEarly(d) \/ StartKills(d)
           \/ GarbledReply(d) \/ StartCheckFails(d)
  <2>1. core' \in [Cores -> Stages]
    BY <1>0, <1>4, KillType
       DEF SpawnFails, ExitedEarly, StartKills, GarbledReply, StartCheckFails, TypeOK
  <2>2. StartFailed(d)
    BY <1>4 DEF SpawnFails, ExitedEarly, StartKills, GarbledReply, StartCheckFails
  <2> QED
    BY <1>0, <1>c, <2>1, <2>2, StartFailedType DEF StartFailed
<1>5. CASE Answered(d)
  <2>1. view' \in [Desktops -> ViewType]
    BY <1>0, <1>a, <1>5, ShowType DEF Answered, At, HasCore
  <2> QED
    BY <1>0, <1>c, <1>5, <2>1, AtType DEF Answered, TypeOK, Places
<1>6. CASE RestartWithoutCore(d) \/ EndWithoutCore(d)
  <2>1. CASE RestartWithoutCore(d)
    BY <1>0, <1>a, <1>c, <2>1, MoveType DEF RestartWithoutCore, TypeOK, ViewType
  <2>2. CASE EndWithoutCore(d)
    BY <1>0, <1>b, <1>c, <2>2 DEF EndWithoutCore, TypeOK
  <2> QED
    BY <1>6, <2>1, <2>2
<1>7. CASE BackoffOver(d)
  BY <1>0, <1>c, <1>7, AtType DEF BackoffOver, TypeOK, Places, ViewType
<1>8. CASE AskToStop(d)
  <2>1. core' \in [Cores -> Stages]
    BY <1>0, <1>8 DEF AskToStop, TypeOK, Stages
  <2>2. sup' \in [Desktops -> SupType]
    BY <1>0, <1>8, AtType DEF AskToStop, Places, Stopping
  <2> QED
    BY <1>0, <1>8, <1>c, <2>1, <2>2 DEF AskToStop, TypeOK, ViewType
<1>9. CASE Stopped(d)
  <2>1. core' \in [Cores -> Stages]
    BY <1>0, <1>9, KillType DEF Stopped
  <2>2. Typed
    BY <1>0, <1>9, <1>a, <1>b, MoveType DEF Stopped, TypeOK, ViewType
  <2> QED
    BY <1>9, <1>c, <2>1, <2>2 DEF Stopped
<1>10. CASE ExitSeen(d)
  <2>1. Exhausted(Spent(sup[d].count)) \/ Spent(sup[d].count) \in 0..MaxAutomaticRestarts
    BY <1>a DEF Exhausted, Spent, MaxAutomaticRestarts
  <2>2. MaxAutomaticRestarts \in 0..MaxAutomaticRestarts
    BY DEF MaxAutomaticRestarts
  <2>3. Typed
    BY <1>0, <1>10, <1>a, <2>1, <2>2, MoveType, ShowType DEF ExitSeen
  <2> QED
    BY <1>0, <1>10, <1>c, <2>3 DEF ExitSeen, TypeOK
<1>11. CASE WatchCheckFails(d)
  BY <1>0, <1>a, <1>c, <1>11, MoveType, ShowType DEF WatchCheckFails, TypeOK
<1>12. CASE DesktopDies(d)
  <2>1. view' \in [Desktops -> ViewType]
    BY <1>0, <1>12 DEF DesktopDies, TypeOK, ViewType
  <2> QED
    BY <1>0, <1>a, <1>c, <1>12, <2>1, MoveType DEF DesktopDies, TypeOK
<1> QED
  BY <1>1, <1>2, <1>4, <1>5, <1>6, <1>7, <1>8, <1>9, <1>10, <1>11, <1>12
     DEF Supervise, Mishap

LEMMA StepType == ASSUME IInv, [Next]_vars PROVE TypeOK'
<1>0. TypeOK
  BY DEF IInv
<1>1. ASSUME NEW d \in Desktops, Supervise(d) \/ Mishap(d) PROVE TypeOK'
  BY <1>1, SuperviseType
<1>2. ASSUME NEW d \in Desktops, Open(d) PROVE TypeOK'
  <2>1. Fresh \in SupType /\ None \in Cores \cup {None} /\ 0 \in 0..MaxAutomaticRestarts
    BY DEF Fresh, SupType, Places, Phases, MaxAutomaticRestarts
  <2>2. view' \in [Desktops -> ViewType]
    BY <1>0, <1>2, <2>1, ShowType DEF Open, Phases
  <2>3. /\ inbox' \in [Desktops -> Seq({"restart", "shutdown"})]
        /\ closing' \in [Desktops -> BOOLEAN]
    BY <1>0, <1>2 DEF Open, TypeOK
  <2>4. sup' \in [Desktops -> SupType]
    BY <1>0, <1>2, <2>1 DEF Open, TypeOK, SupType
  <2> QED
    BY <1>0, <1>2, <2>2, <2>3, <2>4 DEF Open, TypeOK, SupType, ViewType
<1>3. ASSUME NEW d \in Desktops, RequestRestart(d) \/ Close(d) PROVE TypeOK'
  <2>1. inbox[d] \in Seq({"restart", "shutdown"})
    BY <1>0 DEF TypeOK
  <2>2. \A command \in {"restart", "shutdown"} :
          Append(inbox[d], command) \in Seq({"restart", "shutdown"})
    BY <2>1
  <2>3. /\ inbox' \in [Desktops -> Seq({"restart", "shutdown"})]
        /\ closing' \in [Desktops -> BOOLEAN]
    BY <1>0, <1>3, <2>2 DEF RequestRestart, Close, TypeOK
  <2> QED
    BY <1>0, <1>3, <2>3 DEF RequestRestart, Close, TypeOK
<1>4. ASSUME NEW c \in Cores, Run(c) \/ Die(c) PROVE TypeOK'
  BY <1>0, <1>4 DEF Run, Publish, Bind, ReadEndpoint, Unlink, Exit, Die, Step, Kill, TypeOK,
     Stages
<1>5. CASE UNCHANGED vars
  BY <1>0, <1>5 DEF vars, TypeOK
<1> QED
  BY <1>1, <1>2, <1>3, <1>4, <1>5 DEF Next

-----------------------------------------------------------------------------
(* Snapshot and place agree. *)

\* A desktop that a step leaves alone: it is enough that no Core came to life in
\* the slot its snapshot still names.
LEMMA LeftAlone ==
  ASSUME TypeOK, NEW e \in Desktops, Agrees(e), sup'[e] = sup[e], view'[e] = view[e],
         \A c \in Cores : c = view[e].connection /\ ~Live(c) => ~Live(c)'
  PROVE  Agrees(e)'
<1>1. view[e].connection \in Cores \cup {None}
  BY DEF TypeOK
<1> QED
  BY <1>1 DEF Agrees, HandleHeld, BeginsWith, Shows, Connected, At

LEMMA StartFailedAgrees ==
  ASSUME IInv, NEW d \in Desktops, StartFailed(d)
  PROVE  Agrees(d)'
<1>1. sup[d] \in SupType /\ sup \in [Desktops -> SupType] /\ view \in [Desktops -> ViewType]
  BY DEF IInv, TypeOK, SupType, ViewType
<1> QED
  BY <1>1 DEF StartFailed, Spent, Show, Move, Agrees, HandleHeld, BeginsWith, Shows, Connected,
     At, HasCore, Stopping, SupType

LEMMA SuperviseAgrees ==
  ASSUME IInv, NEW d \in Desktops, Supervise(d) \/ Mishap(d)
  PROVE  Agrees(d)'
<1> USE DEF At
<1>0. /\ TypeOK /\ Agrees(d) /\ None \notin Cores
      /\ sup \in [Desktops -> SupType] /\ view \in [Desktops -> ViewType]
      /\ sup[d] \in SupType /\ view[d] \in ViewType
  BY ConstantsAssumption DEF IInv, TypeOK, SupType, ViewType, ConstantsAssumption
<1>b. ASSUME Ends(d) PROVE Agrees(d)'
  BY <1>0, <1>b DEF Ends, Show, Move, Agrees, HandleHeld, BeginsWith, Shows, Connected, HasCore,
     Stopping
<1>1. CASE Begin(d)
  BY <1>0, <1>1 DEF Begin, Show, Agrees, HandleHeld, BeginsWith, Shows, Connected, HasCore,
     Stopping
<1>2. CASE Spawn(d)
  BY <1>0, <1>2 DEF Spawn, Agrees, HandleHeld, BeginsWith, Shows, Connected, HasCore, Stopping
<1>4. CASE \/ SpawnFails(d) \/ ExitedEarly(d) \/ StartKills(d)
           \/ GarbledReply(d) \/ StartCheckFails(d)
  BY <1>4, StartFailedAgrees
     DEF SpawnFails, ExitedEarly, StartKills, GarbledReply, StartCheckFails
<1>5. CASE Answered(d)
  BY <1>0, <1>5 DEF Answered, Show, Agrees, HandleHeld, BeginsWith, Shows, Connected, HasCore,
     Stopping
<1>6. CASE RestartWithoutCore(d) \/ EndWithoutCore(d) \/ BackoffOver(d)
  <2>1. CASE RestartWithoutCore(d)
    <3>1. view[d].state \in {"recovering", "failed"} /\ view' = view
      BY <1>0, <2>1 DEF RestartWithoutCore, AwaitsCommand, Agrees, Shows
    <3>2. sup'[d] = [at |-> "begin", phase |-> "starting", count |-> 0, child |-> None]
      BY <1>0, <2>1 DEF RestartWithoutCore, Move
    <3> QED
      BY <1>0, <3>1, <3>2 DEF Agrees, HandleHeld, BeginsWith, Shows, Connected, HasCore, Stopping
  <2>2. CASE EndWithoutCore(d)
    BY <1>b, <2>2 DEF EndWithoutCore
  <2>3. CASE BackoffOver(d)
    BY <1>0, <2>3 DEF BackoffOver, Agrees, HandleHeld, BeginsWith, Shows, Connected, HasCore,
       Stopping
  <2> QED
    BY <1>6, <2>1, <2>2, <2>3
<1>7. CASE AskToStop(d)
  <2>1. /\ sup'[d].at \in Stopping /\ view' = view
        /\ sup'[d].count = sup[d].count /\ sup'[d].child = sup[d].child
    BY <1>0, <1>7 DEF AskToStop, Stopping, SupType
  <2> QED
    BY <1>0, <1>7, <2>1 DEF AskToStop, Agrees, HandleHeld, BeginsWith, Shows, Connected,
       HasCore, Stopping
<1>8. CASE Stopped(d)
  <2>1. CASE At(d, "stopToEnd") /\ Ends(d)
    BY <1>b, <2>1
  <2>2. CASE At(d, "stopToRestart")
    <3>1. sup[d].child \in Cores /\ view[d].connection = sup[d].child /\ view' = view
          /\ Move(d, "begin", "starting", 0, None)
      BY <1>0, <1>8, <2>2 DEF Stopped, Agrees, HandleHeld, Shows, Stopping, HasCore, SupType
    <3>2. ~Live(view[d].connection)'
      BY <1>0, <1>8, <3>1 DEF Stopped, Kill, Live, TypeOK
    <3> QED
      BY <1>0, <3>1, <3>2 DEF Move, Agrees, HandleHeld, BeginsWith, Shows, Connected, HasCore,
         Stopping
  <2> QED
    BY <1>8, <2>1, <2>2 DEF Stopped
<1>9. CASE ExitSeen(d) \/ WatchCheckFails(d)
  BY <1>0, <1>9 DEF ExitSeen, WatchCheckFails, Show, Move, Agrees, HandleHeld, BeginsWith,
     Shows, Connected, HasCore, Stopping
<1>10. CASE DesktopDies(d)
  BY <1>0, <1>10 DEF DesktopDies, Move, Agrees, HandleHeld, BeginsWith, Shows, Connected,
     HasCore, Stopping
<1> QED
  BY <1>1, <1>2, <1>4, <1>5, <1>6, <1>7, <1>8, <1>9, <1>10 DEF Supervise, Mishap

\* A step of one desktop leaves the others alone.
LEMMA OthersAgree ==
  ASSUME IInv, NEW d \in Desktops, Supervise(d) \/ Mishap(d) \/ Open(d),
         NEW e \in Desktops \ {d}
  PROVE  Agrees(e)'
<1>0. TypeOK /\ Agrees(e)
  BY DEF IInv
<1>1. sup'[e] = sup[e] /\ view'[e] = view[e]
  BY <1>0 DEF Supervise, Mishap, Open, Begin, Spawn, SpawnFails, Answered, ExitedEarly,
     StartKills, GarbledReply, StartCheckFails, RestartWithoutCore, EndWithoutCore,
     BackoffOver, AskToStop, Stopped, ExitSeen, WatchCheckFails, DesktopDies, StartFailed,
     Ends, Show, Move, TypeOK
<1>2. CASE Spawn(d)
  BY <1>0, <1>1, <1>2, LeftAlone DEF Spawn, Live, TypeOK
<1>3. CASE ~Spawn(d)
  <2>1. core' = core \/ Kill(sup[d].child) \/ AskToStop(d)
    BY <1>3 DEF Supervise, Mishap, Open, Begin, SpawnFails, Answered, ExitedEarly,
       StartKills, GarbledReply, StartCheckFails, RestartWithoutCore, EndWithoutCore,
       BackoffOver, Stopped, ExitSeen, WatchCheckFails, DesktopDies
  <2>2. \A c \in Cores : ~Live(c) => ~Live(c)'
    BY <1>0, <2>1 DEF Kill, AskToStop, Live, TypeOK
  <2> QED
    BY <1>0, <1>1, <2>2, LeftAlone
<1> QED
  BY <1>2, <1>3

LEMMA StepAgrees == ASSUME IInv, [Next]_vars, NEW e \in Desktops PROVE Agrees(e)'
<1>0. TypeOK /\ Agrees(e)
  BY DEF IInv
<1>1. ASSUME NEW d \in Desktops, Supervise(d) \/ Mishap(d) PROVE Agrees(e)'
  BY <1>1, SuperviseAgrees, OthersAgree
<1>2. ASSUME NEW d \in Desktops, Open(d) PROVE Agrees(e)'
  <2>1. CASE e = d
    BY <1>0, <1>2, <2>1 DEF Open, Show, Fresh, TypeOK, Agrees, HandleHeld, BeginsWith, Shows,
       Connected, At, HasCore, Stopping
  <2> QED
    BY <1>2, <2>1, OthersAgree
<1>3. ASSUME NEW d \in Desktops, RequestRestart(d) \/ Close(d) PROVE Agrees(e)'
  BY <1>0, <1>3, LeftAlone DEF RequestRestart, Close, Live
<1>4. ASSUME NEW c \in Cores, Run(c) \/ Die(c) PROVE Agrees(e)'
  <2>1. \A b \in Cores : ~Live(b) => ~Live(b)'
    BY <1>0, <1>4 DEF Run, Publish, Bind, ReadEndpoint, Unlink, Exit, Die, Step, Kill, Live,
       TypeOK
  <2> QED
    BY <1>0, <1>4, <2>1, LeftAlone
       DEF Run, Publish, Bind, ReadEndpoint, Unlink, Exit, Die
<1>5. CASE UNCHANGED vars
  BY <1>0, <1>5, LeftAlone DEF vars, Live
<1> QED
  BY <1>1, <1>2, <1>3, <1>4, <1>5 DEF Next

LEMMA Invariance == Spec => []IInv
<1>1. IInv /\ [Next]_vars => IInv'
  BY StepType, StepAgrees DEF IInv
<1> QED
  BY InitInv, <1>1, PTL DEF Spec

\* Every reachable state is well typed; in particular restart_count stays within the
\* three restarts of MAX_AUTOMATIC_RESTARTS.
THEOREM TypeCorrect == Spec => []TypeOK
  BY Invariance, PTL DEF IInv

\* core_connection hands out the present child's connection only, whatever commands,
\* exits and mishaps there are and however many desktops share the profile.
THEOREM HandsOut == Spec => []HandsOutOwnCore
<1>1. ASSUME IInv, NEW d \in Desktops, view[d].state = "ready"
      PROVE  view[d].connection = sup[d].child \/ (At(d, "begin") /\ ~Live(view[d].connection))
  <2>1. Agrees(d) /\ sup[d] \in SupType
    BY <1>1 DEF IInv, TypeOK, SupType
  <2>2. CASE At(d, "begin")
    BY <1>1, <2>1, <2>2 DEF Agrees, BeginsWith
  <2>3. CASE sup[d].at \in {"watch"} \cup Stopping
    BY <2>1, <2>3 DEF Agrees, Shows
  <2>4. CASE sup[d].at \in {"off", "spawn", "probe", "backoff", "failed"}
    BY <1>1, <2>1, <2>4 DEF Agrees, Shows, At, SupType, Phases
  <2> QED
    BY <2>1, <2>2, <2>3, <2>4 DEF SupType, Places, At
<1>2. IInv => HandsOutOwnCore
  BY <1>1 DEF IInv, Agrees, Connected, HandsOutOwnCore
<1> QED
  BY Invariance, <1>2, PTL

-----------------------------------------------------------------------------
(* Without a mishap no Core is let go of. *)

NoMishap == Failures \subseteq {"coreDies"}

LEMMA SuperviseKeeps ==
  ASSUME IInv, NoOrphan, NoMishap, NEW d \in Desktops, Supervise(d) \/ Mishap(d) \/ Open(d)
  PROVE  NoOrphan'
<1> USE DEF At
<1>0. /\ TypeOK /\ None \notin Cores /\ sup \in [Desktops -> SupType]
      /\ HandleHeld(d)
  BY ConstantsAssumption DEF IInv, TypeOK, SupType, Agrees, ConstantsAssumption
<1>1. ASSUME \A e \in Desktops : sup'[e].child = sup[e].child,
             \A c \in Cores : Live(c)' => Live(c)
      PROVE  NoOrphan'
  BY <1>1 DEF NoOrphan
<1>2. ASSUME NEW c \in Cores \cup {None}, c = sup[d].child,
             c = None \/ ~Live(c)',
             \A e \in Desktops \ {d} : sup'[e] = sup[e],
             \A b \in Cores : Live(b)' => Live(b)
      PROVE  NoOrphan'
  BY <1>0, <1>2 DEF NoOrphan
<1>3. CASE Begin(d) \/ Answered(d) \/ BackoffOver(d)
  BY <1>0, <1>1, <1>3 DEF Begin, Answered, BackoffOver, Live, SupType
<1>4. CASE AskToStop(d)
  <2>1. \A e \in Desktops : sup'[e].child = sup[e].child
    BY <1>0, <1>4 DEF AskToStop, SupType
  <2>2. \A c \in Cores : Live(c)' => Live(c)
    BY <1>0, <1>4 DEF AskToStop, Live, TypeOK
  <2> QED
    BY <1>1, <2>1, <2>2
<1>5. CASE Spawn(d)
  <2>1. PICK c \in Cores : /\ core' = [core EXCEPT ![c] = "booting"]
                           /\ sup' = [sup EXCEPT ![d].at = "probe", ![d].child = c]
    BY <1>5 DEF Spawn
  <2>2. sup[d].child = None /\ sup'[d].child = c
    BY <1>0, <1>5, <2>1 DEF Spawn, HandleHeld, HasCore, Stopping, SupType
  <2>3. \A b \in Cores \ {c} : Live(b)' => Live(b)
    BY <1>0, <2>1 DEF Live, TypeOK
  <2>4. \A e \in Desktops \ {d} : sup'[e] = sup[e]
    BY <1>0, <2>1
  <2> QED
    BY <1>0, <2>2, <2>3, <2>4 DEF NoOrphan
<1>6. CASE \/ SpawnFails(d) \/ RestartWithoutCore(d) \/ EndWithoutCore(d) \/ Open(d)
  <2>1. sup[d].child = None
    BY <1>0, <1>6 DEF SpawnFails, RestartWithoutCore, EndWithoutCore, AwaitsCommand, Open,
       HandleHeld, HasCore, Stopping
  <2>2. core' = core /\ \A e \in Desktops \ {d} : sup'[e] = sup[e]
    BY <1>0, <1>6 DEF SpawnFails, StartFailed, RestartWithoutCore, EndWithoutCore, Open, Ends,
       Move
  <2> QED
    BY <1>2, <2>1, <2>2 DEF Live
<1>7. CASE ExitedEarly(d) \/ ExitSeen(d)
  <2>1. sup[d].child \in Cores /\ ~Live(sup[d].child) /\ core' = core
    BY <1>0, <1>7 DEF ExitedEarly, ExitSeen, HandleHeld, HasCore, SupType
  <2>2. \A e \in Desktops \ {d} : sup'[e] = sup[e]
    BY <1>0, <1>7 DEF ExitedEarly, ExitSeen, StartFailed, Move
  <2> QED
    BY <1>2, <2>1, <2>2 DEF Live
<1>8. CASE StartKills(d) \/ Stopped(d)
  <2>1. PICK c \in Cores : c = sup[d].child /\ Kill(c)
    BY <1>0, <1>8 DEF StartKills, Stopped, HandleHeld, HasCore, Stopping, SupType
  <2>2. ~Live(c)' /\ \A b \in Cores : Live(b)' => Live(b)
    BY <1>0, <2>1 DEF Kill, Live, TypeOK
  <2>3. \A e \in Desktops \ {d} : sup'[e] = sup[e]
    BY <1>0, <1>8 DEF StartKills, Stopped, StartFailed, Ends, Move
  <2> QED
    BY <1>2, <2>1, <2>2, <2>3
<1>9. ~Mishap(d)
  BY DEF Mishap, GarbledReply, StartCheckFails, WatchCheckFails, DesktopDies, NoMishap
<1> QED
  BY <1>3, <1>4, <1>5, <1>6, <1>7, <1>8, <1>9 DEF Supervise

LEMMA NextKeeps == NoMishap => (IInv /\ NoOrphan /\ [Next]_vars => NoOrphan')
<1> SUFFICES ASSUME NoMishap, IInv, NoOrphan, [Next]_vars PROVE NoOrphan'
  OBVIOUS
<1>1. ASSUME NEW d \in Desktops, Supervise(d) \/ Mishap(d) \/ Open(d) PROVE NoOrphan'
  BY <1>1, SuperviseKeeps
<1>2. ASSUME NEW d \in Desktops, RequestRestart(d) \/ Close(d) PROVE NoOrphan'
  BY <1>2 DEF RequestRestart, Close, NoOrphan, Live
<1>3. ASSUME NEW c \in Cores, Run(c) \/ Die(c) PROVE NoOrphan'
  <2>1. sup' = sup /\ \A b \in Cores : Live(b)' => Live(b)
    BY <1>3 DEF IInv, Run, Publish, Bind, ReadEndpoint, Unlink, Exit, Die, Step, Kill, Live,
       TypeOK
  <2> QED
    BY <2>1 DEF NoOrphan
<1>4. CASE UNCHANGED vars
  BY <1>4 DEF vars, NoOrphan, Live
<1> QED
  BY <1>1, <1>2, <1>3, <1>4 DEF Next

\* As long as the version reply can be read, the process can be looked at and the desktop
\* itself lives, every Core that runs is the child some desktop holds and will stop; the
\* crashes of Cores, failed starts, restarts and closes orphan none.
THEOREM OrphansNone == NoMishap => (Spec => []NoOrphan)
<1> SUFFICES ASSUME NoMishap PROVE Spec => []NoOrphan
  OBVIOUS
<1>1. Init => NoOrphan
  BY DEF Init, NoOrphan, Live
<1>2. IInv /\ NoOrphan /\ [Next]_vars => NoOrphan'
  BY NextKeeps
<1> QED
  BY Invariance, <1>1, <1>2, PTL DEF Spec

-----------------------------------------------------------------------------
(* One desktop on the profile: its Core is alone, and so is its record. *)

OneDesktop == \A d, e \in Desktops : d = e

\* The record names a Core from the moment it is published until the Core leaves.
RecordNames == \A c \in Cores : core[c] \in {"published", "serving"} => endpoint = c

LEMMA AloneNames ==
  ASSUME OneDesktop, IInv, NoOrphan, RecordNames, [Next]_vars
  PROVE  RecordNames'
<1>0. TypeOK /\ \A d \in Desktops : HandleHeld(d)
  BY DEF IInv, Agrees
<1>1. ASSUME NEW b \in Cores, NEW c \in Cores, Live(b), Live(c) PROVE b = c
  BY <1>1 DEF NoOrphan, OneDesktop
<1>2. ASSUME NEW c \in Cores, Run(c) \/ Die(c) PROVE RecordNames'
  <2>1. \A b \in Cores \ {c} : Live(c) => core'[b] = core[b] /\ core[b] = "absent"
    BY <1>0, <1>1, <1>2 DEF Run, Publish, Bind, ReadEndpoint, Unlink, Exit, Die, Step, Kill,
       Live, TypeOK
  <2>2. Live(c) /\ (core'[c] \in {"published", "serving"} => endpoint' = c)
    BY <1>0, <1>2 DEF Run, Publish, Bind, ReadEndpoint, Unlink, Exit, Die, Step, Kill, Live,
       TypeOK, RecordNames
  <2> QED
    BY <2>1, <2>2 DEF RecordNames
<1>3. CASE \A c \in Cores : ~(Run(c) \/ Die(c))
  <2>1. endpoint' = endpoint
    BY <1>3 DEF Next, vars, Open, RequestRestart, Close, Supervise, Mishap, Begin, Spawn,
       SpawnFails, Answered, ExitedEarly, StartKills, GarbledReply, StartCheckFails,
       RestartWithoutCore, EndWithoutCore, BackoffOver, AskToStop, Stopped, ExitSeen,
       WatchCheckFails, DesktopDies, StartFailed
  <2>2. \/ core' = core
        \/ \E d \in Desktops : Kill(sup[d].child) \/ AskToStop(d) \/ Spawn(d)
    BY <1>3 DEF Next, vars, Open, RequestRestart, Close, Supervise, Mishap, Begin,
       SpawnFails, Answered, ExitedEarly, StartKills, GarbledReply, StartCheckFails,
       RestartWithoutCore, EndWithoutCore, BackoffOver, Stopped, ExitSeen,
       WatchCheckFails, DesktopDies
  <2>3. \A c \in Cores : core'[c] \in {core[c], "absent", "leaving", "booting"}
    BY <1>0, <2>2 DEF Kill, AskToStop, Spawn, TypeOK
  <2> QED
    BY <2>1, <2>3 DEF RecordNames
<1> QED
  BY <1>2, <1>3

\* With one desktop on the profile and no mishap, the discovery record names the Core the
\* desktop watches for as long as it serves: no earlier Core is left to unlink or to
\* overwrite it (publish_endpoint, clear_endpoint, stop_child).  Cores may still crash.
THEOREM ReadyDiscoverable == OneDesktop /\ NoMishap => (Spec => []ReadyIsDiscoverable)
<1> SUFFICES ASSUME OneDesktop, NoMishap PROVE Spec => []ReadyIsDiscoverable
  OBVIOUS
<1>1. Init => RecordNames
  BY DEF Init, RecordNames
<1>2. IInv /\ NoOrphan /\ RecordNames /\ [Next]_vars => RecordNames'
  BY AloneNames
<1>3. IInv /\ RecordNames => ReadyIsDiscoverable
  <2> SUFFICES ASSUME IInv, RecordNames, NEW d \in Desktops, At(d, "watch"),
                      core[sup[d].child] = "serving"
               PROVE  endpoint = sup[d].child
    BY DEF ReadyIsDiscoverable
  <2>1. sup[d].child \in Cores
    BY DEF IInv, TypeOK, Agrees, HandleHeld, HasCore, At
  <2> QED
    BY <2>1 DEF RecordNames
<1>4. Spec => []NoOrphan
  BY OrphansNone
<1> QED
  BY Invariance, <1>1, <1>2, <1>3, <1>4, PTL DEF Spec

-----------------------------------------------------------------------------
(* The status the user polls implements CoreLife. *)

\* The steps of CoreLife, said of the snapshot.
LifeStep(d) ==
    LET old == view[d]
        new == view'[d]
        Count(n) == new.count = n
    IN  \/ new.state = old.state /\ Count(old.count)
        \/ new.state = "ready" /\ old.state \in {"starting", "recovering"} /\ Count(old.count)
        \/ /\ new.state = "recovering" /\ old.state \in {"starting", "ready", "recovering"}
           /\ old.count < MaxAutomaticRestarts /\ Count(old.count + 1)
        \/ /\ new.state = "failed" /\ old.state \in {"starting", "ready", "recovering"}
           /\ old.count = MaxAutomaticRestarts /\ Count(MaxAutomaticRestarts)
        \/ new.state = "failed" /\ old.state = "ready" /\ Count(old.count)
        \/ new.state = "starting" /\ Count(0)
        \/ new.state = "stopped" /\ old.state # "stopped" /\ Count(old.count)

LEMMA LifeStepImplements ==
  ASSUME TypeOK, TypeOK', NEW d \in Desktops, LifeStep(d),
         \A e \in Desktops \ {d} : view'[e] = view[e]
  PROVE  [Life!Next]_Life!vars
<1> DEFINE st == [e \in Desktops |-> view[e].state]
           rc == [e \in Desktops |-> view[e].count]
<1>1. st[d] = view[d].state /\ rc[d] = view[d].count
  OBVIOUS
<1>2. /\ [e \in Desktops |-> view'[e].state] = [st EXCEPT ![d] = view'[d].state]
      /\ [e \in Desktops |-> view'[e].count] = [rc EXCEPT ![d] = view'[d].count]
  OBVIOUS
<1>3. CASE view'[d].state = view[d].state /\ view'[d].count = view[d].count
  BY <1>3 DEF Life!vars
<1>4. CASE ~(view'[d].state = view[d].state /\ view'[d].count = view[d].count)
  <2>1. \/ Life!Ready(d) \/ Life!Recover(d) \/ Life!GiveUp(d) \/ Life!LoseTrack(d)
        \/ Life!Restart(d) \/ Life!Stop(d)
    BY <1>1, <1>2, <1>4 DEF LifeStep, Life!Ready, Life!Recover, Life!GiveUp, Life!LoseTrack,
       Life!Restart, Life!Stop, Life!Alive, Life!Become
  <2> QED
    BY <2>1 DEF Life!Next
<1> QED
  BY <1>3, <1>4

LEMMA StartFailedSteps ==
  ASSUME IInv, NEW d \in Desktops, StartFailed(d), sup[d].at \in {"spawn", "probe"}
  PROVE  LifeStep(d)
<1>1. /\ view \in [Desktops -> ViewType] /\ sup[d].count \in 0..3
      /\ view[d].state \in {"starting", "recovering"} /\ view[d].count = sup[d].count
  BY DEF IInv, TypeOK, Agrees, Shows, Phases, ViewType, MaxAutomaticRestarts
<1> QED
  BY <1>1 DEF StartFailed, Spent, Show, LifeStep, MaxAutomaticRestarts

LEMMA SuperviseSteps ==
  ASSUME IInv, NEW d \in Desktops, Supervise(d) \/ Mishap(d)
  PROVE  LifeStep(d)
<1> USE DEF At, Show
<1>0. /\ TypeOK /\ Agrees(d) /\ sup[d] \in SupType /\ view[d] \in ViewType
      /\ view \in [Desktops -> ViewType]
  BY DEF IInv, TypeOK, SupType, ViewType
<1>1. CASE \/ Spawn(d) \/ RestartWithoutCore(d) \/ BackoffOver(d) \/ AskToStop(d)
           \/ UNCHANGED view
  BY <1>1 DEF Spawn, RestartWithoutCore, BackoffOver, AskToStop, LifeStep
<1>2. CASE \/ SpawnFails(d) \/ ExitedEarly(d) \/ StartKills(d)
           \/ GarbledReply(d) \/ StartCheckFails(d)
  BY <1>2, StartFailedSteps
     DEF SpawnFails, ExitedEarly, StartKills, GarbledReply, StartCheckFails
<1>3. CASE Begin(d)
  BY <1>0, <1>3 DEF Begin, Agrees, BeginsWith, LifeStep
<1>4. CASE Answered(d)
  BY <1>0, <1>4 DEF Answered, Agrees, Shows, SupType, Phases, LifeStep
<1>5. CASE EndWithoutCore(d) \/ (At(d, "stopToEnd") /\ Ends(d))
  BY <1>0, <1>5 DEF EndWithoutCore, AwaitsCommand, Ends, Agrees, Shows, Stopping, LifeStep
<1>6. CASE ExitSeen(d)
  <2>1. view[d].state = "ready" /\ view[d].count = sup[d].count /\ sup[d].count \in 0..3
    BY <1>0, <1>6 DEF ExitSeen, Agrees, Shows, SupType, MaxAutomaticRestarts
  <2> QED
    BY <1>0, <1>6, <2>1 DEF ExitSeen, Exhausted, Spent, LifeStep, MaxAutomaticRestarts
<1>7. CASE WatchCheckFails(d)
  BY <1>0, <1>7 DEF WatchCheckFails, Agrees, Shows, LifeStep
<1>8. CASE DesktopDies(d)
  BY <1>0, <1>8 DEF DesktopDies, LifeStep, ViewType
<1>9. Stopped(d) => UNCHANGED view \/ (At(d, "stopToEnd") /\ Ends(d))
  BY DEF Stopped
<1> QED
  BY <1>1, <1>2, <1>3, <1>4, <1>5, <1>6, <1>7, <1>8, <1>9 DEF Supervise, Mishap

LEMMA OneViewMoves ==
  ASSUME TypeOK, NEW d \in Desktops, Supervise(d) \/ Mishap(d) \/ Open(d)
  PROVE  \A e \in Desktops \ {d} : view'[e] = view[e]
  BY DEF Supervise, Mishap, Open, Begin, Spawn, SpawnFails, Answered, ExitedEarly,
     StartKills, GarbledReply, StartCheckFails, RestartWithoutCore, EndWithoutCore,
     BackoffOver, AskToStop, Stopped, ExitSeen, WatchCheckFails, DesktopDies, StartFailed,
     Ends, Show, TypeOK

\* The status polled goes through the phases of CoreLife and spends the restart budget as
\* it says, for every number of desktops and through every exit, mishap and queued command.
THEOREM Refinement == Spec => ImplementsCoreLife
<1>1. Init => Life!Init
  BY DEF Init, Life!Init
<1>2. IInv /\ [Next]_vars => [Life!Next]_Life!vars
  <2> SUFFICES ASSUME IInv, [Next]_vars PROVE [Life!Next]_Life!vars
    OBVIOUS
  <2>0. TypeOK /\ TypeOK'
    BY StepType DEF IInv
  <2>1. ASSUME NEW d \in Desktops, Supervise(d) \/ Mishap(d) PROVE [Life!Next]_Life!vars
    BY <2>0, <2>1, SuperviseSteps, OneViewMoves, LifeStepImplements
  <2>2. ASSUME NEW d \in Desktops, Open(d) PROVE [Life!Next]_Life!vars
    <3>1. LifeStep(d)
      BY <2>0, <2>2 DEF Open, Show, LifeStep, TypeOK
    <3> QED
      BY <2>0, <2>2, <3>1, OneViewMoves, LifeStepImplements
  <2>3. CASE UNCHANGED view
    BY <2>3 DEF Life!vars
  <2> QED
    BY <2>1, <2>2, <2>3 DEF Next, RequestRestart, Close, Run, Publish, Bind, ReadEndpoint,
       Unlink, Exit, Die, vars
<1> QED
  BY <1>1, <1>2, Invariance, PTL DEF Spec, ImplementsCoreLife, Life!Spec
================================================================================
