------------------------------- MODULE CoreLife --------------------------------
(***************************************************************************)
(* What the desktop promises about Core to the user who watches its status *)
(* (ADR 0006): phases and the recoveries used, and nothing of processes,   *)
(* queues, delays or timeouts.                                             *)
(***************************************************************************)
EXTENDS Naturals

CONSTANTS Desktops, MaxRecoveries

VARIABLES state, recoveries

vars == <<state, recoveries>>

Init ==
    /\ state = [d \in Desktops |-> "starting"]
    /\ recoveries = [d \in Desktops |-> 0]

Become(d, s, n) ==
    /\ state' = [state EXCEPT ![d] = s]
    /\ recoveries' = [recoveries EXCEPT ![d] = n]

Alive(d) == state[d] \in {"starting", "ready", "recovering"}

Ready(d) == state[d] \in {"starting", "recovering"} /\ Become(d, "ready", recoveries[d])

\* A start that failed or an exit of Core uses up one recovery.
Recover(d) ==
    /\ Alive(d) /\ recoveries[d] < MaxRecoveries
    /\ Become(d, "recovering", recoveries[d] + 1)

\* With no recovery left the desktop gives up.
GiveUp(d) ==
    /\ Alive(d) /\ recoveries[d] = MaxRecoveries
    /\ Become(d, "failed", MaxRecoveries)

\* It also gives up when it cannot tell whether Core still runs.
LoseTrack(d) == state[d] = "ready" /\ Become(d, "failed", recoveries[d])

\* Only the user gives the recoveries back: a restart, or the desktop reopened.
Restart(d) == Become(d, "starting", 0)

Stop(d) == state[d] # "stopped" /\ Become(d, "stopped", recoveries[d])

Next == \E d \in Desktops :
    Ready(d) \/ Recover(d) \/ GiveUp(d) \/ LoseTrack(d) \/ Restart(d) \/ Stop(d)

Spec == Init /\ [][Next]_vars
================================================================================
