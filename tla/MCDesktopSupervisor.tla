-------------------------- MODULE MCDesktopSupervisor --------------------------
(* The small instances of DesktopSupervisor that TLC checks. *)
EXTENDS DesktopSupervisor, TLC

CoreSymmetry == Permutations(Cores)

CoreFailures == {"coreDies"}
BadReplies == {"garbledReply"}
================================================================================
