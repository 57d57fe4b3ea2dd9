----------------------------- MODULE MCAgentAccess -----------------------------
(* The small instance of AgentAccess that TLC checks. *)
EXTENDS AgentAccess, TLC

CONSTANTS l1, l2, s1

\* Two libraries, and a source in one of them.
MCLibraryOf == s1 :> l1

\* The owner's requests are interchangeable.
Symmetry == Permutations(Owners)
===============================================================================
