----------------------------- MODULE MCSourceLists -----------------------------
(* The small instance of SourceLists that TLC checks. *)
EXTENDS SourceLists
===============================================================================
