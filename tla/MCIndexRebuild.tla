----------------------------- MODULE MCIndexRebuild -----------------------------
(* The small instances of IndexRebuild that TLC checks. *)
EXTENDS IndexRebuild
================================================================================
