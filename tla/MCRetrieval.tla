------------------------------ MODULE MCRetrieval ------------------------------
(* The small instances of Chunking and Retrieval that TLC checks. *)
EXTENDS Retrieval, TLC
===============================================================================
