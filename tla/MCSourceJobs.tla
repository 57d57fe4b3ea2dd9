----------------------------- MODULE MCSourceJobs -----------------------------
(* The small instances of SourceJobs that TLC checks. *)
EXTENDS SourceJobs, TLC

\* Handlers are interchangeable.
ClientSymmetry == Permutations(Clients)

Each(ops) == [c \in Clients |-> ops]
EveryRequest == Each(DocOps \cup BatchOps \cup {"import", "stop"})
PauseRequests == Each({"import", "seal", "pause", "resume"})
DeleteRequests == Each({"import", "delete"})
CancelRequests == Each({"import", "cancel"})

\* One client uploads, the others have the documents and the batch in hand.
Uploader == CHOOSE c \in Clients : TRUE
QueueRequests ==
    [c \in Clients |-> IF c = Uploader THEN {"import"}
                       ELSE {"seal", "pause", "resume", "retryBatch", "stop"}]
===============================================================================
