-------------------------------- MODULE JobLife --------------------------------
(***************************************************************************)
(* What the job queue promises whoever polls GET /jobs/{id}: the statuses  *)
(* a job goes through and the attempts it uses, with nothing said of the   *)
(* worker's stages, the files, the locks or the handlers' races.           *)
(***************************************************************************)
EXTENDS Naturals

CONSTANTS Docs, MaxAttempts

VARIABLES job, attempts

vars == <<job, attempts>>

Init ==
    /\ job = [d \in Docs |-> "none"]
    /\ attempts = [d \in Docs |-> 0]

To(ds, status) == job' = [d \in Docs |-> IF d \in ds THEN status ELSE job[d]]

NoneRunning == \A d \in Docs : job[d] # "running"

Accept(d) == job[d] = "none" /\ To({d}, "pending") /\ UNCHANGED attempts

\* One job runs at a time, and each lease uses up one attempt.
Lease(d) ==
    /\ job[d] = "pending" /\ attempts[d] < MaxAttempts /\ NoneRunning
    /\ To({d}, "running")
    /\ attempts' = [attempts EXCEPT ![d] = @ + 1]

\* The attempt the worker is in goes on although the job was requeued.
Regain(d) ==
    /\ job[d] = "pending" /\ attempts[d] > 0 /\ NoneRunning
    /\ To({d}, "running") /\ UNCHANGED attempts

End(d) ==
    /\ job[d] = "running"
    /\ \E status \in {"succeeded", "failed", "pending"} : To({d}, status)
    /\ UNCHANGED attempts

Cancel(ds) ==
    /\ \A d \in ds : job[d] \in {"pending", "running"}
    /\ To(ds, "canceled") /\ UNCHANGED attempts

Requeue(ds) ==
    /\ \A d \in ds : job[d] \in {"failed", "canceled"} /\ attempts[d] < MaxAttempts
    /\ To(ds, "pending") /\ UNCHANGED attempts

\* retry_job acts on a check made earlier, whatever has happened since.
RequeueLate(d) == job[d] # "none" /\ To({d}, "pending") /\ UNCHANGED attempts

Remove(d) ==
    /\ job[d] # "none"
    /\ To({d}, "none")
    /\ attempts' = [attempts EXCEPT ![d] = 0]

Recover ==
    /\ job' = [d \in Docs |->
                  IF job[d] # "running" THEN job[d]
                  ELSE IF attempts[d] < MaxAttempts THEN "pending" ELSE "failed"]
    /\ UNCHANGED attempts

Next ==
    \/ \E d \in Docs : \/ Accept(d) \/ Lease(d) \/ Regain(d) \/ End(d)
                       \/ RequeueLate(d) \/ Remove(d)
    \/ \E ds \in SUBSET Docs : Cancel(ds) \/ Requeue(ds)
    \/ Recover

Spec == Init /\ [][Next]_vars
================================================================================
