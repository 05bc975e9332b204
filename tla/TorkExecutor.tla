---------------------------- MODULE TorkExecutor ----------------------------
(***************************************************************************)
(* The Tork execution provider, which is not part of src/: the jobs it was *)
(* given and the callbacks their containers have posted.  Modelled from    *)
(* how src/v2/hands/tork-hand-provider.ts, executor/tork-projection.ts and *)
(* executor/tork-observer.ts use it.  Tork survives a restart of the       *)
(* Southstar server.  A posted callback stays in `sent', so that it can    *)
(* arrive at any later time, more than once, or never.                     *)
(***************************************************************************)
EXTENDS RuntimeStore

CONSTANT Verdicts  \* bound: the verdicts a container posts in this instance

ASSUME VerdictAssumption == Verdicts \subseteq BOOLEAN

VARIABLES
    job,  \* job[h]: the Tork job submitted for hand execution h
    sent  \* the callbacks posted so far

torkVars == <<job, sent>>

LiveJob == {"queued", "running"}
TerminalJob == {"completed", "failed", "cancelled"}
JobStatus == {"none"} \cup LiveJob \cup TerminalJob

TorkTypeOK ==
    /\ job \in [Hands -> JobStatus]
    /\ sent \subseteq Callbacks

TorkInit ==
    /\ job = [h \in Hands |-> "none"]
    /\ sent = {}

(* The provider calls made by Southstar. *)
SubmitJob(h) == job' = [job EXCEPT ![h] = "queued"]

CancelledJob(h) == [job EXCEPT ![h] = IF @ \in LiveJob THEN "cancelled" ELSE @]

StartJob(h) ==
    /\ job[h] = "queued"
    /\ job' = [job EXCEPT ![h] = "running"]
    /\ UNCHANGED <<sent, storeVars>>

(* The container posts its result.  Tork retries a failed task, so one job *)
(* may post both verdicts.                                                 *)
PostCallback(h, ok) ==
    /\ job[h] = "running"
    /\ sent' = sent \cup {[hand |-> h, ok |-> ok]}
    /\ UNCHANGED <<job, storeVars>>

(* The job ends, having posted a callback or not. *)
EndJob(h, status) ==
    /\ \/ job[h] = "running" /\ status \in {"completed", "failed"}
       \/ job[h] = "queued" /\ status = "failed"
    /\ job' = [job EXCEPT ![h] = status]
    /\ UNCHANGED <<sent, storeVars>>

TorkStep ==
    \E h \in Hands :
        \/ StartJob(h)
        \/ \E ok \in Verdicts : PostCallback(h, ok)
        \/ \E status \in {"completed", "failed"} : EndJob(h, status)

=============================================================================
