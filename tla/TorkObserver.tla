---------------------------- MODULE TorkObserver ----------------------------
(***************************************************************************)
(* src/v2/executor/tork-observer.ts: the loop "tork-exception-observer".   *)
(* It reads the active hand_executions, polls Tork for each of them, and   *)
(* settles the attempt, marks it running, or reports a timeout.  A sweep   *)
(* here visits one hand execution; a sweep over several is several of      *)
(* these in a row with older row snapshots, which a sweep paused at pc     *)
(* "row" already stands for.  Timeouts are not timed: a row may have       *)
(* expired whenever its clock has an anchor.                               *)
(***************************************************************************)
EXTENDS TorkExecutor

VARIABLE obs  \* the hand execution under observation

ObsPc == {"idle", "row", "settle", "patchTask", "observe", "decide"}

ObserverKinds == {"tork_queue_timeout", "tork_running_hang", "tork_terminal_without_callback"}

NoHand == CHOOSE h \in Hands : TRUE

IdleObs == [pc |-> "idle", hand |-> NoHand, status |-> "queued", jobId |-> FALSE,
            started |-> FALSE, kind |-> "tork_terminal_without_callback"]

ObsTypeOK ==
    obs \in [pc : ObsPc, hand : Hands, status : ActiveHandStatus, jobId : BOOLEAN,
             started : BOOLEAN, kind : ObserverKinds]

ObsInit == obs = IdleObs

-----------------------------------------------------------------------------
ObsHand == obs.hand

ObsException == <<ObsHand[1], ObsHand[2], obs.kind>>

ObsGoTo(pc, kind) == obs' = [obs EXCEPT !.pc = pc, !.kind = kind]

EndObservation == obs' = IdleObs

(* terminalHandExecutionStatus: a job that completed without a callback is *)
(* a lost attempt.                                                         *)
SettledStatus(jobStatus) ==
    CASE jobStatus = "cancelled" -> "cancelled"
      [] jobStatus = "completed" -> "lost"
      [] OTHER -> "failed"

ReadRow(h) ==
    /\ obs.pc = "idle"
    /\ handStatus[h] \in ActiveHandStatus
    /\ obs' = [IdleObs EXCEPT !.pc = "row", !.hand = h, !.status = handStatus[h],
                              !.jobId = handJobId[h], !.started = handStarted[h]]
    /\ UNCHANGED <<torkVars, storeVars>>

(* Mutant: only rows seen running are polled for their end. *)
PollTerminalOfRunning ==
    /\ obs.pc = "row"
    /\ obs.jobId
    /\ obs.status = "running"
    /\ "tork_terminal_without_callback" \in Kinds
    /\ job[ObsHand] \in TerminalJob
    /\ IF handStatus[ObsHand] \in ActiveHandStatus
         THEN ObsGoTo("settle", "tork_terminal_without_callback")
         ELSE EndObservation
    /\ UNCHANGED <<torkVars, storeVars>>

(* The poll reports a terminal job, and settleHandExecutionPg reads the    *)
(* row: an attempt that is settled by now is left alone.                   *)
PollTerminal ==
    /\ obs.pc = "row"
    /\ obs.jobId
    /\ "tork_terminal_without_callback" \in Kinds
    /\ job[ObsHand] \in TerminalJob
    /\ IF handStatus[ObsHand] \in ActiveHandStatus
         THEN ObsGoTo("settle", "tork_terminal_without_callback")
         ELSE EndObservation
    /\ UNCHANGED <<torkVars, storeVars>>

(* Mutant: the attempt is settled and nothing reported. *)
SettleSilently ==
    /\ obs.pc = "settle"
    /\ SetHand(ObsHand, SettledStatus(job[ObsHand]))
    /\ EndObservation
    /\ UNCHANGED <<torkVars, runStatus, taskStatus, handJobId, handStarted, accepted,
                   receipts, recoveryVars>>

(* The write that follows has no condition of its own.                     *)
SettleTerminal ==
    /\ obs.pc = "settle"
    /\ SetHand(ObsHand, SettledStatus(job[ObsHand]))
    /\ ObsGoTo("observe", obs.kind)
    /\ UNCHANGED <<torkVars, runStatus, taskStatus, handJobId, handStarted, accepted,
                   receipts, recoveryVars>>

(* Ingestion's own read-then-write of the row may enclose this write, and  *)
(* then the callback's status is the one that stays.                       *)
SettleOverwrittenByCallback ==
    /\ obs.pc = "settle"
    /\ \E c \in receipts :
          /\ c.hand = ObsHand
          /\ handStatus[ObsHand] = IF c.ok THEN "completed" ELSE "failed"
    /\ ObsGoTo("observe", obs.kind)
    /\ UNCHANGED <<torkVars, storeVars>>

(* Mutant: the row's status is taken from the sweep's snapshot. *)
PatchRunningFromSnapshot ==
    /\ obs.pc = "row"
    /\ obs.jobId
    /\ obs.status = "queued"
    /\ job[ObsHand] = "running"
    /\ SetHand(ObsHand, "running")
    /\ handStarted' = [handStarted EXCEPT ![ObsHand] = TRUE]
    /\ ObsGoTo("patchTask", obs.kind)
    /\ UNCHANGED <<torkVars, runStatus, taskStatus, handJobId, accepted, receipts,
                   recoveryVars>>

(* patchRunningProviderStatusPg: the row, only if it is still queued, ...  *)
PatchRunning ==
    /\ obs.pc = "row"
    /\ obs.jobId
    /\ obs.status = "queued"
    /\ job[ObsHand] = "running"
    /\ handStatus[ObsHand] = "queued"
    /\ SetHand(ObsHand, "running")
    /\ handStarted' = [handStarted EXCEPT ![ObsHand] = TRUE]
    /\ ObsGoTo("patchTask", obs.kind)
    /\ UNCHANGED <<torkVars, runStatus, taskStatus, handJobId, accepted, receipts,
                   recoveryVars>>

(* ... and then the task, in a second statement.                           *)
PatchRunningTask ==
    /\ obs.pc = "patchTask"
    /\ SetTaskIf(ObsHand[1], {"queued", "claimed"}, "running")
    /\ EndObservation
    /\ UNCHANGED <<torkVars, runStatus, handVars, accepted, receipts, recoveryVars>>

(* A poll that fails, or a running job whose row is no longer queued, ends *)
(* at the timeout checks, which look at the row as it was first read.      *)
TimedOut(kind) ==
    /\ obs.pc = "row"
    /\ kind \in Kinds
    /\ \/ kind = "tork_queue_timeout" /\ obs.status = "queued"
       \/ kind = "tork_running_hang" /\ obs.status # "queued" /\ obs.started
    /\ ObsGoTo("observe", kind)
    /\ UNCHANGED <<torkVars, storeVars>>

NothingToReport ==
    /\ obs.pc = "row"
    /\ EndObservation
    /\ UNCHANGED <<torkVars, storeVars>>

ObserveException ==
    /\ obs.pc = "observe"
    /\ exceptions' = WithException(ObsException)
    /\ ObsGoTo("decide", obs.kind)
    /\ UNCHANGED <<torkVars, runStatus, taskStatus, handVars, accepted, receipts,
                   decisions, executions>>

DecideException ==
    /\ obs.pc = "decide"
    /\ decisions' = WithDecision(ObsException, RecoveryPath(ObsException, exceptions))
    /\ EndObservation
    /\ UNCHANGED <<torkVars, runStatus, taskStatus, handVars, accepted, receipts,
                   exceptions, executions>>

(* The sweep ends with an error. *)
SweepFails ==
    /\ "observer" \in Fallible
    /\ obs.pc # "idle"
    /\ EndObservation
    /\ UNCHANGED <<torkVars, storeVars>>

ObserverStep ==
    \/ \E h \in Hands : ReadRow(h)
    \/ PollTerminal
    \/ SettleTerminal
    \/ SettleOverwrittenByCallback
    \/ PatchRunning
    \/ PatchRunningTask
    \/ \E kind \in {"tork_queue_timeout", "tork_running_hang"} : TimedOut(kind)
    \/ NothingToReport
    \/ ObserveException
    \/ DecideException
    \/ SweepFails

=============================================================================
