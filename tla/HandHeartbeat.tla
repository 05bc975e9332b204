---------------------------- MODULE HandHeartbeat ----------------------------
(***************************************************************************)
(* src/v2/server/routes.ts, the managed hand-execution heartbeat: the      *)
(* request a running container posts.  It reads the row, writes it back    *)
(* under a status condition with the payload it read, and then moves the   *)
(* task and the run to running; four statements, no transaction.           *)
(***************************************************************************)
EXTENDS TorkExecutor

VARIABLE beat  \* the heartbeat request in progress

BeatPc == {"idle", "write", "task", "run"}

QuietHand == CHOOSE h \in Hands : TRUE

IdleBeat == [pc |-> "idle", hand |-> QuietHand, jobId |-> FALSE]

BeatTypeOK == beat \in [pc : BeatPc, hand : Hands, jobId : BOOLEAN]

BeatInit == beat = IdleBeat

(* PROTECTED_HAND_EXECUTION_HEARTBEAT_STATUSES *)
Protected(status) == status \in TerminalHandStatus \cup {"cancel_requested"}

-----------------------------------------------------------------------------
BeatGoTo(pc) == beat' = [beat EXCEPT !.pc = pc]

EndBeat == beat' = IdleBeat

ReadHand(h) ==
    /\ beat.pc = "idle"
    /\ job[h] = "running"
    /\ HandExists(h)
    /\ ~ Protected(handStatus[h])
    /\ beat' = [pc |-> "write", hand |-> h, jobId |-> handJobId[h]]
    /\ UNCHANGED <<torkVars, storeVars>>

(* Mutant: the write has no status condition. *)
WriteHandUnconditionally ==
    /\ beat.pc = "write"
    /\ SetHand(beat.hand, "running")
    /\ handJobId' = [handJobId EXCEPT ![beat.hand] = beat.jobId]
    /\ handStarted' = [handStarted EXCEPT ![beat.hand] = TRUE]
    /\ BeatGoTo("task")
    /\ UNCHANGED <<torkVars, runStatus, taskStatus, accepted, receipts, recoveryVars>>

(* The payload written back is the one that was read. *)
WriteHand ==
    /\ beat.pc = "write"
    /\ IF Protected(handStatus[beat.hand])
         THEN EndBeat /\ UNCHANGED handVars
         ELSE /\ SetHand(beat.hand, "running")
              /\ handJobId' = [handJobId EXCEPT ![beat.hand] = beat.jobId]
              /\ handStarted' = [handStarted EXCEPT ![beat.hand] = TRUE]
              /\ BeatGoTo("task")
    /\ UNCHANGED <<torkVars, runStatus, taskStatus, accepted, receipts, recoveryVars>>

MarkTaskRunning ==
    /\ beat.pc = "task"
    /\ SetTaskIf(beat.hand[1], {"queued", "claimed"}, "running")
    /\ BeatGoTo("run")
    /\ UNCHANGED <<torkVars, runStatus, handVars, accepted, receipts, recoveryVars>>

MarkRunRunning ==
    /\ beat.pc = "run"
    /\ runStatus' = IF runStatus = "scheduling" THEN "running" ELSE runStatus
    /\ EndBeat
    /\ UNCHANGED <<torkVars, taskStatus, handVars, accepted, receipts, recoveryVars>>

(* The request is answered with an error. *)
HeartbeatFails ==
    /\ "heartbeat" \in Fallible
    /\ beat.pc # "idle"
    /\ EndBeat
    /\ UNCHANGED <<torkVars, storeVars>>

HeartbeatStep ==
    \/ \E h \in Hands : ReadHand(h)
    \/ WriteHand
    \/ MarkTaskRunning
    \/ MarkRunRunning
    \/ HeartbeatFails

=============================================================================
