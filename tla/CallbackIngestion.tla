------------------------- MODULE CallbackIngestion -------------------------
(***************************************************************************)
(* src/v2/executor/postgres-tork-callback.ts, ingestTaskRunResultPg: the   *)
(* HTTP request that delivers one callback.  A request is four commits     *)
(* (preflight, ingestion, resolution of the observer's exception, the      *)
(* completion gate); several requests run concurrently, and a request may  *)
(* carry a callback that was delivered before.                             *)
(***************************************************************************)
EXTENDS TorkExecutor

CONSTANT Requests  \* bound: the callback requests that can be in progress at once

VARIABLE ingest  \* ingest[r]: the progress of request r

IngestPc == {"idle", "ingest", "resolve", "gate"}

AnyCallback == CHOOSE c \in Callbacks : TRUE

IdleIngest == [pc |-> "idle", cb |-> AnyCallback]

IngestTypeOK == ingest \in [Requests -> [pc : IngestPc, cb : Callbacks]]

IngestInit == ingest = [r \in Requests |-> IdleIngest]

-----------------------------------------------------------------------------
GoTo(r, pc) == ingest' = [ingest EXCEPT ![r].pc = pc]

EndRequest(r) == ingest' = [ingest EXCEPT ![r] = IdleIngest]

Receive(c) == receipts' = receipts \cup {c}

(* The preflight returns early for a duplicate, and after recording the    *)
(* audit receipt for a cancelled run; neither reaches the completion gate. *)
Preflight(r, c) ==
    /\ ingest[r].pc = "idle"
    /\ c \in sent
    /\ c \notin receipts
    /\ IF runStatus = "cancelled"
         THEN Receive(c) /\ UNCHANGED ingest
         ELSE /\ ingest' = [ingest EXCEPT ![r] = [pc |-> "ingest", cb |-> c]]
              /\ UNCHANGED receipts
    /\ UNCHANGED <<torkVars, runStatus, taskStatus, handVars, accepted, recoveryVars>>

(* The main transaction, one action for each of its outcomes. *)
IngestDuplicate(r) ==
    /\ ingest[r].pc = "ingest"
    /\ ingest[r].cb \in receipts
    /\ GoTo(r, "gate")
    /\ UNCHANGED <<torkVars, storeVars>>

Fresh(r) == ingest[r].pc = "ingest" /\ ingest[r].cb \notin receipts

IngestForCancelledRun(r) ==
    /\ Fresh(r)
    /\ runStatus = "cancelled"
    /\ Receive(ingest[r].cb)
    /\ GoTo(r, "gate")
    /\ UNCHANGED <<torkVars, runStatus, taskStatus, handVars, accepted, recoveryVars>>

(* Mutant: only the task's status tells that a callback is too late. *)
IgnoredByStatusOnly(h, kind) ==
    kind = "late_callback" /\ taskStatus[h[1]] \in TerminalTaskStatus

(* Which exception, if any, a callback for hand h raises instead of being  *)
(* applied: an older attempt's is stale, a settled task's is late.         *)
IgnoredAs(h, kind) ==
    \/ kind = "stale_callback" /\ StaleAttempt(h)
    \/ /\ kind = "late_callback"
       /\ ~ StaleAttempt(h)
       /\ taskStatus[h[1]] \in TerminalTaskStatus

IngestIgnored(r, kind) ==
    LET h == ingest[r].cb.hand
    IN /\ Fresh(r)
       /\ runStatus # "cancelled"
       /\ IgnoredAs(h, kind)
       /\ Receive(ingest[r].cb)
       /\ ObserveAndDecide(<<h[1], h[2], kind>>)
       /\ GoTo(r, "gate")
       /\ UNCHANGED <<torkVars, runStatus, taskStatus, handVars, accepted, executions>>

(* Mutant: cancellation is looked at in the preflight only. *)
IngestibleThoughCancelled(r) ==
    /\ Fresh(r)
    /\ \A kind \in {"stale_callback", "late_callback"} : ~ IgnoredAs(ingest[r].cb.hand, kind)

Ingestible(r) ==
    /\ Fresh(r)
    /\ runStatus # "cancelled"
    /\ \A kind \in {"stale_callback", "late_callback"} : ~ IgnoredAs(ingest[r].cb.hand, kind)

(* settleHandExecutionPg: a terminal attempt keeps its status. *)
SettleHand(h, status) ==
    SetHand(h, IF handStatus[h] \in TerminalHandStatus THEN handStatus[h] ELSE status)

IngestResult(r) ==
    LET c == ingest[r].cb
        t == c.hand[1]
    IN /\ Ingestible(r)
       /\ Receive(c)
       /\ accepted' = IF c.ok THEN accepted \cup {t} ELSE accepted
       /\ SettleHand(c.hand, IF c.ok THEN "completed" ELSE "failed")
       /\ SetTask(t, IF c.ok THEN "completed" ELSE "failed")
       /\ GoTo(r, "resolve")
       /\ UNCHANGED <<torkVars, runStatus, handJobId, handStarted, recoveryVars>>

(* finalizeTaskWorkspacePg cannot merge the accepted worktree. *)
IngestMergeConflict(r) ==
    LET c == ingest[r].cb
        t == c.hand[1]
    IN /\ Ingestible(r)
       /\ c.ok
       /\ t \in Worktree
       /\ "workspace_merge_conflict" \in Kinds
       /\ Receive(c)
       /\ accepted' = accepted \cup {t}
       /\ SettleHand(c.hand, "completed")
       /\ SetTask(t, "blocked")
       /\ ObserveAndDecide(<<t, c.hand[2], "workspace_merge_conflict">>)
       /\ GoTo(r, "resolve")
       /\ UNCHANGED <<torkVars, runStatus, handJobId, handStarted, executions>>

(* Mutant: returns early when there is no exception to resolve. *)
ResolveOrReturn(r) ==
    LET h == ingest[r].cb.hand
        e == <<h[1], h[2], "tork_terminal_without_callback">>
        found == e \in Exceptions /\ exceptions[e] = "observed"
    IN /\ ingest[r].pc = "resolve"
       /\ IF found THEN ResolveException(e) /\ GoTo(r, "gate")
          ELSE EndRequest(r) /\ UNCHANGED exceptions
       /\ UNCHANGED <<torkVars, runStatus, taskStatus, handVars, accepted, receipts,
                      decisions, executions>>

ResolveTerminalWithoutCallback(r) ==
    LET h == ingest[r].cb.hand
        e == <<h[1], h[2], "tork_terminal_without_callback">>
    IN /\ ingest[r].pc = "resolve"
       /\ exceptions' = [x \in Exceptions |->
                            IF x = e /\ exceptions[x] = "observed" THEN "resolved"
                            ELSE exceptions[x]]
       /\ GoTo(r, "gate")
       /\ UNCHANGED <<torkVars, runStatus, taskStatus, handVars, accepted, receipts,
                      decisions, executions>>

(* evaluateRunCompletionGatePg: unresolved exceptions only colour the      *)
(* outcome; they do not keep the run from completing.                      *)
CompletionGateOpen == AllTasksTerminal /\ runStatus # "cancelled"

FinalizeCallbackLifecycle(r) ==
    /\ ingest[r].pc = "gate"
    /\ runStatus' = IF CompletionGateOpen THEN "completed" ELSE runStatus
    /\ EndRequest(r)
    /\ UNCHANGED <<torkVars, taskStatus, handVars, accepted, receipts, recoveryVars>>

(* The request is answered with an error. *)
RequestFails(r) ==
    /\ "callback" \in Fallible
    /\ ingest[r].pc # "idle"
    /\ EndRequest(r)
    /\ UNCHANGED <<torkVars, storeVars>>

RequestStep(r) ==
    \/ \E c \in Callbacks : Preflight(r, c)
    \/ IngestDuplicate(r)
    \/ IngestForCancelledRun(r)
    \/ \E kind \in {"stale_callback", "late_callback"} : IngestIgnored(r, kind)
    \/ IngestResult(r)
    \/ IngestMergeConflict(r)
    \/ ResolveTerminalWithoutCallback(r)
    \/ FinalizeCallbackLifecycle(r)
    \/ RequestFails(r)

=============================================================================
