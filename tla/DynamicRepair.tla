----------------------------- MODULE DynamicRepair -----------------------------
(***************************************************************************)
(* Repairing a run whose verification failed                               *)
(* (dynamic-repair-revision.ts, and its callers in postgres-tork-callback  *)
(* and postgres-approval-service): a revision adds a repair task and a     *)
(* verification to the graph of a run that goes on, and reconnects what    *)
(* depended on the failed verification.  A repair that needs more          *)
(* authority waits for an operator.  The callback that reports a failure   *)
(* asks for the repair in a transaction of its own, and evaluates the      *)
(* completion gate in a third.  An operator may retry a verification that  *)
(* failed, whatever was made of its failure.                               *)
(*                                                                         *)
(* A chain is one implementation and its verification; its tasks are       *)
(* numbered by round, 0 for the original ones.                             *)
(***************************************************************************)
EXTENDS Integers, FiniteSetsExt

CONSTANTS
    Chains,           \* implementations with a verification
    MaxRepairRounds,  \* maxDynamicRepairRounds
    MaxAuthorities,   \* bound: approvals asked for
    MaxRepairCrashes, \* bound: crashes of the server
    MaxVerificationRetries  \* bound: retries of failed verifications by an operator

ASSUME RepairBounds ==
    {MaxRepairRounds, MaxAuthorities, MaxRepairCrashes, MaxVerificationRetries} \subseteq Nat

VARIABLES
    repairRun,     \* status of the run and its goal_outcome
    chainTasks,    \* status of the tasks of each chain and round
    repairs,       \* per chain, what was repaired in each round: the round that failed
    deliver,       \* the task that depends on every chain: its status, the rounds it depends on
    authority,     \* approvals of expansions by their proposal, with their requests
    callbacks,     \* failed verifications whose callback is still being handled
    gateDue,       \* the callback of the delivery has not evaluated the gate yet
    deciding,      \* decided approvals whose continuation has not run
    repairCrashes, \* crashes so far
    verificationRetries,  \* retries so far
    reopened       \* history: chains of which a failure was retried that was already
                   \* repaired, or about to be

repairVars == <<repairRun, chainTasks, repairs, deliver, authority, callbacks, gateDue,
                deciding, repairCrashes, verificationRetries, reopened>>

Rounds == 0..MaxRepairRounds
ChainTasks == Chains \X {"repair", "verify"} \X Rounds
Verification(c, n) == <<c, "verify", n>>

(* A proposal: the failed verification, the round it would be repaired in, *)
(* which says for which manifest it was made (each repair of the run has a *)
(* round of its own), and the composition.  Bound: a failure that is       *)
(* reported again after a retry is composed anew.                          *)
Compositions == 0..MaxVerificationRetries
Proposals == [chain : Chains, failed : Rounds, round : Rounds \ {0}, composition : Compositions]

RepairTypeOK ==
    /\ repairRun \in [status : {"running", "awaiting_approval", "completed"},
                      outcome : {"none", "satisfied", "unsatisfied"}]
    /\ chainTasks \in [ChainTasks -> {"none", "pending", "running", "completed", "failed"}]
    /\ repairs \in [Chains -> [Rounds -> Rounds \cup {-1}]]
    /\ deliver \in [status : {"pending", "running", "completed"}, on : [Chains -> Rounds]]
    /\ DOMAIN authority \subseteq Proposals
    /\ \A p \in DOMAIN authority :
         authority[p] \in [approval : {"waiting", "approved", "rejected"},
                           request : {"waiting", "applied", "rejected"}]
    /\ callbacks \in [ChainTasks -> {"none", "repair", "gate"}]
    /\ gateDue \in BOOLEAN
    /\ deciding \subseteq DOMAIN authority
    /\ repairCrashes \in 0..MaxRepairCrashes
    /\ verificationRetries \in 0..MaxVerificationRetries
    /\ reopened \subseteq Chains

RepairInit ==
    /\ repairRun = [status |-> "running", outcome |-> "none"]
    /\ chainTasks = [t \in ChainTasks |->
                       IF t[3] > 0 THEN "none"
                       ELSE IF t[2] = "repair" THEN "completed" ELSE "pending"]
    /\ repairs = [c \in Chains |-> [n \in Rounds |-> -1]]
    /\ deliver = [status |-> "pending", on |-> [c \in Chains |-> 0]]
    /\ authority = << >>
    /\ callbacks = [t \in ChainTasks |-> "none"]
    /\ gateDue = FALSE
    /\ deciding = {}
    /\ repairCrashes = 0
    /\ verificationRetries = 0
    /\ reopened = {}

RoundsOf(c) == {n \in Rounds : chainTasks[Verification(c, n)] # "none"}
LastRound(c) == Max(RoundsOf(c))

-----------------------------------------------------------------------------
(* The scheduler and the containers, as far as a chain shows them. *)

DependenciesCompleted(t) ==
    LET c == t[1]
        n == t[3]
    IN IF t[2] = "verify" THEN chainTasks[<<c, "repair", n>>] = "completed"
       ELSE n > 0 => chainTasks[<<c, "repair", repairs[c][n]>>] = "completed"

StartChainTask(t) ==
    /\ repairRun.status = "running"
    /\ chainTasks[t] = "pending"
    /\ DependenciesCompleted(t)
    /\ chainTasks' = [chainTasks EXCEPT ![t] = "running"]
    /\ UNCHANGED <<gateDue, repairRun, repairs, deliver, authority, callbacks, deciding,
                   repairCrashes>>

StartDeliver ==
    /\ repairRun.status = "running"
    /\ deliver.status = "pending"
    /\ \A c \in Chains : chainTasks[Verification(c, deliver.on[c])] = "completed"
    /\ deliver' = [deliver EXCEPT !.status = "running"]
    /\ UNCHANGED <<gateDue, repairRun, chainTasks, repairs, authority, callbacks, deciding,
                   repairCrashes>>

CompleteDeliver ==
    /\ deliver.status = "running"
    /\ deliver' = [deliver EXCEPT !.status = "completed"]
    /\ gateDue' = TRUE
    /\ UNCHANGED <<repairRun, chainTasks, repairs, authority, callbacks, deciding, repairCrashes>>

(* The main transaction of a callback; only a verification fails here, and *)
(* a success before the delivery has nothing more to do.  Bound: a callback *)
(* is done before the retried task reports again.                          *)
ReportChainTask(t, ok) ==
    /\ chainTasks[t] = "running"
    /\ callbacks[t] = "none"
    /\ ok \/ t[2] = "verify"
    /\ chainTasks' = [chainTasks EXCEPT ![t] = IF ok THEN "completed" ELSE "failed"]
    /\ callbacks' = [callbacks EXCEPT ![t] = IF ok THEN "none" ELSE "repair"]
    /\ UNCHANGED <<gateDue, repairRun, repairs, deliver, authority, deciding, repairCrashes>>

-----------------------------------------------------------------------------
(* maybeApplyDynamicRepairRevisionPg, one transaction under the run's lock. *)

(* nextRepairRound with existingDynamicRepairRounds: the repairs of every  *)
(* chain count.                                                            *)
NextRound == Max(UNION {RoundsOf(c) : c \in Chains}) + 1

ProposalFor(c, failed, k) ==
    [chain |-> c, failed |-> failed, round |-> NextRound, composition |-> k]

RunTakesRepairs == repairRun.status \in {"running", "awaiting_approval"}

(* Mutant: only what depends on the original verification is reconnected. *)
ReconnectOriginal(c, failed, round) ==
    deliver' = IF deliver.on[c] = 0 /\ deliver.status = "pending"
               THEN [deliver EXCEPT !.on[c] = round] ELSE deliver

(* downstreamDependencyChangesFor *)
Reconnect(c, failed, round) ==
    deliver' = IF deliver.on[c] = failed /\ deliver.status = "pending"
               THEN [deliver EXCEPT !.on[c] = round] ELSE deliver

(* Mutant: the run goes on waiting for the approval it has got. *)
ApplyRevisionWaiting(c, failed) ==
    LET round == NextRound
    IN /\ chainTasks' = [chainTasks EXCEPT ![<<c, "repair", round>>] = "pending",
                                           ![<<c, "verify", round>>] = "pending"]
       /\ repairs' = [repairs EXCEPT ![c][round] = failed]
       /\ Reconnect(c, failed, round)
       /\ UNCHANGED repairRun

ApplyRevision(c, failed) ==
    LET round == NextRound
    IN /\ chainTasks' = [chainTasks EXCEPT ![<<c, "repair", round>>] = "pending",
                                           ![<<c, "verify", round>>] = "pending"]
       /\ repairs' = [repairs EXCEPT ![c][round] = failed]
       /\ Reconnect(c, failed, round)
       /\ repairRun' = [repairRun EXCEPT !.status = "running"]

(* Mutant: an approval is good for whatever the manifest is by now. *)
ApprovedAtAll(p) ==
    \E q \in DOMAIN authority : /\ q.chain = p.chain /\ q.failed = p.failed
                                /\ authority[q].approval = "approved"

Approved(p) == p \in DOMAIN authority /\ authority[p].approval = "approved"

Rejected(p) == p \in DOMAIN authority /\ authority[p].approval = "rejected"

(* requireDynamicRepairAuthorityApprovalPg with persistDynamicRepairRequestPg *)
AskForAuthority(p) ==
    /\ Cardinality(DOMAIN authority) < MaxAuthorities
    /\ authority' = [q \in DOMAIN authority \cup {p} |->
                       IF q = p THEN [approval |-> "waiting", request |-> "waiting"]
                       ELSE authority[q]]
    /\ repairRun' = [repairRun EXCEPT !.status = "awaiting_approval"]

(* persistTerminalGoalOutcomePg *)
EndRun(outcome) == repairRun' = [status |-> "completed", outcome |-> outcome]

(* The request of a callback. *)
RepairApplied(t, expands) ==
    LET c == t[1]
        p == ProposalFor(c, t[3], verificationRetries)
    IN /\ callbacks[t] = "repair"
       /\ RunTakesRepairs
       /\ NextRound <= MaxRepairRounds
       /\ IF expands THEN /\ p \notin DOMAIN authority
                          /\ AskForAuthority(p)
                          /\ callbacks' = [callbacks EXCEPT ![t] = "none"]
                          /\ UNCHANGED <<chainTasks, repairs, deliver>>
          ELSE /\ ApplyRevision(c, t[3])
               /\ callbacks' = [callbacks EXCEPT ![t] = "gate"]
               /\ UNCHANGED authority
       /\ UNCHANGED <<gateDue, deciding, repairCrashes>>

RepairExhausted(t) ==
    /\ callbacks[t] = "repair"
    /\ RunTakesRepairs
    /\ NextRound > MaxRepairRounds
    /\ EndRun("unsatisfied")
    /\ callbacks' = [callbacks EXCEPT ![t] = "gate"]
    /\ UNCHANGED <<gateDue, chainTasks, repairs, deliver, authority, deciding, repairCrashes>>

(* The run has ended, or the composition does not validate. *)
RepairSkipped(t) ==
    /\ callbacks[t] = "repair"
    /\ RunTakesRepairs => NextRound <= MaxRepairRounds
    /\ callbacks' = [callbacks EXCEPT ![t] = "gate"]
    /\ UNCHANGED <<gateDue, repairRun, chainTasks, repairs, deliver, authority, deciding,
                   repairCrashes>>

-----------------------------------------------------------------------------
(* finalizeCallbackLifecyclePg *)

AllEnded ==
    /\ deliver.status = "completed"
    /\ \A t \in ChainTasks : chainTasks[t] \in {"none", "completed", "failed"}

(* hasUnresolvedBlockingApprovalPg *)
AuthorityWaits == \E p \in DOMAIN authority : authority[p].approval = "waiting"

GateOutcome ==
    IF \A c \in Chains : chainTasks[Verification(c, LastRound(c))] = "completed"
    THEN "satisfied" ELSE "unsatisfied"

Gate ==
    IF AllEnded /\ repairRun.status # "awaiting_approval" /\ ~ AuthorityWaits
    THEN EndRun(GateOutcome)
    ELSE UNCHANGED repairRun

EvaluateGate ==
    /\ Gate
    /\ \/ \E t \in ChainTasks : /\ callbacks[t] = "gate"
                               /\ callbacks' = [callbacks EXCEPT ![t] = "none"]
                               /\ UNCHANGED gateDue
       \/ gateDue /\ gateDue' = FALSE /\ UNCHANGED callbacks
    /\ UNCHANGED <<chainTasks, repairs, deliver, authority, deciding, repairCrashes>>

-----------------------------------------------------------------------------
(* decideApprovalPg, then the continuation in a transaction of its own. *)

DecideAuthority(p, decision) ==
    /\ authority[p].approval = "waiting"
    /\ authority' = [authority EXCEPT ![p].approval = decision]
    /\ deciding' = deciding \cup {p}
    /\ UNCHANGED <<gateDue, repairRun, chainTasks, repairs, deliver, callbacks, repairCrashes>>

(* The same decision again runs the continuation again. *)
ReplayAuthority(p) ==
    /\ authority[p].approval \in {"approved", "rejected"}
    /\ deciding' = deciding \cup {p}
    /\ UNCHANGED <<gateDue, repairRun, chainTasks, repairs, deliver, authority, callbacks,
                   repairCrashes>>

(* Mutant: every approval of a request goes on to repair. *)
ContinuesAlways(p) == p \in DOMAIN authority

Continues(p) == authority[p].request = "waiting"

(* continueDynamicRepairApprovalPg proposes the stored composition anew:   *)
(* for the manifest of now, which may need another approval.               *)
ContinueApproved(p) ==
    LET now == ProposalFor(p.chain, p.failed, p.composition)
    IN /\ p \in deciding
       /\ authority[p].approval = "approved"
       /\ IF Continues(p) /\ RunTakesRepairs
          THEN IF NextRound > MaxRepairRounds
               THEN /\ EndRun("unsatisfied")
                    /\ UNCHANGED <<chainTasks, repairs, deliver, authority>>
               ELSE IF Approved(now)
               THEN /\ ApplyRevision(p.chain, p.failed)
                    /\ authority' = [authority EXCEPT ![now].request = "applied"]
               ELSE /\ IF Rejected(now)
                       THEN UNCHANGED <<authority, repairRun>>
                       ELSE AskForAuthority(now)
                    /\ UNCHANGED <<chainTasks, repairs, deliver>>
          ELSE UNCHANGED <<repairRun, chainTasks, repairs, deliver, authority>>
       /\ deciding' = deciding \ {p}
       /\ UNCHANGED <<gateDue, callbacks, repairCrashes>>

(* The stored composition no longer validates. *)
ContinuationSkipped(p) ==
    /\ p \in deciding
    /\ authority[p].approval = "approved"
    /\ deciding' = deciding \ {p}
    /\ UNCHANGED <<gateDue, repairRun, chainTasks, repairs, deliver, authority, callbacks,
                   repairCrashes>>

(* rejectDynamicRepairApprovalPg ends the run, also when it is replayed. *)
ContinueRejected(p) ==
    /\ p \in deciding
    /\ authority[p].approval = "rejected"
    /\ authority' = [authority EXCEPT ![p].request = "rejected"]
    /\ EndRun("unsatisfied")
    /\ deciding' = deciding \ {p}
    /\ UNCHANGED <<gateDue, chainTasks, repairs, deliver, callbacks, repairCrashes>>

CrashRepair ==
    /\ repairCrashes < MaxRepairCrashes
    /\ repairCrashes' = repairCrashes + 1
    /\ callbacks' = [t \in ChainTasks |-> "none"]
    /\ gateDue' = FALSE
    /\ deciding' = {}
    /\ UNCHANGED <<repairRun, chainTasks, repairs, deliver, authority>>

-----------------------------------------------------------------------------
(* The operator's retry of a failed verification (task-command-routes,     *)
(* applied by the recovery as retry-same-task-new-attempt): it asks        *)
(* neither whether the failure was repaired nor whether it is about to be, *)
(* and opens a run that has ended.                                         *)

(* The failure of t was repaired, or its callback or a proposal will. *)
FailureIsTakenUp(t) ==
    \/ t[3] # LastRound(t[1])
    \/ callbacks[t] = "repair"
    \/ \E p \in DOMAIN authority : p.chain = t[1] /\ authority[p].request = "waiting"

RetryVerification(t) ==
    /\ verificationRetries < MaxVerificationRetries
    /\ t[2] = "verify"
    /\ chainTasks[t] = "failed"
    /\ chainTasks' = [chainTasks EXCEPT ![t] = "pending"]
    /\ repairRun' = IF repairRun.status = "completed"
                    THEN [repairRun EXCEPT !.status = "running"] ELSE repairRun
    /\ verificationRetries' = verificationRetries + 1
    /\ reopened' = IF FailureIsTakenUp(t) THEN reopened \cup {t[1]} ELSE reopened
    /\ UNCHANGED <<gateDue, repairs, deliver, authority, callbacks, deciding, repairCrashes>>

-----------------------------------------------------------------------------

RunGoesOn ==
    \/ StartDeliver
    \/ CompleteDeliver
    \/ EvaluateGate
    \/ CrashRepair
    \/ \E t \in ChainTasks :
         \/ StartChainTask(t)
         \/ \E ok \in BOOLEAN : ReportChainTask(t, ok)
         \/ \E expands \in BOOLEAN : RepairApplied(t, expands)
         \/ RepairExhausted(t)
         \/ RepairSkipped(t)
    \/ \E p \in DOMAIN authority :
         \/ \E decision \in {"approved", "rejected"} : DecideAuthority(p, decision)
         \/ ReplayAuthority(p)
         \/ ContinueApproved(p)
         \/ ContinuationSkipped(p)
         \/ ContinueRejected(p)

RepairNext ==
    \/ RunGoesOn /\ UNCHANGED <<verificationRetries, reopened>>
    \/ \E t \in ChainTasks : RetryVerification(t)

RepairSpec == RepairInit /\ [][RepairNext]_repairVars

-----------------------------------------------------------------------------

(* An approval overtaken by another repair: its continuation asked for a   *)
(* new one and left its request waiting, so that deciding it again repairs *)
(* the same failure again.                                                 *)
Overtaken(c) ==
    \E p \in DOMAIN authority :
        /\ p.chain = c
        /\ p.round # NextRound
        /\ authority[p] = [approval |-> "approved", request |-> "waiting"]

(* Nothing took a failure of the chain up twice: no approval was overtaken *)
(* and no verification retried whose failure was taken up.                 *)
TakenUpOnce(c) == ~ Overtaken(c) /\ c \notin reopened

(* Every repair of a chain is of its last verification before it, which    *)
(* failed, however often a decision is replayed, and also when an operator *)
(* retried a failure nobody had taken up (continueDynamicRepairApprovalPg, *)
(* nextRepairRound).                                                       *)
RepairsFormALine ==
    \A c \in Chains, n \in Rounds \ {0} :
        repairs[c][n] # -1 /\ TakenUpOnce(c) =>
            /\ repairs[c][n] = Max({m \in RoundsOf(c) : m < n})
            /\ chainTasks[Verification(c, repairs[c][n])] = "failed"

(* What is delivered was verified after its last repair, retries of a      *)
(* failure nobody had taken up included (downstreamDependencyChangesFor).  *)
DeliveredIsVerified ==
    \A c \in Chains : TakenUpOnce(c) =>
        /\ deliver.on[c] = LastRound(c)
        /\ deliver.status # "pending" => chainTasks[Verification(c, LastRound(c))] = "completed"

(* Authority is granted for the manifest it is used on: a repair an        *)
(* approval let go on is the one that was approved, also when another      *)
(* chain was repaired while the operator thought it over                   *)
(* (requireDynamicRepairAuthorityApprovalPg).                              *)
AuthorityIsCurrent ==
    [][\A c \in Chains, n \in Rounds :
          repairs[c][n] = -1 /\ repairs'[c][n] # -1 /\ UNCHANGED callbacks =>
              \E p \in DOMAIN authority :
                  /\ p.chain = c /\ p.failed = repairs'[c][n] /\ p.round = n
                  /\ authority[p].approval = "approved"
                  /\ authority'[p].request = "applied"]_repairVars

(* A run that waits for an approval has one somebody can still give, or    *)
(* whose continuation can be asked for again.                              *)
WaitsForSomebody ==
    repairRun.status = "awaiting_approval" =>
        \E p \in DOMAIN authority : authority[p].request = "waiting"

=============================================================================
