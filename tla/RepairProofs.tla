----------------------------- MODULE RepairProofs -----------------------------
(***************************************************************************)
(* The repairs of a run (DynamicRepair): for any number of chains, rounds, *)
(* approvals, retries and crashes, the repairs of a chain whose failures   *)
(* were taken up once form a line, what is delivered was verified, and     *)
(* authority is used on what it was given for.                             *)
(***************************************************************************)
EXTENDS DynamicRepair, GreatestElements

-----------------------------------------------------------------------------
(* The inductive invariant. *)

(* The proposals of a chain that are waiting for an operator or for the    *)
(* continuation of a decision.                                             *)
Waiting(c) == {p \in DOMAIN authority : p.chain = c /\ authority[p].request = "waiting"}

FailedAt(c, n) == chainTasks[Verification(c, n)] = "failed"

(* Every round but the last has failed, and each repaired the one before.  *)
ChainInLine(c) ==
    /\ \A n \in RoundsOf(c) : n # LastRound(c) => FailedAt(c, n)
    /\ \A n \in Rounds \ {0} : repairs[c][n] # -1 =>
          repairs[c][n] = Max({m \in RoundsOf(c) : m < n})

(* A failure is in one pair of hands, of its callback or of a proposal,    *)
(* and it is the chain's last one.                                         *)
FailureInHand(c) ==
    /\ \A n \in Rounds : callbacks[Verification(c, n)] = "repair" =>
          n = LastRound(c) /\ FailedAt(c, n) /\ Waiting(c) = {}
    /\ \A p \in Waiting(c) :
          p.failed = LastRound(c) /\ FailedAt(c, p.failed) /\ \A q \in Waiting(c) : q = p

DeliveryInLine(c) ==
    /\ deliver.on[c] = LastRound(c)
    /\ deliver.status # "pending" => chainTasks[Verification(c, LastRound(c))] = "completed"

ChainInOrder(c) == ChainInLine(c) /\ FailureInHand(c) /\ DeliveryInLine(c)

RoundsInOrder ==
    /\ \A c \in Chains : 0 \in RoundsOf(c)
    /\ \A c \in Chains, n \in Rounds : repairs[c][n] # -1 => n \in RoundsOf(c)
    /\ \A t \in ChainTasks : callbacks[t] = "repair" => t[2] = "verify"
    /\ \A p \in DOMAIN authority : p.round <= NextRound

RepairInv ==
    /\ RepairTypeOK
    /\ RoundsInOrder
    /\ \A c \in Chains : TakenUpOnce(c) => ChainInOrder(c)
    /\ WaitsForSomebody

-----------------------------------------------------------------------------
(* Rounds. *)

LEMMA RoundsAreNumbers == Rounds \in SUBSET Nat /\ 0 \in Rounds /\ \A n \in Rounds : n <= MaxRepairRounds
  BY RepairBounds DEF Rounds

LEMMA LastRoundIs ==
  ASSUME NEW c \in Chains, 0 \in RoundsOf(c)
  PROVE  /\ LastRound(c) \in RoundsOf(c) /\ LastRound(c) \in Rounds
         /\ \A n \in RoundsOf(c) : n <= LastRound(c)
  <1>1. /\ RoundsOf(c) \in SUBSET Nat /\ RoundsOf(c) # {} /\ MaxRepairRounds \in Nat
        /\ \A n \in RoundsOf(c) : n <= MaxRepairRounds
    BY RoundsAreNumbers, RepairBounds DEF RoundsOf
  <1>2. QED
    BY <1>1, GreatestNatural DEF LastRound, RoundsOf

LEMMA NextRoundIs ==
  ASSUME RoundsInOrder, NEW c \in Chains
  PROVE  /\ NextRound \in Nat \ {0}
         /\ \A d \in Chains : \A n \in RoundsOf(d) : n < NextRound
         /\ \E d \in Chains : NextRound - 1 \in RoundsOf(d)
  <1> DEFINE all == UNION {RoundsOf(d) : d \in Chains}
  <1>1. all \in SUBSET Nat /\ 0 \in all /\ MaxRepairRounds \in Nat
        /\ \A n \in all : n <= MaxRepairRounds
    BY RoundsAreNumbers, RepairBounds DEF RoundsOf, RoundsInOrder
  <1>2. Max(all) \in all /\ \A n \in all : n <= Max(all)
    BY <1>1, GreatestNatural
  <1>3. NextRound = Max(all) + 1
    BY DEF NextRound
  <1>4. \A d \in Chains : RoundsOf(d) \subseteq all
    OBVIOUS
  <1>5. \E d \in Chains : Max(all) \in RoundsOf(d)
    BY <1>2
  <1> HIDE DEF all
  <1>6. Max(all) \in Nat /\ \A n \in all : n \in Nat
    BY <1>1, <1>2
  <1>7. NextRound \in Nat \ {0} /\ NextRound - 1 = Max(all)
    BY <1>3, <1>6
  <1>8. \A n \in all : n < NextRound
    BY <1>2, <1>3, <1>6
  <1>9. QED
    BY <1>4, <1>5, <1>7, <1>8

LEMMA SameRounds ==
  ASSUME \A t \in ChainTasks : chainTasks'[t] = "none" <=> chainTasks[t] = "none"
  PROVE  /\ NextRound' = NextRound
         /\ \A c \in Chains : RoundsOf(c)' = RoundsOf(c) /\ LastRound(c)' = LastRound(c)
  <1>1. \A c \in Chains, n \in Rounds : Verification(c, n) \in ChainTasks
    BY DEF Verification, ChainTasks
  <1>2. \A c \in Chains : RoundsOf(c)' = RoundsOf(c)
    BY <1>1 DEF RoundsOf
  <1>3. \A c \in Chains : LastRound(c)' = LastRound(c)
    BY <1>2 DEF LastRound
  <1>4. UNION {RoundsOf(c)' : c \in Chains} = UNION {RoundsOf(c) : c \in Chains}
    BY <1>2
  <1>5. NextRound' = NextRound
    BY <1>4 DEF NextRound
  <1>6. QED
    BY <1>2, <1>3, <1>5

LEMMA RevisionTasks ==
  ASSUME RepairTypeOK, RoundsInOrder, NEW c \in Chains, NEW failed, ApplyRevision(c, failed),
         NextRound <= MaxRepairRounds
  PROVE  /\ NextRound \in Rounds \ {0}
         /\ chainTasks'[Verification(c, NextRound)] = "pending"
         /\ \A d \in Chains, n \in Rounds : (d # c \/ n # NextRound) =>
               chainTasks'[Verification(d, n)] = chainTasks[Verification(d, n)]
         /\ RoundsOf(c)' = RoundsOf(c) \cup {NextRound}
         /\ \A d \in Chains : d # c => RoundsOf(d)' = RoundsOf(d)
  <1>1. NextRound \in Rounds \ {0}
    BY NextRoundIs, RepairBounds DEF Rounds
  <1> DEFINE round == NextRound
  <1>2. chainTasks' = [chainTasks EXCEPT ![<<c, "repair", round>>] = "pending",
                                         ![<<c, "verify", round>>] = "pending"]
    BY DEF ApplyRevision
  <1>3. round \in Rounds
    BY <1>1
  <1> HIDE DEF round
  <1>4. \A d \in Chains, n \in Rounds :
           Verification(d, n) \in ChainTasks /\ Verification(d, n) # <<c, "repair", round>>
    BY DEF Verification, ChainTasks
  <1>5. chainTasks'[Verification(c, round)] = "pending"
    BY <1>2, <1>3, <1>4 DEF RepairTypeOK, Verification
  <1>6. \A d \in Chains, n \in Rounds : (d # c \/ n # round) =>
           chainTasks'[Verification(d, n)] = chainTasks[Verification(d, n)]
    BY <1>2, <1>4 DEF RepairTypeOK, Verification
  <1>7. RoundsOf(c)' = RoundsOf(c) \cup {round}
    BY <1>3, <1>5, <1>6 DEF RoundsOf
  <1>8. \A d \in Chains : d # c => RoundsOf(d)' = RoundsOf(d)
    BY <1>6 DEF RoundsOf
  <1>9. QED
    BY <1>1, <1>5, <1>6, <1>7, <1>8 DEF round

LEMMA RevisionRounds ==
  ASSUME RepairTypeOK, RoundsInOrder, NEW c \in Chains, NEW failed, ApplyRevision(c, failed),
         NextRound <= MaxRepairRounds
  PROVE  /\ LastRound(c)' = NextRound /\ NextRound' = NextRound + 1
         /\ \A d \in Chains : d # c => LastRound(d)' = LastRound(d)
  <1> DEFINE round == NextRound
  <1>1. /\ RoundsOf(c)' = RoundsOf(c) \cup {round} /\ round \in Rounds
        /\ \A d \in Chains : d # c => RoundsOf(d)' = RoundsOf(d)
    BY RevisionTasks
  <1>2. round \in Nat /\ \A d \in Chains : \A n \in RoundsOf(d) : n < round
    BY NextRoundIs
  <1> HIDE DEF round
  <1>3. \A d \in Chains : RoundsOf(d) \subseteq Nat
    BY RoundsAreNumbers DEF RoundsOf
  <1>4. Max(RoundsOf(c) \cup {round}) = round
    <2>1. RoundsOf(c) \cup {round} \in SUBSET Nat /\ round \in RoundsOf(c) \cup {round}
          /\ \A n \in RoundsOf(c) \cup {round} : n <= round
      BY <1>2, <1>3
    <2>2. QED
      BY <2>1, GreatestIs
  <1>5. LastRound(c)' = round
    BY <1>1, <1>4 DEF LastRound
  <1>6. \A d \in Chains : d # c => LastRound(d)' = LastRound(d)
    BY <1>1 DEF LastRound
  <1> DEFINE all == UNION {RoundsOf(d)' : d \in Chains}
  <1>7. Max(all) = round
    <2>1. all \in SUBSET Nat /\ round \in all
      BY <1>1, <1>2, <1>3
    <2>2. \A n \in all : n <= round
      BY <1>1, <1>2, <1>3
    <2> HIDE DEF all
    <2>3. QED
      BY <2>1, <2>2, GreatestIs
  <1>8. NextRound' = round + 1
    BY <1>7 DEF NextRound
  <1>9. QED
    BY <1>5, <1>6, <1>8 DEF round

-----------------------------------------------------------------------------
(* Types. *)

RunRecords == [status : {"running", "awaiting_approval", "completed"},
               outcome : {"none", "satisfied", "unsatisfied"}]
AuthorityRecords == [approval : {"waiting", "approved", "rejected"},
                     request : {"waiting", "applied", "rejected"}]
TaskStatus == {"none", "pending", "running", "completed", "failed"}
DeliverRecords == [status : {"pending", "running", "completed"}, on : [Chains -> Rounds]]

RunTyped == repairRun \in RunRecords
TasksTyped ==
    /\ chainTasks \in [ChainTasks -> TaskStatus]
    /\ repairs \in [Chains -> [Rounds -> Rounds \cup {-1}]]
    /\ deliver \in DeliverRecords
AuthorityTyped ==
    /\ DOMAIN authority \subseteq Proposals
    /\ \A p \in DOMAIN authority : authority[p] \in AuthorityRecords
    /\ deciding \subseteq DOMAIN authority
CallbacksTyped ==
    /\ callbacks \in [ChainTasks -> {"none", "repair", "gate"}]
    /\ gateDue \in BOOLEAN
CountsTyped ==
    /\ repairCrashes \in 0..MaxRepairCrashes
    /\ verificationRetries \in 0..MaxVerificationRetries
    /\ reopened \subseteq Chains

LEMMA TypeParts ==
  RepairTypeOK <=> /\ RunTyped /\ TasksTyped /\ AuthorityTyped /\ CallbacksTyped
                   /\ CountsTyped
  BY DEF RepairTypeOK, RunTyped, TasksTyped, AuthorityTyped, CallbacksTyped, CountsTyped,
     RunRecords,
     AuthorityRecords, TaskStatus, DeliverRecords

LEMMA NextTypeParts ==
  /\ RunTyped' /\ TasksTyped' /\ AuthorityTyped' /\ CallbacksTyped'
  /\ CountsTyped'
  => RepairTypeOK'
  BY DEF RepairTypeOK, RunTyped, TasksTyped, AuthorityTyped, CallbacksTyped, CountsTyped,
     RunRecords,
     AuthorityRecords, TaskStatus, DeliverRecords

LEMMA RunEnds ==
  ASSUME NEW outcome \in {"satisfied", "unsatisfied"}, EndRun(outcome)
  PROVE  RunTyped' /\ repairRun'.status = "completed"
  BY DEF EndRun, RunTyped, RunRecords

LEMMA RevisionTypes ==
  ASSUME RepairTypeOK, RoundsInOrder, NEW c \in Chains, NEW failed \in Rounds,
         ApplyRevision(c, failed), NextRound <= MaxRepairRounds
  PROVE  RunTyped' /\ TasksTyped'
  <1>1. RunTyped /\ TasksTyped
    BY TypeParts
  <1>2. NextRound \in Rounds
    BY RevisionTasks
  <1> DEFINE round == NextRound
  <1>3. /\ chainTasks' = [chainTasks EXCEPT ![<<c, "repair", round>>] = "pending",
                                            ![<<c, "verify", round>>] = "pending"]
        /\ repairs' = [repairs EXCEPT ![c][round] = failed]
        /\ Reconnect(c, failed, round)
        /\ repairRun' = [repairRun EXCEPT !.status = "running"]
    BY DEF ApplyRevision
  <1>4. round \in Rounds
    BY <1>2
  <1> HIDE DEF round
  <1>5. RunTyped'
    BY <1>1, <1>3 DEF RunTyped, RunRecords
  <1>6. chainTasks' \in [ChainTasks -> TaskStatus]
    BY <1>1, <1>3, <1>4 DEF TasksTyped, ChainTasks, TaskStatus
  <1>7. repairs' \in [Chains -> [Rounds -> Rounds \cup {-1}]]
    <2>1. [repairs[c] EXCEPT ![round] = failed] \in [Rounds -> Rounds \cup {-1}]
      BY <1>1, <1>4 DEF TasksTyped
    <2>2. QED
      BY <1>1, <1>3, <2>1 DEF TasksTyped
  <1>8. deliver' \in DeliverRecords
    <2>1. [deliver.on EXCEPT ![c] = round] \in [Chains -> Rounds]
      BY <1>1, <1>4 DEF TasksTyped, DeliverRecords
    <2>2. QED
      BY <1>1, <1>3, <2>1 DEF Reconnect, TasksTyped, DeliverRecords
  <1>9. QED
    BY <1>5, <1>6, <1>7, <1>8 DEF TasksTyped

LEMMA AskTypes ==
  ASSUME RepairTypeOK, NEW p \in Proposals, AskForAuthority(p), deciding' \subseteq deciding
  PROVE  RunTyped' /\ AuthorityTyped'
  <1>1. RunTyped /\ AuthorityTyped
    BY TypeParts
  <1>2. RunTyped'
    BY <1>1 DEF AskForAuthority, RunTyped, RunRecords
  <1>3. [approval |-> "waiting", request |-> "waiting"] \in AuthorityRecords
    BY DEF AuthorityRecords
  <1>4. AuthorityTyped'
    BY <1>1, <1>3 DEF AskForAuthority, AuthorityTyped
  <1>5. QED
    BY <1>2, <1>4

LEMMA ProposalTypes ==
  ASSUME RoundsInOrder, NEW c \in Chains, NEW failed \in Rounds, NEW k \in Compositions,
         NextRound <= MaxRepairRounds
  PROVE  ProposalFor(c, failed, k) \in Proposals
  <1>1. NextRound \in Rounds \ {0}
    BY NextRoundIs, RepairBounds DEF Rounds
  <1>2. QED
    BY <1>1 DEF ProposalFor, Proposals

LEMMA ChainTaskFields ==
  \A t \in ChainTasks : t[1] \in Chains /\ t[2] \in {"repair", "verify"} /\ t[3] \in Rounds
                        /\ t = <<t[1], t[2], t[3]>>
  BY DEF ChainTasks

LEMMA ProposalFields ==
  \A p \in Proposals : /\ p.chain \in Chains /\ p.failed \in Rounds /\ p.round \in Rounds \ {0}
                       /\ p.composition \in Compositions
                       /\ p = [chain |-> p.chain, failed |-> p.failed, round |-> p.round,
                               composition |-> p.composition]
  BY DEF Proposals

LEMMA RepairTypes ==
  ASSUME RepairInv, RepairNext
  PROVE  RepairTypeOK'
  <1>0. /\ RepairTypeOK /\ RoundsInOrder
        /\ RunTyped /\ TasksTyped /\ AuthorityTyped /\ CallbacksTyped
        /\ CountsTyped /\ verificationRetries \in Compositions
    BY TypeParts DEF RepairInv, CountsTyped, Compositions
  <1> USE DEF RunTyped, TasksTyped, AuthorityTyped, CallbacksTyped
  <1> DEFINE Counted == UNCHANGED <<verificationRetries, reopened>>
  <1>a. UNCHANGED repairCrashes /\ Counted => CountsTyped'
    BY <1>0 DEF CountsTyped
  <1>1. CASE (StartDeliver \/ CompleteDeliver) /\ Counted
    <2>1. deliver' \in DeliverRecords
      BY <1>0, <1>1 DEF StartDeliver, CompleteDeliver, DeliverRecords
    <2>2. QED
      BY <1>0, <1>1, <2>1, <1>a, NextTypeParts DEF StartDeliver, CompleteDeliver
  <1>2. CASE EvaluateGate /\ Counted
    <2>1. RunTyped'
      <3>1. repairRun' = repairRun \/ EndRun(GateOutcome)
        BY <1>2 DEF EvaluateGate, Gate
      <3>2. GateOutcome \in {"satisfied", "unsatisfied"}
        BY DEF GateOutcome
      <3>3. QED
        BY <1>0, <3>1, <3>2, RunEnds
    <2>2. CallbacksTyped'
      BY <1>0, <1>2 DEF EvaluateGate
    <2>3. QED
      BY <1>0, <1>2, <2>1, <2>2, <1>a, NextTypeParts DEF EvaluateGate
  <1>3. CASE CrashRepair /\ Counted
    <2>1. CountsTyped'
      BY <1>0, <1>3, RepairBounds DEF CrashRepair, CountsTyped
    <2>2. QED
      BY <1>0, <1>3, <2>1, <1>a, NextTypeParts DEF CrashRepair
  <1>4. ASSUME NEW t \in ChainTasks, StartChainTask(t), Counted
        PROVE  RepairTypeOK'
    <2>1. chainTasks' \in [ChainTasks -> TaskStatus]
      BY <1>0, <1>4 DEF StartChainTask, TaskStatus
    <2>2. QED
      BY <1>0, <1>4, <2>1, <1>a, NextTypeParts DEF StartChainTask
  <1>5. ASSUME NEW t \in ChainTasks, NEW ok \in BOOLEAN, ReportChainTask(t, ok), Counted
        PROVE  RepairTypeOK'
    <2>1. chainTasks' \in [ChainTasks -> TaskStatus]
      BY <1>0, <1>5 DEF ReportChainTask, TaskStatus
    <2>2. callbacks' \in [ChainTasks -> {"none", "repair", "gate"}]
      BY <1>0, <1>5 DEF ReportChainTask
    <2>3. QED
      BY <1>0, <1>5, <2>1, <2>2, <1>a, NextTypeParts DEF ReportChainTask
  <1>6. ASSUME NEW t \in ChainTasks, NEW expands \in BOOLEAN, RepairApplied(t, expands), Counted
        PROVE  RepairTypeOK'
    <2>1. t[1] \in Chains /\ t[3] \in Rounds /\ NextRound <= MaxRepairRounds
      BY <1>6, ChainTaskFields DEF RepairApplied
    <2>2. callbacks' \in [ChainTasks -> {"none", "repair", "gate"}]
      BY <1>0, <1>6 DEF RepairApplied
    <2>3. UNCHANGED <<gateDue, deciding, repairCrashes>> /\ Counted
      BY <1>6 DEF RepairApplied
    <2>4. CASE expands
      <3>1. AskForAuthority(ProposalFor(t[1], t[3], verificationRetries))
            /\ UNCHANGED <<chainTasks, repairs, deliver>>
        BY <1>6, <2>4 DEF RepairApplied
      <3>2. ProposalFor(t[1], t[3], verificationRetries) \in Proposals
        BY <1>0, <2>1, ProposalTypes
      <3>3. RunTyped' /\ AuthorityTyped'
        BY <1>0, <2>3, <3>1, <3>2, AskTypes
      <3>4. QED
        BY <1>0, <2>2, <2>3, <3>1, <3>3, <1>a, NextTypeParts
    <2>5. CASE ~ expands
      <3>1. ApplyRevision(t[1], t[3]) /\ UNCHANGED authority
        BY <1>6, <2>5 DEF RepairApplied
      <3>2. RunTyped' /\ TasksTyped'
        BY <1>0, <2>1, <3>1, RevisionTypes
      <3>3. QED
        BY <1>0, <2>2, <2>3, <3>1, <3>2, <1>a, NextTypeParts
    <2>6. QED
      BY <2>4, <2>5
  <1>7. ASSUME NEW t \in ChainTasks, RepairExhausted(t) \/ RepairSkipped(t), Counted
        PROVE  RepairTypeOK'
    <2>1. RunTyped'
      BY <1>0, <1>7, RunEnds DEF RepairExhausted, RepairSkipped
    <2>2. callbacks' \in [ChainTasks -> {"none", "repair", "gate"}]
      BY <1>0, <1>7 DEF RepairExhausted, RepairSkipped
    <2>3. QED
      BY <1>0, <1>7, <2>1, <2>2, <1>a, NextTypeParts DEF RepairExhausted, RepairSkipped
  <1>8. ASSUME NEW p \in DOMAIN authority, NEW decision \in {"approved", "rejected"},
               DecideAuthority(p, decision), Counted
        PROVE  RepairTypeOK'
    <2>1. [authority[p] EXCEPT !.approval = decision] \in AuthorityRecords
      BY <1>0 DEF AuthorityRecords
    <2>2. AuthorityTyped'
      BY <1>0, <1>8, <2>1 DEF DecideAuthority
    <2>3. QED
      BY <1>0, <1>8, <2>2, <1>a, NextTypeParts DEF DecideAuthority
  <1>9. ASSUME NEW p \in DOMAIN authority, ReplayAuthority(p) \/ ContinuationSkipped(p), Counted
        PROVE  RepairTypeOK'
    BY <1>0, <1>9, <1>a, NextTypeParts DEF ReplayAuthority, ContinuationSkipped
  <1>10. ASSUME NEW p \in DOMAIN authority, ContinueRejected(p), Counted
         PROVE  RepairTypeOK'
    <2>1. [authority[p] EXCEPT !.request = "rejected"] \in AuthorityRecords
      BY <1>0 DEF AuthorityRecords
    <2>2. AuthorityTyped'
      BY <1>0, <1>10, <2>1 DEF ContinueRejected
    <2>3. RunTyped'
      BY <1>10, RunEnds DEF ContinueRejected
    <2>4. QED
      BY <1>0, <1>10, <2>2, <2>3, <1>a, NextTypeParts DEF ContinueRejected
  <1>11. ASSUME NEW p \in DOMAIN authority, ContinueApproved(p), Counted
         PROVE  RepairTypeOK'
    <2> DEFINE now == ProposalFor(p.chain, p.failed, p.composition)
    <2>1. p.chain \in Chains /\ p.failed \in Rounds /\ p.composition \in Compositions
      BY <1>0, ProposalFields
    <2>2. UNCHANGED <<gateDue, callbacks, repairCrashes>> /\ deciding' \subseteq deciding
          /\ Counted
      BY <1>11 DEF ContinueApproved
    <2>3. CASE UNCHANGED <<repairRun, chainTasks, repairs, deliver, authority>>
      BY <1>0, <2>2, <2>3, <1>a, NextTypeParts
    <2>4. CASE EndRun("unsatisfied") /\ UNCHANGED <<chainTasks, repairs, deliver, authority>>
      BY <1>0, <2>2, <2>4, <1>a, NextTypeParts, RunEnds
    <2>5. CASE /\ NextRound <= MaxRepairRounds /\ Approved(now) /\ ApplyRevision(p.chain, p.failed)
               /\ authority' = [authority EXCEPT ![now].request = "applied"]
      <3>1. RunTyped' /\ TasksTyped'
        BY <1>0, <2>1, <2>5, RevisionTypes
      <3>2. PICK q \in DOMAIN authority : q = now
        BY <2>5 DEF Approved
      <3>3. [authority[q] EXCEPT !.request = "applied"] \in AuthorityRecords
        BY <1>0 DEF AuthorityRecords
      <3>4. AuthorityTyped'
        BY <1>0, <2>2, <2>5, <3>2, <3>3
      <3>5. QED
        BY <1>0, <2>2, <3>1, <3>4, <1>a, NextTypeParts
    <2>6. CASE /\ NextRound <= MaxRepairRounds /\ AskForAuthority(now)
               /\ UNCHANGED <<chainTasks, repairs, deliver>>
      <3>1. now \in Proposals
        BY <1>0, <2>1, <2>6, ProposalTypes
      <3>2. RunTyped' /\ AuthorityTyped'
        BY <1>0, <2>2, <2>6, <3>1, AskTypes
      <3>3. QED
        BY <1>0, <2>2, <2>6, <3>2, <1>a, NextTypeParts
    <2>7. NextRound \in Nat /\ MaxRepairRounds \in Nat
      BY <1>0, <2>1, NextRoundIs, RepairBounds
    <2>8. QED
      BY <1>11, <2>3, <2>4, <2>5, <2>6, <2>7 DEF ContinueApproved
  <1>12. ASSUME NEW t \in ChainTasks, RetryVerification(t)
         PROVE  RepairTypeOK'
    <2>1. chainTasks' \in [ChainTasks -> TaskStatus]
      BY <1>0, <1>12 DEF RetryVerification, TaskStatus
    <2>2. RunTyped'
      BY <1>0, <1>12 DEF RetryVerification, RunRecords
    <2>3. CountsTyped'
      <3>1. t[1] \in Chains
        BY ChainTaskFields
      <3>2. verificationRetries' \in 0..MaxVerificationRetries
        BY <1>0, <1>12, RepairBounds DEF RetryVerification, CountsTyped
      <3>3. reopened' \subseteq Chains
        BY <1>0, <1>12, <3>1 DEF RetryVerification, CountsTyped
      <3>4. QED
        BY <1>0, <1>12, <3>2, <3>3 DEF RetryVerification, CountsTyped
    <2>4. QED
      BY <1>0, <1>12, <2>1, <2>2, <2>3, NextTypeParts DEF RetryVerification
  <1>13. QED
    BY <1>1, <1>2, <1>3, <1>4, <1>5, <1>6, <1>7, <1>8, <1>9, <1>10, <1>11, <1>12
       DEF RepairNext, RunGoesOn

-----------------------------------------------------------------------------
(* How rounds and approvals move. *)

SameTasks == /\ \A t \in ChainTasks : chainTasks'[t] = "none" <=> chainTasks[t] = "none"
             /\ repairs' = repairs

LEMMA StartedTasks ==
  ASSUME RepairTypeOK, NEW t \in ChainTasks, chainTasks[t] # "none",
         NEW status \in TaskStatus \ {"none"},
         chainTasks' = [chainTasks EXCEPT ![t] = status]
  PROVE  \A u \in ChainTasks : chainTasks'[u] = "none" <=> chainTasks[u] = "none"
  BY DEF RepairTypeOK

LEMMA RoundsMove ==
  ASSUME RepairInv, RepairNext
  PROVE  \/ SameTasks
         \/ \E c \in Chains, failed \in Rounds :
               ApplyRevision(c, failed) /\ NextRound <= MaxRepairRounds
  <1>0. RepairTypeOK /\ RoundsInOrder /\ DOMAIN authority \subseteq Proposals
    BY TypeParts DEF RepairInv, AuthorityTyped
  <1>1. CASE StartDeliver \/ CompleteDeliver \/ EvaluateGate \/ CrashRepair
    BY <1>1 DEF StartDeliver, CompleteDeliver, EvaluateGate, CrashRepair, SameTasks
  <1>2. ASSUME NEW t \in ChainTasks, StartChainTask(t)
        PROVE  SameTasks
    BY <1>0, <1>2, StartedTasks DEF StartChainTask, SameTasks, TaskStatus
  <1>3. ASSUME NEW t \in ChainTasks, NEW ok \in BOOLEAN, ReportChainTask(t, ok)
        PROVE  SameTasks
    <2>1. PICK status \in {"completed", "failed"} :
             chainTasks' = [chainTasks EXCEPT ![t] = status]
      BY <1>3 DEF ReportChainTask
    <2>2. chainTasks[t] # "none" /\ repairs' = repairs
      BY <1>3 DEF ReportChainTask
    <2>3. QED
      BY <1>0, <2>1, <2>2, StartedTasks DEF SameTasks, TaskStatus
  <1>4. ASSUME NEW t \in ChainTasks, NEW expands \in BOOLEAN, RepairApplied(t, expands)
        PROVE  \/ SameTasks
               \/ ApplyRevision(t[1], t[3]) /\ NextRound <= MaxRepairRounds
    BY <1>4 DEF RepairApplied, SameTasks
  <1>5. ASSUME NEW t \in ChainTasks, RepairExhausted(t) \/ RepairSkipped(t)
        PROVE  SameTasks
    BY <1>5 DEF RepairExhausted, RepairSkipped, SameTasks
  <1>6. ASSUME NEW p \in DOMAIN authority,
               \/ \E decision \in {"approved", "rejected"} : DecideAuthority(p, decision)
               \/ ReplayAuthority(p) \/ ContinuationSkipped(p) \/ ContinueRejected(p)
        PROVE  SameTasks
    BY <1>6 DEF DecideAuthority, ReplayAuthority, ContinuationSkipped, ContinueRejected, SameTasks
  <1>7. ASSUME NEW p \in DOMAIN authority, ContinueApproved(p)
        PROVE  \/ SameTasks
               \/ ApplyRevision(p.chain, p.failed) /\ NextRound <= MaxRepairRounds
    <2>1. NextRound \in Nat /\ MaxRepairRounds \in Nat
      BY <1>0, NextRoundIs, ProposalFields, RepairBounds
    <2>2. QED
      BY <1>7, <2>1 DEF ContinueApproved, SameTasks
  <1>8. \A t \in ChainTasks : t[1] \in Chains /\ t[3] \in Rounds
    BY ChainTaskFields
  <1>9. \A p \in DOMAIN authority : p.chain \in Chains /\ p.failed \in Rounds
    BY <1>0, ProposalFields
  <1>10. ASSUME NEW t \in ChainTasks, RetryVerification(t)
         PROVE  SameTasks
    BY <1>0, <1>10, StartedTasks DEF RetryVerification, SameTasks, TaskStatus
  <1>11. QED
    BY <1>1, <1>2, <1>3, <1>4, <1>5, <1>6, <1>7, <1>8, <1>9, <1>10 DEF RepairNext, RunGoesOn

(* An approval that was given stays, and its request waits unless it is    *)
(* used in the round it was given for.                                     *)
LEMMA AuthorityMoves ==
  ASSUME RepairInv, RepairNext, NEW p \in DOMAIN authority
  PROVE  /\ p \in DOMAIN authority'
         /\ authority[p].approval = "approved" => authority'[p].approval = "approved"
         /\ /\ authority[p] = [approval |-> "approved", request |-> "waiting"]
            /\ p.round # NextRound
            => authority'[p] = authority[p]
  <1> DEFINE Kept == /\ p \in DOMAIN authority'
                     /\ authority[p].approval = "approved" => authority'[p].approval = "approved"
                     /\ /\ authority[p] = [approval |-> "approved", request |-> "waiting"]
                        /\ p.round # NextRound
                        => authority'[p] = authority[p]
  <1>0. RepairTypeOK /\ \A q \in DOMAIN authority : authority[q] \in AuthorityRecords
    BY TypeParts DEF RepairInv, AuthorityTyped
  <1>1. ASSUME UNCHANGED authority
        PROVE  Kept
    BY <1>1
  <1>2. ASSUME NEW t \in ChainTasks, NEW expands \in BOOLEAN, RepairApplied(t, expands)
        PROVE  Kept
    BY <1>2 DEF RepairApplied, AskForAuthority
  <1>3. ASSUME NEW q \in DOMAIN authority, NEW decision \in {"approved", "rejected"},
               DecideAuthority(q, decision)
        PROVE  Kept
    <2>1. authority[q].approval # "approved"
          /\ authority' = [authority EXCEPT ![q].approval = decision]
      BY <1>3 DEF DecideAuthority
    <2>2. CASE p = q
      BY <1>0, <2>1, <2>2
    <2>3. CASE p # q
      BY <2>1, <2>3
    <2>4. QED
      BY <2>2, <2>3
  <1>4. ASSUME NEW q \in DOMAIN authority, ContinueRejected(q)
        PROVE  Kept
    <2>1. authority[q].approval # "approved"
          /\ authority' = [authority EXCEPT ![q].request = "rejected"]
      BY <1>4 DEF ContinueRejected
    <2>2. CASE p = q
      BY <1>0, <2>1, <2>2
    <2>3. CASE p # q
      BY <2>1, <2>3
    <2>4. QED
      BY <2>2, <2>3
  <1>5. ASSUME NEW q \in DOMAIN authority, ContinueApproved(q)
        PROVE  Kept
    <2> DEFINE now == ProposalFor(q.chain, q.failed, q.composition)
    <2>1. now.round = NextRound
      BY DEF ProposalFor
    <2> HIDE DEF now
    <2>2. \/ UNCHANGED authority
          \/ Approved(now) /\ authority' = [authority EXCEPT ![now].request = "applied"]
          \/ ~ Approved(now) /\ AskForAuthority(now)
      BY <1>5 DEF ContinueApproved, now
    <2>3. CASE UNCHANGED authority
      BY <2>3
    <2>4. CASE Approved(now) /\ authority' = [authority EXCEPT ![now].request = "applied"]
      <3>1. CASE p = now
        <4>1. authority' = [authority EXCEPT ![p].request = "applied"]
          BY <2>4, <3>1
        <4>2. authority'[p].approval = authority[p].approval /\ p \in DOMAIN authority'
          BY <1>0, <4>1 DEF AuthorityRecords
        <4>3. QED
          BY <2>1, <3>1, <4>2
      <3>2. CASE p # now
        BY <2>4, <3>2
      <3>3. QED
        BY <3>1, <3>2
    <2>5. CASE ~ Approved(now) /\ AskForAuthority(now)
      <3>1. CASE p = now
        BY <2>1, <2>5, <3>1 DEF Approved, AskForAuthority
      <3>2. CASE p # now
        BY <2>5, <3>2 DEF AskForAuthority
      <3>3. QED
        BY <3>1, <3>2
    <2>6. QED
      BY <2>2, <2>3, <2>4, <2>5
  <1>6. QED
    BY <1>1, <1>2, <1>3, <1>4, <1>5 DEF RepairNext, RunGoesOn, RetryVerification, StartDeliver,
       CompleteDeliver, EvaluateGate,
       CrashRepair, StartChainTask, ReportChainTask, RepairExhausted, RepairSkipped,
       ReplayAuthority, ContinuationSkipped

(* A proposal is made for the next round. *)
LEMMA ProposalsAreNew ==
  ASSUME RepairInv, RepairNext, NEW p \in DOMAIN authority', p \notin DOMAIN authority
  PROVE  p.round = NextRound
  <1>1. \A c, failed, k : ProposalFor(c, failed, k).round = NextRound
    BY DEF ProposalFor
  <1>2. \/ DOMAIN authority' = DOMAIN authority
        \/ \E c, failed, k : AskForAuthority(ProposalFor(c, failed, k))
    <2>1. ASSUME NEW t \in ChainTasks, NEW expands \in BOOLEAN, RepairApplied(t, expands)
          PROVE  \/ DOMAIN authority' = DOMAIN authority
                 \/ AskForAuthority(ProposalFor(t[1], t[3], verificationRetries))
      BY <2>1 DEF RepairApplied
    <2>2. ASSUME NEW q \in DOMAIN authority, ContinueApproved(q)
          PROVE  \/ DOMAIN authority' = DOMAIN authority
                 \/ AskForAuthority(ProposalFor(q.chain, q.failed, q.composition))
      BY <2>2 DEF ContinueApproved
    <2>3. ASSUME NEW q \in DOMAIN authority,
                 \/ \E decision \in {"approved", "rejected"} : DecideAuthority(q, decision)
                 \/ ContinueRejected(q)
          PROVE  DOMAIN authority' = DOMAIN authority
      BY <2>3 DEF DecideAuthority, ContinueRejected
    <2>4. QED
      BY <2>1, <2>2, <2>3 DEF RepairNext, RunGoesOn, RetryVerification, StartDeliver,
         CompleteDeliver, EvaluateGate,
         CrashRepair, StartChainTask, ReportChainTask, RepairExhausted, RepairSkipped,
         ReplayAuthority, ContinuationSkipped
  <1>3. PICK c, failed, k : AskForAuthority(ProposalFor(c, failed, k))
    BY <1>2
  <1> DEFINE new == ProposalFor(c, failed, k)
  <1>4. DOMAIN authority' = DOMAIN authority \cup {new}
    BY <1>3 DEF AskForAuthority
  <1>5. p = new
    BY <1>4
  <1>6. QED
    BY <1>1, <1>5

LEMMA NextRoundGrows ==
  ASSUME RepairInv, RepairNext, NEW c \in Chains
  PROVE  /\ NextRound \in Nat /\ NextRound' \in Nat /\ NextRound <= NextRound'
         /\ SameTasks => NextRound' = NextRound
  <1>0. RepairTypeOK /\ RoundsInOrder
    BY DEF RepairInv
  <1>1. NextRound \in Nat
    BY <1>0, NextRoundIs
  <1>2. SameTasks => NextRound' = NextRound
    BY SameRounds DEF SameTasks
  <1>3. SameTasks \/ NextRound' = NextRound + 1
    BY <1>0, RoundsMove, RevisionRounds
  <1>4. QED
    BY <1>1, <1>2, <1>3

LEMMA OvertakenStays ==
  ASSUME RepairInv, RepairNext, NEW c \in Chains, Overtaken(c)
  PROVE  Overtaken(c)'
  <1>1. PICK p \in DOMAIN authority :
           /\ p.chain = c /\ p.round # NextRound
           /\ authority[p] = [approval |-> "approved", request |-> "waiting"]
    BY DEF Overtaken
  <1>2. p \in DOMAIN authority' /\ authority'[p] = authority[p]
    BY <1>1, AuthorityMoves
  <1>3. p.round <= NextRound /\ p.round \in Nat
    BY TypeParts, ProposalFields, RoundsAreNumbers DEF RepairInv, RoundsInOrder, AuthorityTyped
  <1>4. p.round # NextRound'
    BY <1>1, <1>3, NextRoundGrows
  <1>5. QED
    BY <1>1, <1>2, <1>4 DEF Overtaken

LEMMA RoundsStayInOrder ==
  ASSUME RepairInv, RepairNext
  PROVE  RoundsInOrder'
  <1>0. RepairTypeOK /\ RoundsInOrder /\ TasksTyped /\ AuthorityTyped /\ CallbacksTyped
    BY TypeParts DEF RepairInv
  <1>1. \A c \in Chains : 0 \in RoundsOf(c)'
    BY <1>0, RoundsMove, SameRounds, RevisionTasks DEF RoundsInOrder, SameTasks
  <1>2. ASSUME NEW c \in Chains, NEW n \in Rounds, repairs'[c][n] # -1
        PROVE  n \in RoundsOf(c)'
    <2>1. CASE SameTasks
      BY <1>0, <1>2, <2>1, SameRounds DEF SameTasks, RoundsInOrder
    <2>2. ASSUME NEW d \in Chains, NEW failed \in Rounds, ApplyRevision(d, failed),
                 NextRound <= MaxRepairRounds
          PROVE  n \in RoundsOf(c)'
      <3>1. NextRound \in Rounds /\ repairs' = [repairs EXCEPT ![d][NextRound] = failed]
        BY <1>0, <2>2, RevisionTasks DEF ApplyRevision
      <3>2. (c = d /\ n = NextRound) \/ repairs[c][n] # -1
        BY <1>0, <1>2, <3>1 DEF TasksTyped
      <3>3. QED
        BY <1>0, <2>2, <3>2, RevisionTasks DEF RoundsInOrder
    <2>3. QED
      BY <2>1, <2>2, RoundsMove
  <1>3. ASSUME NEW t \in ChainTasks, callbacks'[t] = "repair"
        PROVE  t[2] = "verify"
    <2>1. CASE callbacks[t] = "repair"
      BY <1>0, <2>1 DEF RoundsInOrder
    <2>2. CASE callbacks[t] # "repair"
      <3>1. PICK u \in ChainTasks, ok \in BOOLEAN : ReportChainTask(u, ok)
        BY <1>0, <1>3, <2>2 DEF RepairNext, RunGoesOn, RetryVerification, CallbacksTyped,
           StartDeliver, CompleteDeliver,
           EvaluateGate, CrashRepair, StartChainTask, RepairApplied, RepairExhausted,
           RepairSkipped, DecideAuthority, ReplayAuthority, ContinueApproved,
           ContinuationSkipped, ContinueRejected
      <3>2. QED
        BY <1>0, <1>3, <2>2, <3>1 DEF ReportChainTask, CallbacksTyped
    <2>3. QED
      BY <2>1, <2>2
  <1>4. ASSUME NEW p \in DOMAIN authority'
        PROVE  p.round <= NextRound'
    <2>1. p \in Proposals
      BY <1>4, RepairTypes DEF RepairTypeOK
    <2>2. p.chain \in Chains /\ p.round \in Nat
      BY <2>1, ProposalFields, RoundsAreNumbers
    <2>3. p.round <= NextRound
      <3>1. CASE p \in DOMAIN authority
        BY <1>0, <3>1 DEF RoundsInOrder
      <3>2. CASE p \notin DOMAIN authority
        BY <1>4, <2>2, <3>2, ProposalsAreNew
      <3>3. QED
        BY <3>1, <3>2
    <2>4. QED
      BY <2>2, <2>3, NextRoundGrows
  <1>5. QED
    BY <1>1, <1>2, <1>3, <1>4 DEF RoundsInOrder

-----------------------------------------------------------------------------
(* A chain that a step leaves alone: its rounds, its results and the hands *)
(* its failure is in, but for those that drop it.                          *)
LeavesAlone(c) ==
    /\ RoundsOf(c)' = RoundsOf(c)
    /\ \A n \in Rounds : chainTasks[Verification(c, n)] \in {"completed", "failed"} =>
          chainTasks'[Verification(c, n)] = chainTasks[Verification(c, n)]
    /\ \A n \in Rounds : repairs'[c][n] = repairs[c][n]
    /\ \A n \in Rounds : callbacks'[Verification(c, n)] = "repair" =>
          callbacks[Verification(c, n)] = "repair"
    /\ Waiting(c)' \subseteq Waiting(c)
    /\ deliver'.on[c] = deliver.on[c]
    /\ deliver'.status # "pending" =>
          deliver.status # "pending" \/ chainTasks[Verification(c, deliver.on[c])] = "completed"

LEMMA ChainStays ==
  ASSUME NEW c \in Chains, 0 \in RoundsOf(c), ChainInOrder(c), LeavesAlone(c)
  PROVE  ChainInOrder(c)'
  <1>1. LastRound(c)' = LastRound(c) /\ LastRound(c) \in Rounds
    BY LastRoundIs DEF LeavesAlone, LastRound
  <1>2. \A n \in Rounds : FailedAt(c, n) => FailedAt(c, n)'
    BY DEF LeavesAlone, FailedAt
  <1>3. ChainInLine(c)'
    <2>1. \A n \in RoundsOf(c)' : n # LastRound(c)' => FailedAt(c, n)'
      BY <1>1, <1>2 DEF ChainInOrder, ChainInLine, LeavesAlone, RoundsOf
    <2>2. ASSUME NEW n \in Rounds \ {0}, repairs'[c][n] # -1
          PROVE  repairs'[c][n] = Max({m \in RoundsOf(c)' : m < n})
      <3>1. RoundsOf(c)' = RoundsOf(c) /\ repairs'[c][n] = repairs[c][n]
        BY DEF LeavesAlone
      <3>2. repairs[c][n] = Max({m \in RoundsOf(c) : m < n})
        BY <2>2, <3>1 DEF ChainInOrder, ChainInLine
      <3>3. QED
        BY <3>1, <3>2
    <2>3. QED
      BY <2>1, <2>2 DEF ChainInLine
  <1>4. FailureInHand(c)'
    <2>1. ASSUME NEW n \in Rounds, callbacks'[Verification(c, n)] = "repair"
          PROVE  n = LastRound(c)' /\ FailedAt(c, n)' /\ Waiting(c)' = {}
      <3>1. callbacks[Verification(c, n)] = "repair" /\ Waiting(c)' \subseteq Waiting(c)
        BY <2>1 DEF LeavesAlone
      <3>2. n = LastRound(c) /\ FailedAt(c, n) /\ Waiting(c) = {}
        BY <3>1 DEF ChainInOrder, FailureInHand
      <3>3. QED
        BY <1>1, <1>2, <3>1, <3>2
    <2>2. ASSUME NEW p \in Waiting(c)'
          PROVE  p.failed = LastRound(c)' /\ FailedAt(c, p.failed)' /\ \A q \in Waiting(c)' : q = p
      <3>1. Waiting(c)' \subseteq Waiting(c)
        BY DEF LeavesAlone
      <3>2. p.failed = LastRound(c) /\ FailedAt(c, p.failed) /\ \A q \in Waiting(c) : q = p
        BY <3>1 DEF ChainInOrder, FailureInHand
      <3>3. QED
        BY <1>1, <1>2, <3>1, <3>2
    <2>3. QED
      BY <2>1, <2>2 DEF FailureInHand
  <1>5. DeliveryInLine(c)'
    BY <1>1 DEF LeavesAlone, ChainInOrder, DeliveryInLine
  <1>6. QED
    BY <1>3, <1>4, <1>5 DEF ChainInOrder

(* The last verification of a chain fails: its callback has the failure.   *)
LEMMA VerificationFails ==
  ASSUME RepairInv, NEW c \in Chains, ChainInOrder(c), NEW n \in Rounds,
         ReportChainTask(Verification(c, n), FALSE)
  PROVE  ChainInOrder(c)'
  <1> DEFINE t == Verification(c, n)
  <1>0. /\ RepairTypeOK /\ 0 \in RoundsOf(c) /\ t \in ChainTasks
        /\ TasksTyped /\ CallbacksTyped
        /\ \A m \in Rounds : Verification(c, m) \in ChainTasks /\ (Verification(c, m) = t => m = n)
    BY TypeParts DEF RepairInv, RoundsInOrder, Verification, ChainTasks
  <1>1. /\ chainTasks[t] = "running"
        /\ chainTasks' = [chainTasks EXCEPT ![t] = "failed"]
        /\ callbacks' = [callbacks EXCEPT ![t] = "repair"]
        /\ UNCHANGED <<gateDue, repairRun, repairs, deliver, authority, deciding, repairCrashes>>
    BY DEF ReportChainTask
  <1>2. ChainInLine(c) /\ FailureInHand(c) /\ DeliveryInLine(c)
    BY DEF ChainInOrder
  <1>3. n = LastRound(c) /\ ~ FailedAt(c, n)
    BY <1>1, <1>2 DEF ChainInLine, FailedAt, RoundsOf
  <1>4. Waiting(c) = {} /\ Waiting(c)' = Waiting(c)
    BY <1>1, <1>2, <1>3 DEF FailureInHand, Waiting
  <1>5. deliver'.status = "pending" /\ deliver' = deliver
    BY <1>1, <1>2, <1>3 DEF DeliveryInLine
  <1>6. RoundsOf(c)' = RoundsOf(c) /\ LastRound(c)' = LastRound(c)
    BY <1>0, <1>1, StartedTasks, SameRounds DEF TaskStatus
  <1>7. /\ FailedAt(c, n)'
        /\ \A m \in Rounds : m # n => chainTasks'[Verification(c, m)] = chainTasks[Verification(c, m)]
        /\ \A m \in Rounds : m # n => callbacks'[Verification(c, m)] = callbacks[Verification(c, m)]
    BY <1>0, <1>1 DEF FailedAt, TasksTyped, CallbacksTyped
  <1> HIDE DEF t
  <1>8. ChainInLine(c)'
    <2>1. \A m \in RoundsOf(c)' : m # LastRound(c)' => FailedAt(c, m)'
      BY <1>2, <1>3, <1>6, <1>7 DEF ChainInLine, FailedAt, RoundsOf
    <2>2. ASSUME NEW m \in Rounds \ {0}, repairs'[c][m] # -1
          PROVE  repairs'[c][m] = Max({k \in RoundsOf(c)' : k < m})
      <3>1. repairs[c][m] = Max({k \in RoundsOf(c) : k < m}) /\ repairs' = repairs
        BY <1>1, <1>2, <2>2 DEF ChainInLine
      <3>2. QED
        BY <1>6, <3>1
    <2>3. QED
      BY <2>1, <2>2 DEF ChainInLine
  <1>9. FailureInHand(c)'
    BY <1>2, <1>3, <1>4, <1>6, <1>7 DEF FailureInHand
  <1>10. DeliveryInLine(c)'
    BY <1>2, <1>5, <1>6 DEF DeliveryInLine
  <1>11. QED
    BY <1>8, <1>9, <1>10 DEF ChainInOrder

(* A chain is repaired after its last failure, which leaves every hand.    *)
LEMMA ChainRepaired ==
  ASSUME RepairInv, NEW c \in Chains, ChainInOrder(c),
         ApplyRevision(c, LastRound(c)), NextRound <= MaxRepairRounds,
         FailedAt(c, LastRound(c)), Waiting(c)' = {},
         \A n \in Rounds : callbacks'[Verification(c, n)] # "repair"
  PROVE  ChainInOrder(c)'
  <1> DEFINE round == NextRound
             last == LastRound(c)
  <1>0. RepairTypeOK /\ RoundsInOrder /\ 0 \in RoundsOf(c) /\ TasksTyped
    BY TypeParts DEF RepairInv, RoundsInOrder
  <1>1. ChainInLine(c) /\ DeliveryInLine(c)
    BY DEF ChainInOrder
  <1>2. /\ round \in Rounds \ {0}
        /\ \A n \in Rounds : n # round =>
              chainTasks'[Verification(c, n)] = chainTasks[Verification(c, n)]
        /\ RoundsOf(c)' = RoundsOf(c) \cup {round}
        /\ LastRound(c)' = round
    BY <1>0, RevisionTasks, RevisionRounds
  <1>3. \A n \in RoundsOf(c) : n < round /\ n \in Rounds /\ n \in Nat
    BY <1>0, NextRoundIs, RoundsAreNumbers DEF RoundsOf
  <1>4. last \in RoundsOf(c) /\ last \in Nat /\ round \in Nat /\ last < round
    BY <1>0, <1>2, <1>3, LastRoundIs, RoundsAreNumbers
  <1>5. repairs' = [repairs EXCEPT ![c][round] = last]
    BY DEF ApplyRevision
  <1>6. deliver' = [deliver EXCEPT !.on[c] = round] /\ deliver.status = "pending"
    BY <1>1 DEF ApplyRevision, Reconnect, DeliveryInLine, FailedAt
  <1>7. \A n \in RoundsOf(c) : FailedAt(c, n)
    BY <1>1 DEF ChainInLine
  <1> HIDE DEF round, last
  <1>8. ChainInLine(c)'
    <2>1. \A n \in RoundsOf(c)' : n # LastRound(c)' => FailedAt(c, n)'
      BY <1>2, <1>3, <1>7 DEF FailedAt
    <2>2. ASSUME NEW n \in Rounds \ {0}, repairs'[c][n] # -1
          PROVE  repairs'[c][n] = Max({m \in RoundsOf(c)' : m < n})
      <3>1. CASE n = round
        <4>1. {m \in RoundsOf(c)' : m < n} = RoundsOf(c)
          <5>1. \A m \in RoundsOf(c)' : m \in RoundsOf(c) \/ m = n
            BY <1>2, <3>1
          <5>2. RoundsOf(c) \subseteq RoundsOf(c)' /\ \A m \in RoundsOf(c) : m < n
            BY <1>2, <1>3, <3>1
          <5>3. ~ (n < n)
            BY <1>4, <3>1
          <5>4. QED
            BY <5>1, <5>2, <5>3
        <4>2. repairs'[c][n] = last
          BY <1>0, <1>2, <1>5, <3>1 DEF TasksTyped
        <4>3. QED
          BY <4>1, <4>2 DEF last, LastRound
      <3>2. CASE n # round
        <4>1. repairs'[c][n] = repairs[c][n]
          BY <1>0, <1>2, <1>5, <3>2 DEF TasksTyped
        <4>2. n \in RoundsOf(c) /\ repairs[c][n] = Max({m \in RoundsOf(c) : m < n})
          BY <1>0, <1>1, <2>2, <4>1 DEF ChainInLine, RoundsInOrder
        <4>3. {m \in RoundsOf(c)' : m < n} = {m \in RoundsOf(c) : m < n}
          <5>1. \A m \in RoundsOf(c)' : m < n => m \in RoundsOf(c)
            <6>1. n < round /\ n \in Nat /\ round \in Nat
              BY <1>3, <1>4, <4>2
            <6>2. ~ (round < n)
              BY <6>1
            <6>3. QED
              BY <1>2, <6>2
          <5>2. RoundsOf(c) \subseteq RoundsOf(c)'
            BY <1>2
          <5>3. QED
            BY <5>1, <5>2
        <4>4. QED
          BY <4>1, <4>2, <4>3
      <3>3. QED
        BY <3>1, <3>2
    <2>3. QED
      BY <2>1, <2>2 DEF ChainInLine
  <1>9. FailureInHand(c)'
    BY DEF FailureInHand
  <1>10. DeliveryInLine(c)'
    <2>1. deliver'.on[c] = round /\ deliver'.status = "pending"
      BY <1>0, <1>6 DEF TasksTyped, DeliverRecords
    <2>2. QED
      BY <1>2, <2>1 DEF DeliveryInLine
  <1>11. QED
    BY <1>8, <1>9, <1>10 DEF ChainInOrder

(* The repair of a chain needs more authority: the failure passes from its *)
(* callback to a proposal.                                                 *)
LEMMA AuthorityIsAsked ==
  ASSUME RepairInv, NEW c \in Chains, ChainInOrder(c), NEW n \in Rounds,
         RepairApplied(Verification(c, n), TRUE)
  PROVE  ChainInOrder(c)'
  <1> DEFINE t == Verification(c, n)
             p == ProposalFor(c, n, verificationRetries)
  <1>0. /\ t[1] = c /\ t[3] = n /\ 0 \in RoundsOf(c) /\ CallbacksTyped
        /\ \A m \in Rounds : Verification(c, m) \in ChainTasks
    BY TypeParts DEF RepairInv, RoundsInOrder, Verification, ChainTasks
  <1>1. /\ callbacks[t] = "repair" /\ AskForAuthority(p)
        /\ callbacks' = [callbacks EXCEPT ![t] = "none"]
        /\ UNCHANGED <<chainTasks, repairs, deliver>>
    BY <1>0 DEF RepairApplied
  <1>2. n = LastRound(c) /\ FailedAt(c, n) /\ Waiting(c) = {}
    BY <1>1 DEF ChainInOrder, FailureInHand
  <1>3. p.chain = c /\ p.failed = n
    BY DEF ProposalFor
  <1>4. \A m \in Rounds : callbacks'[Verification(c, m)] # "repair"
    <2>1. \A m \in Rounds : callbacks[Verification(c, m)] = "repair" => m = n
      BY <1>2 DEF ChainInOrder, FailureInHand
    <2>2. QED
      BY <1>0, <1>1, <2>1 DEF CallbacksTyped
  <1> HIDE DEF t, p
  <1>5. \A q \in Waiting(c)' : q = p
    BY <1>1, <1>2 DEF AskForAuthority, Waiting
  <1>6. RoundsOf(c)' = RoundsOf(c) /\ LastRound(c)' = LastRound(c)
    BY <1>1 DEF RoundsOf, LastRound, Rounds
  <1>7. ChainInLine(c)' /\ DeliveryInLine(c)' /\ FailedAt(c, n)'
    BY <1>1, <1>2, <1>6 DEF ChainInOrder, ChainInLine, DeliveryInLine, FailedAt
  <1>8. FailureInHand(c)'
    BY <1>2, <1>3, <1>4, <1>5, <1>6, <1>7 DEF FailureInHand
  <1>9. QED
    BY <1>7, <1>8 DEF ChainInOrder

-----------------------------------------------------------------------------
(* What the steps do to a chain. *)

LEMMA VerificationFields ==
  \A c \in Chains, n \in Rounds :
     /\ Verification(c, n) \in ChainTasks
     /\ Verification(c, n)[1] = c /\ Verification(c, n)[2] = "verify" /\ Verification(c, n)[3] = n
  BY DEF Verification, ChainTasks

(* Chains are left alone by what concerns no repair. *)
LEMMA QuietSteps ==
  ASSUME RepairInv, NEW c \in Chains,
         \/ StartDeliver \/ CompleteDeliver \/ EvaluateGate \/ CrashRepair
         \/ \E t \in ChainTasks : StartChainTask(t) \/ RepairExhausted(t) \/ RepairSkipped(t)
         \/ \E p \in DOMAIN authority : \/ \E decision \in {"approved", "rejected"} :
                                              DecideAuthority(p, decision)
                                        \/ ReplayAuthority(p) \/ ContinuationSkipped(p)
                                        \/ ContinueRejected(p)
  PROVE  LeavesAlone(c)
  <1>0. /\ RepairTypeOK /\ TasksTyped /\ CallbacksTyped /\ AuthorityTyped
        /\ \A n \in Rounds : Verification(c, n) \in ChainTasks
    BY TypeParts, VerificationFields DEF RepairInv
  <1>1. CASE StartDeliver \/ CompleteDeliver
    <2>1. UNCHANGED <<chainTasks, repairs, callbacks, authority>>
      BY <1>1 DEF StartDeliver, CompleteDeliver
    <2>2. /\ deliver'.on = deliver.on
          /\ deliver.status # "pending" \/ chainTasks[Verification(c, deliver.on[c])] = "completed"
      BY <1>0, <1>1 DEF StartDeliver, CompleteDeliver, TasksTyped, DeliverRecords
    <2>3. QED
      BY <2>1, <2>2 DEF LeavesAlone, RoundsOf, Waiting
  <1>2. CASE EvaluateGate \/ CrashRepair
    <2>1. UNCHANGED <<chainTasks, repairs, deliver, authority>>
      BY <1>2 DEF EvaluateGate, CrashRepair
    <2>2. \A n \in Rounds : callbacks'[Verification(c, n)] = "repair" =>
             callbacks[Verification(c, n)] = "repair"
      BY <1>0, <1>2 DEF EvaluateGate, CrashRepair, CallbacksTyped
    <2>3. QED
      BY <2>1, <2>2 DEF LeavesAlone, RoundsOf, Waiting
  <1>3. ASSUME NEW t \in ChainTasks, StartChainTask(t)
        PROVE  LeavesAlone(c)
    <2>1. /\ UNCHANGED <<repairs, deliver, authority, callbacks>>
          /\ chainTasks[t] = "pending" /\ chainTasks' = [chainTasks EXCEPT ![t] = "running"]
      BY <1>3 DEF StartChainTask
    <2>2. \A n \in Rounds :
             /\ chainTasks'[Verification(c, n)] = chainTasks[Verification(c, n)]
                \/ chainTasks[Verification(c, n)] = "pending"
             /\ chainTasks'[Verification(c, n)] = "none" <=> chainTasks[Verification(c, n)] = "none"
      BY <1>0, <2>1 DEF TasksTyped
    <2>3. RoundsOf(c)' = RoundsOf(c)
      BY <2>2 DEF RoundsOf
    <2>4. QED
      BY <2>1, <2>2, <2>3 DEF LeavesAlone, Waiting
  <1>4. ASSUME NEW t \in ChainTasks, RepairExhausted(t) \/ RepairSkipped(t)
        PROVE  LeavesAlone(c)
    <2>1. UNCHANGED <<chainTasks, repairs, deliver, authority>>
      BY <1>4 DEF RepairExhausted, RepairSkipped
    <2>2. \A n \in Rounds : callbacks'[Verification(c, n)] = "repair" =>
             callbacks[Verification(c, n)] = "repair"
      BY <1>0, <1>4 DEF RepairExhausted, RepairSkipped, CallbacksTyped
    <2>3. QED
      BY <2>1, <2>2 DEF LeavesAlone, RoundsOf, Waiting
  <1>5. ASSUME NEW p \in DOMAIN authority, NEW decision \in {"approved", "rejected"},
               DecideAuthority(p, decision)
        PROVE  LeavesAlone(c)
    <2>1. /\ UNCHANGED <<chainTasks, repairs, deliver, callbacks>>
          /\ authority' = [authority EXCEPT ![p].approval = decision]
      BY <1>5 DEF DecideAuthority
    <2>2. [authority[p] EXCEPT !.approval = decision].request = authority[p].request
      BY <1>0 DEF AuthorityTyped, AuthorityRecords
    <2>3. Waiting(c)' \subseteq Waiting(c)
      BY <2>1, <2>2 DEF Waiting
    <2>4. QED
      BY <2>1, <2>3 DEF LeavesAlone, RoundsOf
  <1>6. ASSUME NEW p \in DOMAIN authority, ReplayAuthority(p) \/ ContinuationSkipped(p)
        PROVE  LeavesAlone(c)
    BY <1>6 DEF ReplayAuthority, ContinuationSkipped, LeavesAlone, RoundsOf, Waiting
  <1>7. ASSUME NEW p \in DOMAIN authority, ContinueRejected(p)
        PROVE  LeavesAlone(c)
    <2>1. /\ UNCHANGED <<chainTasks, repairs, deliver, callbacks>>
          /\ authority' = [authority EXCEPT ![p].request = "rejected"]
      BY <1>7 DEF ContinueRejected
    <2>2. [authority[p] EXCEPT !.request = "rejected"].request = "rejected"
      BY <1>0 DEF AuthorityTyped, AuthorityRecords
    <2>3. Waiting(c)' \subseteq Waiting(c)
      BY <2>1, <2>2 DEF Waiting
    <2>4. QED
      BY <2>1, <2>3 DEF LeavesAlone, RoundsOf
  <1>8. QED
    BY <1>1, <1>2, <1>3, <1>4, <1>5, <1>6, <1>7

(* A repair leaves the other chains alone. *)
LEMMA OtherChainRepaired ==
  ASSUME RepairInv, NEW c \in Chains, NEW d \in Chains, c # d, NEW failed \in Rounds,
         ApplyRevision(d, failed), NextRound <= MaxRepairRounds,
         \A n \in Rounds : callbacks'[Verification(c, n)] = callbacks[Verification(c, n)],
         Waiting(c)' = Waiting(c)
  PROVE  LeavesAlone(c)
  <1> DEFINE round == NextRound
  <1>0. RepairTypeOK /\ RoundsInOrder /\ TasksTyped
    BY TypeParts DEF RepairInv
  <1>1. /\ RoundsOf(c)' = RoundsOf(c)
        /\ \A n \in Rounds : chainTasks'[Verification(c, n)] = chainTasks[Verification(c, n)]
    BY <1>0, RevisionTasks
  <1>2. /\ repairs' = [repairs EXCEPT ![d][round] = failed]
        /\ deliver' = deliver \/ deliver' = [deliver EXCEPT !.on[d] = round]
    BY DEF ApplyRevision, Reconnect
  <1> HIDE DEF round
  <1>3. repairs'[c] = repairs[c]
    BY <1>0, <1>2 DEF TasksTyped
  <1>4. deliver'.on[c] = deliver.on[c] /\ deliver'.status = deliver.status
    BY <1>0, <1>2 DEF TasksTyped, DeliverRecords
  <1>5. QED
    BY <1>1, <1>3, <1>4 DEF LeavesAlone

LEMMA ReportStep ==
  ASSUME RepairInv, NEW c \in Chains, ChainInOrder(c), NEW t \in ChainTasks, NEW ok \in BOOLEAN,
         ReportChainTask(t, ok)
  PROVE  ChainInOrder(c)'
  <1>0. /\ RepairTypeOK /\ TasksTyped /\ CallbacksTyped /\ 0 \in RoundsOf(c)
        /\ \A n \in Rounds : Verification(c, n) \in ChainTasks
    BY TypeParts, VerificationFields DEF RepairInv, RoundsInOrder
  <1>1. /\ chainTasks[t] = "running"
        /\ UNCHANGED <<repairs, deliver, authority>>
    BY DEF ReportChainTask
  <1>2. PICK n \in Rounds : t[3] = n
    BY ChainTaskFields
  <1>3. CASE ~ ok /\ t[1] = c
    <2>1. t = Verification(c, n) /\ ok = FALSE
      BY <1>2, <1>3, ChainTaskFields DEF ReportChainTask, Verification
    <2>2. QED
      BY <2>1, VerificationFails
  <1>4. CASE ok \/ t[1] # c
    <2>1. \A m \in Rounds : callbacks'[Verification(c, m)] = "repair" =>
             callbacks[Verification(c, m)] = "repair"
      BY <1>0, <1>4, VerificationFields DEF ReportChainTask, CallbacksTyped
    <2>2. PICK status \in {"completed", "failed"} :
             chainTasks' = [chainTasks EXCEPT ![t] = status]
      BY DEF ReportChainTask
    <2>3. RoundsOf(c)' = RoundsOf(c)
      BY <1>0, <1>1, <2>2, StartedTasks, SameRounds DEF TaskStatus
    <2>4. \A m \in Rounds : chainTasks[Verification(c, m)] \in {"completed", "failed"} =>
             chainTasks'[Verification(c, m)] = chainTasks[Verification(c, m)]
      BY <1>0, <1>1, <2>2 DEF TasksTyped
    <2>5. LeavesAlone(c)
      BY <1>1, <2>1, <2>3, <2>4 DEF LeavesAlone, Waiting
    <2>6. QED
      BY <1>0, <2>5, ChainStays
  <1>5. QED
    BY <1>3, <1>4

LEMMA RepairStep ==
  ASSUME RepairInv, NEW c \in Chains, ChainInOrder(c), NEW t \in ChainTasks,
         NEW expands \in BOOLEAN, RepairApplied(t, expands)
  PROVE  ChainInOrder(c)'
  <1>0. /\ RepairTypeOK /\ CallbacksTyped /\ 0 \in RoundsOf(c)
        /\ \A n \in Rounds : Verification(c, n) \in ChainTasks
        /\ t[1] \in Chains /\ t[3] \in Rounds
    BY TypeParts, VerificationFields, ChainTaskFields DEF RepairInv, RoundsInOrder
  <1>1. t[2] = "verify" /\ t = Verification(t[1], t[3]) /\ NextRound <= MaxRepairRounds
        /\ callbacks[t] = "repair"
    BY ChainTaskFields DEF RepairInv, RoundsInOrder, RepairApplied, Verification
  <1>2. PICK after \in {"none", "gate"} : callbacks' = [callbacks EXCEPT ![t] = after]
    BY DEF RepairApplied
  <1>3. CASE expands /\ t[1] = c
    <2>1. RepairApplied(Verification(c, t[3]), TRUE)
      BY <1>1, <1>3
    <2>2. QED
      BY <1>0, <2>1, AuthorityIsAsked
  <1>4. CASE ~ expands /\ t[1] = c
    <2>1. ApplyRevision(c, t[3]) /\ UNCHANGED authority
      BY <1>4 DEF RepairApplied
    <2>2. t[3] = LastRound(c) /\ FailedAt(c, t[3]) /\ Waiting(c) = {}
      BY <1>0, <1>1, <1>4 DEF ChainInOrder, FailureInHand
    <2>3. Waiting(c)' = {}
      BY <2>1, <2>2 DEF Waiting
    <2>4. \A n \in Rounds : callbacks'[Verification(c, n)] # "repair"
      <3>1. \A n \in Rounds : callbacks[Verification(c, n)] = "repair" => n = t[3]
        BY <2>2 DEF ChainInOrder, FailureInHand
      <3>2. \A n \in Rounds : Verification(c, n) = t \/ callbacks[Verification(c, n)] # "repair"
        BY <1>1, <1>4, <3>1
      <3>3. QED
        BY <1>0, <1>2, <3>2 DEF CallbacksTyped
    <2>5. QED
      BY <1>1, <2>1, <2>2, <2>3, <2>4, ChainRepaired
  <1>5. CASE t[1] # c
    <2>1. \A n \in Rounds : callbacks'[Verification(c, n)] = callbacks[Verification(c, n)]
      BY <1>0, <1>2, <1>5, VerificationFields DEF CallbacksTyped
    <2>2. CASE expands
      <3>1. AskForAuthority(ProposalFor(t[1], t[3], verificationRetries))
            /\ UNCHANGED <<chainTasks, repairs, deliver>>
        BY <2>2 DEF RepairApplied
      <3>2. ProposalFor(t[1], t[3], verificationRetries).chain # c
        BY <1>5 DEF ProposalFor
      <3>3. Waiting(c)' \subseteq Waiting(c)
        BY <3>1, <3>2 DEF AskForAuthority, Waiting
      <3>4. LeavesAlone(c)
        BY <2>1, <3>1, <3>3 DEF LeavesAlone, RoundsOf
      <3>5. QED
        BY <1>0, <3>4, ChainStays
    <2>3. CASE ~ expands
      <3>1. ApplyRevision(t[1], t[3]) /\ UNCHANGED authority
        BY <2>3 DEF RepairApplied
      <3>2. Waiting(c)' = Waiting(c)
        BY <3>1 DEF Waiting
      <3>3. LeavesAlone(c)
        BY <1>0, <1>1, <1>5, <2>1, <3>1, <3>2, OtherChainRepaired
      <3>4. QED
        BY <1>0, <3>3, ChainStays
    <2>4. QED
      BY <2>2, <2>3
  <1>6. QED
    BY <1>3, <1>4, <1>5

(* An approved proposal that is not overtaken is for the next round, and   *)
(* is what its continuation proposes.                                      *)
LEMMA ApprovalIsCurrent ==
  ASSUME RepairInv, NEW p \in DOMAIN authority, ~ Overtaken(p.chain),
         authority[p] = [approval |-> "approved", request |-> "waiting"]
  PROVE  p = ProposalFor(p.chain, p.failed, p.composition)
  <1>1. p \in Proposals
    BY TypeParts DEF RepairInv, AuthorityTyped
  <1>2. p.round = NextRound
    BY DEF Overtaken
  <1>3. QED
    BY <1>1, <1>2, ProposalFields DEF ProposalFor

LEMMA ContinuationStep ==
  ASSUME RepairInv, NEW c \in Chains, ChainInOrder(c), ~ Overtaken(c),
         NEW p \in DOMAIN authority, ContinueApproved(p)
  PROVE  ChainInOrder(c)'
  <1> DEFINE now == ProposalFor(p.chain, p.failed, p.composition)
  <1>0. /\ RepairTypeOK /\ AuthorityTyped /\ 0 \in RoundsOf(c)
        /\ p.chain \in Chains /\ p.failed \in Rounds /\ now.chain = p.chain
        /\ NextRound \in Nat /\ MaxRepairRounds \in Nat
    BY TypeParts, ProposalFields, NextRoundIs, RepairBounds
       DEF RepairInv, RoundsInOrder, AuthorityTyped, ProposalFor
  <1>1. UNCHANGED callbacks
    BY DEF ContinueApproved
  <1>2. CASE UNCHANGED <<chainTasks, repairs, deliver, authority>>
    <2>1. LeavesAlone(c)
      BY <1>1, <1>2 DEF LeavesAlone, RoundsOf, Waiting
    <2>2. QED
      BY <1>0, <2>1, ChainStays
  <1>3. CASE /\ NextRound <= MaxRepairRounds /\ Approved(now) /\ ApplyRevision(p.chain, p.failed)
             /\ authority' = [authority EXCEPT ![now].request = "applied"]
             /\ Continues(p) /\ authority[p].approval = "approved"
    <2>1. CASE p.chain # c
      <3>1. Waiting(c)' = Waiting(c)
        <4>1. \A q \in DOMAIN authority : q.chain = c => authority'[q] = authority[q]
          BY <1>0, <1>3, <2>1
        <4>2. DOMAIN authority' = DOMAIN authority
          BY <1>3
        <4>3. QED
          BY <4>1, <4>2 DEF Waiting
      <3>2. LeavesAlone(c)
        BY <1>0, <1>1, <1>3, <2>1, <3>1, OtherChainRepaired
      <3>3. QED
        BY <1>0, <3>2, ChainStays
    <2>2. CASE p.chain = c
      <3>1. authority[p] = [approval |-> "approved", request |-> "waiting"]
        BY <1>0, <1>3 DEF AuthorityTyped, AuthorityRecords, Continues
      <3>2. p = now
        BY <2>2, <3>1, ApprovalIsCurrent
      <3>3. p \in Waiting(c)
        BY <2>2, <3>1 DEF Waiting
      <3>4. /\ p.failed = LastRound(c) /\ FailedAt(c, p.failed) /\ \A q \in Waiting(c) : q = p
            /\ \A n \in Rounds : callbacks[Verification(c, n)] # "repair"
        BY <3>3 DEF ChainInOrder, FailureInHand
      <3> HIDE DEF now
      <3>5. Waiting(c)' = {}
        <4>1. authority' = [authority EXCEPT ![p].request = "applied"]
          BY <1>3, <3>2
        <4>2. authority'[p].request = "applied" /\ DOMAIN authority' = DOMAIN authority
              /\ \A q \in DOMAIN authority : q # p => authority'[q] = authority[q]
          BY <3>1, <4>1
        <4>3. QED
          BY <3>4, <4>2 DEF Waiting
      <3>6. QED
        BY <1>1, <1>3, <2>2, <3>4, <3>5, ChainRepaired
    <2>3. QED
      BY <2>1, <2>2
  <1>4. CASE /\ ~ Approved(now) /\ AskForAuthority(now)
             /\ UNCHANGED <<chainTasks, repairs, deliver>>
             /\ Continues(p) /\ authority[p].approval = "approved"
    <2>1. p.chain # c
      <3>1. SUFFICES ASSUME p.chain = c
                     PROVE  FALSE
        OBVIOUS
      <3>2. authority[p] = [approval |-> "approved", request |-> "waiting"]
        BY <1>0, <1>4 DEF AuthorityTyped, AuthorityRecords, Continues
      <3>3. p = now
        BY <3>1, <3>2, ApprovalIsCurrent
      <3> HIDE DEF now
      <3>4. QED
        BY <1>4, <3>3 DEF Approved
    <2>2. Waiting(c)' \subseteq Waiting(c)
      <3>1. now.chain # c
        BY <1>0, <2>1
      <3> HIDE DEF now
      <3>2. QED
        BY <1>4, <3>1 DEF AskForAuthority, Waiting
    <2>3. LeavesAlone(c)
      BY <1>1, <1>4, <2>2 DEF LeavesAlone, RoundsOf
    <2>4. QED
      BY <1>0, <2>3, ChainStays
  <1>5. QED
    BY <1>0, <1>2, <1>3, <1>4 DEF ContinueApproved

(* A verification whose failure nobody has taken up is the last one of its *)
(* chain: its retry leaves no hand and nothing that was delivered.         *)
LEMMA RetryStep ==
  ASSUME RepairInv, NEW c \in Chains, ChainInOrder(c), c \notin reopened',
         NEW t \in ChainTasks, RetryVerification(t)
  PROVE  ChainInOrder(c)'
  <1>0. /\ RepairTypeOK /\ TasksTyped /\ 0 \in RoundsOf(c)
        /\ \A m \in Rounds : Verification(c, m) \in ChainTasks
    BY TypeParts, VerificationFields DEF RepairInv, RoundsInOrder
  <1>1. /\ t[2] = "verify" /\ chainTasks[t] = "failed"
        /\ chainTasks' = [chainTasks EXCEPT ![t] = "pending"]
        /\ UNCHANGED <<repairs, deliver, authority, callbacks>>
        /\ reopened' = IF FailureIsTakenUp(t) THEN reopened \cup {t[1]} ELSE reopened
    BY DEF RetryVerification
  <1>2. RoundsOf(c)' = RoundsOf(c) /\ LastRound(c)' = LastRound(c) /\ Waiting(c)' = Waiting(c)
    BY <1>0, <1>1, StartedTasks, SameRounds DEF TaskStatus, Waiting
  <1>3. CASE t[1] # c
    <2>1. \A m \in Rounds : chainTasks'[Verification(c, m)] = chainTasks[Verification(c, m)]
      BY <1>0, <1>1, <1>3, VerificationFields DEF TasksTyped
    <2>2. LeavesAlone(c)
      BY <1>1, <1>2, <2>1 DEF LeavesAlone
    <2>3. QED
      BY <1>0, <2>2, ChainStays
  <1>4. CASE t[1] = c
    <2>1. ~ FailureIsTakenUp(t)
      BY <1>1, <1>4
    <2>2. t[3] = LastRound(c) /\ callbacks[t] # "repair" /\ Waiting(c) = {}
      BY <1>4, <2>1 DEF FailureIsTakenUp, Waiting
    <2>3. PICK n \in Rounds : n = LastRound(c) /\ t = Verification(c, n)
      BY <1>1, <1>4, <2>2, ChainTaskFields DEF Verification
    <2>4. ChainInLine(c) /\ FailureInHand(c) /\ DeliveryInLine(c)
      BY DEF ChainInOrder
    <2>5. \A m \in Rounds : m # n => chainTasks'[Verification(c, m)] = chainTasks[Verification(c, m)]
      BY <1>0, <1>1, <2>3, VerificationFields DEF TasksTyped
    <2>6. ChainInLine(c)'
      <3>1. \A m \in RoundsOf(c)' : m # LastRound(c)' => FailedAt(c, m)'
        BY <1>2, <2>3, <2>4, <2>5 DEF ChainInLine, FailedAt, RoundsOf
      <3>2. ASSUME NEW m \in Rounds \ {0}, repairs'[c][m] # -1
            PROVE  repairs'[c][m] = Max({k \in RoundsOf(c)' : k < m})
        <4>1. repairs[c][m] = Max({k \in RoundsOf(c) : k < m}) /\ repairs' = repairs
          BY <1>1, <2>4, <3>2 DEF ChainInLine
        <4>2. QED
          BY <1>2, <4>1
      <3>3. QED
        BY <3>1, <3>2 DEF ChainInLine
    <2>7. FailureInHand(c)'
      <3>1. \A m \in Rounds : callbacks'[Verification(c, m)] # "repair"
        BY <1>1, <2>2, <2>3, <2>4 DEF FailureInHand
      <3>2. Waiting(c)' = {}
        BY <1>2, <2>2
      <3>3. QED
        BY <3>1, <3>2 DEF FailureInHand
    <2>8. DeliveryInLine(c)'
      <3>1. deliver.status = "pending"
        BY <1>1, <2>3, <2>4 DEF DeliveryInLine
      <3>2. QED
        BY <1>1, <1>2, <2>4, <3>1 DEF DeliveryInLine
    <2>9. QED
      BY <2>6, <2>7, <2>8 DEF ChainInOrder
  <1>5. QED
    BY <1>3, <1>4

LEMMA ChainsStayInOrder ==
  ASSUME RepairInv, RepairNext, NEW c \in Chains, TakenUpOnce(c)'
  PROVE  ChainInOrder(c)'
  <1>1. ~ Overtaken(c) /\ c \notin reopened
    <2>1. reopened \subseteq reopened'
      BY DEF RepairNext, RetryVerification
    <2>2. QED
      BY <2>1, OvertakenStays DEF TakenUpOnce
  <1>2. ChainInOrder(c) /\ 0 \in RoundsOf(c)
    BY <1>1 DEF RepairInv, RoundsInOrder, TakenUpOnce
  <1>3. LeavesAlone(c) => ChainInOrder(c)'
    BY <1>2, ChainStays
  <1>4. CASE StartDeliver \/ CompleteDeliver \/ EvaluateGate \/ CrashRepair
    BY <1>3, <1>4, QuietSteps
  <1>5. ASSUME NEW t \in ChainTasks, StartChainTask(t) \/ RepairExhausted(t) \/ RepairSkipped(t)
        PROVE  ChainInOrder(c)'
    BY <1>3, <1>5, QuietSteps
  <1>6. ASSUME NEW p \in DOMAIN authority,
               \/ \E decision \in {"approved", "rejected"} : DecideAuthority(p, decision)
               \/ ReplayAuthority(p) \/ ContinuationSkipped(p) \/ ContinueRejected(p)
        PROVE  ChainInOrder(c)'
    BY <1>3, <1>6, QuietSteps
  <1>7. ASSUME NEW t \in ChainTasks, \E ok \in BOOLEAN : ReportChainTask(t, ok)
        PROVE  ChainInOrder(c)'
    BY <1>2, <1>7, ReportStep
  <1>8. ASSUME NEW t \in ChainTasks, \E expands \in BOOLEAN : RepairApplied(t, expands)
        PROVE  ChainInOrder(c)'
    BY <1>2, <1>8, RepairStep
  <1>9. ASSUME NEW p \in DOMAIN authority, ContinueApproved(p)
        PROVE  ChainInOrder(c)'
    BY <1>1, <1>2, <1>9, ContinuationStep
  <1>10. ASSUME NEW t \in ChainTasks, RetryVerification(t)
         PROVE  ChainInOrder(c)'
    BY <1>2, <1>10, RetryStep DEF TakenUpOnce
  <1>11. QED
    BY <1>4, <1>5, <1>6, <1>7, <1>8, <1>9, <1>10 DEF RepairNext, RunGoesOn

LEMMA SomebodyStays ==
  ASSUME RepairInv, RepairNext
  PROVE  WaitsForSomebody'
  <1> DEFINE Open == \E p \in DOMAIN authority' : authority'[p].request = "waiting"
  <1>0. /\ RepairTypeOK /\ RoundsInOrder /\ AuthorityTyped /\ WaitsForSomebody
        /\ RunTyped
    BY TypeParts DEF RepairInv
  <1>1. ASSUME NEW outcome, EndRun(outcome)
        PROVE  WaitsForSomebody'
    BY <1>1 DEF EndRun, WaitsForSomebody
  <1>2. ASSUME NEW c, NEW failed, NEW k, AskForAuthority(ProposalFor(c, failed, k))
        PROVE  WaitsForSomebody'
    <2> DEFINE p == ProposalFor(c, failed, k)
    <2>1. AskForAuthority(p)
      BY <1>2
    <2> HIDE DEF p
    <2>2. p \in DOMAIN authority' /\ authority'[p].request = "waiting"
      BY <2>1 DEF AskForAuthority
    <2>3. QED
      BY <2>2 DEF WaitsForSomebody
  <1>3. ASSUME NEW c, NEW failed, ApplyRevision(c, failed)
        PROVE  WaitsForSomebody'
    BY <1>0, <1>3 DEF ApplyRevision, WaitsForSomebody, RunTyped, RunRecords
  <1>4. ASSUME UNCHANGED <<repairRun, authority>>
        PROVE  WaitsForSomebody'
    BY <1>0, <1>4 DEF WaitsForSomebody
  <1>5. CASE StartDeliver \/ CompleteDeliver \/ CrashRepair
    BY <1>4, <1>5 DEF StartDeliver, CompleteDeliver, CrashRepair
  <1>6. CASE EvaluateGate
    BY <1>1, <1>4, <1>6 DEF EvaluateGate, Gate
  <1>7. ASSUME NEW t \in ChainTasks, StartChainTask(t) \/ RepairSkipped(t)
                                     \/ \E ok \in BOOLEAN : ReportChainTask(t, ok)
        PROVE  WaitsForSomebody'
    BY <1>4, <1>7 DEF StartChainTask, RepairSkipped, ReportChainTask
  <1>8. ASSUME NEW t \in ChainTasks, NEW expands \in BOOLEAN, RepairApplied(t, expands)
        PROVE  WaitsForSomebody'
    BY <1>2, <1>3, <1>8 DEF RepairApplied
  <1>9. ASSUME NEW t \in ChainTasks, RepairExhausted(t)
        PROVE  WaitsForSomebody'
    BY <1>1, <1>9 DEF RepairExhausted
  <1>10. ASSUME NEW p \in DOMAIN authority, NEW decision \in {"approved", "rejected"},
                DecideAuthority(p, decision)
         PROVE  WaitsForSomebody'
    <2>1. repairRun' = repairRun /\ authority' = [authority EXCEPT ![p].approval = decision]
      BY <1>10 DEF DecideAuthority
    <2>2. [authority[p] EXCEPT !.approval = decision].request = authority[p].request
      BY <1>0 DEF AuthorityTyped, AuthorityRecords
    <2>3. \A q \in DOMAIN authority : q \in DOMAIN authority' /\ authority'[q].request = authority[q].request
      BY <2>1, <2>2
    <2>4. QED
      BY <1>0, <2>1, <2>3 DEF WaitsForSomebody
  <1>11. ASSUME NEW p \in DOMAIN authority, ReplayAuthority(p) \/ ContinuationSkipped(p)
         PROVE  WaitsForSomebody'
    BY <1>4, <1>11 DEF ReplayAuthority, ContinuationSkipped
  <1>12. ASSUME NEW p \in DOMAIN authority, ContinueRejected(p)
         PROVE  WaitsForSomebody'
    BY <1>1, <1>12 DEF ContinueRejected
  <1>13. ASSUME NEW p \in DOMAIN authority, ContinueApproved(p)
         PROVE  WaitsForSomebody'
    <2>1. \/ UNCHANGED <<repairRun, authority>>
          \/ EndRun("unsatisfied")
          \/ ApplyRevision(p.chain, p.failed)
          \/ AskForAuthority(ProposalFor(p.chain, p.failed, p.composition))
      BY <1>13 DEF ContinueApproved
    <2>2. QED
      BY <1>1, <1>2, <1>3, <1>4, <2>1
  <1>14. ASSUME NEW t \in ChainTasks, RetryVerification(t)
         PROVE  WaitsForSomebody'
    <2>1. /\ authority' = authority
          /\ repairRun' = repairRun \/ repairRun'.status = "running"
      BY <1>0, <1>14 DEF RetryVerification, RunTyped, RunRecords
    <2>2. QED
      BY <1>0, <2>1 DEF WaitsForSomebody
  <1>15. QED
    BY <1>5, <1>6, <1>7, <1>8, <1>9, <1>10, <1>11, <1>12, <1>13, <1>14 DEF RepairNext, RunGoesOn

-----------------------------------------------------------------------------
(* The invariant of every behaviour. *)

LEMMA RepairBegins == RepairInit => RepairInv
  <1> SUFFICES ASSUME RepairInit
               PROVE  RepairInv
    OBVIOUS
  <1> USE DEF RepairInit
  <1>1. DOMAIN authority = {}
    OBVIOUS
  <1>2. 0 \in Rounds /\ MaxRepairRounds \in Nat /\ CountsTyped
    BY RoundsAreNumbers, RepairBounds DEF CountsTyped
  <1>3. \A t \in ChainTasks : chainTasks[t] # "none" <=> t[3] <= 0
    BY ChainTaskFields, RoundsAreNumbers
  <1>4. \A c \in Chains : RoundsOf(c) = {0}
    <2>1. ASSUME NEW c \in Chains, NEW n \in Rounds
          PROVE  chainTasks[Verification(c, n)] # "none" <=> n = 0
      <3>1. n \in Nat /\ Verification(c, n) \in ChainTasks /\ Verification(c, n)[3] = n
        BY RoundsAreNumbers, VerificationFields
      <3>2. QED
        BY <1>3, <3>1
    <2>2. QED
      BY <1>2, <2>1 DEF RoundsOf
  <1>5. \A c \in Chains : LastRound(c) = 0
    BY <1>2, <1>4, LastRoundIs
  <1>6. RunTyped /\ AuthorityTyped /\ CallbacksTyped
    BY <1>1 DEF RunTyped, RunRecords, AuthorityTyped, CallbacksTyped
  <1>7. TasksTyped
    <2>1. chainTasks \in [ChainTasks -> TaskStatus]
      BY DEF TaskStatus
    <2>2. repairs \in [Chains -> [Rounds -> Rounds \cup {-1}]]
      OBVIOUS
    <2>3. deliver \in DeliverRecords
      BY <1>2 DEF DeliverRecords
    <2>4. QED
      BY <2>1, <2>2, <2>3 DEF TasksTyped
  <1>8. RepairTypeOK
    BY <1>2, <1>6, <1>7, TypeParts
  <1>9. RoundsInOrder
    BY <1>1, <1>4 DEF RoundsInOrder
  <1>10. ASSUME NEW c \in Chains
         PROVE  ChainInOrder(c)
    <2>1. ChainInLine(c) /\ DeliveryInLine(c)
      BY <1>4, <1>5 DEF ChainInLine, DeliveryInLine
    <2>2. FailureInHand(c)
      BY <1>1, VerificationFields DEF FailureInHand, Waiting
    <2>3. QED
      BY <2>1, <2>2 DEF ChainInOrder
  <1>11. WaitsForSomebody
    BY DEF WaitsForSomebody
  <1>12. QED
    BY <1>8, <1>9, <1>10, <1>11 DEF RepairInv

LEMMA RepairContinues == RepairInv /\ [RepairNext]_repairVars => RepairInv'
  <1> SUFFICES ASSUME RepairInv, [RepairNext]_repairVars
               PROVE  RepairInv'
    OBVIOUS
  <1>1. CASE RepairNext
    BY <1>1, RepairTypes, RoundsStayInOrder, ChainsStayInOrder, SomebodyStays DEF RepairInv
  <1>2. CASE UNCHANGED repairVars
    <2>1. UNCHANGED <<repairRun, chainTasks, repairs, deliver, authority, callbacks, gateDue,
                      deciding, repairCrashes, verificationRetries, reopened>>
      BY <1>2 DEF repairVars
    <2>2. RepairTypeOK' /\ WaitsForSomebody'
      BY <2>1 DEF RepairInv, RepairTypeOK, WaitsForSomebody
    <2>3. /\ NextRound' = NextRound
          /\ \A c \in Chains : RoundsOf(c)' = RoundsOf(c) /\ LastRound(c)' = LastRound(c)
      BY <2>1, SameRounds
    <2>4. RoundsInOrder'
      BY <2>1, <2>3 DEF RepairInv, RoundsInOrder
    <2>5. ASSUME NEW c \in Chains, TakenUpOnce(c)'
          PROVE  ChainInOrder(c)'
      <3>1. TakenUpOnce(c)
        BY <2>1, <2>3, <2>5 DEF TakenUpOnce, Overtaken
      <3>2. ChainInOrder(c) /\ 0 \in RoundsOf(c)
        BY <3>1 DEF RepairInv, RoundsInOrder
      <3>3. LeavesAlone(c)
        BY <2>1, <2>3 DEF LeavesAlone, Waiting
      <3>4. QED
        BY <3>2, <3>3, ChainStays
    <2>6. QED
      BY <2>2, <2>4, <2>5 DEF RepairInv
  <1>3. QED
    BY <1>1, <1>2

(* The inductive invariant: rounds in order, and every chain whose         *)
(* failures were taken up once a line with its failure in one pair of      *)
(* hands.                                                                  *)
THEOREM RepairInvariance == RepairSpec => []RepairInv
  BY RepairBegins, RepairContinues, PTL DEF RepairSpec

(* The variables keep their types: an approval is of a proposal of the run *)
(* and only asked-for approvals are continued.                             *)
THEOREM RepairIsTyped == RepairSpec => []RepairTypeOK
  <1>1. RepairInv => RepairTypeOK
    BY DEF RepairInv
  <1>2. QED
    BY <1>1, RepairInvariance, PTL

(* Every repair of a chain is of the failed verification right before it,  *)
(* also when operators retry failures nobody has taken up, unless an       *)
(* approval of the chain was overtaken by another repair or a failure of   *)
(* it was retried that was repaired or about to be.                        *)
THEOREM RepairsAreInLine == RepairSpec => []RepairsFormALine
  <1>1. RepairInv => RepairsFormALine
    <2> SUFFICES ASSUME RepairInv, NEW c \in Chains, NEW n \in Rounds \ {0},
                        repairs[c][n] # -1, TakenUpOnce(c)
                 PROVE  /\ repairs[c][n] = Max({m \in RoundsOf(c) : m < n})
                        /\ chainTasks[Verification(c, repairs[c][n])] = "failed"
      BY DEF RepairsFormALine
    <2>1. ChainInLine(c) /\ 0 \in RoundsOf(c) /\ n \in RoundsOf(c)
      BY DEF RepairInv, ChainInOrder, RoundsInOrder
    <2>2. repairs[c][n] = Max({m \in RoundsOf(c) : m < n})
      BY <2>1 DEF ChainInLine
    <2> DEFINE before == {m \in RoundsOf(c) : m < n}
    <2>3. /\ before \in SUBSET Nat /\ 0 \in before /\ MaxRepairRounds \in Nat
          /\ \A m \in before : m <= MaxRepairRounds
      <3>1. RoundsOf(c) \in SUBSET Nat /\ \A m \in RoundsOf(c) : m <= MaxRepairRounds
        BY RoundsAreNumbers DEF RoundsOf
      <3>2. n \in Nat /\ n # 0
        BY RoundsAreNumbers
      <3>3. 0 < n
        BY <3>2
      <3>4. QED
        BY <2>1, <3>1, <3>3, RepairBounds
    <2>4. repairs[c][n] \in before
      <3> HIDE DEF before
      <3>1. Max(before) \in before
        BY <2>3, GreatestNatural
      <3>2. QED
        BY <2>2, <3>1 DEF before
    <2>5. repairs[c][n] \in RoundsOf(c) /\ repairs[c][n] < n /\ n <= LastRound(c)
          /\ repairs[c][n] \in Nat /\ n \in Nat /\ LastRound(c) \in Nat
      BY <2>1, <2>4, LastRoundIs, RoundsAreNumbers DEF RoundsOf
    <2>6. repairs[c][n] # LastRound(c)
      BY <2>5
    <2>7. QED
      BY <2>1, <2>2, <2>5, <2>6 DEF ChainInLine, FailedAt
  <1>2. QED
    BY <1>1, RepairInvariance, PTL

(* What is delivered depends on the last verification of every chain, and  *)
(* begins after that verification succeeded, on the same condition: each   *)
(* failure of the chain was taken up once.                                 *)
THEOREM DeliveryIsVerified == RepairSpec => []DeliveredIsVerified
  <1>1. RepairInv => DeliveredIsVerified
    BY DEF RepairInv, ChainInOrder, DeliveryInLine, DeliveredIsVerified
  <1>2. QED
    BY <1>1, RepairInvariance, PTL

(* A run that waits for an approval has one whose request is open, so that *)
(* an operator can move the run, whatever the order of decisions, replays  *)
(* and crashes.                                                            *)
THEOREM SomebodyCanDecide == RepairSpec => []WaitsForSomebody
  <1>1. RepairInv => WaitsForSomebody
    BY DEF RepairInv
  <1>2. QED
    BY <1>1, RepairInvariance, PTL

(* A repair that an approval let go on is the approved one: for the same   *)
(* failure, in the round the approval was asked for.                       *)
THEOREM AuthorityIsForItsManifest == RepairSpec => AuthorityIsCurrent
  <1> DEFINE Used(c, n) ==
               \E p \in DOMAIN authority :
                  /\ p.chain = c /\ p.failed = repairs'[c][n] /\ p.round = n
                  /\ authority[p].approval = "approved"
                  /\ authority'[p].request = "applied"
             Authorised ==
               \A c \in Chains, n \in Rounds :
                  repairs[c][n] = -1 /\ repairs'[c][n] # -1 /\ UNCHANGED callbacks => Used(c, n)
  <1>1. RepairInv /\ [RepairNext]_repairVars => [Authorised]_repairVars
    <2> SUFFICES ASSUME RepairInv, RepairNext
                 PROVE  Authorised
      <3> HIDE DEF Authorised
      <3>1. QED
        OBVIOUS
    <2> SUFFICES ASSUME NEW c \in Chains, NEW n \in Rounds,
                        repairs[c][n] = -1, repairs'[c][n] # -1, UNCHANGED callbacks
                 PROVE  Used(c, n)
      <3> HIDE DEF Used
      <3>1. QED
        OBVIOUS
    <2>0. /\ RepairTypeOK /\ TasksTyped /\ AuthorityTyped /\ CallbacksTyped /\ RoundsInOrder
          /\ repairs' # repairs
      BY TypeParts DEF RepairInv
    <2>1. PICK p \in DOMAIN authority : ContinueApproved(p)
      <3>1. ASSUME NEW t \in ChainTasks, NEW expands \in BOOLEAN, RepairApplied(t, expands)
            PROVE  FALSE
        <4>1. ~ expands
          BY <2>0, <3>1 DEF RepairApplied
        <4>2. callbacks'[t] = "gate" /\ callbacks[t] = "repair"
          BY <2>0, <3>1, <4>1 DEF RepairApplied, CallbacksTyped
        <4>3. QED
          BY <4>2
      <3>2. QED
        BY <2>0, <3>1 DEF RepairNext, RunGoesOn, RetryVerification, StartDeliver,
           CompleteDeliver, EvaluateGate, CrashRepair,
           StartChainTask, ReportChainTask, RepairExhausted, RepairSkipped, DecideAuthority,
           ReplayAuthority, ContinuationSkipped, ContinueRejected
    <2> DEFINE now == ProposalFor(p.chain, p.failed, p.composition)
    <2>2. /\ ApplyRevision(p.chain, p.failed) /\ Approved(now)
          /\ authority' = [authority EXCEPT ![now].request = "applied"]
      BY <2>0, <2>1 DEF ContinueApproved
    <2>3. p.chain \in Chains /\ now.chain = p.chain /\ now.failed = p.failed /\ now.round = NextRound
      BY <2>0, ProposalFields DEF AuthorityTyped, ProposalFor
    <2> HIDE DEF now
    <2>4. now \in DOMAIN authority /\ authority[now].approval = "approved"
      BY <2>2 DEF Approved
    <2>5. authority'[now].request = "applied"
      BY <2>0, <2>2, <2>4 DEF AuthorityTyped, AuthorityRecords
    <2> DEFINE round == NextRound
    <2>6. repairs' = [repairs EXCEPT ![p.chain][round] = p.failed]
      BY <2>2 DEF ApplyRevision
    <2> HIDE DEF round
    <2>7. c = p.chain /\ n = round /\ repairs'[c][n] = p.failed
      BY <2>0, <2>3, <2>6 DEF TasksTyped
    <2>8. QED
      BY <2>3, <2>4, <2>5, <2>7 DEF round
  <1>2. QED
    BY <1>1, RepairInvariance, PTL DEF RepairSpec, AuthorityIsCurrent

===============================================================================
