----------------------------- MODULE GoalCoverage -----------------------------
(***************************************************************************)
(* What decides whether a run has reached its goal: every requirement has  *)
(* a frozen coverage (which tasks produce for it, which evaluate it, by    *)
(* which checks); the callback of an evaluator is judged check by check    *)
(* (requirement-evaluator-results.ts) and may lead to a repair with a      *)
(* coverage of its own; the completion gate judges all results again       *)
(* (completion-gate.ts).                                                   *)
(***************************************************************************)
EXTENDS Integers, FiniteSets

CONSTANTS
    Producers,        \* tasks that produce artifacts
    Evaluators,       \* tasks that evaluate them
    RequirementIds,   \* requirements of the Goal Contract
    Checks,           \* criterion bindings: a criterion and how it is verified
    BlockingChecks,   \* those whose binding is blocking
    RequirementOf,    \* the requirement of a check
    ChecksOf,         \* the checks in the frozen profile of an evaluator
    ContractOf,       \* the artifact contract, with its version, a check is made on
    Emits,            \* the artifact contracts the artifacts of a producer carry
    FirstCoverage,    \* goal_requirement_coverage: producers and evaluators by requirement
    RepairCoverage,   \* the same for the tasks of a repair of the requirement
    Reports,          \* bound: what evaluators may say of the checks
    MaxRetries,       \* bound: retries by an operator
    MaxAlarms         \* bound: tasks blocked

ASSUME CoverageBounds ==
    /\ {MaxRetries, MaxAlarms} \subseteq Nat
    /\ Producers \cap Evaluators = {}
    /\ BlockingChecks \subseteq Checks

VARIABLES
    coverage,    \* the effective coverage: the frozen one with its revisions
    coverTasks,  \* the tasks: status, attempts so far
    products,    \* accepted artifact_ref rows: task and attempt
    results,     \* requirement_evaluator_result rows with their evidence packets
    alarms,      \* tasks with a critical exception, which nothing resolves
    repairsDue,  \* evaluators whose rejected callback may still ask for a repair
    judgeDue,    \* a callback has not evaluated the completion gate yet
    judged,      \* status of the run and its goal_outcome
    retries      \* retries so far

coverageVars ==
    <<coverage, coverTasks, products, results, alarms, repairsDue, judgeDue, judged, retries>>

RunTasks == Producers \cup Evaluators
Tries == 1..(MaxRetries + 1)
Entries == [producers : SUBSET Producers, evaluators : SUBSET Evaluators]

(* What an evaluator says of a check: its verdict, or what is wrong with   *)
(* the evidence it cites.                                                  *)
ClaimKinds == {"passed", "failed", "invalid", "missing"}

Contracts == {ContractOf[c] : c \in Checks}

BlockingOf(r) == {c \in BlockingChecks : RequirementOf[c] = r}

RequirementChecks(r) == {c \in Checks : RequirementOf[c] = r}

(* What a frozen coverage is refused without                               *)
(* (requirement-evaluator-results.ts, composition-validator.ts): the       *)
(* contract of each check of a requirement with a blocking one is emitted  *)
(* by one of its producers, not all of them by the same; each blocking     *)
(* check has an evaluator. The callback of an evaluator with no check of a *)
(* requirement it evaluates throws: there is none.                         *)
ASSUME FrozenCoverage ==
    /\ RequirementOf \in [Checks -> RequirementIds]
    /\ ChecksOf \in [Evaluators -> SUBSET Checks]
    /\ Reports \subseteq [Checks -> ClaimKinds]
    /\ {FirstCoverage, RepairCoverage} \subseteq [RequirementIds -> Entries]
    /\ Emits \in [Producers -> SUBSET Contracts]
    /\ \A frozen \in {FirstCoverage, RepairCoverage}, r \in RequirementIds :
         /\ \A e \in frozen[r].evaluators : ChecksOf[e] \cap RequirementChecks(r) # {}
         /\ \A c \in BlockingOf(r) : \E e \in frozen[r].evaluators : c \in ChecksOf[e]
         /\ BlockingOf(r) # {} =>
              \A c \in RequirementChecks(r) : \E p \in frozen[r].producers : ContractOf[c] \in Emits[p]

TasksOf(entry) == entry.producers \cup entry.evaluators

CoverageTypeOK ==
    /\ coverage \in [RequirementIds -> Entries]
    /\ coverTasks \in [RunTasks ->
         [status : {"absent", "pending", "completed", "failed", "blocked"}, tries : {0} \cup Tries]]
    /\ products \subseteq Producers \X Tries
    /\ \A row \in results :
         /\ row.requirement \in RequirementIds /\ row.task \in Evaluators
         /\ row.attempt \in Tries /\ row.artifacts \subseteq products
         /\ row.on \in [Checks -> ClaimKinds] /\ row.ok \in BOOLEAN
    /\ alarms \subseteq RunTasks
    /\ repairsDue \subseteq Evaluators
    /\ judgeDue \in BOOLEAN
    /\ judged \in [status : {"running", "completed"},
                   outcome : {"none", "satisfied", "unsatisfied", "blocked"}]
    /\ retries \in 0..MaxRetries

CoverageInit ==
    /\ coverage = FirstCoverage
    /\ coverTasks = [t \in RunTasks |->
         [tries |-> 0,
          status |-> IF \E r \in RequirementIds : t \in TasksOf(FirstCoverage[r])
                     THEN "pending" ELSE "absent"]]
    /\ products = {}
    /\ results = {}
    /\ alarms = {}
    /\ repairsDue = {}
    /\ judgeDue = FALSE
    /\ judged = [status |-> "running", outcome |-> "none"]
    /\ retries = 0

-----------------------------------------------------------------------------
(* recordRequirementEvaluatorResultsPg *)

(* acceptedProducerArtifactRefsPg: ingestion asks for the contracts of the *)
(* checks of one evaluator, the gate for those of the requirement, and an  *)
(* artifact has to carry all that are asked for.                           *)
AcceptedRefs(r, checks) ==
    {a \in products : /\ a[1] \in coverage[r].producers
                      /\ \A c \in checks : ContractOf[c] \in Emits[a[1]]}

EntryChecks(row) == ChecksOf[row.task] \cap RequirementChecks(row.requirement)

(* Mutant: an evaluator need not have looked at an accepted artifact. *)
MissingEvidence(row) == \E c \in EntryChecks(row) : row.on[c] = "missing"

(* blockedFindings of evaluateEntry: what stands in the way of every check.*)
HostFindings(row) ==
    \/ row.artifacts = {}
    \/ \E c \in EntryChecks(row) : row.on[c] = "missing"

(* Mutant: what an evaluator claims counts though its callback failed. *)
VerdictOfClaim(row, c) ==
    CASE row.on[c] \in {"failed", "invalid"} -> "failed"
      [] row.on[c] = "passed" /\ ~HostFindings(row) -> "passed"
      [] OTHER -> "blocked"

(* evaluateCriterionResult *)
Verdict(row, c) ==
    CASE ~row.ok \/ row.on[c] \in {"failed", "invalid"} -> "failed"
      [] row.ok /\ row.on[c] = "passed" /\ ~HostFindings(row) -> "passed"
      [] OTHER -> "blocked"

(* persistEvidencePacket: every item present. *)
FullPacket(row) == \A c \in EntryChecks(row) : row.on[c] \in {"passed", "failed"}

RowPasses(row) == \A c \in EntryChecks(row) \cap BlockingChecks : Verdict(row, c) = "passed"

Evaluated(e) == {r \in RequirementIds : e \in coverage[r].evaluators}

RowFor(e, r, claim) ==
    [requirement |-> r, task |-> e, attempt |-> coverTasks[e].tries + 1, ok |-> claim.ok,
     on |-> claim.on,
     artifacts |-> claim.artifacts \cap AcceptedRefs(r, ChecksOf[e] \cap RequirementChecks(r))]

RowsFor(e, claim) == {RowFor(e, r, claim) : r \in Evaluated(e)}

(* What an evaluator says of its checks, and the artifacts it refers to.   *)
(* Bound: one that fails, or refers to the artifacts of one producer, or   *)
(* to none, says they passed.                                              *)
ReportsOf(e) == {[c \in Checks |-> IF c \in ChecksOf[e] THEN on[c] ELSE "passed"] : on \in Reports}

AllPassed == [c \in Checks |-> "passed"]

ClaimsOf(e) ==
    [ok : {TRUE}, artifacts : {products}, on : ReportsOf(e)]
    \cup [ok : {TRUE}, artifacts : {{}} \cup {{a \in products : a[1] = p} : p \in Producers},
          on : {AllPassed}]
    \cup [ok : {FALSE}, artifacts : {products}, on : {AllPassed}]

-----------------------------------------------------------------------------
(* Callbacks, from the claim of the task to the main transaction. *)

DependsOn(e) ==
    UNION {FirstCoverage[r].producers : r \in {q \in RequirementIds : e \in FirstCoverage[q].evaluators}}
    \cup
    UNION {RepairCoverage[r].producers : r \in {q \in RequirementIds : e \in RepairCoverage[q].evaluators}}

(* A task is given out when its dependencies have accepted artifacts. *)
CanRun(t) ==
    /\ judged.status = "running"
    /\ coverTasks[t].status = "pending"
    /\ t \in Evaluators => \A p \in DependsOn(t) : \E a \in products : a[1] = p

EndAttempt(t, status) ==
    coverTasks' = [coverTasks EXCEPT ![t] = [status |-> status, tries |-> @.tries + 1]]

(* The artifact of a producer is accepted or rejected; an accepted one may *)
(* not merge, which blocks the task.                                       *)
ProducerCallback(p, status) ==
    /\ CanRun(p)
    /\ status = "blocked" => Cardinality(alarms) < MaxAlarms
    /\ EndAttempt(p, status)
    /\ products' = IF status = "failed" THEN products
                   ELSE products \cup {<<p, coverTasks[p].tries + 1>>}
    /\ alarms' = IF status = "blocked" THEN alarms \cup {p} ELSE alarms
    /\ judgeDue' = TRUE
    /\ UNCHANGED <<coverage, results, repairsDue, judged, retries>>

(* The callback is accepted when every blocking check of every requirement *)
(* it evaluates has passed.                                                *)
EvaluatorCallback(e, claim) ==
    LET rows == RowsFor(e, claim)
        accepted == claim.ok /\ \A row \in rows : RowPasses(row)
    IN /\ CanRun(e)
       /\ EndAttempt(e, IF accepted THEN "completed" ELSE "failed")
       /\ results' = results \cup rows
       /\ repairsDue' = IF accepted THEN repairsDue ELSE repairsDue \cup {e}
       /\ judgeDue' = (judgeDue \/ accepted)
       /\ UNCHANGED <<coverage, products, alarms, judged, retries>>

(* failedBlockingRequirementIds *)
FailedRequirements(e) ==
    {row.requirement : row \in {q \in results : /\ q.task = e
                                                /\ q.attempt = coverTasks[e].tries
                                                /\ ~RowPasses(q)}}

(* maybeApplyDynamicRepairRevisionPg, as far as coverage is concerned: the *)
(* requirements that failed are covered by the tasks of the repair, which  *)
(* are new.                                                                *)
RepairFailed(e) ==
    LET failed == FailedRequirements(e)
    IN /\ e \in repairsDue
       /\ coverTasks[e].status = "failed"
       /\ judged.status = "running"
       /\ failed # {}
       /\ \A r \in failed, t \in RunTasks :
            t \in TasksOf(RepairCoverage[r]) => coverTasks[t].status = "absent"
       /\ coverage' = [r \in RequirementIds |->
                         IF r \in failed THEN RepairCoverage[r] ELSE coverage[r]]
       /\ coverTasks' = [t \in RunTasks |->
            IF \E r \in failed : t \in TasksOf(RepairCoverage[r])
            THEN [status |-> "pending", tries |-> 0] ELSE coverTasks[t]]
       /\ repairsDue' = repairsDue \ {e}
       /\ judgeDue' = TRUE
       /\ UNCHANGED <<products, results, alarms, judged, retries>>

(* No composer, no rounds left, or a composition that does not validate. *)
RepairNone(e) ==
    /\ e \in repairsDue
    /\ repairsDue' = repairsDue \ {e}
    /\ judgeDue' = TRUE
    /\ UNCHANGED <<coverage, coverTasks, products, results, alarms, judged, retries>>

(* A task without a workspace contract, or one whose recovery asks for an  *)
(* operator: blocked, with an exception that is not resolved.              *)
BlockTask(t) ==
    /\ CanRun(t)
    /\ Cardinality(alarms) < MaxAlarms
    /\ coverTasks' = [coverTasks EXCEPT ![t].status = "blocked"]
    /\ alarms' = alarms \cup {t}
    /\ UNCHANGED <<coverage, products, results, repairsDue, judgeDue, judged, retries>>

(* An operator retries a failed or blocked task; the decision resolves the *)
(* exception the command recorded, not an earlier one.                     *)
RetryTask(t) ==
    /\ coverTasks[t].status \in {"failed", "blocked"}
    /\ retries < MaxRetries
    /\ retries' = retries + 1
    /\ coverTasks' = [coverTasks EXCEPT ![t].status = "pending"]
    /\ judged' = [judged EXCEPT !.status = "running"]
    /\ UNCHANGED <<coverage, products, results, alarms, repairsDue, judgeDue>>

-----------------------------------------------------------------------------
(* evaluateRunCompletionGatePg *)

RefsOfGate(r) == AcceptedRefs(r, RequirementChecks(r))

(* A row shows that check c of its requirement has passed. *)
ShowsPassed(row, c) ==
    /\ row.task \in coverage[RequirementOf[c]].evaluators
    /\ c \in EntryChecks(row)
    /\ row.artifacts \cap RefsOfGate(row.requirement) # {}
    /\ FullPacket(row)
    /\ Verdict(row, c) = "passed"

(* evaluateCoveragePg *)
Covered(r) ==
    /\ RefsOfGate(r) # {}
    /\ \A c \in BlockingOf(r) : \E row \in results : ShowsPassed(row, c)

(* supersededDynamicRepairTaskIdsPg: the failure a repair was made for,    *)
(* once the verification of the repair is accepted.                        *)
SupersededTasks ==
    {e \in Evaluators : \E r \in RequirementIds :
       /\ coverage[r] # FirstCoverage[r]
       /\ e \in FirstCoverage[r].evaluators
       /\ \E f \in coverage[r].evaluators : coverTasks[f].status = "completed"}

Outcome ==
    IF alarms \ SupersededTasks # {} THEN "blocked"
    ELSE IF \A r \in RequirementIds : BlockingOf(r) # {} => Covered(r)
         THEN "satisfied" ELSE "unsatisfied"

EvaluateCompletion ==
    /\ judgeDue
    /\ judgeDue' = FALSE
    /\ judged' = IF \E t \in RunTasks : coverTasks[t].status = "pending" THEN judged
                 ELSE [status |-> "completed", outcome |-> Outcome]
    /\ UNCHANGED <<coverage, coverTasks, products, results, alarms, repairsDue, retries>>

CoverageNext ==
    \/ \E p \in Producers, status \in {"completed", "failed", "blocked"} : ProducerCallback(p, status)
    \/ \E e \in Evaluators :
         \/ \E claim \in ClaimsOf(e) : EvaluatorCallback(e, claim)
         \/ RepairFailed(e)
         \/ RepairNone(e)
    \/ \E t \in RunTasks : BlockTask(t) \/ RetryTask(t)
    \/ EvaluateCompletion

CoverageSpec == CoverageInit /\ [][CoverageNext]_coverageVars

-----------------------------------------------------------------------------

(* A goal is satisfied only if every blocking check passed in a callback   *)
(* that did not fail, by an evaluator the requirement is covered by now,   *)
(* which cited evidence for all it claimed, and looked at an accepted      *)
(* artifact of a task the requirement is covered by now.                   *)
SatisfiedIsVerified ==
    judged = [status |-> "completed", outcome |-> "satisfied"] =>
        \A c \in BlockingChecks : \E row \in results :
            /\ row.ok /\ row.on[c] = "passed"
            /\ row.requirement = RequirementOf[c]
            /\ row.task \in coverage[row.requirement].evaluators
            /\ \E a \in row.artifacts : a[1] \in coverage[row.requirement].producers
            /\ \A d \in EntryChecks(row) : row.on[d] \notin {"invalid", "missing"}

(* An optional check whose evidence is not valid fails its check only, and *)
(* the callback is accepted; but its packet is incomplete, and the gate    *)
(* counts no check of the requirement.                                     *)
FlawedOption(e) ==
    \E row \in results : /\ row.task = e /\ row.attempt = coverTasks[e].tries
                         /\ \E c \in EntryChecks(row) \ BlockingChecks : row.on[c] = "invalid"

(* An evaluator of some checks of a requirement may refer to artifacts     *)
(* with the contracts of those checks: ingestion accepts them, but none    *)
(* has the contracts of all checks of the requirement, as the gate asks.   *)
PartialView(e) ==
    \E row \in results :
        /\ row.task = e /\ row.attempt = coverTasks[e].tries
        /\ EntryChecks(row) # RequirementChecks(row.requirement)
        /\ row.artifacts # {}
        /\ \A a \in row.artifacts : \E c \in RequirementChecks(row.requirement) :
             ContractOf[c] \notin Emits[a[1]]

(* Ingestion and gate agree but for those two cases: a run that ends       *)
(* unsatisfied has a task whose last attempt was rejected, for somebody to *)
(* repair or retry; it is not left with accepted evaluations that do not   *)
(* count.                                                                  *)
AcceptedVerificationCounts ==
    judged = [status |-> "completed", outcome |-> "unsatisfied"] =>
        \E t \in RunTasks : \/ coverTasks[t].status \in {"failed", "blocked"}
                            \/ t \in Evaluators /\ (FlawedOption(t) \/ PartialView(t))

=============================================================================
