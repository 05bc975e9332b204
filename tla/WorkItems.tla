------------------------------- MODULE WorkItems -------------------------------
(***************************************************************************)
(* Work items and the runs made from them (src/v2/work-items).  An item is *)
(* known by the reference of its source; a run made from it is one more    *)
(* attempt at it.  A request reads the item before it writes, and a run is *)
(* named by its caller, so that requests for the same item, or for the     *)
(* same run, may overlap and be sent again.                                *)
(*                                                                         *)
(* Bound: every item has a source reference; without one each request      *)
(* makes an item of its own.  Callers that name the same run want the same *)
(* manifest.                                                               *)
(***************************************************************************)
EXTENDS Integers, FiniteSets

CONSTANTS
    Submissions,  \* callers that take items in, or make runs from them
    SourceRefs,   \* references of items at their source
    RunNames,     \* run ids the callers choose
    Labels        \* labels an intake may carry; a materialization has none

VARIABLES
    workItems,   \* committed rows by source reference
    itemRuns,    \* committed workflow_runs rows
    submissions, \* requests: what they ask, how far they are, what they read
    answers      \* ghost: answers of successful materializations

workItemVars == <<workItems, itemRuns, submissions, answers>>

NoItem == [exists |-> FALSE, labels |-> "none", refs |-> {}]
NoRun == [status |-> "none"]
NoRequest == [pc |-> "idle"]

WorkItemsInit ==
    /\ workItems = [r \in SourceRefs |-> NoItem]
    /\ itemRuns = [n \in RunNames |-> NoRun]
    /\ submissions = [s \in Submissions |-> NoRequest]
    /\ answers = {}

-----------------------------------------------------------------------------

Request(kind, ref, run, labels) ==
    [pc |-> "read", kind |-> kind, ref |-> ref, run |-> run, labels |-> labels,
     item |-> NoItem, found |-> NoRun]

(* A caller has one request on its way; the next may be the same again. *)
Submit(s, request) ==
    /\ submissions[s].pc = "idle"
    /\ submissions' = [submissions EXCEPT ![s] = request]
    /\ UNCHANGED <<workItems, itemRuns, answers>>

(* POST work-items/intake.  Bound: it carries labels. *)
SubmitIntake(s, ref) ==
    \E labels \in Labels : Submit(s, Request("intake", ref, "none", labels))

(* POST work-items/materialize-run *)
SubmitRun(s, ref) ==
    \E run \in RunNames : Submit(s, Request("materialize", ref, run, "none"))

(* intakeWorkItemPg looks for the item without a lock. *)
ReadItem(s) ==
    /\ submissions[s].pc = "read"
    /\ submissions' = [submissions EXCEPT ![s].pc = "upsert",
                                          ![s].item = workItems[submissions[s].ref]]
    /\ UNCHANGED <<workItems, itemRuns, answers>>

(* A row that is upserted is locked until its transaction ends. *)
ItemLocked(ref) ==
    \E s \in Submissions : submissions[s].pc \in {"locked", "checked"} /\ submissions[s].ref = ref

(* createWorkItemPg: the labels of a request that carries none are those   *)
(* it read; the refs of a row that exists are kept.                        *)
Upserted(s) ==
    [workItems[submissions[s].ref] EXCEPT
        !.exists = TRUE,
        !.labels = IF submissions[s].labels # "none" THEN submissions[s].labels
                   ELSE submissions[s].item.labels]

UpsertItem(s) ==
    LET ref == submissions[s].ref
    IN /\ submissions[s].pc = "upsert"
       /\ ~ItemLocked(ref)
       /\ \/ /\ submissions[s].kind = "intake"
             /\ workItems' = [workItems EXCEPT ![ref] = Upserted(s)]
             /\ submissions' = [submissions EXCEPT ![s] = NoRequest]
          \/ /\ submissions[s].kind = "materialize"
             /\ submissions' = [submissions EXCEPT ![s].pc = "locked"]
             /\ UNCHANGED workItems
       /\ UNCHANGED <<itemRuns, answers>>

(* materializeRunFromWorkItemPg looks for a run of the name. *)
ReadRun(s) ==
    /\ submissions[s].pc = "locked"
    /\ submissions' = [submissions EXCEPT ![s].pc = "checked",
                                          ![s].found = itemRuns[submissions[s].run]]
    /\ UNCHANGED <<workItems, itemRuns, answers>>

(* Mutant: the attempts are those the request read before its lock. *)
NextReadAttempt(s) == Cardinality(submissions[s].item.refs) + 1

(* nextRunAttempt, of the attempts under the lock *)
NextAttempt(s) ==
    LET attempts == {r.attempt : r \in workItems[submissions[s].ref].refs}
    IN IF attempts = {} THEN 1 ELSE 1 + CHOOSE a \in attempts : \A b \in attempts : a >= b

(* linkRunAttemptFromWorkItemPg, and commit.  A run inserted since ReadRun *)
(* makes the insert fail.                                                  *)
MakeRun(s) ==
    LET q == submissions[s]
        attempt == NextAttempt(s)
    IN /\ q.pc = "checked" /\ q.found = NoRun
       /\ itemRuns[q.run] = NoRun
       /\ itemRuns' = [itemRuns EXCEPT ![q.run] =
            [status |-> "created", ref |-> q.ref, attempt |-> attempt]]
       /\ workItems' = [workItems EXCEPT ![q.ref] =
            [Upserted(s) EXCEPT !.refs = @ \cup {[run |-> q.run, attempt |-> attempt]}]]
       /\ answers' = answers \cup {[ref |-> q.ref, run |-> q.run, attempt |-> attempt]}
       /\ submissions' = [submissions EXCEPT ![s] = NoRequest]

(* assertExistingRunMatchesInput, and the item's own ref to the run *)
IsReplay(s) ==
    LET q == submissions[s]
    IN /\ q.found.status = "created"
       /\ q.found.ref = q.ref
       /\ [run |-> q.run, attempt |-> q.found.attempt] \in workItems[q.ref].refs

ReplayRun(s) ==
    LET q == submissions[s]
    IN /\ q.pc = "checked" /\ q.found # NoRun
       /\ IsReplay(s)
       /\ workItems' = [workItems EXCEPT ![q.ref] = Upserted(s)]
       /\ answers' = answers \cup {[ref |-> q.ref, run |-> q.run, attempt |-> q.found.attempt]}
       /\ submissions' = [submissions EXCEPT ![s] = NoRequest]
       /\ UNCHANGED itemRuns

(* The transaction is rolled back, or its connection is lost. *)
FailMaterialization(s) ==
    /\ submissions[s].pc \in {"locked", "checked"}
    /\ submissions' = [submissions EXCEPT ![s] = NoRequest]
    /\ UNCHANGED <<workItems, itemRuns, answers>>

(* The scheduler takes the run over, unless ReadRun has locked its row. *)
RunStarts(n) ==
    /\ itemRuns[n].status = "created"
    /\ \A s \in Submissions :
         submissions[s].pc = "checked" /\ submissions[s].run = n => submissions[s].found = NoRun
    /\ itemRuns' = [itemRuns EXCEPT ![n].status = "running"]
    /\ UNCHANGED <<workItems, submissions, answers>>

WorkItemsNext ==
    \/ \E s \in Submissions :
         \/ \E ref \in SourceRefs : SubmitIntake(s, ref) \/ SubmitRun(s, ref)
         \/ ReadItem(s)
         \/ UpsertItem(s)
         \/ ReadRun(s)
         \/ MakeRun(s)
         \/ ReplayRun(s)
         \/ FailMaterialization(s)
    \/ \E n \in RunNames : RunStarts(n)

WorkItemsSpec == WorkItemsInit /\ [][WorkItemsNext]_workItemVars

-----------------------------------------------------------------------------

(* The runs of an item are its attempts 1, 2, ... in the order they were   *)
(* made, whichever requests overlapped, failed or were sent again; a run   *)
(* belongs to one item, and the run, the item and every answer a caller    *)
(* got name the same attempt.                                              *)
AttemptsAreConsecutive ==
    /\ \A ref \in SourceRefs :
         LET refs == workItems[ref].refs
         IN {r.attempt : r \in refs} = 1..Cardinality(refs)
    /\ \A n \in RunNames : itemRuns[n] # NoRun =>
         \A ref \in SourceRefs :
            {r \in workItems[ref].refs : r.run = n} =
              IF ref = itemRuns[n].ref THEN {[run |-> n, attempt |-> itemRuns[n].attempt]} ELSE {}
    /\ \A x \in answers :
         itemRuns[x.run] # NoRun /\ itemRuns[x.run].ref = x.ref
         /\ itemRuns[x.run].attempt = x.attempt

===============================================================================
