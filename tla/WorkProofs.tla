------------------------------ MODULE WorkProofs ------------------------------
(***************************************************************************)
(* What holds, for any number of callers, items and runs, of work items    *)
(* and the runs made from them (WorkItems); for any coverage of any        *)
(* requirements, of the judgement of a run on its goal (GoalCoverage); and *)
(* for any tasks, attempts, failures and rollbacks, of the repository the  *)
(* tasks of a run write to (TaskWorkspaces).                               *)
(***************************************************************************)
EXTENDS WorkItems, GoalCoverage, TaskWorkspaces, FiniteSetTheorems, TLAPS

-----------------------------------------------------------------------------
(* Work items. *)

ItemRefs == [run : RunNames, attempt : Nat]
Items == [exists : BOOLEAN, labels : Labels \cup {"none"}, refs : SUBSET ItemRefs]
Runs == {NoRun} \cup [status : {"created", "running"}, ref : SourceRefs, attempt : Nat]

(* Only a materialization locks the row of its item; it names its run.     *)
RequestTypeOK(q) ==
    q # NoRequest =>
        /\ q \in [pc : {"read", "upsert", "locked", "checked"},
                  kind : {"intake", "materialize"}, ref : SourceRefs,
                  run : RunNames \cup {"none"}, labels : Labels \cup {"none"},
                  item : Items, found : Runs]
        /\ q.kind = "materialize" => q.run \in RunNames
        /\ q.pc \in {"locked", "checked"} => q.kind = "materialize"

WorkItemsTypeOK ==
    /\ workItems \in [SourceRefs -> Items]
    /\ \A ref \in SourceRefs : IsFiniteSet(workItems[ref].refs)
    /\ itemRuns \in [RunNames -> Runs]
    /\ submissions = [s \in Submissions |-> submissions[s]]
    /\ \A s \in Submissions : RequestTypeOK(submissions[s])

(* The attempts of an item are numbered without gaps, and there are as     *)
(* many numbers as there are runs. *)
NumberedInTurn ==
    \A ref \in SourceRefs :
        {r.attempt : r \in workItems[ref].refs} = 1..Cardinality(workItems[ref].refs)

(* An item refers to the runs made from it, and to no other.               *)
RefsAndRunsAgree ==
    /\ \A ref \in SourceRefs : \A r \in workItems[ref].refs :
         /\ itemRuns[r.run] # NoRun
         /\ itemRuns[r.run].ref = ref
         /\ itemRuns[r.run].attempt = r.attempt
    /\ \A n \in RunNames : itemRuns[n] # NoRun =>
         [run |-> n, attempt |-> itemRuns[n].attempt] \in workItems[itemRuns[n].ref].refs

AnswersAreRuns ==
    \A x \in answers : /\ x.run \in RunNames
                       /\ itemRuns[x.run] # NoRun
                       /\ itemRuns[x.run].ref = x.ref
                       /\ itemRuns[x.run].attempt = x.attempt

WorkItemsInvariant ==
    WorkItemsTypeOK /\ NumberedInTurn /\ RefsAndRunsAgree /\ AnswersAreRuns

(* The number of the next attempt is one more than there are. *)
LEMMA NextAttemptCounts ==
  ASSUME WorkItemsInvariant, NEW s \in Submissions, submissions[s].ref \in SourceRefs
  PROVE  /\ NextAttempt(s) = Cardinality(workItems[submissions[s].ref].refs) + 1
         /\ Cardinality(workItems[submissions[s].ref].refs) \in Nat
  <1> DEFINE refs == workItems[submissions[s].ref].refs
             n == Cardinality(refs)
             attempts == {r.attempt : r \in refs}
  <1>1. n \in Nat
    BY FS_CardinalityType DEF WorkItemsInvariant, WorkItemsTypeOK
  <1>2. attempts = 1..n
    BY DEF WorkItemsInvariant, NumberedInTurn
  <1> HIDE DEF refs, n, attempts
  <1>3. CASE n = 0
    <2>1. attempts = {}
      BY <1>2, <1>3
    <2>2. QED
      BY <1>1, <1>3, <2>1 DEF NextAttempt, refs, n, attempts
  <1>4. CASE n # 0
    <2>1. attempts # {} /\ n \in attempts /\ \A b \in attempts : b \in Nat /\ n >= b
      BY <1>1, <1>2, <1>4
    <2>2. (CHOOSE a \in attempts : \A b \in attempts : a >= b) = n
      <3>1. \E a \in attempts : \A b \in attempts : a >= b
        BY <2>1
      <3>2. \A a \in attempts : (\A b \in attempts : a >= b) => a = n
        BY <1>1, <2>1
      <3>3. QED
        BY <3>1, <3>2
    <2>3. NextAttempt(s) = 1 + n
      BY <2>1, <2>2 DEF NextAttempt, refs, n, attempts
    <2>4. QED
      BY <1>1, <2>3 DEF refs, n
  <1>5. QED
    BY <1>3, <1>4

LEMMA WorkItemsFirst == WorkItemsInit => WorkItemsInvariant
  <1> SUFFICES ASSUME WorkItemsInit PROVE WorkItemsInvariant
    OBVIOUS
  <1>1. \A ref \in SourceRefs : workItems[ref] = NoItem /\ workItems[ref].refs = {}
    BY DEF WorkItemsInit, NoItem
  <1>2. WorkItemsTypeOK
    <2>1. NoItem \in Items
      BY DEF NoItem, Items
    <2>2. QED
      BY <1>1, <2>1, FS_EmptySet DEF WorkItemsInit, WorkItemsTypeOK, Runs, RequestTypeOK
  <1>3. NumberedInTurn
    BY <1>1, FS_EmptySet DEF NumberedInTurn
  <1>4. RefsAndRunsAgree /\ AnswersAreRuns
    BY <1>1 DEF RefsAndRunsAgree, AnswersAreRuns, WorkItemsInit
  <1>5. QED
    BY <1>2, <1>3, <1>4 DEF WorkItemsInvariant

(* A step of a request that writes nothing of the store. *)
LEMMA RequestsOnly ==
  ASSUME WorkItemsInvariant, UNCHANGED <<workItems, itemRuns, answers>>,
         NEW s \in Submissions, NEW q, RequestTypeOK(q),
         submissions' = [submissions EXCEPT ![s] = q]
  PROVE  WorkItemsInvariant'
  <1>1. WorkItemsTypeOK'
    BY DEF WorkItemsInvariant, WorkItemsTypeOK
  <1>2. QED
    BY <1>1 DEF WorkItemsInvariant, NumberedInTurn, RefsAndRunsAgree, AnswersAreRuns

LEMMA UpsertKeepsRefs ==
  ASSUME WorkItemsInvariant, NEW s \in Submissions, submissions[s] # NoRequest
  PROVE  /\ submissions[s].ref \in SourceRefs
         /\ Upserted(s) \in Items
         /\ Upserted(s).refs = workItems[submissions[s].ref].refs
  <1>1. RequestTypeOK(submissions[s])
    BY DEF WorkItemsInvariant, WorkItemsTypeOK
  <1>2. /\ submissions[s].ref \in SourceRefs
        /\ submissions[s].labels \in Labels \cup {"none"}
        /\ submissions[s].item \in Items
    BY <1>1 DEF RequestTypeOK
  <1>3. workItems[submissions[s].ref] \in Items
    BY <1>2 DEF WorkItemsInvariant, WorkItemsTypeOK
  <1>4. QED
    BY <1>2, <1>3 DEF Upserted, Items

(* A step that writes an item but not its refs. *)
LEMMA LabelsOnly ==
  ASSUME WorkItemsInvariant, NEW ref \in SourceRefs, NEW item \in Items,
         item.refs = workItems[ref].refs,
         workItems' = [workItems EXCEPT ![ref] = item],
         NEW s \in Submissions, submissions' = [submissions EXCEPT ![s] = NoRequest],
         UNCHANGED itemRuns
  PROVE  /\ WorkItemsTypeOK' /\ NumberedInTurn' /\ RefsAndRunsAgree'
         /\ answers' = answers => WorkItemsInvariant'
  <1>1. /\ workItems' \in [SourceRefs -> Items]
        /\ \A r \in SourceRefs : workItems'[r].refs = workItems[r].refs
    BY DEF WorkItemsInvariant, WorkItemsTypeOK
  <1>2. WorkItemsTypeOK'
    BY <1>1 DEF WorkItemsInvariant, WorkItemsTypeOK, RequestTypeOK
  <1>3. NumberedInTurn'
    BY <1>1 DEF WorkItemsInvariant, NumberedInTurn
  <1>4. RefsAndRunsAgree'
    <2>1. \A n \in RunNames : itemRuns[n] # NoRun => itemRuns[n].ref \in SourceRefs
      BY DEF WorkItemsInvariant, WorkItemsTypeOK, Runs
    <2>2. QED
      BY <1>1, <2>1 DEF WorkItemsInvariant, RefsAndRunsAgree
  <1>5. answers' = answers => AnswersAreRuns'
    BY DEF WorkItemsInvariant, AnswersAreRuns
  <1>6. QED
    BY <1>2, <1>3, <1>4, <1>5 DEF WorkItemsInvariant

LEMMA MakingARun ==
  ASSUME WorkItemsInvariant, NEW s \in Submissions, MakeRun(s)
  PROVE  WorkItemsInvariant'
  <1> DEFINE q == submissions[s]
             attempt == NextAttempt(s)
             refs == workItems[q.ref].refs
             mine == [run |-> q.run, attempt |-> attempt]
  <1>0. WorkItemsInvariant
    OBVIOUS
  <1>1. /\ q.pc = "checked"
        /\ itemRuns[q.run] = NoRun
        /\ itemRuns' = [itemRuns EXCEPT ![q.run] =
              [status |-> "created", ref |-> q.ref, attempt |-> attempt]]
        /\ workItems' = [workItems EXCEPT ![q.ref] =
              [Upserted(s) EXCEPT !.refs = @ \cup {mine}]]
        /\ answers' = answers \cup {[ref |-> q.ref, run |-> q.run, attempt |-> attempt]}
        /\ submissions' = [submissions EXCEPT ![s] = NoRequest]
    BY DEF MakeRun
  <1>2. q # NoRequest /\ RequestTypeOK(q)
    BY <1>1 DEF NoRequest, WorkItemsInvariant, WorkItemsTypeOK
  <1>3. q.run \in RunNames /\ q.ref \in SourceRefs
    BY <1>1, <1>2 DEF RequestTypeOK
  <1>4. attempt = Cardinality(refs) + 1 /\ Cardinality(refs) \in Nat
    BY <1>3, NextAttemptCounts
  <1>5. Upserted(s) \in Items /\ Upserted(s).refs = refs
    BY <1>2, UpsertKeepsRefs
  <1>6. mine \in ItemRefs /\ mine.run = q.run /\ mine.attempt = attempt
    BY <1>3, <1>4 DEF ItemRefs
  <1> HIDE DEF q, attempt, refs, mine
  <1>7. [Upserted(s) EXCEPT !.refs = @ \cup {mine}] \in Items
        /\ [Upserted(s) EXCEPT !.refs = @ \cup {mine}].refs = refs \cup {mine}
    BY <1>5, <1>6 DEF Items
  <1>8. /\ workItems' \in [SourceRefs -> Items]
        /\ workItems'[q.ref].refs = refs \cup {mine}
        /\ \A r \in SourceRefs \ {q.ref} : workItems'[r] = workItems[r]
    BY <1>1, <1>3, <1>7 DEF WorkItemsInvariant, WorkItemsTypeOK
  <1>9. refs = workItems[q.ref].refs /\ refs \in SUBSET ItemRefs /\ IsFiniteSet(refs)
    BY <1>3 DEF refs, WorkItemsInvariant, WorkItemsTypeOK, Items
  <1>10. \A r \in SourceRefs : \A x \in workItems[r].refs : x.run \in RunNames /\ x.run # q.run
    <2>1. \A r \in SourceRefs : \A x \in workItems[r].refs : x.run \in RunNames
      BY DEF WorkItemsInvariant, WorkItemsTypeOK, Items, ItemRefs
    <2>2. \A r \in SourceRefs : \A x \in workItems[r].refs : itemRuns[x.run] # NoRun
      BY DEF WorkItemsInvariant, RefsAndRunsAgree
    <2>3. QED
      BY <1>1, <2>1, <2>2
  <1>11. mine \notin refs
    BY <1>3, <1>6, <1>9, <1>10
  <1>12. IsFiniteSet(refs \cup {mine}) /\ Cardinality(refs \cup {mine}) = attempt
    BY <1>4, <1>9, <1>11, FS_AddElement
  <1>13. /\ itemRuns' \in [RunNames -> Runs]
         /\ itemRuns'[q.run] # NoRun
         /\ itemRuns'[q.run].ref = q.ref
         /\ itemRuns'[q.run].attempt = attempt
         /\ \A n \in RunNames \ {q.run} : itemRuns'[n] = itemRuns[n]
    <2>1. [status |-> "created", ref |-> q.ref, attempt |-> attempt] \in Runs
      BY <1>3, <1>4 DEF Runs
    <2>2. [status |-> "created", ref |-> q.ref, attempt |-> attempt] # NoRun
      BY DEF NoRun
    <2>3. QED
      BY <1>1, <1>3, <2>1, <2>2 DEF WorkItemsInvariant, WorkItemsTypeOK
  <1>14. WorkItemsTypeOK'
    <2>1. \A r \in SourceRefs : IsFiniteSet(workItems'[r].refs)
      BY <1>8, <1>12 DEF WorkItemsInvariant, WorkItemsTypeOK
    <2>2. /\ submissions' = [x \in Submissions |-> submissions'[x]]
          /\ \A x \in Submissions : RequestTypeOK(submissions'[x])
      BY <1>1 DEF WorkItemsInvariant, WorkItemsTypeOK, RequestTypeOK
    <2>3. QED
      BY <1>8, <1>13, <2>1, <2>2 DEF WorkItemsTypeOK, RequestTypeOK
  <1>15. NumberedInTurn'
    <2>1. {r.attempt : r \in refs \cup {mine}} = 1..attempt
      <3>1. {r.attempt : r \in refs} = 1..Cardinality(refs)
        BY <1>3, <1>9 DEF WorkItemsInvariant, NumberedInTurn
      <3>2. {r.attempt : r \in refs \cup {mine}} = {r.attempt : r \in refs} \cup {attempt}
        BY <1>6
      <3>3. 1..Cardinality(refs) \cup {attempt} = 1..attempt
        BY <1>4
      <3>4. QED
        BY <3>1, <3>2, <3>3
    <2>2. QED
      BY <1>8, <1>12, <2>1 DEF WorkItemsInvariant, NumberedInTurn
  <1>16. RefsAndRunsAgree'
    <2>1. ASSUME NEW ref \in SourceRefs, NEW r \in workItems'[ref].refs
          PROVE  /\ itemRuns'[r.run] # NoRun
                 /\ itemRuns'[r.run].ref = ref
                 /\ itemRuns'[r.run].attempt = r.attempt
      <3>1. CASE r \in workItems[ref].refs
        BY <1>10, <1>13, <3>1 DEF WorkItemsInvariant, RefsAndRunsAgree
      <3>2. CASE r \notin workItems[ref].refs
        BY <1>6, <1>8, <1>9, <1>13, <2>1, <3>2
      <3>3. QED
        BY <3>1, <3>2
    <2>2. ASSUME NEW n \in RunNames, itemRuns'[n] # NoRun
          PROVE  [run |-> n, attempt |-> itemRuns'[n].attempt]
                    \in workItems'[itemRuns'[n].ref].refs
      <3>1. CASE n = q.run
        BY <1>8, <1>13, <3>1 DEF mine
      <3>2. CASE n # q.run
        <4>1. itemRuns'[n] = itemRuns[n] /\ itemRuns[n].ref \in SourceRefs
          BY <1>13, <2>2, <3>2 DEF WorkItemsInvariant, WorkItemsTypeOK, Runs
        <4>2. [run |-> n, attempt |-> itemRuns[n].attempt] \in workItems[itemRuns[n].ref].refs
          BY <2>2, <4>1 DEF WorkItemsInvariant, RefsAndRunsAgree
        <4>3. QED
          BY <1>8, <1>9, <4>1, <4>2
      <3>3. QED
        BY <3>1, <3>2
    <2>3. QED
      BY <2>1, <2>2 DEF RefsAndRunsAgree, NoRun
  <1>17. AnswersAreRuns'
    <2>1. ASSUME NEW x \in answers'
          PROVE  /\ x.run \in RunNames
                 /\ itemRuns'[x.run] # NoRun
                 /\ itemRuns'[x.run].ref = x.ref
                 /\ itemRuns'[x.run].attempt = x.attempt
      <3>1. CASE x \in answers
        BY <1>1, <1>13, <3>1 DEF WorkItemsInvariant, AnswersAreRuns
      <3>2. CASE x = [ref |-> q.ref, run |-> q.run, attempt |-> attempt]
        BY <1>3, <1>13, <3>2
      <3>3. QED
        BY <1>1, <3>1, <3>2
    <2>2. QED
      BY <2>1 DEF AnswersAreRuns, NoRun
  <1>18. QED
    BY <1>14, <1>15, <1>16, <1>17 DEF WorkItemsInvariant

LEMMA WorkItemsStep ==
  ASSUME WorkItemsInvariant, [WorkItemsNext]_workItemVars
  PROVE  WorkItemsInvariant'
  <1>0. \A x \in Submissions : RequestTypeOK(submissions[x])
    BY DEF WorkItemsInvariant, WorkItemsTypeOK
  <1>1. ASSUME NEW s \in Submissions, NEW ref \in SourceRefs,
               SubmitIntake(s, ref) \/ SubmitRun(s, ref)
        PROVE  WorkItemsInvariant'
    <2>1. NoItem \in Items /\ NoRun \in Runs
      BY DEF NoItem, Items, Runs
    <2>2. CASE SubmitIntake(s, ref)
      <3>1. PICK labels \in Labels : Submit(s, Request("intake", ref, "none", labels))
        BY <2>2 DEF SubmitIntake
      <3>2. RequestTypeOK(Request("intake", ref, "none", labels))
        BY <2>1 DEF RequestTypeOK, Request
      <3>3. QED
        BY <3>1, <3>2, RequestsOnly DEF Submit
    <2>3. CASE SubmitRun(s, ref)
      <3>1. PICK run \in RunNames : Submit(s, Request("materialize", ref, run, "none"))
        BY <2>3 DEF SubmitRun
      <3>2. RequestTypeOK(Request("materialize", ref, run, "none"))
        BY <2>1 DEF RequestTypeOK, Request
      <3>3. QED
        BY <3>1, <3>2, RequestsOnly DEF Submit
    <2>4. QED
      BY <1>1, <2>2, <2>3
  <1>2. ASSUME NEW s \in Submissions, ReadItem(s)
        PROVE  WorkItemsInvariant'
    <2> DEFINE q == [submissions[s] EXCEPT !.pc = "upsert", !.item = workItems[submissions[s].ref]]
    <2>1. submissions' = [submissions EXCEPT ![s] = q]
      BY <1>2 DEF ReadItem
    <2>2. submissions[s] # NoRequest
      BY <1>2 DEF ReadItem, NoRequest
    <2>3. workItems[submissions[s].ref] \in Items
      BY <1>0, <2>2 DEF RequestTypeOK, WorkItemsInvariant, WorkItemsTypeOK
    <2>4. RequestTypeOK(q)
      BY <1>0, <2>2, <2>3 DEF RequestTypeOK
    <2>5. QED
      BY <1>2, <2>1, <2>4, RequestsOnly DEF ReadItem
  <1>3. ASSUME NEW s \in Submissions, UpsertItem(s)
        PROVE  WorkItemsInvariant'
    <2>1. submissions[s] # NoRequest
      BY <1>3 DEF UpsertItem, NoRequest
    <2>2. CASE submissions[s].kind = "intake"
      <3>1. /\ workItems' = [workItems EXCEPT ![submissions[s].ref] = Upserted(s)]
            /\ submissions' = [submissions EXCEPT ![s] = NoRequest]
            /\ UNCHANGED <<itemRuns, answers>>
        BY <1>3, <2>2 DEF UpsertItem
      <3>2. QED
        BY <2>1, <3>1, UpsertKeepsRefs, LabelsOnly
    <2>3. CASE submissions[s].kind # "intake"
      <3>1. /\ submissions[s].kind = "materialize"
            /\ submissions' = [submissions EXCEPT ![s] = [submissions[s] EXCEPT !.pc = "locked"]]
            /\ UNCHANGED <<workItems, itemRuns, answers>>
        BY <1>3, <2>3 DEF UpsertItem
      <3>2. RequestTypeOK([submissions[s] EXCEPT !.pc = "locked"])
        BY <1>0, <2>1, <3>1 DEF RequestTypeOK
      <3>3. QED
        BY <3>1, <3>2, RequestsOnly
    <2>4. QED
      BY <2>2, <2>3
  <1>4. ASSUME NEW s \in Submissions, ReadRun(s)
        PROVE  WorkItemsInvariant'
    <2> DEFINE q == [submissions[s] EXCEPT !.pc = "checked", !.found = itemRuns[submissions[s].run]]
    <2>1. submissions' = [submissions EXCEPT ![s] = q]
      BY <1>4 DEF ReadRun
    <2>2. submissions[s] # NoRequest
      BY <1>4 DEF ReadRun, NoRequest
    <2>3. itemRuns[submissions[s].run] \in Runs
      BY <1>0, <1>4, <2>2 DEF RequestTypeOK, WorkItemsInvariant, WorkItemsTypeOK, ReadRun
    <2>4. RequestTypeOK(q)
      BY <1>0, <1>4, <2>2, <2>3 DEF RequestTypeOK, ReadRun
    <2>5. QED
      BY <1>4, <2>1, <2>4, RequestsOnly DEF ReadRun
  <1>5. ASSUME NEW s \in Submissions, MakeRun(s)
        PROVE  WorkItemsInvariant'
    BY <1>5, MakingARun
  <1>6. ASSUME NEW s \in Submissions, ReplayRun(s)
        PROVE  WorkItemsInvariant'
    <2> DEFINE q == submissions[s]
               mine == [run |-> q.run, attempt |-> q.found.attempt]
    <2>1. /\ mine \in workItems[q.ref].refs
          /\ workItems' = [workItems EXCEPT ![q.ref] = Upserted(s)]
          /\ answers' = answers \cup {[ref |-> q.ref, run |-> q.run, attempt |-> q.found.attempt]}
          /\ submissions' = [submissions EXCEPT ![s] = NoRequest]
          /\ UNCHANGED itemRuns
      BY <1>6 DEF ReplayRun, IsReplay
    <2>2. q # NoRequest
      BY <1>6 DEF ReplayRun, NoRequest
    <2>3. /\ q.ref \in SourceRefs
          /\ Upserted(s) \in Items
          /\ Upserted(s).refs = workItems[q.ref].refs
      BY <2>2, UpsertKeepsRefs
    <2>4. mine.run \in RunNames
      BY <2>1, <2>3 DEF WorkItemsInvariant, WorkItemsTypeOK, Items, ItemRefs
    <2>5. /\ itemRuns[mine.run] # NoRun
          /\ itemRuns[mine.run].ref = q.ref
          /\ itemRuns[mine.run].attempt = mine.attempt
      BY <2>1, <2>3 DEF WorkItemsInvariant, RefsAndRunsAgree
    <2>6. AnswersAreRuns'
      <3>1. ASSUME NEW x \in answers'
            PROVE  /\ x.run \in RunNames
                   /\ itemRuns[x.run] # NoRun
                   /\ itemRuns[x.run].ref = x.ref
                   /\ itemRuns[x.run].attempt = x.attempt
        <4>1. CASE x \in answers
          BY <4>1 DEF WorkItemsInvariant, AnswersAreRuns
        <4>2. CASE x = [ref |-> q.ref, run |-> q.run, attempt |-> q.found.attempt]
          BY <2>4, <2>5, <4>2
        <4>3. QED
          BY <2>1, <4>1, <4>2
      <3>2. QED
        BY <2>1, <3>1 DEF AnswersAreRuns, NoRun
    <2>7. WorkItemsTypeOK' /\ NumberedInTurn' /\ RefsAndRunsAgree'
      BY <2>1, <2>3, LabelsOnly
    <2>8. QED
      BY <2>6, <2>7 DEF WorkItemsInvariant
  <1>7. ASSUME NEW s \in Submissions, FailMaterialization(s)
        PROVE  WorkItemsInvariant'
    <2>1. RequestTypeOK(NoRequest)
      BY DEF RequestTypeOK
    <2>2. QED
      BY <1>7, <2>1, RequestsOnly DEF FailMaterialization
  <1>8. ASSUME NEW n \in RunNames, RunStarts(n)
        PROVE  WorkItemsInvariant'
    <2>1. /\ itemRuns[n].status = "created"
          /\ itemRuns' = [itemRuns EXCEPT ![n] = [itemRuns[n] EXCEPT !.status = "running"]]
          /\ UNCHANGED <<workItems, submissions, answers>>
      BY <1>8 DEF RunStarts
    <2>2. itemRuns[n] # NoRun /\ itemRuns[n] \in Runs
      BY <2>1 DEF NoRun, WorkItemsInvariant, WorkItemsTypeOK
    <2>3. itemRuns[n] \in [status : {"created", "running"}, ref : SourceRefs, attempt : Nat]
      BY <2>2 DEF Runs
    <2>4. /\ itemRuns' \in [RunNames -> Runs]
          /\ \A m \in RunNames : /\ itemRuns[m] = NoRun <=> itemRuns'[m] = NoRun
                                 /\ itemRuns[m] # NoRun =>
                                      /\ itemRuns'[m].ref = itemRuns[m].ref
                                      /\ itemRuns'[m].attempt = itemRuns[m].attempt
      BY <2>1, <2>3 DEF WorkItemsInvariant, WorkItemsTypeOK, Runs, NoRun
    <2>5. \A ref \in SourceRefs : \A r \in workItems[ref].refs : r.run \in RunNames
      BY DEF WorkItemsInvariant, WorkItemsTypeOK, Items, ItemRefs
    <2>6. WorkItemsTypeOK' /\ NumberedInTurn'
      BY <2>1, <2>4 DEF WorkItemsInvariant, WorkItemsTypeOK, NumberedInTurn
    <2>7. RefsAndRunsAgree' /\ AnswersAreRuns'
      BY <2>1, <2>4, <2>5 DEF WorkItemsInvariant, RefsAndRunsAgree, AnswersAreRuns, NoRun
    <2>8. QED
      BY <2>6, <2>7 DEF WorkItemsInvariant
  <1>9. CASE UNCHANGED workItemVars
    BY <1>9 DEF workItemVars, WorkItemsInvariant, WorkItemsTypeOK, RequestTypeOK,
       NumberedInTurn, RefsAndRunsAgree, AnswersAreRuns
  <1>10. QED
    BY <1>1, <1>2, <1>3, <1>4, <1>5, <1>6, <1>7, <1>8, <1>9 DEF WorkItemsNext

(* The attempts at an item are numbered in turn and belong to one item,    *)
(* and what callers were answered stays true, for any number of callers    *)
(* whose requests overlap, fail, or are sent again                         *)
(* (materializeRunFromWorkItemPg).                                         *)
THEOREM AttemptsOfItems == WorkItemsSpec => []AttemptsAreConsecutive
  <1>1. WorkItemsInvariant => AttemptsAreConsecutive
    <2> SUFFICES ASSUME WorkItemsInvariant PROVE AttemptsAreConsecutive
      OBVIOUS
    <2>1. ASSUME NEW n \in RunNames, itemRuns[n] # NoRun, NEW ref \in SourceRefs
          PROVE  {r \in workItems[ref].refs : r.run = n} =
                   IF ref = itemRuns[n].ref
                   THEN {[run |-> n, attempt |-> itemRuns[n].attempt]} ELSE {}
      <3>1. \A r \in workItems[ref].refs : r = [run |-> r.run, attempt |-> r.attempt]
        BY DEF WorkItemsInvariant, WorkItemsTypeOK, Items, ItemRefs
      <3>2. QED
        BY <2>1, <3>1 DEF WorkItemsInvariant, RefsAndRunsAgree
    <2>2. QED
      BY <2>1 DEF AttemptsAreConsecutive, WorkItemsInvariant, NumberedInTurn, AnswersAreRuns
  <1>2. QED
    BY <1>1, WorkItemsFirst, WorkItemsStep, PTL DEF WorkItemsSpec

-----------------------------------------------------------------------------
(* The judgement of a run on its goal. *)

(* A goal that is judged satisfied has been verified, whatever repairs,    *)
(* retries and rejected callbacks there were: evaluateRunCompletionGatePg  *)
(* judges all results again, and nothing is revised while the run is       *)
(* completed.                                                              *)
THEOREM SatisfactionIsVerified == CoverageSpec => []SatisfiedIsVerified
  <1>1. CoverageInit => SatisfiedIsVerified
    BY DEF CoverageInit, SatisfiedIsVerified
  <1>2. ASSUME SatisfiedIsVerified, [CoverageNext]_coverageVars
        PROVE  SatisfiedIsVerified'
    <2>1. CASE UNCHANGED <<judged, coverage, results>>
      BY <1>2, <2>1 DEF SatisfiedIsVerified, EntryChecks
    <2>2. CASE judged'.status = "running"
      BY <2>2 DEF SatisfiedIsVerified
    <2>3. CASE EvaluateCompletion
      <3> SUFFICES ASSUME judged' # judged,
                          judged' = [status |-> "completed", outcome |-> "satisfied"],
                          NEW c \in BlockingChecks
                   PROVE  \E row \in results :
                            /\ row.ok /\ row.on[c] = "passed"
                            /\ row.requirement = RequirementOf[c]
                            /\ row.task \in coverage[row.requirement].evaluators
                            /\ \E a \in row.artifacts :
                                 a[1] \in coverage[row.requirement].producers
                            /\ \A d \in EntryChecks(row) : row.on[d] \notin {"invalid", "missing"}
        <4>1. UNCHANGED <<coverage, results>>
          BY <2>3 DEF EvaluateCompletion
        <4>2. QED
          BY <2>1, <4>1 DEF SatisfiedIsVerified, EntryChecks
      <3>1. Outcome = "satisfied"
        BY <2>3 DEF EvaluateCompletion
      <3>2. RequirementOf[c] \in RequirementIds /\ c \in BlockingOf(RequirementOf[c])
        BY FrozenCoverage, CoverageBounds DEF BlockingOf
      <3>3. PICK row \in results : ShowsPassed(row, c)
        BY <3>1, <3>2 DEF Outcome, Covered
      <3>4. row.requirement = RequirementOf[c] /\ c \in EntryChecks(row)
        BY <3>3 DEF ShowsPassed, EntryChecks, RequirementChecks
      <3>5. row.ok /\ row.on[c] = "passed"
        BY <3>3 DEF ShowsPassed, Verdict
      <3>6. \E a \in row.artifacts : a[1] \in coverage[row.requirement].producers
        BY <3>3 DEF ShowsPassed, RefsOfGate, AcceptedRefs
      <3>7. \A d \in EntryChecks(row) : row.on[d] \notin {"invalid", "missing"}
        BY <3>3 DEF ShowsPassed, FullPacket
      <3>8. QED
        BY <3>3, <3>4, <3>5, <3>6, <3>7 DEF ShowsPassed
    <2>4. CASE UNCHANGED coverageVars
      BY <2>1, <2>4 DEF coverageVars
    <2>5. ASSUME NEW p \in Producers, NEW status \in {"completed", "failed", "blocked"},
                 ProducerCallback(p, status)
          PROVE  SatisfiedIsVerified'
      BY <2>2, <2>5 DEF ProducerCallback, CanRun
    <2>6. ASSUME NEW e \in Evaluators, NEW claim, EvaluatorCallback(e, claim)
          PROVE  SatisfiedIsVerified'
      BY <2>2, <2>6 DEF EvaluatorCallback, CanRun
    <2>7. ASSUME NEW e \in Evaluators, RepairFailed(e) \/ RepairNone(e)
          PROVE  SatisfiedIsVerified'
      BY <2>1, <2>2, <2>7 DEF RepairFailed, RepairNone
    <2>8. ASSUME NEW t \in RunTasks, BlockTask(t)
          PROVE  SatisfiedIsVerified'
      BY <2>1, <2>8 DEF BlockTask
    <2>9. ASSUME NEW t \in RunTasks, RetryTask(t)
          PROVE  SatisfiedIsVerified'
      <3>1. judged' = [judged EXCEPT !.status = "running"]
        BY <2>9 DEF RetryTask
      <3>2. judged' # [status |-> "completed", outcome |-> "satisfied"]
        BY <3>1
      <3>3. QED
        BY <3>2 DEF SatisfiedIsVerified
    <2>10. QED
      BY <1>2, <2>3, <2>4, <2>5, <2>6, <2>7, <2>8, <2>9 DEF CoverageNext
  <1>3. QED
    BY <1>1, <1>2, PTL DEF CoverageSpec

CoverageTypes ==
    /\ coverage \in [RequirementIds -> Entries]
    /\ coverTasks \in [RunTasks ->
         [status : {"absent", "pending", "completed", "failed", "blocked"}, tries : Nat]]
    /\ \A row \in results : row.on \in [Checks -> ClaimKinds] /\ row.task \in Evaluators

(* A requirement is covered by the tasks of the first coverage or of its   *)
(* repair, and those are part of the run.                                  *)
CoverageIsFrozen ==
    /\ \A r \in RequirementIds : coverage[r] \in {FirstCoverage[r], RepairCoverage[r]}
    /\ \A r \in RequirementIds : \A t \in TasksOf(coverage[r]) : coverTasks[t].status # "absent"

(* What an accepted attempt leaves behind: the artifact of a producer, the *)
(* results of an evaluator, one for each requirement it covers now.        *)
AcceptedAttemptsCount ==
    /\ \A p \in Producers : coverTasks[p].status = "completed" => \E a \in products : a[1] = p
    /\ \A e \in Evaluators, r \in RequirementIds :
         coverTasks[e].status = "completed" /\ e \in coverage[r].evaluators =>
           \E row \in results : /\ row.task = e /\ row.attempt = coverTasks[e].tries
                                /\ row.requirement = r
                                /\ row.ok /\ RowPasses(row)
                                /\ row.artifacts \subseteq AcceptedRefs(r, EntryChecks(row))

CoverageInvariant ==
    CoverageTypes /\ CoverageIsFrozen /\ AcceptedAttemptsCount /\ AcceptedVerificationCounts

LEMMA CoverageFirst == CoverageInit => CoverageInvariant
  <1> SUFFICES ASSUME CoverageInit PROVE CoverageInvariant
    OBVIOUS
  <1> USE DEF CoverageInit
  <1>0. FirstCoverage \in [RequirementIds -> Entries]
    BY FrozenCoverage
  <1>1. CoverageTypes
    BY <1>0 DEF CoverageTypes
  <1>2. CoverageIsFrozen
    <2>1. ASSUME NEW r \in RequirementIds, NEW t \in TasksOf(FirstCoverage[r])
          PROVE  coverTasks[t].status = "pending"
      <3>1. t \in RunTasks
        BY <1>0 DEF TasksOf, Entries, RunTasks
      <3>2. QED
        BY <3>1
    <2>2. QED
      BY <2>1 DEF CoverageIsFrozen
  <1>3. AcceptedAttemptsCount
    <2>1. \A t \in RunTasks : coverTasks[t].status # "completed"
      OBVIOUS
    <2>2. QED
      BY <2>1 DEF AcceptedAttemptsCount, RunTasks
  <1>4. AcceptedVerificationCounts
    BY DEF AcceptedVerificationCounts
  <1>5. QED
    BY <1>1, <1>2, <1>3, <1>4 DEF CoverageInvariant

(* The gate finds the results that ingestion accepted. *)
LEMMA AcceptedIsCovered ==
  ASSUME CoverageTypes, CoverageIsFrozen, AcceptedAttemptsCount,
         NEW r \in RequirementIds, BlockingOf(r) # {},
         \A t \in RunTasks :
           /\ coverTasks[t].status \in {"absent", "completed"}
           /\ t \in Evaluators => ~FlawedOption(t) /\ ~PartialView(t)
  PROVE  Covered(r)
  <1>1. coverage[r] \in Entries
    BY DEF CoverageTypes
  <1>2. \A t \in TasksOf(coverage[r]) : t \in RunTasks /\ coverTasks[t].status = "completed"
    BY <1>1 DEF CoverageIsFrozen, TasksOf, Entries, RunTasks
  <1>3. ASSUME NEW c \in BlockingOf(r)
        PROVE  \E row \in results : ShowsPassed(row, c)
    <2>1. c \in BlockingChecks /\ RequirementOf[c] = r
      BY DEF BlockingOf
    <2>2. PICK e \in coverage[r].evaluators : c \in ChecksOf[e]
      BY FrozenCoverage DEF CoverageIsFrozen
    <2>3. e \in Evaluators /\ e \in RunTasks /\ coverTasks[e].status = "completed"
      BY <1>1, <1>2 DEF TasksOf, Entries, RunTasks
    <2>4. PICK row \in results : /\ row.task = e /\ row.attempt = coverTasks[e].tries
                                 /\ row.requirement = r
                                 /\ row.ok /\ RowPasses(row)
                                 /\ row.artifacts \subseteq AcceptedRefs(r, EntryChecks(row))
      BY <2>3 DEF AcceptedAttemptsCount
    <2>5. c \in EntryChecks(row)
      BY <2>1, <2>2, <2>4, CoverageBounds DEF EntryChecks, RequirementChecks
    <2>6. Verdict(row, c) = "passed"
      BY <2>1, <2>4, <2>5 DEF RowPasses
    <2>7. ~HostFindings(row)
      BY <2>6 DEF Verdict
    <2>8. row.artifacts \cap RefsOfGate(row.requirement) # {}
      <3>1. row.artifacts # {} /\ ~PartialView(e)
        BY <2>3, <2>7 DEF HostFindings
      <3>2. CASE EntryChecks(row) = RequirementChecks(r)
        BY <2>4, <3>1, <3>2 DEF RefsOfGate
      <3>3. CASE EntryChecks(row) # RequirementChecks(r)
        <4>1. PICK a \in row.artifacts : \A d \in RequirementChecks(r) :
                ContractOf[d] \in Emits[a[1]]
          BY <2>4, <3>1, <3>3 DEF PartialView
        <4>2. a \in products /\ a[1] \in coverage[r].producers
          BY <2>4 DEF AcceptedRefs
        <4>3. QED
          BY <2>4, <4>1, <4>2 DEF RefsOfGate, AcceptedRefs
      <3>4. QED
        BY <3>2, <3>3
    <2>9. FullPacket(row)
      <3>1. SUFFICES ASSUME NEW d \in EntryChecks(row) PROVE row.on[d] \in {"passed", "failed"}
        BY DEF FullPacket
      <3>2. row.on[d] \in {"passed", "failed", "invalid", "missing"}
        <4>1. d \in Checks
          BY DEF EntryChecks, RequirementChecks
        <4>2. QED
          BY <4>1 DEF CoverageTypes, ClaimKinds
      <3>3. row.on[d] # "missing"
        BY <2>7 DEF HostFindings
      <3>4. row.on[d] # "invalid"
        <4>1. CASE d \in BlockingChecks
          <5>1. Verdict(row, d) = "passed"
            BY <2>4, <4>1 DEF RowPasses
          <5>2. QED
            BY <5>1 DEF Verdict
        <4>2. CASE d \notin BlockingChecks
          BY <2>3, <2>4, <4>2 DEF FlawedOption
        <4>3. QED
          BY <4>1, <4>2
      <3>5. QED
        BY <3>2, <3>3, <3>4
    <2>10. QED
      BY <2>1, <2>2, <2>4, <2>5, <2>6, <2>8, <2>9 DEF ShowsPassed
  <1>4. RefsOfGate(r) # {}
    <2>1. PICK c \in BlockingOf(r) : TRUE
      OBVIOUS
    <2>2. PICK row \in results : ShowsPassed(row, c)
      BY <1>3
    <2>3. row.requirement = r
      BY <2>2 DEF ShowsPassed, EntryChecks, RequirementChecks, BlockingOf
    <2>4. QED
      BY <2>2, <2>3 DEF ShowsPassed
  <1>5. QED
    BY <1>3, <1>4 DEF Covered

(* While a run is judged completed only the judgement itself is repeated.  *)
LEMMA JudgementCounts ==
  ASSUME CoverageInvariant, [CoverageNext]_coverageVars
  PROVE  AcceptedVerificationCounts'
  <1>1. CASE UNCHANGED <<judged, coverTasks, results>>
    BY <1>1 DEF CoverageInvariant, AcceptedVerificationCounts, FlawedOption, PartialView,
       EntryChecks
  <1>2. CASE judged'.status = "running"
    BY <1>2 DEF AcceptedVerificationCounts
  <1>3. CASE EvaluateCompletion
    <2>1. UNCHANGED <<coverage, coverTasks, products, results, alarms>>
      BY <1>3 DEF EvaluateCompletion
    <2>2. CASE judged' = judged
      BY <1>1, <2>1, <2>2
    <2>3. CASE judged' # judged
      <3>1. /\ \A t \in RunTasks : coverTasks[t].status # "pending"
            /\ judged' = [status |-> "completed", outcome |-> Outcome]
        BY <1>3, <2>3 DEF EvaluateCompletion
      <3>2. SUFFICES ASSUME Outcome = "unsatisfied"
                     PROVE  \E t \in RunTasks : \/ coverTasks[t].status \in {"failed", "blocked"}
                                                \/ /\ t \in Evaluators
                                                   /\ FlawedOption(t) \/ PartialView(t)
        BY <2>1, <3>1 DEF AcceptedVerificationCounts, FlawedOption, PartialView,
       EntryChecks
      <3>3. PICK r \in RequirementIds : BlockingOf(r) # {} /\ ~Covered(r)
        BY <3>2 DEF Outcome
      <3>4. \A t \in RunTasks : coverTasks[t].status \in
               {"absent", "completed", "failed", "blocked"}
        BY <3>1 DEF CoverageInvariant, CoverageTypes
      <3>5. QED
        BY <3>3, <3>4, AcceptedIsCovered DEF CoverageInvariant
    <2>4. QED
      BY <2>2, <2>3
  <1>4. CASE UNCHANGED coverageVars
    BY <1>1, <1>4 DEF coverageVars
  <1>5. ASSUME NEW p \in Producers, NEW status \in {"completed", "failed", "blocked"},
               ProducerCallback(p, status)
        PROVE  AcceptedVerificationCounts'
    BY <1>2, <1>5 DEF ProducerCallback, CanRun
  <1>6. ASSUME NEW e \in Evaluators, NEW claim, EvaluatorCallback(e, claim)
        PROVE  AcceptedVerificationCounts'
    BY <1>2, <1>6 DEF EvaluatorCallback, CanRun
  <1>7. ASSUME NEW e \in Evaluators, RepairFailed(e) \/ RepairNone(e)
        PROVE  AcceptedVerificationCounts'
    BY <1>1, <1>2, <1>7 DEF RepairFailed, RepairNone
  <1>8. ASSUME NEW t \in RunTasks, BlockTask(t)
        PROVE  AcceptedVerificationCounts'
    BY <1>2, <1>8 DEF BlockTask, CanRun
  <1>9. ASSUME NEW t \in RunTasks, RetryTask(t)
        PROVE  AcceptedVerificationCounts'
    <2>1. judged' = [judged EXCEPT !.status = "running"]
      BY <1>9 DEF RetryTask
    <2>2. judged' # [status |-> "completed", outcome |-> "unsatisfied"]
      BY <2>1
    <2>3. QED
      BY <2>2 DEF AcceptedVerificationCounts
  <1>10. QED
    BY <1>3, <1>4, <1>5, <1>6, <1>7, <1>8, <1>9 DEF CoverageNext

(* A step that ends no attempt of a task as completed, and adds results    *)
(* and products only.                                                      *)
LEMMA AttemptsStillCount ==
  ASSUME CoverageInvariant, UNCHANGED coverage,
         products \subseteq products', results \subseteq results',
         NEW T \in SUBSET RunTasks,
         \A t \in RunTasks \ T : coverTasks'[t] = coverTasks[t],
         \A t \in T : coverTasks'[t].status \notin {"absent", "completed"}
  PROVE  CoverageIsFrozen' /\ AcceptedAttemptsCount'
  <1>1. \A r \in RequirementIds : TasksOf(coverage[r]) \subseteq RunTasks
    BY DEF CoverageInvariant, CoverageTypes, TasksOf, Entries, RunTasks
  <1>2. CoverageIsFrozen'
    BY <1>1 DEF CoverageInvariant, CoverageIsFrozen, TasksOf
  <1>3. ASSUME NEW p \in Producers, coverTasks'[p].status = "completed"
        PROVE  \E a \in products' : a[1] = p
    <2>1. p \in RunTasks \ T
      BY <1>3 DEF RunTasks
    <2>2. QED
      BY <1>3, <2>1 DEF CoverageInvariant, AcceptedAttemptsCount
  <1>4. ASSUME NEW e \in Evaluators, NEW r \in RequirementIds,
               coverTasks'[e].status = "completed", e \in coverage[r].evaluators
        PROVE  \E row \in results' : /\ row.task = e /\ row.attempt = coverTasks'[e].tries
                                     /\ row.requirement = r
                                     /\ row.ok /\ RowPasses(row)
                                     /\ row.artifacts \subseteq AcceptedRefs(r, EntryChecks(row))'
    <2>1. e \in RunTasks \ T
      BY <1>4 DEF RunTasks
    <2>2. \A checks : AcceptedRefs(r, checks) \subseteq AcceptedRefs(r, checks)'
      BY DEF AcceptedRefs
    <2>3. QED
      BY <1>4, <2>1, <2>2 DEF CoverageInvariant, AcceptedAttemptsCount
  <1>5. AcceptedAttemptsCount'
    BY <1>3, <1>4 DEF AcceptedAttemptsCount, RowPasses, EntryChecks, RequirementChecks,
       Verdict, HostFindings
  <1>6. QED
    BY <1>2, <1>5

LEMMA ProducerIsCounted ==
  ASSUME CoverageInvariant, NEW p \in Producers,
         NEW status \in {"completed", "failed", "blocked"}, ProducerCallback(p, status)
  PROVE  CoverageTypes' /\ CoverageIsFrozen' /\ AcceptedAttemptsCount'
  <1>1. /\ coverTasks' = [coverTasks EXCEPT ![p] =
             [status |-> status, tries |-> coverTasks[p].tries + 1]]
        /\ UNCHANGED <<coverage, results>>
        /\ products \subseteq products'
        /\ status # "failed" => <<p, coverTasks[p].tries + 1>> \in products'
    BY DEF ProducerCallback, EndAttempt
  <1>2. p \in RunTasks /\ p \notin Evaluators
    BY CoverageBounds DEF RunTasks
  <1>3. CoverageTypes'
    BY <1>1, <1>2 DEF CoverageInvariant, CoverageTypes
  <1>4. /\ \A t \in RunTasks \ {p} : coverTasks'[t] = coverTasks[t]
        /\ coverTasks'[p].status = status
    BY <1>1, <1>2 DEF CoverageInvariant, CoverageTypes
  <1>5. CoverageIsFrozen'
    BY <1>1, <1>2, <1>4 DEF CoverageInvariant, CoverageIsFrozen, CoverageTypes, TasksOf,
       Entries, RunTasks
  <1>6. ASSUME NEW q \in Producers, coverTasks'[q].status = "completed"
        PROVE  \E a \in products' : a[1] = q
    <2>1. CASE q = p
      <3>1. <<p, coverTasks[p].tries + 1>> \in products'
        BY <1>1, <1>4, <1>6, <2>1
      <3>2. QED
        BY <2>1, <3>1
    <2>2. CASE q # p
      <3>1. q \in RunTasks \ {p}
        BY <2>2 DEF RunTasks
      <3>2. QED
        BY <1>1, <1>4, <1>6, <3>1 DEF CoverageInvariant, AcceptedAttemptsCount
    <2>3. QED
      BY <2>1, <2>2
  <1>7. ASSUME NEW e \in Evaluators, NEW r \in RequirementIds,
               coverTasks'[e].status = "completed", e \in coverage[r].evaluators
        PROVE  \E row \in results : /\ row.task = e /\ row.attempt = coverTasks'[e].tries
                                    /\ row.requirement = r
                                    /\ row.ok /\ RowPasses(row)
                                    /\ row.artifacts \subseteq AcceptedRefs(r, EntryChecks(row))'
    <2>1. e \in RunTasks \ {p}
      BY <1>2 DEF RunTasks
    <2>2. \A checks : AcceptedRefs(r, checks) \subseteq AcceptedRefs(r, checks)'
      BY <1>1 DEF AcceptedRefs
    <2>3. QED
      BY <1>4, <1>7, <2>1, <2>2 DEF CoverageInvariant, AcceptedAttemptsCount
  <1>8. AcceptedAttemptsCount'
    BY <1>1, <1>6, <1>7 DEF AcceptedAttemptsCount, RowPasses, EntryChecks, RequirementChecks,
       Verdict, HostFindings
  <1>9. QED
    BY <1>3, <1>5, <1>8

LEMMA EvaluatorIsCounted ==
  ASSUME CoverageInvariant, NEW e \in Evaluators, NEW claim \in ClaimsOf(e),
         EvaluatorCallback(e, claim)
  PROVE  CoverageTypes' /\ CoverageIsFrozen' /\ AcceptedAttemptsCount'
  <1> DEFINE rows == RowsFor(e, claim)
             accepted == claim.ok /\ \A row \in rows : RowPasses(row)
             status == IF accepted THEN "completed" ELSE "failed"
  <1>1. /\ coverTasks' = [coverTasks EXCEPT ![e] =
             [status |-> status, tries |-> coverTasks[e].tries + 1]]
        /\ UNCHANGED <<coverage, products>>
        /\ results' = results \cup rows
    BY DEF EvaluatorCallback, EndAttempt
  <1>2. e \in RunTasks /\ e \notin Producers /\ status \in {"completed", "failed"}
    BY CoverageBounds DEF RunTasks
  <1>3. /\ \A t \in RunTasks \ {e} : coverTasks'[t] = coverTasks[t]
        /\ coverTasks'[e].status = status
        /\ coverTasks'[e].tries = coverTasks[e].tries + 1
    BY <1>1, <1>2 DEF CoverageInvariant, CoverageTypes
  <1>4. CoverageTypes'
    <2>1. claim.on \in [Checks -> ClaimKinds]
      <3>1. ReportsOf(e) \subseteq [Checks -> ClaimKinds]
        <4>1. SUFFICES ASSUME NEW on \in Reports
                       PROVE  [c \in Checks |-> IF c \in ChecksOf[e] THEN on[c] ELSE "passed"]
                                \in [Checks -> ClaimKinds]
          BY DEF ReportsOf
        <4>2. on \in [Checks -> ClaimKinds]
          BY FrozenCoverage
        <4>3. QED
          BY <4>2 DEF ClaimKinds
      <3>2. AllPassed \in [Checks -> ClaimKinds]
        BY DEF AllPassed, ClaimKinds
      <3>3. claim.on \in ReportsOf(e) \/ claim.on = AllPassed
        BY DEF ClaimsOf
      <3>4. QED
        BY <3>1, <3>2, <3>3
    <2>2. \A row \in rows : row.on = claim.on /\ row.task = e
      <3>1. \A r : RowFor(e, r, claim).on = claim.on /\ RowFor(e, r, claim).task = e
        BY DEF RowFor
      <3>2. QED
        BY <3>1 DEF RowsFor
    <2>3. coverTasks' \in [RunTasks ->
            [status : {"absent", "pending", "completed", "failed", "blocked"}, tries : Nat]]
      <3>1. coverTasks[e].tries \in Nat
        BY <1>2 DEF CoverageInvariant, CoverageTypes
      <3>2. coverTasks[e].tries + 1 \in Nat
        BY <3>1
      <3>3. status \in {"absent", "pending", "completed", "failed", "blocked"}
        BY <1>2
      <3> HIDE DEF status
      <3>4. QED
        BY <1>1, <3>2, <3>3 DEF CoverageInvariant, CoverageTypes
    <2> HIDE DEF rows
    <2>4. QED
      BY <1>1, <2>1, <2>2, <2>3 DEF CoverageInvariant, CoverageTypes
  <1>5. CoverageIsFrozen'
    BY <1>1, <1>2, <1>3 DEF CoverageInvariant, CoverageIsFrozen, CoverageTypes, TasksOf,
       Entries, RunTasks
  <1>6. ASSUME NEW p \in Producers, coverTasks'[p].status = "completed"
        PROVE  \E a \in products : a[1] = p
    <2>1. p \in RunTasks \ {e}
      BY <1>2 DEF RunTasks
    <2>2. QED
      BY <1>3, <1>6, <2>1 DEF CoverageInvariant, AcceptedAttemptsCount
  <1>7. ASSUME NEW f \in Evaluators, NEW r \in RequirementIds,
               coverTasks'[f].status = "completed", f \in coverage[r].evaluators
        PROVE  \E row \in results' : /\ row.task = f /\ row.attempt = coverTasks'[f].tries
                                     /\ row.requirement = r
                                     /\ row.ok /\ RowPasses(row)
                                     /\ row.artifacts \subseteq AcceptedRefs(r, EntryChecks(row))
    <2>1. CASE f = e
      <3>1. RowFor(e, r, claim) \in rows
        BY <1>7, <2>1 DEF RowsFor, Evaluated
      <3>2. accepted
        BY <1>3, <1>7, <2>1
      <3>3. RowPasses(RowFor(e, r, claim))
        BY <3>1, <3>2
      <3>4. /\ RowFor(e, r, claim).task = e
            /\ RowFor(e, r, claim).attempt = coverTasks[e].tries + 1
            /\ RowFor(e, r, claim).requirement = r
            /\ RowFor(e, r, claim).artifacts \subseteq
                 AcceptedRefs(r, EntryChecks(RowFor(e, r, claim)))
        BY DEF RowFor, EntryChecks
      <3>5. RowFor(e, r, claim).ok
        BY <3>2 DEF RowFor
      <3>6. RowFor(e, r, claim) \in results'
        BY <1>1, <3>1
      <3>7. QED
        BY <1>3, <2>1, <3>3, <3>4, <3>5, <3>6
    <2>2. CASE f # e
      <3>1. f \in RunTasks \ {e}
        BY <2>2 DEF RunTasks
      <3>2. QED
        BY <1>1, <1>3, <1>7, <3>1 DEF CoverageInvariant, AcceptedAttemptsCount
    <2>3. QED
      BY <2>1, <2>2
  <1>8. AcceptedAttemptsCount'
    BY <1>1, <1>6, <1>7 DEF AcceptedAttemptsCount, AcceptedRefs, RowPasses, EntryChecks,
       RequirementChecks,
       Verdict, HostFindings
  <1>9. QED
    BY <1>4, <1>5, <1>8

LEMMA RepairIsCounted ==
  ASSUME CoverageInvariant, NEW e \in Evaluators, RepairFailed(e)
  PROVE  CoverageTypes' /\ CoverageIsFrozen' /\ AcceptedAttemptsCount'
  <1> DEFINE failed == FailedRequirements(e)
             fresh == {t \in RunTasks : \E r \in failed : t \in TasksOf(RepairCoverage[r])}
  <1>1. /\ coverage' = [r \in RequirementIds |->
                          IF r \in failed THEN RepairCoverage[r] ELSE coverage[r]]
        /\ coverTasks' = [t \in RunTasks |->
             IF \E r \in failed : t \in TasksOf(RepairCoverage[r])
             THEN [status |-> "pending", tries |-> 0] ELSE coverTasks[t]]
        /\ UNCHANGED <<products, results>>
    BY DEF RepairFailed
  <1> HIDE DEF failed
  <1>2. /\ \A t \in fresh : coverTasks'[t].status = "pending"
        /\ \A t \in RunTasks \ fresh : coverTasks'[t] = coverTasks[t]
    BY <1>1
  <1>3. RepairCoverage \in [RequirementIds -> Entries]
    BY FrozenCoverage
  <1>4. /\ coverage' \in [RequirementIds -> Entries]
        /\ \A r \in RequirementIds : coverage'[r] \in {FirstCoverage[r], RepairCoverage[r]}
    BY <1>1, <1>3 DEF CoverageInvariant, CoverageTypes, CoverageIsFrozen
  <1>5. CoverageTypes'
    <2>1. coverTasks' \in [RunTasks ->
            [status : {"absent", "pending", "completed", "failed", "blocked"}, tries : Nat]]
      BY <1>1 DEF CoverageInvariant, CoverageTypes
    <2>2. QED
      BY <1>1, <1>4, <2>1 DEF CoverageInvariant, CoverageTypes
  <1>6. ASSUME NEW r \in RequirementIds, NEW t \in TasksOf(coverage'[r])
        PROVE  /\ t \in RunTasks
               /\ t \in fresh \/ (t \in TasksOf(coverage[r]) /\ coverage'[r] = coverage[r])
    <2>1. t \in RunTasks
      BY <1>4 DEF TasksOf, Entries, RunTasks
    <2>2. QED
      BY <1>1, <2>1
  <1>7. CoverageIsFrozen'
    <2>1. ASSUME NEW r \in RequirementIds, NEW t \in TasksOf(coverage'[r])
          PROVE  coverTasks'[t].status # "absent"
      BY <1>2, <1>6 DEF CoverageInvariant, CoverageIsFrozen
    <2>2. QED
      BY <1>4, <2>1 DEF CoverageIsFrozen, TasksOf
  <1>8. ASSUME NEW p \in Producers, coverTasks'[p].status = "completed"
        PROVE  \E a \in products : a[1] = p
    <2>1. p \in RunTasks \ fresh
      BY <1>2, <1>8 DEF RunTasks
    <2>2. QED
      BY <1>2, <1>8, <2>1 DEF CoverageInvariant, AcceptedAttemptsCount
  <1>9. ASSUME NEW f \in Evaluators, NEW r \in RequirementIds,
               coverTasks'[f].status = "completed", f \in coverage'[r].evaluators
        PROVE  \E row \in results : /\ row.task = f /\ row.attempt = coverTasks'[f].tries
                                    /\ row.requirement = r
                                    /\ row.ok /\ RowPasses(row)
                                    /\ row.artifacts \subseteq AcceptedRefs(r, EntryChecks(row))'
    <2>1. f \notin fresh
      BY <1>2, <1>9
    <2>2. coverage'[r] = coverage[r] /\ f \in RunTasks
      BY <1>6, <1>9, <2>1 DEF TasksOf
    <2>3. coverTasks'[f] = coverTasks[f]
      BY <1>2, <2>1, <2>2
    <2>4. \A checks : AcceptedRefs(r, checks)' = AcceptedRefs(r, checks)
      BY <1>1, <2>2 DEF AcceptedRefs
    <2>5. QED
      BY <1>9, <2>2, <2>3, <2>4 DEF CoverageInvariant, AcceptedAttemptsCount
  <1>10. AcceptedAttemptsCount'
    <2>1. \A row : RowPasses(row) <=> RowPasses(row)'
      BY DEF RowPasses, EntryChecks, RequirementChecks, Verdict, HostFindings
    <2> HIDE DEF fresh
    <2>2. QED
      BY <1>1, <1>8, <1>9, <2>1 DEF AcceptedAttemptsCount, EntryChecks, RequirementChecks
  <1>11. QED
    BY <1>5, <1>7, <1>10

LEMMA CoverageStep ==
  ASSUME CoverageInvariant, [CoverageNext]_coverageVars
  PROVE  CoverageInvariant'
  <1>1. SUFFICES CoverageTypes' /\ CoverageIsFrozen' /\ AcceptedAttemptsCount'
    BY JudgementCounts DEF CoverageInvariant
  <1>2. CASE UNCHANGED <<coverage, coverTasks, products, results>>
    BY <1>2 DEF CoverageInvariant, CoverageTypes, CoverageIsFrozen, AcceptedAttemptsCount,
       TasksOf, AcceptedRefs, RowPasses, EntryChecks, RequirementChecks, Verdict, HostFindings
  <1>3. ASSUME NEW t \in RunTasks, BlockTask(t) \/ RetryTask(t)
        PROVE  CoverageTypes' /\ CoverageIsFrozen' /\ AcceptedAttemptsCount'
    <2>1. PICK status \in {"blocked", "pending"} :
            coverTasks' = [coverTasks EXCEPT ![t].status = status]
      BY <1>3 DEF BlockTask, RetryTask
    <2>2. UNCHANGED <<coverage, products, results>>
      BY <1>3 DEF BlockTask, RetryTask
    <2>3. /\ \A s \in RunTasks \ {t} : coverTasks'[s] = coverTasks[s]
          /\ coverTasks'[t].status = status
      BY <2>1 DEF CoverageInvariant, CoverageTypes
    <2>4. CoverageTypes'
      BY <2>1, <2>2 DEF CoverageInvariant, CoverageTypes
    <2>5. /\ {t} \in SUBSET RunTasks
          /\ products \subseteq products' /\ results \subseteq results'
          /\ \A s \in {t} : coverTasks'[s].status \notin {"absent", "completed"}
      BY <2>2, <2>3
    <2>6. CoverageIsFrozen' /\ AcceptedAttemptsCount'
      BY <2>2, <2>3, <2>5, AttemptsStillCount
    <2>7. QED
      BY <2>4, <2>6
  <1>4. QED
    BY <1>2, <1>3, ProducerIsCounted, EvaluatorIsCounted, RepairIsCounted
       DEF CoverageNext, coverageVars, EvaluateCompletion, RepairNone

(* Ingestion and gate agree: for any requirements and any frozen coverage  *)
(* of them, a run that ends unsatisfied has a task whose last attempt was  *)
(* not accepted, or an accepted evaluation with a flawed optional check or *)
(* of artifacts with a part of the requirement's contracts only            *)
(* (recordRequirementEvaluatorResultsPg, evaluateCoveragePg).              *)
THEOREM AcceptedVerificationIsCounted == CoverageSpec => []AcceptedVerificationCounts
  <1>1. CoverageInvariant => AcceptedVerificationCounts
    BY DEF CoverageInvariant
  <1>2. QED
    BY <1>1, CoverageFirst, CoverageStep, PTL DEF CoverageSpec

-----------------------------------------------------------------------------
(* The workspace of a run. *)

(* What a pass prepares is the next attempt of its task, and a worktree is *)
(* allocated before the tool policy is asked or a job submitted.           *)
DispatchInTurn ==
    dispatching.pc # "idle" =>
        /\ NextWork(dispatching.task) \in Works
        /\ dispatching.pc = "prepare" /\ dispatching.task \in Isolated =>
             allocations[NextWork(dispatching.task)] # "none"

(* Containers and the work in worktrees belong to attempts that have a     *)
(* row; an allocation to one of those or to the next, and each isolated    *)
(* attempt that has a row has an allocation.                               *)
AllocationsInTurn ==
    \A w \in Works :
        LET rows == writers[w[1]].rows
        IN /\ containers[w] # "none" => w[2] <= rows
           /\ worktrees[w] = "worked" => containers[w] # "none"
           /\ allocations[w] # "none" => w[1] \in Isolated /\ w[2] <= rows + 1
           /\ w[1] \in Isolated /\ w[2] <= rows => allocations[w] # "none"

(* An allocation that is settled has no worktree, and no result waits for  *)
(* it; a result whose worktree holds no work has lost it to a rollback.    *)
SettledIsGone ==
    \A w \in Works :
        /\ allocations[w] \in {"merged", "discarded", "abandoned"} =>
             worktrees[w] = "absent" /\ containers[w] # "ok"
        /\ w[1] \in Isolated /\ containers[w] = "ok" /\ worktrees[w] = "clean" =>
             w \in restored.lost

(* A rollback may bring back any commit a snapshot was taken of.           *)
Commits == {head} \cup {snapshots[w].commit : w \in Works}

MergedIsFinished ==
    \A c \in Commits : \A w \in c : w[1] \in Isolated => w \in finished \cup torn

WorkspaceTurns == WorkspaceTypeOK /\ DispatchInTurn /\ AllocationsInTurn

WorkspaceInvariant ==
    WorkspaceTurns /\ SettledIsGone /\ MergedIsFinished /\ FinishedWorkIsMerged

(* A piece of work is a task and a number. *)
LEMMA WorkParts ==
    ASSUME NEW w \in Works
    PROVE  /\ w = <<w[1], w[2]>>
           /\ w[1] \in WorkTasks
           /\ w[2] \in 1..MaxWorkTries[w[1]]
           /\ w[2] \in Nat /\ w[2] >= 1
BY SMT DEF Works

LEMMA WorkIsInWorks ==
    ASSUME NEW t \in WorkTasks, NEW n \in 1..MaxWorkTries[t]
    PROVE  <<t, n>> \in Works
BY SMT DEF Works

(* The allocation a callback settles is of its own attempt, or of the one  *)
(* being prepared, and then the callback came late.                        *)
LEMMA LatestOf ==
    ASSUME WorkspaceTurns, NEW w \in Works, Current(w), AllocationsOf(w[1]) # {}
    PROVE  LET latest == LatestAllocation(w[1])
           IN /\ w[1] \in Isolated
              /\ latest \in AllocationsOf(w[1])
              /\ latest \in Works /\ latest[1] = w[1] /\ allocations[latest] # "none"
              /\ AllocationStatus(w[1]) = allocations[latest]
              /\ \/ latest = w
                 \/ /\ latest[2] = w[2] + 1
                    /\ \E v \in AllocationsOf(w[1]) : v[2] > w[2]
PROOF
  <1> DEFINE of == AllocationsOf(w[1])
             next == <<w[1], w[2] + 1>>
  <1>1. w = <<w[1], w[2]>> /\ w[1] \in WorkTasks /\ w[2] \in Nat
    BY WorkParts
  <1>2. \A v \in of : /\ v \in Works /\ v[1] = w[1] /\ allocations[v] # "none"
                      /\ v = <<w[1], v[2]>> /\ v[2] \in Nat
    BY WorkParts DEF AllocationsOf
  <1>3. w[2] = writers[w[1]].rows
    BY DEF Current
  <1>4. w[1] \in Isolated /\ \A v \in of : v[2] <= w[2] + 1
    <2>1. PICK v \in of : TRUE
      OBVIOUS
    <2>2. \A u \in of : w[1] \in Isolated /\ u[2] <= w[2] + 1
      BY <1>2, <1>3 DEF WorkspaceTurns, AllocationsInTurn
    <2> QED BY <2>1, <2>2
  <1>5. w \in of
    BY <1>1, <1>3, <1>4 DEF WorkspaceTurns, AllocationsInTurn, AllocationsOf
  <1>6. \E v \in of : \A u \in of : v[2] >= u[2]
    <2>1. CASE next \in of
      <3>1. next[2] = w[2] + 1
        OBVIOUS
      <3> QED BY <2>1, <3>1, <1>1, <1>2, <1>4
    <2>2. CASE next \notin of
      <3>1. ASSUME NEW u \in of
            PROVE  w[2] >= u[2]
        <4>1. u[2] # w[2] + 1
          BY <2>2, <1>2
        <4> QED BY <4>1, <1>1, <1>2, <1>4
      <3> QED BY <3>1, <1>5
    <2> QED BY <2>1, <2>2
  <1>7. /\ LatestAllocation(w[1]) \in of
        /\ \A u \in of : LatestAllocation(w[1])[2] >= u[2]
    BY <1>6 DEF LatestAllocation
  <1> DEFINE latest == LatestAllocation(w[1])
  <1>8. latest = w \/ latest[2] = w[2] + 1
    <2>1. latest[2] >= w[2] /\ latest[2] <= w[2] + 1 /\ latest[2] \in Nat
      BY <1>7, <1>5, <1>4, <1>2
    <2>2. latest[2] = w[2] \/ latest[2] = w[2] + 1
      BY <2>1, <1>1
    <2> QED BY <2>2, <1>7, <1>2, <1>1
  <1>9. latest[2] = w[2] + 1 => latest[2] > w[2]
    BY <1>1
  <1> QED BY <1>2, <1>4, <1>7, <1>8, <1>9 DEF AllocationStatus

LEMMA WorkspaceInvariantInit ==
    WorkspaceInit => WorkspaceInvariant
PROOF
  <1> SUFFICES ASSUME WorkspaceInit
               PROVE  WorkspaceInvariant
    OBVIOUS
  <1>1. WorkspaceTypeOK
    BY WorkspaceBounds DEF WorkspaceInit, WorkspaceTypeOK, NoDispatch
  <1>2. DispatchInTurn
    BY DEF WorkspaceInit, DispatchInTurn, NoDispatch
  <1>3. AllocationsInTurn /\ SettledIsGone
    BY WorkParts DEF WorkspaceInit, AllocationsInTurn, SettledIsGone
  <1>4. MergedIsFinished /\ FinishedWorkIsMerged
    BY DEF WorkspaceInit, MergedIsFinished, FinishedWorkIsMerged, Commits
  <1> QED BY <1>1, <1>2, <1>3, <1>4 DEF WorkspaceInvariant, WorkspaceTurns

(* Only a submission writes a row, and it ends the pass at the task. *)
LEMMA WorkspaceTypeStep ==
    ASSUME WorkspaceTurns, [WorkspaceNext]_workspaceVars
    PROVE  WorkspaceTypeOK'
PROOF
  <1> USE DEF WorkspaceTypeOK, NoDispatch
  <1>0. WorkspaceTypeOK
    BY DEF WorkspaceTurns
  <1>a. \A t \in WorkTasks, n \in {"pending", "claimed", "queued", "completed", "failed", "blocked"} :
          [writers EXCEPT ![t].status = n] \in
            [WorkTasks -> [status : {"pending", "claimed", "queued", "completed", "failed", "blocked"},
                           rows : Nat]]
    BY <1>0
  <1>b. ASSUME NEW t \in WorkTasks, NEW s \in {"pending", "blocked"}, MoveClaimed(t, s)
        PROVE  writers' \in [WorkTasks ->
            [status : {"pending", "claimed", "queued", "completed", "failed", "blocked"},
             rows : Nat]]
    <2>1. writers' = writers \/ writers' = [writers EXCEPT ![t].status = s]
      BY <1>b DEF MoveClaimed
    <2>2. [writers EXCEPT ![t].status = s] \in [WorkTasks ->
            [status : {"pending", "claimed", "queued", "completed", "failed", "blocked"},
             rows : Nat]]
      BY <1>a
    <2>3. writers \in [WorkTasks ->
            [status : {"pending", "claimed", "queued", "completed", "failed", "blocked"},
             rows : Nat]]
      BY <1>0
    <2> HIDE DEF WorkspaceTypeOK
    <2> QED BY <2>1, <2>2, <2>3
  <1>c. \A w \in Works : MergedWork(w) \subseteq Works
    BY DEF MergedWork
  <1>d. dispatching.pc # "idle" => dispatching.task \in WorkTasks /\ NextWork(dispatching.task) \in Works
    BY <1>0 DEF WorkspaceTurns, DispatchInTurn
  <1>e. \A w \in Works : w[1] \in WorkTasks
    BY WorkParts
  <1>f. \A w \in Works : Current(w) /\ AllocationStatus(w[1]) # "none" => LatestAllocation(w[1]) \in Works
    BY LatestOf DEF AllocationStatus
  <1>1. CASE UNCHANGED workspaceVars
    BY <1>0, <1>1 DEF workspaceVars
  <1>2. ASSUME NEW t \in WorkTasks, ClaimWriter(t) PROVE WorkspaceTypeOK'
    BY <1>0, <1>2, <1>a DEF ClaimWriter, Repository, Ghosts
  <1>3. CASE AllocateWorktree
    BY <1>0, <1>3, <1>d DEF AllocateWorktree, Repository, Ghosts
  <1>4. CASE SnapshotRepository
    <2>1. snapshots' \in [Works -> [taken : BOOLEAN, commit : SUBSET Works]]
      <3>1. [taken |-> dirty = {}, commit |-> head] \in [taken : BOOLEAN, commit : SUBSET Works]
        <4>1. (dirty = {}) \in BOOLEAN
          OBVIOUS
        <4> QED BY <4>1, <1>0
      <3>2. snapshots' = [snapshots EXCEPT ![NextWork(dispatching.task)] =
                            [taken |-> dirty = {}, commit |-> head]]
        BY <1>4 DEF SnapshotRepository
      <3> QED BY <3>1, <3>2, <1>0
    <2>2. dispatching' \in {NoDispatch} \cup [task : WorkTasks, pc : {"allocate", "prepare"}]
      BY <1>0, <1>4, <1>d DEF SnapshotRepository
    <2> QED BY <2>1, <2>2, <1>0, <1>4 DEF SnapshotRepository, Repository, Ghosts
  <1>5. CASE CannotFork
    BY <1>0, <1>5, <1>b, <1>d DEF CannotFork, Repository, Ghosts
  <1>6. CASE AbandonWorktree
    <2>1. worktrees' \in [Works -> {"absent", "clean", "worked"}]
      BY <1>0, <1>6 DEF AbandonWorktree
    <2>2. allocations' \in [Works ->
            {"none", "allocated", "merged", "discarded", "abandoned", "merge_conflict"}]
      BY <1>0, <1>6 DEF AbandonWorktree
    <2> QED BY <2>1, <2>2, <1>0, <1>6, <1>b, <1>d DEF AbandonWorktree, Repository, Ghosts
  <1>7. CASE BlockPreparation
    BY <1>0, <1>7, <1>b, <1>d DEF BlockPreparation, Repository, Ghosts
  <1>8. ASSUME NEW status \in {"queued", "failed"}, NEW job \in {"none", "running"},
               SubmitWriter(status, job)
        PROVE  WorkspaceTypeOK'
    <2>1. writers' \in [WorkTasks ->
            [status : {"pending", "claimed", "queued", "completed", "failed", "blocked"},
             rows : Nat]]
      BY <1>0, <1>8, <1>d DEF SubmitWriter
    <2> QED BY <2>1, <1>0, <1>8, <1>d DEF SubmitWriter, Repository, Ghosts
  <1>9. ASSUME NEW w \in Works, NEW result \in {"ok", "failed"}, NEW commits \in BOOLEAN,
               EndContainer(w, result, commits)
        PROVE  WorkspaceTypeOK'
    <2>1. worktrees' \in [Works -> {"absent", "clean", "worked"}]
      BY <1>0, <1>9 DEF EndContainer
    <2>2. head' \in SUBSET Works /\ dirty' \in SUBSET Works
      BY <1>0, <1>9 DEF EndContainer
    <2> QED BY <2>1, <2>2, <1>0, <1>9 DEF EndContainer, Ghosts
  <1>10. ASSUME NEW t \in WorkTasks, RequeueWriter(t) PROVE WorkspaceTypeOK'
    BY <1>0, <1>10, <1>a DEF RequeueWriter, Repository, Ghosts
  <1>11. ASSUME NEW w \in Works, IgnoreCallback(w) PROVE WorkspaceTypeOK'
    BY <1>0, <1>11 DEF IgnoreCallback, Repository, Ghosts
  <1>s. ASSUME NEW w \in Works, NEW s \in {"completed", "failed", "blocked"},
               Settle(w, s), Cross(w), head' \in SUBSET Works,
               worktrees' \in [Works -> {"absent", "clean", "worked"}],
               allocations' \in [Works ->
                 {"none", "allocated", "merged", "discarded", "abandoned", "merge_conflict"}]
        PROVE  WorkspaceTypeOK'
    <2>1. writers' \in [WorkTasks ->
            [status : {"pending", "claimed", "queued", "completed", "failed", "blocked"},
             rows : Nat]]
      BY <1>s, <1>a, <1>e DEF Settle
    <2>2. crossed' \in SUBSET Works
      BY <1>0, <1>s DEF Cross
    <2>3. finished' \in SUBSET Works
      BY <1>0, <1>s DEF Settle
    <2>4. containers' \in [Works -> {"none", "running", "ok", "failed", "posted"}]
      BY <1>0, <1>s DEF Settle
    <2> QED BY <1>0, <1>s, <2>1, <2>2, <2>3, <2>4 DEF Settle
  <1>12. ASSUME NEW w \in Works, SettleWithoutWorktree(w) PROVE WorkspaceTypeOK'
    BY <1>0, <1>12, <1>s DEF SettleWithoutWorktree
  <1>13. ASSUME NEW w \in Works, DiscardWorktree(w) PROVE WorkspaceTypeOK'
    BY <1>0, <1>13, <1>s DEF DiscardWorktree
  <1>14. ASSUME NEW w \in Works, MergeWorktree(w) PROVE WorkspaceTypeOK'
    <2>1. head' \in SUBSET Works
      BY <1>0, <1>14, <1>c, <1>f DEF MergeWorktree, Ingestible
    <2> QED BY <2>1, <1>0, <1>14, <1>s DEF MergeWorktree
  <1>15. ASSUME NEW w \in Works, MergeFails(w) PROVE WorkspaceTypeOK'
    BY <1>0, <1>15, <1>s DEF MergeFails
  <1>16. ASSUME NEW w \in Works, NEW removed \in BOOLEAN, MergeIsTorn(w, removed)
         PROVE  WorkspaceTypeOK'
    <2>1. head' \in SUBSET Works /\ torn' \in SUBSET Works
      BY <1>0, <1>16, <1>c, <1>f DEF MergeIsTorn, Ingestible
    <2>2. worktrees' \in [Works -> {"absent", "clean", "worked"}]
      BY <1>0, <1>16 DEF MergeIsTorn
    <2> QED BY <2>1, <2>2, <1>0, <1>16 DEF MergeIsTorn
  <1>r. MaxRestores \in Nat
    BY WorkspaceBounds
  <1>17. ASSUME NEW w \in Works, RestoreRepository(w) PROVE WorkspaceTypeOK'
    <2>1. restored' \in [count : 0..MaxRestores, lost : SUBSET Works]
      BY <1>0, <1>17, <1>r DEF RestoreRepository, MayRestore
    <2>2. writers' \in [WorkTasks ->
            [status : {"pending", "claimed", "queued", "completed", "failed", "blocked"},
             rows : Nat]]
      BY <1>17, <1>a, <1>e DEF RestoreRepository
    <2>3. head' \in SUBSET Works /\ dirty' \in SUBSET Works
      BY <1>0, <1>17 DEF RestoreRepository
    <2> QED BY <2>1, <2>2, <2>3, <1>0, <1>17 DEF RestoreRepository
  <1>18. ASSUME NEW w \in Works, RestoreWorktree(w) PROVE WorkspaceTypeOK'
    <2>1. restored' \in [count : 0..MaxRestores, lost : SUBSET Works]
      BY <1>0, <1>18, <1>r, <1>c DEF RestoreWorktree, MayRestore
    <2> QED BY <2>1, <1>0, <1>18, <1>a, <1>e DEF RestoreWorktree, Repository
  <1> QED
    BY <1>1, <1>2, <1>3, <1>4, <1>5, <1>6, <1>7, <1>8, <1>9, <1>10, <1>11, <1>12, <1>13,
       <1>14, <1>15, <1>16, <1>17, <1>18
       DEF WorkspaceNext, DispatchStep, CallbackStep

(* What every step but a submission leaves alone. *)
LEMMA RowsStay ==
    ASSUME WorkspaceTypeOK, [WorkspaceNext]_workspaceVars,
           ~(\E status \in {"queued", "failed"}, job \in {"none", "running"} :
               SubmitWriter(status, job))
    PROVE  \A t \in WorkTasks : writers'[t].rows = writers[t].rows
PROOF
  <1> USE DEF WorkspaceTypeOK
  <1>a. \A t, u \in WorkTasks, n \in {"pending", "claimed", "queued", "completed", "failed", "blocked"} :
          [writers EXCEPT ![t].status = n][u].rows = writers[u].rows
    OBVIOUS
  <1>b. ASSUME NEW t \in WorkTasks, NEW s \in {"pending", "blocked"}, MoveClaimed(t, s),
               NEW u \in WorkTasks
        PROVE  writers'[u].rows = writers[u].rows
    BY <1>a, <1>b DEF MoveClaimed
  <1>c. dispatching.pc # "idle" => dispatching.task \in WorkTasks
    BY DEF NoDispatch
  <1>1. CASE UNCHANGED workspaceVars
    BY <1>1 DEF workspaceVars
  <1>2. CASE DispatchStep
    BY <1>2, <1>a, <1>b, <1>c
       DEF DispatchStep, ClaimWriter, AllocateWorktree, SnapshotRepository, CannotFork,
           AbandonWorktree, BlockPreparation
  <1>3. ASSUME NEW t \in WorkTasks, RequeueWriter(t),
               NEW u \in WorkTasks
        PROVE  writers'[u].rows = writers[u].rows
    BY <1>3, <1>a DEF RequeueWriter
  <1>4. ASSUME NEW w \in Works, NEW u \in WorkTasks,
               \/ \E result \in {"ok", "failed"}, commits \in BOOLEAN :
                    EndContainer(w, result, commits)
               \/ CallbackStep(w)
               \/ RestoreRepository(w)
               \/ RestoreWorktree(w)
        PROVE  writers'[u].rows = writers[u].rows
    <2>1. w[1] \in WorkTasks
      BY WorkParts
    <2>2. CASE CallbackStep(w)
      <3>1. ASSUME NEW s \in {"completed", "failed", "blocked"}, Settle(w, s)
            PROVE  writers'[u].rows = writers[u].rows
        BY <3>1, <2>1, <1>a DEF Settle
      <3> QED
        BY <2>2, <3>1
           DEF CallbackStep, IgnoreCallback, SettleWithoutWorktree, DiscardWorktree,
               MergeWorktree, MergeFails, MergeIsTorn
    <2> QED
      BY <1>4, <2>1, <2>2, <1>a DEF EndContainer, RestoreRepository, RestoreWorktree
  <1> QED BY <1>1, <1>2, <1>3, <1>4 DEF WorkspaceNext

(* The pass at a task keeps to the next attempt of it, whatever recovery,  *)
(* callbacks and rollbacks do to the task meanwhile. *)
LEMMA DispatchInTurnStep ==
    ASSUME WorkspaceTurns, [WorkspaceNext]_workspaceVars
    PROVE  DispatchInTurn'
PROOF
  <1> USE DEF DispatchInTurn, NextWork
  <1>0. WorkspaceTypeOK /\ DispatchInTurn
    BY DEF WorkspaceTurns
  <1>t. dispatching.pc # "idle" =>
          dispatching.task \in WorkTasks /\ dispatching = [task |-> dispatching.task, pc |-> dispatching.pc]
    BY <1>0 DEF WorkspaceTypeOK, NoDispatch
  <1>s. ASSUME dispatching' = dispatching,
               \A t \in WorkTasks : writers'[t].rows = writers[t].rows,
               \A w \in Works : allocations[w] # "none" => allocations'[w] # "none"
        PROVE  DispatchInTurn'
    BY <1>0, <1>s, <1>t
  <1>i. ASSUME dispatching' = NoDispatch
        PROVE  DispatchInTurn'
    BY <1>i DEF NoDispatch
  <1>1. ASSUME NEW status \in {"queued", "failed"}, NEW job \in {"none", "running"},
               SubmitWriter(status, job)
        PROVE  DispatchInTurn'
    BY <1>1, <1>i DEF SubmitWriter
  <1>2. CASE ~(\E status \in {"queued", "failed"}, job \in {"none", "running"} :
                 SubmitWriter(status, job))
    <2>r. \A t \in WorkTasks : writers'[t].rows = writers[t].rows
      BY <1>0, <1>2, RowsStay
    <2>1. CASE UNCHANGED workspaceVars
      BY <2>1, <2>r, <1>s DEF workspaceVars
    <2>2. ASSUME NEW t \in WorkTasks, ClaimWriter(t) PROVE DispatchInTurn'
      <3>1. writers[t].rows + 1 \in 1..MaxWorkTries[t]
        BY <2>2, <1>0, WorkspaceBounds DEF ClaimWriter, WorkspaceTypeOK, WorkTasks
      <3>2. <<t, writers'[t].rows + 1>> \in Works
        BY <3>1, <2>r, WorkIsInWorks
      <3> QED BY <3>2, <2>2 DEF ClaimWriter
    <2>3. CASE AllocateWorktree
      <3>1. /\ dispatching.pc # "idle" /\ dispatching'.task = dispatching.task
            /\ allocations' = [allocations EXCEPT ![NextWork(dispatching.task)] = "allocated"]
        BY <2>3, <1>t DEF AllocateWorktree
      <3>2. NextWork(dispatching.task) \in Works
        BY <3>1, <1>0
      <3>3. allocations'[NextWork(dispatching.task)] = "allocated"
        BY <3>1, <3>2, <1>0 DEF WorkspaceTypeOK
      <3> QED BY <3>1, <3>2, <3>3, <2>r, <1>t
    <2>4. CASE SnapshotRepository
      <3>1. dispatching.pc # "idle" /\ dispatching'.task = dispatching.task
            /\ dispatching.task \in Direct
        BY <2>4, <1>t DEF SnapshotRepository
      <3> QED BY <3>1, <2>r, <1>t, <1>0, WorkspaceBounds
    <2>5. CASE CannotFork \/ AbandonWorktree \/ BlockPreparation
      BY <2>5, <1>i DEF CannotFork, AbandonWorktree, BlockPreparation
    <2>6. ASSUME NEW t \in WorkTasks, RequeueWriter(t) PROVE DispatchInTurn'
      BY <2>6, <2>r, <1>s DEF RequeueWriter
    <2>7. ASSUME NEW w \in Works,
                 \/ \E result \in {"ok", "failed"}, commits \in BOOLEAN :
                      EndContainer(w, result, commits)
                 \/ CallbackStep(w)
                 \/ RestoreRepository(w)
                 \/ RestoreWorktree(w)
          PROVE  DispatchInTurn'
      <3>1. dispatching' = dispatching
        BY <2>7
           DEF EndContainer, CallbackStep, RestoreRepository, RestoreWorktree, IgnoreCallback,
               SettleWithoutWorktree, DiscardWorktree, MergeWorktree, MergeFails, MergeIsTorn,
               Settle
      <3>2. ASSUME NEW v \in Works, allocations[v] # "none"
            PROVE  allocations'[v] # "none"
        <4>1. \/ allocations' = allocations
              \/ \E u : \E s \in {"merged", "discarded", "merge_conflict"} :
                   allocations' = [allocations EXCEPT ![u] = s]
          BY <2>7
             DEF EndContainer, CallbackStep, RestoreRepository, RestoreWorktree, IgnoreCallback,
                 SettleWithoutWorktree, DiscardWorktree, MergeWorktree, MergeFails, MergeIsTorn
        <4> QED BY <4>1, <3>2, <1>0 DEF WorkspaceTypeOK
      <3> QED BY <3>1, <3>2, <2>r, <1>s
    <2> QED
      BY <1>2, <2>1, <2>2, <2>3, <2>4, <2>5, <2>6, <2>7 DEF WorkspaceNext, DispatchStep
  <1> QED BY <1>1, <1>2

(* Rows, allocations, containers and worktrees of an attempt come in that  *)
(* order: allocation, row and container, work. *)
LEMMA AllocationsInTurnStep ==
    ASSUME WorkspaceTurns, [WorkspaceNext]_workspaceVars
    PROVE  AllocationsInTurn'
PROOF
  <1> USE DEF NextWork
  <1>0. WorkspaceTypeOK /\ DispatchInTurn /\ AllocationsInTurn
    BY DEF WorkspaceTurns
  <1>p. \A w \in Works : w = <<w[1], w[2]>> /\ w[1] \in WorkTasks /\ w[2] \in Nat
    BY WorkParts
  <1>n. \A t \in WorkTasks : writers[t].rows \in Nat
    BY <1>0 DEF WorkspaceTypeOK
  <1>d. dispatching.pc # "idle" => dispatching.task \in WorkTasks /\ NextWork(dispatching.task) \in Works
    BY <1>0 DEF WorkspaceTypeOK, NoDispatch, DispatchInTurn
  <1>s. ASSUME \A t \in WorkTasks : writers'[t].rows = writers[t].rows,
               \A w \in Works :
                 /\ containers'[w] # "none" <=> containers[w] # "none"
                 /\ worktrees'[w] = "worked" => containers[w] # "none"
                 /\ allocations'[w] # "none" <=> allocations[w] # "none"
        PROVE  AllocationsInTurn'
    <2> SUFFICES ASSUME NEW w \in Works
                 PROVE  LET rows == writers'[w[1]].rows
                        IN /\ containers'[w] # "none" => w[2] <= rows
                           /\ worktrees'[w] = "worked" => containers'[w] # "none"
                           /\ allocations'[w] # "none" => w[1] \in Isolated /\ w[2] <= rows + 1
                           /\ w[1] \in Isolated /\ w[2] <= rows => allocations'[w] # "none"
      BY DEF AllocationsInTurn
    <2>1. writers'[w[1]].rows = writers[w[1]].rows
      BY <1>s, <1>p
    <2> QED BY <2>1, <1>s, <1>0 DEF AllocationsInTurn
  <1>w. \A w \in Works : worktrees[w] = "worked" => containers[w] # "none"
    BY <1>0 DEF AllocationsInTurn
  <1>1. ASSUME NEW status \in {"queued", "failed"}, NEW job \in {"none", "running"},
               SubmitWriter(status, job)
        PROVE  AllocationsInTurn'
    <2> DEFINE t == dispatching.task
               n == NextWork(t)
    <2>1. /\ t \in WorkTasks /\ n \in Works /\ dispatching.pc = "prepare"
          /\ worktrees' = worktrees /\ allocations' = allocations
          /\ containers' = [containers EXCEPT ![n] = job]
      BY <1>1, <1>d DEF SubmitWriter
    <2>2. \A u \in WorkTasks : writers'[u].rows =
            IF u = t THEN writers[u].rows + 1 ELSE writers[u].rows
      BY <1>1, <1>0, <2>1 DEF SubmitWriter, WorkspaceTypeOK
    <2>3. t \in Isolated => allocations[n] # "none"
      BY <2>1, <1>0 DEF DispatchInTurn
    <2> SUFFICES ASSUME NEW w \in Works
                 PROVE  LET rows == writers'[w[1]].rows
                        IN /\ containers'[w] # "none" => w[2] <= rows
                           /\ worktrees'[w] = "worked" => containers'[w] # "none"
                           /\ allocations'[w] # "none" => w[1] \in Isolated /\ w[2] <= rows + 1
                           /\ w[1] \in Isolated /\ w[2] <= rows => allocations'[w] # "none"
      BY DEF AllocationsInTurn
    <2>4. LET rows == writers[w[1]].rows
          IN /\ containers[w] # "none" => w[2] <= rows
             /\ worktrees[w] = "worked" => containers[w] # "none"
             /\ allocations[w] # "none" => w[1] \in Isolated /\ w[2] <= rows + 1
             /\ w[1] \in Isolated /\ w[2] <= rows => allocations[w] # "none"
      BY <1>0 DEF AllocationsInTurn
    <2>5. CASE w = n
      <3>1. w[1] = t /\ w[2] = writers[t].rows + 1 /\ writers'[t].rows = writers[t].rows + 1
        BY <2>5, <2>1, <2>2
      <3>2. writers[t].rows \in Nat
        BY <1>n, <2>1
      <3>3. worktrees[w] # "worked"
        BY <2>4, <3>1, <3>2
      <3> QED BY <2>1, <2>3, <2>4, <2>5, <3>1, <3>2, <3>3
    <2>6. CASE w # n
      <3>1. containers'[w] = containers[w]
        BY <2>1, <2>6, <1>0 DEF WorkspaceTypeOK
      <3>2. w[1] = t => w[2] # writers[t].rows + 1
        BY <2>6, <1>p
      <3>3. w[2] \in Nat /\ writers[w[1]].rows \in Nat /\ w[1] \in WorkTasks
        BY <1>p, <1>n
      <3>4. w[1] = t => (w[2] <= writers[t].rows + 1 => w[2] <= writers[t].rows)
        BY <3>2, <3>3
      <3>5. writers'[w[1]].rows =
              IF w[1] = t THEN writers[w[1]].rows + 1 ELSE writers[w[1]].rows
        BY <2>2, <3>3
      <3> HIDE DEF t, n
      <3> QED BY <2>1, <2>4, <3>1, <3>3, <3>4, <3>5
    <2> QED BY <2>5, <2>6
  <1>2. CASE ~(\E status \in {"queued", "failed"}, job \in {"none", "running"} :
                 SubmitWriter(status, job))
    <2>r. \A t \in WorkTasks : writers'[t].rows = writers[t].rows
      BY <1>0, <1>2, RowsStay
    <2>1. CASE UNCHANGED workspaceVars
      BY <2>1, <2>r, <1>s, <1>w DEF workspaceVars
    <2>2. ASSUME NEW t \in WorkTasks, ClaimWriter(t) \/ RequeueWriter(t)
          PROVE  AllocationsInTurn'
      BY <2>2, <2>r, <1>s, <1>w DEF ClaimWriter, RequeueWriter
    <2>3. CASE SnapshotRepository \/ CannotFork \/ BlockPreparation
      BY <2>3, <2>r, <1>s, <1>w DEF SnapshotRepository, CannotFork, BlockPreparation
    <2>4. CASE AllocateWorktree \/ AbandonWorktree
      <3> DEFINE t == dispatching.task
                 n == NextWork(t)
      <3>1. /\ t \in WorkTasks /\ n \in Works
            /\ containers' = containers
            /\ \E s \in {"clean", "absent"} : worktrees' = [worktrees EXCEPT ![n] = s]
            /\ \/ t \notin Isolated /\ allocations' = allocations
               \/ /\ t \in Isolated
                  /\ \E s \in {"allocated", "abandoned"} :
                       allocations' = [allocations EXCEPT ![n] = s]
        BY <2>4, <1>d DEF AllocateWorktree, AbandonWorktree
      <3> SUFFICES ASSUME NEW w \in Works
                   PROVE  LET rows == writers'[w[1]].rows
                          IN /\ containers'[w] # "none" => w[2] <= rows
                             /\ worktrees'[w] = "worked" => containers'[w] # "none"
                             /\ allocations'[w] # "none" => w[1] \in Isolated /\ w[2] <= rows + 1
                             /\ w[1] \in Isolated /\ w[2] <= rows => allocations'[w] # "none"
        BY DEF AllocationsInTurn
      <3>2. writers'[w[1]].rows = writers[w[1]].rows
        BY <2>r, <1>p
      <3>3. LET rows == writers[w[1]].rows
            IN /\ containers[w] # "none" => w[2] <= rows
               /\ worktrees[w] = "worked" => containers[w] # "none"
               /\ allocations[w] # "none" => w[1] \in Isolated /\ w[2] <= rows + 1
               /\ w[1] \in Isolated /\ w[2] <= rows => allocations[w] # "none"
        BY <1>0 DEF AllocationsInTurn
      <3>4. worktrees'[w] = "worked" => worktrees[w] = "worked"
        BY <3>1, <1>0 DEF WorkspaceTypeOK
      <3>5. w # n => allocations'[w] = allocations[w]
        BY <3>1, <1>0 DEF WorkspaceTypeOK
      <3>6. w = n => /\ w[1] = t /\ w[2] = writers[w[1]].rows + 1
                     /\ t \in Isolated => allocations'[w] # "none"
                     /\ t \notin Isolated => allocations'[w] = allocations[w]
        BY <3>1, <1>0 DEF WorkspaceTypeOK
      <3>7. writers[w[1]].rows \in Nat
        BY <1>p, <1>n
      <3> HIDE DEF t, n
      <3> QED BY <3>1, <3>2, <3>3, <3>4, <3>5, <3>6, <3>7
    <2>5. ASSUME NEW w \in Works,
                 \/ \E result \in {"ok", "failed"}, commits \in BOOLEAN :
                      EndContainer(w, result, commits)
                 \/ IgnoreCallback(w)
                 \/ RestoreRepository(w)
                 \/ RestoreWorktree(w)
          PROVE  AllocationsInTurn'
      <3>1. \A v \in Works : containers'[v] # "none" <=> containers[v] # "none"
        BY <2>5, <1>0
           DEF WorkspaceTypeOK, EndContainer, IgnoreCallback, RestoreRepository, RestoreWorktree,
               Ended
      <3>2. \A v \in Works : worktrees'[v] = "worked" => containers[v] # "none"
        BY <2>5, <1>0, <1>w
           DEF WorkspaceTypeOK, EndContainer, IgnoreCallback, RestoreRepository, RestoreWorktree
      <3>3. allocations' = allocations
        BY <2>5 DEF EndContainer, IgnoreCallback, RestoreRepository, RestoreWorktree
      <3> QED BY <3>1, <3>2, <3>3, <2>r, <1>s
    <2>6. ASSUME NEW w \in Works,
                 \/ SettleWithoutWorktree(w) \/ DiscardWorktree(w) \/ MergeWorktree(w)
                 \/ MergeFails(w)
                 \/ \E removed \in BOOLEAN : MergeIsTorn(w, removed)
          PROVE  AllocationsInTurn'
      <3> DEFINE latest == LatestAllocation(w[1])
      <3>1. /\ Ended(w)
            /\ \/ containers' = containers
               \/ containers' = [containers EXCEPT ![w] = "posted"]
            /\ \/ worktrees' = worktrees
               \/ worktrees' = [worktrees EXCEPT ![latest] = "absent"]
            /\ \/ allocations' = allocations
               \/ /\ AllocationStatus(w[1]) # "none"
                  /\ \E s \in {"discarded", "merged", "merge_conflict"} :
                       allocations' = [allocations EXCEPT ![latest] = s]
        BY <2>6
           DEF SettleWithoutWorktree, DiscardWorktree, MergeWorktree, MergeFails, MergeIsTorn,
               Settle, Ingestible
      <3>2. Current(w)
        BY <2>6
           DEF SettleWithoutWorktree, DiscardWorktree, MergeWorktree, MergeFails, MergeIsTorn,
               Ingestible
      <3>3. AllocationStatus(w[1]) # "none" => latest \in Works /\ allocations[latest] # "none"
        BY <3>2, LatestOf DEF AllocationStatus
      <3> HIDE DEF latest
      <3>4. \A v \in Works : containers'[v] # "none" <=> containers[v] # "none"
        BY <3>1, <1>0 DEF WorkspaceTypeOK, Ended
      <3>5. \A v \in Works : worktrees'[v] = "worked" => containers[v] # "none"
        BY <3>1, <1>0, <1>w DEF WorkspaceTypeOK
      <3>6. \A v \in Works : allocations'[v] # "none" <=> allocations[v] # "none"
        BY <3>1, <3>3, <1>0 DEF WorkspaceTypeOK
      <3> QED BY <3>4, <3>5, <3>6, <2>r, <1>s
    <2> QED
      BY <1>2, <2>1, <2>2, <2>3, <2>4, <2>5, <2>6 DEF WorkspaceNext, DispatchStep, CallbackStep
  <1> QED BY <1>1, <1>2

(* A worktree is removed with its allocation settled, by the callback of   *)
(* its own attempt or of the one before; only a submission starts the      *)
(* container of an attempt, and then there is no result yet. *)
LEMMA SettledIsGoneStep ==
    ASSUME WorkspaceTurns, SettledIsGone, [WorkspaceNext]_workspaceVars
    PROVE  SettledIsGone'
PROOF
  <1>0. WorkspaceTypeOK /\ DispatchInTurn /\ AllocationsInTurn
    BY DEF WorkspaceTurns
  <1>p. \A w \in Works : w = <<w[1], w[2]>> /\ w[1] \in WorkTasks /\ w[2] \in Nat
    BY WorkParts
  <1>d. dispatching.pc # "idle" =>
          /\ dispatching.task \in WorkTasks
          /\ NextWork(dispatching.task) \in Works
          /\ containers[NextWork(dispatching.task)] = "none"
    <2>1. dispatching.pc # "idle" =>
            dispatching.task \in WorkTasks /\ NextWork(dispatching.task) \in Works
      BY <1>0 DEF WorkspaceTypeOK, NoDispatch, DispatchInTurn
    <2>2. \A t \in WorkTasks : NextWork(t)[1] = t /\ ~(NextWork(t)[2] <= writers[t].rows)
      BY <1>0 DEF NextWork, WorkspaceTypeOK
    <2> QED BY <2>1, <2>2, <1>0 DEF AllocationsInTurn
  <1>s. ASSUME restored.lost \subseteq restored'.lost,
               \A w \in Works :
                 /\ containers'[w] = "ok" => containers[w] = "ok"
                 /\ worktrees'[w] = "clean" /\ containers'[w] = "ok" => worktrees[w] = "clean"
                 /\ allocations'[w] \in {"merged", "discarded", "abandoned"} =>
                      \/ /\ allocations[w] \in {"merged", "discarded", "abandoned"}
                         /\ worktrees[w] = "absent" => worktrees'[w] = "absent"
                      \/ worktrees'[w] = "absent" /\ containers'[w] # "ok"
        PROVE  SettledIsGone'
    BY <1>s DEF SettledIsGone
  <1>1. CASE UNCHANGED workspaceVars
    BY <1>1, <1>s DEF workspaceVars
  <1>2. ASSUME NEW t \in WorkTasks, ClaimWriter(t) \/ RequeueWriter(t)
        PROVE  SettledIsGone'
    BY <1>2, <1>s DEF ClaimWriter, RequeueWriter, Ghosts
  <1>3. CASE SnapshotRepository \/ CannotFork \/ BlockPreparation
    BY <1>3, <1>s DEF SnapshotRepository, CannotFork, BlockPreparation, Ghosts
  <1>4. CASE AllocateWorktree \/ AbandonWorktree
    <2> DEFINE n == NextWork(dispatching.task)
    <2>1. /\ n \in Works /\ containers' = containers /\ restored' = restored /\ containers[n] = "none"
          /\ \/ /\ worktrees' = [worktrees EXCEPT ![n] = "clean"]
                /\ allocations' = [allocations EXCEPT ![n] = "allocated"]
             \/ /\ worktrees' = [worktrees EXCEPT ![n] = "absent"]
                /\ \/ allocations' = [allocations EXCEPT ![n] = "abandoned"]
                   \/ allocations' = allocations
      BY <1>4, <1>d DEF AllocateWorktree, AbandonWorktree, Ghosts
    <2> HIDE DEF n
    <2>2. ASSUME NEW w \in Works
          PROVE  /\ worktrees'[w] = "clean" /\ containers'[w] = "ok" => worktrees[w] = "clean"
                 /\ allocations'[w] \in {"merged", "discarded", "abandoned"} =>
                      \/ /\ allocations[w] \in {"merged", "discarded", "abandoned"}
                         /\ worktrees[w] = "absent" => worktrees'[w] = "absent"
                      \/ worktrees'[w] = "absent" /\ containers'[w] # "ok"
      <3>1. CASE w = n
        BY <2>1, <3>1, <1>0 DEF WorkspaceTypeOK
      <3>2. CASE w # n
        <4>1. worktrees'[w] = worktrees[w] /\ allocations'[w] = allocations[w]
          BY <2>1, <3>2, <1>0 DEF WorkspaceTypeOK
        <4> QED BY <4>1, <2>1
      <3> QED BY <3>1, <3>2
    <2> QED BY <2>1, <2>2, <1>s
  <1>5. ASSUME NEW status \in {"queued", "failed"}, NEW job \in {"none", "running"},
               SubmitWriter(status, job)
        PROVE  SettledIsGone'
    <2>1. \A w \in Works : containers'[w] = "ok" => containers[w] = "ok"
      BY <1>5, <1>0 DEF SubmitWriter, WorkspaceTypeOK
    <2> QED BY <1>5, <2>1, <1>s DEF SubmitWriter, Ghosts
  <1>6. ASSUME NEW w \in Works, NEW result \in {"ok", "failed"}, NEW commits \in BOOLEAN,
               EndContainer(w, result, commits)
        PROVE  SettledIsGone'
    <2>1. /\ allocations' = allocations /\ restored' = restored
          /\ containers[w] = "running"
          /\ \A v \in Works : v # w => containers'[v] = containers[v] /\ worktrees'[v] = worktrees[v]
          /\ containers'[w] = result
          /\ worktrees'[w] # "clean"
          /\ worktrees[w] = "absent" => worktrees'[w] = "absent"
          /\ w[1] \in Isolated /\ worktrees[w] = "absent" => result = "failed"
      BY <1>6, <1>0 DEF EndContainer, WorkspaceTypeOK, Ghosts
    <2>2. allocations[w] # "none" => w[1] \in Isolated
      BY <1>0 DEF AllocationsInTurn
    <2> SUFFICES ASSUME NEW v \in Works
                 PROVE  /\ allocations'[v] \in {"merged", "discarded", "abandoned"} =>
                             worktrees'[v] = "absent" /\ containers'[v] # "ok"
                        /\ v[1] \in Isolated /\ containers'[v] = "ok" /\ worktrees'[v] = "clean" =>
                             v \in restored'.lost
      BY DEF SettledIsGone
    <2> QED BY <2>1, <2>2 DEF SettledIsGone
  <1>7. ASSUME NEW w \in Works, IgnoreCallback(w)
        PROVE  SettledIsGone'
    BY <1>7, <1>0, <1>s DEF IgnoreCallback, WorkspaceTypeOK, Ghosts
  <1>8. ASSUME NEW w \in Works,
               \/ SettleWithoutWorktree(w) \/ DiscardWorktree(w) \/ MergeWorktree(w)
               \/ MergeFails(w)
               \/ \E removed \in BOOLEAN : MergeIsTorn(w, removed)
        PROVE  SettledIsGone'
    <2> DEFINE latest == LatestAllocation(w[1])
    <2>1. /\ Current(w) /\ restored' = restored
          /\ \/ containers' = containers /\ allocations' = allocations
             \/ containers' = [containers EXCEPT ![w] = "posted"]
          /\ \/ worktrees' = worktrees
             \/ worktrees' = [worktrees EXCEPT ![latest] = "absent"]
          /\ \/ allocations' = allocations
             \/ /\ AllocationStatus(w[1]) # "none"
                /\ \/ /\ \E s \in {"discarded", "merged"} :
                           allocations' = [allocations EXCEPT ![latest] = s]
                      /\ worktrees' = [worktrees EXCEPT ![latest] = "absent"]
                   \/ allocations' = [allocations EXCEPT ![latest] = "merge_conflict"]
      BY <1>8
         DEF SettleWithoutWorktree, DiscardWorktree, MergeWorktree, MergeFails, MergeIsTorn,
             Settle, Ingestible
    <2>2. AllocationStatus(w[1]) # "none" =>
            /\ latest \in Works
            /\ latest = w \/ containers[latest] = "none"
      <3> SUFFICES ASSUME AllocationsOf(w[1]) # {}
                   PROVE  /\ latest \in Works
                          /\ latest = w \/ containers[latest] = "none"
        BY DEF AllocationStatus
      <3>1. latest \in Works /\ latest[1] = w[1] /\ (latest = w \/ latest[2] = w[2] + 1)
        BY <2>1, LatestOf
      <3>2. w[2] = writers[latest[1]].rows /\ w[2] \in Nat
        BY <2>1, <3>1, <1>p DEF Current
      <3>3. latest[2] = w[2] + 1 => ~(latest[2] <= writers[latest[1]].rows)
        BY <3>2
      <3>4. containers[latest] # "none" => latest[2] <= writers[latest[1]].rows
        BY <3>1, <1>0 DEF AllocationsInTurn
      <3> HIDE DEF latest
      <3> QED BY <3>1, <3>3, <3>4
    <2> HIDE DEF latest
    <2>3. ASSUME NEW v \in Works
          PROVE  /\ containers'[v] = "ok" => containers[v] = "ok"
                 /\ worktrees'[v] = "clean" => worktrees[v] = "clean"
                 /\ worktrees[v] = "absent" => worktrees'[v] = "absent"
      BY <2>1, <1>0 DEF WorkspaceTypeOK
    <2>4. ASSUME NEW v \in Works, allocations'[v] \in {"merged", "discarded", "abandoned"},
                 allocations[v] \notin {"merged", "discarded", "abandoned"}
          PROVE  worktrees'[v] = "absent" /\ containers'[v] # "ok"
      <3>1. /\ v = latest /\ AllocationStatus(w[1]) # "none"
            /\ worktrees' = [worktrees EXCEPT ![latest] = "absent"]
            /\ containers' = [containers EXCEPT ![w] = "posted"]
        BY <2>1, <2>4, <1>0 DEF WorkspaceTypeOK
      <3> QED BY <3>1, <2>2, <1>0 DEF WorkspaceTypeOK
    <2> QED BY <2>1, <2>3, <2>4, <1>s
  <1>9. ASSUME NEW w \in Works, RestoreRepository(w)
        PROVE  SettledIsGone'
    <2>1. restored.lost \subseteq restored'.lost
      BY <1>9 DEF RestoreRepository
    <2> QED BY <1>9, <2>1, <1>s DEF RestoreRepository
  <1>10. ASSUME NEW w \in Works, RestoreWorktree(w)
         PROVE  SettledIsGone'
    <2>1. /\ containers' = containers /\ allocations' = allocations
          /\ worktrees[w] # "absent"
          /\ restored'.lost = restored.lost \cup MergedWork(w)
          /\ worktrees' = [worktrees EXCEPT ![w] = "clean"]
      BY <1>10 DEF RestoreWorktree
    <2> SUFFICES ASSUME NEW v \in Works
                 PROVE  /\ allocations'[v] \in {"merged", "discarded", "abandoned"} =>
                             worktrees'[v] = "absent" /\ containers'[v] # "ok"
                        /\ v[1] \in Isolated /\ containers'[v] = "ok" /\ worktrees'[v] = "clean" =>
                             v \in restored'.lost
      BY DEF SettledIsGone
    <2>2. CASE v = w
      <3>1. worktrees[w] \in {"clean", "worked"}
        BY <2>1, <1>0 DEF WorkspaceTypeOK
      <3> QED BY <2>1, <2>2, <3>1 DEF SettledIsGone, MergedWork
    <2>3. CASE v # w
      BY <2>1, <2>3, <1>0 DEF SettledIsGone, WorkspaceTypeOK
    <2> QED BY <2>2, <2>3
  <1> QED
    BY <1>1, <1>2, <1>3, <1>4, <1>5, <1>6, <1>7, <1>8, <1>9, <1>10
       DEF WorkspaceNext, DispatchStep, CallbackStep

(* What a callback merges: the work of its own attempt, or nothing, since  *)
(* the next attempt has not run yet. *)
LEMMA MergedIsOwn ==
    ASSUME WorkspaceTurns, NEW w \in Works, Current(w), AllocationStatus(w[1]) # "none"
    PROVE  MergedWork(LatestAllocation(w[1])) \subseteq {w}
PROOF
  <1> DEFINE latest == LatestAllocation(w[1])
  <1>0. WorkspaceTypeOK /\ AllocationsInTurn
    BY DEF WorkspaceTurns
  <1>1. AllocationsOf(w[1]) # {}
    BY DEF AllocationStatus
  <1>2. latest \in Works /\ latest[1] = w[1] /\ (latest = w \/ latest[2] = w[2] + 1)
    BY <1>1, LatestOf
  <1>3. w[2] = writers[latest[1]].rows /\ w[2] \in Nat
    BY <1>2, WorkParts DEF Current
  <1>4. worktrees[latest] = "worked" => latest[2] <= writers[latest[1]].rows
    BY <1>2, <1>0 DEF AllocationsInTurn
  <1>5. latest[2] = w[2] + 1 => ~(latest[2] <= writers[latest[1]].rows)
    BY <1>3
  <1> HIDE DEF latest
  <1>6. MergedWork(latest) \subseteq {w}
    BY <1>2, <1>4, <1>5 DEF MergedWork
  <1> QED BY <1>6 DEF latest

(* Commits hold finished and torn work only: a merge adds the work of the  *)
(* attempt whose callback it is, a rollback returns to an earlier commit. *)
LEMMA MergedIsFinishedStep ==
    ASSUME WorkspaceTurns, MergedIsFinished, [WorkspaceNext]_workspaceVars
    PROVE  MergedIsFinished'
PROOF
  <1>0. WorkspaceTypeOK
    BY DEF WorkspaceTurns
  <1>s. ASSUME finished \subseteq finished', torn \subseteq torn',
               \A c \in Commits' : \E b \in Commits : \A w \in c \ b : w[1] \in Isolated =>
                 w \in finished' \cup torn'
        PROVE  MergedIsFinished'
    <2> SUFFICES ASSUME NEW c \in Commits', NEW w \in c, w[1] \in Isolated
                 PROVE  w \in finished' \cup torn'
      BY DEF MergedIsFinished
    <2>1. PICK b \in Commits : \A v \in c \ b : v[1] \in Isolated => v \in finished' \cup torn'
      BY <1>s
    <2>2. w \in b => w \in finished \cup torn
      BY <2>1 DEF MergedIsFinished
    <2> QED BY <2>1, <2>2, <1>s
  <1>h. ASSUME snapshots' = snapshots, finished \subseteq finished', torn \subseteq torn',
               \A w \in head' \ head : w[1] \in Isolated => w \in finished' \cup torn'
        PROVE  MergedIsFinished'
    BY <1>s, <1>h DEF Commits
  <1>i. \A w \in Works : w[1] \in Isolated => w[1] \notin Direct
    BY WorkspaceBounds
  <1>1. CASE UNCHANGED workspaceVars
    BY <1>1, <1>h DEF workspaceVars
  <1>2. CASE SnapshotRepository
    <2>1. /\ head' = head /\ finished' = finished /\ torn' = torn
          /\ \E n : snapshots' =
               [snapshots EXCEPT ![n] = [taken |-> dirty = {}, commit |-> head]]
      BY <1>2 DEF SnapshotRepository, Repository, Ghosts
    <2>2. \A w \in Works : snapshots'[w].commit = snapshots[w].commit \/ snapshots'[w].commit = head
      BY <2>1, <1>0 DEF WorkspaceTypeOK
    <2>3. Commits' \subseteq Commits
      BY <2>1, <2>2 DEF Commits
    <2> QED BY <2>1, <2>3, <1>s
  <1>3. ASSUME NEW t \in WorkTasks, ClaimWriter(t) \/ RequeueWriter(t)
        PROVE  MergedIsFinished'
    BY <1>3, <1>h DEF ClaimWriter, RequeueWriter, Repository, Ghosts
  <1>4. CASE AllocateWorktree \/ CannotFork \/ AbandonWorktree \/ BlockPreparation
    BY <1>4, <1>h
       DEF AllocateWorktree, CannotFork, AbandonWorktree, BlockPreparation, Repository, Ghosts
  <1>5. ASSUME NEW status \in {"queued", "failed"}, NEW job \in {"none", "running"},
               SubmitWriter(status, job)
        PROVE  MergedIsFinished'
    BY <1>5, <1>h DEF SubmitWriter, Repository, Ghosts
  <1>6. ASSUME NEW w \in Works, NEW result \in {"ok", "failed"}, NEW commits \in BOOLEAN,
               EndContainer(w, result, commits)
        PROVE  MergedIsFinished'
    <2>1. \A v \in head' \ head : v = w /\ w[1] \in Direct
      BY <1>6 DEF EndContainer
    <2> QED BY <1>6, <2>1, <1>h, <1>i DEF EndContainer, Ghosts
  <1>7. ASSUME NEW w \in Works,
               \/ IgnoreCallback(w) \/ SettleWithoutWorktree(w) \/ DiscardWorktree(w)
               \/ MergeFails(w)
        PROVE  MergedIsFinished'
    <2>1. snapshots' = snapshots /\ head' = head /\ torn' = torn /\ finished \subseteq finished'
      BY <1>7
         DEF IgnoreCallback, SettleWithoutWorktree, DiscardWorktree, MergeFails, Settle,
             Repository, Ghosts
    <2> QED BY <2>1, <1>h
  <1>8. ASSUME NEW w \in Works, MergeWorktree(w)
        PROVE  MergedIsFinished'
    <2>1. /\ snapshots' = snapshots /\ torn' = torn /\ finished' = finished \cup {w}
          /\ head' = head \cup MergedWork(LatestAllocation(w[1]))
          /\ Current(w) /\ AllocationStatus(w[1]) # "none"
      BY <1>8 DEF MergeWorktree, Settle, Ingestible, Accepted
    <2>2. MergedWork(LatestAllocation(w[1])) \subseteq {w}
      BY <2>1, MergedIsOwn
    <2> QED BY <2>1, <2>2, <1>h
  <1>9. ASSUME NEW w \in Works, NEW removed \in BOOLEAN, MergeIsTorn(w, removed)
        PROVE  MergedIsFinished'
    BY <1>9, <1>h DEF MergeIsTorn
  <1>10. ASSUME NEW w \in Works, RestoreRepository(w)
         PROVE  MergedIsFinished'
    <2>1. /\ head' = snapshots[w].commit /\ snapshots' = snapshots
          /\ finished' = finished /\ torn' = torn
      BY <1>10 DEF RestoreRepository
    <2>2. Commits' \subseteq Commits
      BY <2>1 DEF Commits
    <2> QED BY <2>1, <2>2, <1>s
  <1>11. ASSUME NEW w \in Works, RestoreWorktree(w)
         PROVE  MergedIsFinished'
    BY <1>11, <1>h DEF RestoreWorktree, Repository
  <1> QED
    BY <1>1, <1>2, <1>3, <1>4, <1>5, <1>6, <1>7, <1>8, <1>9, <1>10, <1>11
       DEF WorkspaceNext, DispatchStep, CallbackStep

(* An attempt that completes its task has its work merged by the callback  *)
(* that completes it, unless that came late or a rollback emptied the      *)
(* worktree; only a rollback takes work from the repository. *)
LEMMA FinishedWorkStep ==
    ASSUME WorkspaceTurns, SettledIsGone, FinishedWorkIsMerged,
           [WorkspaceNext]_workspaceVars
    PROVE  FinishedWorkIsMerged'
PROOF
  <1>0. WorkspaceTypeOK
    BY DEF WorkspaceTurns
  <1> DEFINE Kept == head \cup restored.lost \cup crossed
             KeptNow == head' \cup restored'.lost \cup crossed'
  <1>k. \A w \in finished : w[1] \in Isolated => w \in Kept
    BY DEF FinishedWorkIsMerged
  <1>s. ASSUME finished' = finished, head \subseteq head', restored' = restored,
               crossed \subseteq crossed'
        PROVE  FinishedWorkIsMerged'
    BY <1>s DEF FinishedWorkIsMerged
  <1>f. ASSUME NEW w \in Works, finished' \subseteq finished \cup {w},
               Kept \subseteq KeptNow,
               w \in finished' /\ w[1] \in Isolated => w \in Kept \/ w \in KeptNow
        PROVE  FinishedWorkIsMerged'
    <2>1. ASSUME NEW v \in finished', v[1] \in Isolated
          PROVE  v \in KeptNow
      <3>1. CASE v = w
        BY <3>1, <2>1, <1>f
      <3>2. CASE v # w
        <4>1. v \in Kept
          BY <3>2, <2>1, <1>f, <1>k
        <4> QED BY <4>1, <1>f
      <3> QED BY <3>1, <3>2
    <2> QED BY <2>1 DEF FinishedWorkIsMerged
  <1>1. CASE UNCHANGED workspaceVars
    BY <1>1, <1>s DEF workspaceVars
  <1>2. CASE DispatchStep
    <2>1. Repository' = Repository /\ Ghosts' = Ghosts
      BY <1>2
         DEF DispatchStep, ClaimWriter, AllocateWorktree, SnapshotRepository, CannotFork,
             AbandonWorktree, BlockPreparation, SubmitWriter, Repository, Ghosts
    <2> QED BY <2>1, <1>s DEF Repository, Ghosts
  <1>3. ASSUME NEW t \in WorkTasks, RequeueWriter(t)
        PROVE  FinishedWorkIsMerged'
    BY <1>3, <1>s DEF RequeueWriter, Repository, Ghosts
  <1>4. ASSUME NEW w \in Works, NEW result \in {"ok", "failed"}, NEW commits \in BOOLEAN,
               EndContainer(w, result, commits)
        PROVE  FinishedWorkIsMerged'
    BY <1>4, <1>s DEF EndContainer, Ghosts
  <1>5. ASSUME NEW w \in Works, IgnoreCallback(w)
        PROVE  FinishedWorkIsMerged'
    BY <1>5, <1>s DEF IgnoreCallback, Repository, Ghosts
  <1>6. ASSUME NEW w \in Works, DiscardWorktree(w) \/ MergeFails(w)
        PROVE  FinishedWorkIsMerged'
    BY <1>6, <1>s DEF DiscardWorktree, MergeFails, Settle, Cross
  <1>7. ASSUME NEW w \in Works, NEW removed \in BOOLEAN, MergeIsTorn(w, removed)
        PROVE  FinishedWorkIsMerged'
    BY <1>7, <1>s DEF MergeIsTorn
  (* The latest allocation of an isolated task, of the attempt or the next. *)
  <1>l. ASSUME NEW w \in Works, Ingestible(w), w[1] \in Isolated
        PROVE  LET latest == LatestAllocation(w[1])
               IN /\ AllocationsOf(w[1]) # {}
                  /\ AllocationStatus(w[1]) = allocations[latest]
                  /\ latest = w \/ \E v \in AllocationsOf(w[1]) : v[2] > w[2]
    <2>1. w[2] = writers[w[1]].rows /\ w[2] \in Nat /\ Current(w)
      BY <1>l, WorkParts DEF Ingestible, Current
    <2>2. w \in AllocationsOf(w[1])
      BY <2>1, <1>l DEF AllocationsOf, WorkspaceTurns, AllocationsInTurn
    <2> QED BY <2>1, <2>2, LatestOf
  <1>8. ASSUME NEW w \in Works, SettleWithoutWorktree(w)
        PROVE  FinishedWorkIsMerged'
    <2>1. /\ head' = head /\ restored' = restored /\ crossed \subseteq crossed'
          /\ finished' \subseteq finished \cup {w}
          /\ Ingestible(w)
          /\ AllocationStatus(w[1]) \in {"none", "merged", "discarded", "abandoned"}
          /\ (\E v \in AllocationsOf(w[1]) : v[2] > w[2]) => w \in crossed'
          /\ containers[w] = "ok" \/ finished' = finished
      BY <1>8 DEF SettleWithoutWorktree, Settle, Cross
    <2>2. ASSUME w[1] \in Isolated, containers[w] = "ok"
          PROVE  w \in crossed'
      <3>1. CASE LatestAllocation(w[1]) = w
        <4>1. allocations[w] \in {"none", "merged", "discarded", "abandoned"}
          BY <2>1, <2>2, <3>1, <1>l
        <4>2. allocations[w] # "none"
          BY <1>0, <1>l, <2>1, <2>2, <3>1, WorkParts
             DEF WorkspaceTurns, AllocationsInTurn, Ingestible, Current
        <4> QED BY <4>1, <4>2, <2>2 DEF SettledIsGone
      <3>2. CASE LatestAllocation(w[1]) # w
        BY <3>2, <1>l, <2>1, <2>2
      <3> QED BY <3>1, <3>2
    <2>3. w \in finished' /\ w[1] \in Isolated => w \in Kept \/ w \in KeptNow
      BY <2>1, <2>2, <1>k
    <2> QED BY <2>1, <2>3, <1>f
  <1>9. ASSUME NEW w \in Works, MergeWorktree(w)
        PROVE  FinishedWorkIsMerged'
    <2> DEFINE latest == LatestAllocation(w[1])
    <2>1. /\ head' = head \cup MergedWork(latest)
          /\ restored' = restored /\ crossed \subseteq crossed'
          /\ finished' \subseteq finished \cup {w}
          /\ Ingestible(w) /\ containers[w] = "ok" /\ worktrees[latest] # "absent"
          /\ (\E v \in AllocationsOf(w[1]) : v[2] > w[2]) => w \in crossed'
      BY <1>9 DEF MergeWorktree, Settle, Cross, Accepted, MayMerge
    <2>2. ASSUME w[1] \in Isolated
          PROVE  w \in KeptNow
      <3>1. CASE latest = w
        <4>1. worktrees[w] = "worked" \/ worktrees[w] = "clean"
          BY <2>1, <3>1, <1>0 DEF WorkspaceTypeOK
        <4>2. CASE worktrees[w] = "worked"
          BY <2>1, <3>1, <4>2 DEF MergedWork
        <4>3. CASE worktrees[w] = "clean"
          BY <2>1, <2>2, <4>3 DEF SettledIsGone
        <4> QED BY <4>1, <4>2, <4>3
      <3>2. CASE latest # w
        BY <3>2, <1>l, <2>1, <2>2
      <3> QED BY <3>1, <3>2
    <2>3. Kept \subseteq KeptNow
      BY <2>1
    <2> HIDE DEF Kept, KeptNow
    <2> QED BY <2>1, <2>2, <2>3, <1>f
  <1>10. ASSUME NEW w \in Works, RestoreRepository(w)
         PROVE  FinishedWorkIsMerged'
    <2>1. /\ finished' = finished /\ crossed' = crossed
          /\ restored'.lost = restored.lost \cup dirty \cup (head \ head')
      BY <1>10 DEF RestoreRepository
    <2>2. Kept \subseteq KeptNow
      BY <2>1
    <2>3. w \in finished' /\ w[1] \in Isolated => w \in Kept \/ w \in KeptNow
      BY <2>1, <1>k
    <2> QED BY <2>1, <2>2, <2>3, <1>f
  <1>11. ASSUME NEW w \in Works, RestoreWorktree(w)
         PROVE  FinishedWorkIsMerged'
    <2>1. /\ finished' = finished /\ crossed' = crossed /\ head' = head
          /\ restored.lost \subseteq restored'.lost
      BY <1>11 DEF RestoreWorktree, Repository
    <2> QED BY <2>1, <1>k DEF FinishedWorkIsMerged
  <1> QED
    BY <1>1, <1>2, <1>3, <1>4, <1>5, <1>6, <1>7, <1>8, <1>9, <1>10, <1>11
       DEF WorkspaceNext, CallbackStep

LEMMA WorkspaceInvariantStep ==
    WorkspaceInvariant /\ [WorkspaceNext]_workspaceVars => WorkspaceInvariant'
BY WorkspaceTypeStep, DispatchInTurnStep, AllocationsInTurnStep, SettledIsGoneStep,
   MergedIsFinishedStep, FinishedWorkStep DEF WorkspaceInvariant, WorkspaceTurns

(* The work of an isolated attempt that completed its task is in the       *)
(* repository, unless a rollback threw it away or its callback came after  *)
(* the next attempt had been allocated: whatever the order of merges,      *)
(* crashes, retries and rollbacks. *)
THEOREM CompletedWorkIsInRepository == WorkspaceSpec => []FinishedWorkIsMerged
PROOF
  <1>1. WorkspaceInvariant => FinishedWorkIsMerged
    BY DEF WorkspaceInvariant
  <1> QED
    BY <1>1, WorkspaceInvariantInit, WorkspaceInvariantStep, PTL DEF WorkspaceSpec

(* Nothing of an isolated attempt is in the repository unless it completed *)
(* its task or the transaction of its callback failed after the merge.     *)
THEOREM RepositoryHoldsFinishedWork == WorkspaceSpec => []OnlyFinishedWorkIsMerged
PROOF
  <1>1. WorkspaceInvariant => OnlyFinishedWorkIsMerged
    BY DEF WorkspaceInvariant, MergedIsFinished, Commits, OnlyFinishedWorkIsMerged
  <1> QED
    BY <1>1, WorkspaceInvariantInit, WorkspaceInvariantStep, PTL DEF WorkspaceSpec

=============================================================================
