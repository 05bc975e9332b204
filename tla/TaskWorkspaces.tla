---------------------------- MODULE TaskWorkspaces ----------------------------
(***************************************************************************)
(* The Git workspace of a run: the repository its tasks write to, and the  *)
(* worktrees of the tasks that ask for isolation (task-workspace.ts,       *)
(* git-provider.ts, workspace-snapshot.ts).  Files and database cannot be  *)
(* written together: a worktree is merged and removed inside the           *)
(* transaction of a callback, which may fail afterwards.                   *)
(*                                                                         *)
(* A piece of work is the attempt that made it.                            *)
(***************************************************************************)
EXTENDS Integers, FiniteSets

CONSTANTS
    Isolated,      \* tasks whose workspaceMutation asks for a Git worktree
    Direct,        \* tasks that write to the repository itself
    MaxWorkTries,  \* bound: the attempts of each task
    MaxTorn,       \* bound: callbacks whose transaction fails after the merge
    MaxRestores    \* bound: rollbacks of a workspace

ASSUME WorkspaceBounds ==
    /\ {MaxTorn, MaxRestores} \subseteq Nat
    /\ MaxWorkTries \in [Isolated \cup Direct -> Nat]
    /\ Isolated \cap Direct = {}

VARIABLES
    writers,      \* tasks: status and number of hand_execution rows
    dispatching,  \* the task a pass is at, and how far
    containers,   \* what has become of the container of an attempt
    head,         \* work in the commit the repository is at
    dirty,        \* work in the repository that is not committed
    worktrees,    \* worktrees on disk
    allocations,  \* workspace_allocation rows
    snapshots,    \* workspace_snapshot rows of direct tasks: the commit
    finished,     \* ghost: attempts that completed their task
    crossed,      \* ghost: attempts whose callback came after the next allocation
    torn,         \* ghost: work merged by a transaction that failed
    restored      \* ghost: restores so far, and the work they threw away

workspaceVars == <<writers, dispatching, containers, head, dirty, worktrees, allocations,
                   snapshots, finished, crossed, torn, restored>>

WorkTasks == Isolated \cup Direct
Works == UNION {{t} \X (1..MaxWorkTries[t]) : t \in WorkTasks}
NoDispatch == [task |-> "none", pc |-> "idle"]

WorkspaceTypeOK ==
    /\ writers \in [WorkTasks ->
         [status : {"pending", "claimed", "queued", "completed", "failed", "blocked"},
          rows : Nat]]
    /\ dispatching \in {NoDispatch} \cup [task : WorkTasks, pc : {"allocate", "prepare"}]
    /\ containers \in [Works -> {"none", "running", "ok", "failed", "posted"}]
    /\ {head, dirty, finished, crossed, torn} \subseteq SUBSET Works
    /\ worktrees \in [Works -> {"absent", "clean", "worked"}]
    /\ allocations \in [Works ->
         {"none", "allocated", "merged", "discarded", "abandoned", "merge_conflict"}]
    /\ snapshots \in [Works -> [taken : BOOLEAN, commit : SUBSET Works]]
    /\ restored \in [count : 0..MaxRestores, lost : SUBSET Works]

WorkspaceInit ==
    /\ writers = [t \in WorkTasks |-> [status |-> "pending", rows |-> 0]]
    /\ dispatching = NoDispatch
    /\ containers = [w \in Works |-> "none"]
    /\ head = {} /\ dirty = {}
    /\ worktrees = [w \in Works |-> "absent"]
    /\ allocations = [w \in Works |-> "none"]
    /\ snapshots = [w \in Works |-> [taken |-> FALSE, commit |-> {}]]
    /\ finished = {} /\ crossed = {} /\ torn = {}
    /\ restored = [count |-> 0, lost |-> {}]

Repository == <<head, dirty>>
Ghosts == <<finished, crossed, torn, restored>>

-----------------------------------------------------------------------------
(* dispatchTask.  A pass moves a task only if it is still claimed by it.   *)

NextWork(t) == <<t, writers[t].rows + 1>>

MoveClaimed(t, status) ==
    writers' = IF writers[t].status = "claimed"
               THEN [writers EXCEPT ![t].status = status] ELSE writers

ClaimWriter(t) ==
    /\ dispatching = NoDispatch
    /\ writers[t].status = "pending"
    /\ writers[t].rows < MaxWorkTries[t]
    /\ writers' = [writers EXCEPT ![t].status = "claimed"]
    /\ dispatching' = [task |-> t, pc |-> "allocate"]
    /\ UNCHANGED <<containers, Repository, worktrees, allocations, snapshots, Ghosts>>

(* git worktree add refuses a path that exists, and the provider a         *)
(* repository that is not clean.                                           *)
MayFork(w) == dirty = {} /\ worktrees[w] = "absent"

(* prepareTaskWorkspacePg *)
AllocateWorktree ==
    LET w == NextWork(dispatching.task)
    IN /\ dispatching.pc = "allocate"
       /\ dispatching.task \in Isolated
       /\ MayFork(w)
       /\ worktrees' = [worktrees EXCEPT ![w] = "clean"]
       /\ allocations' = [allocations EXCEPT ![w] = "allocated"]
       /\ dispatching' = [dispatching EXCEPT !.pc = "prepare"]
       /\ UNCHANGED <<writers, containers, Repository, snapshots, Ghosts>>

(* captureWorkspaceSnapshotForTaskPg: a dirty repository has no snapshot a *)
(* rollback could use.                                                     *)
SnapshotRepository ==
    LET w == NextWork(dispatching.task)
    IN /\ dispatching.pc = "allocate"
       /\ dispatching.task \in Direct
       /\ snapshots' = [snapshots EXCEPT ![w] = [taken |-> dirty = {}, commit |-> head]]
       /\ dispatching' = [dispatching EXCEPT !.pc = "prepare"]
       /\ UNCHANGED <<writers, containers, Repository, worktrees, allocations, Ghosts>>

CannotFork ==
    LET t == dispatching.task
    IN /\ dispatching.pc = "allocate"
       /\ t \in Isolated
       /\ ~MayFork(NextWork(t))
       /\ MoveClaimed(t, "pending")
       /\ dispatching' = NoDispatch
       /\ UNCHANGED <<containers, Repository, worktrees, allocations, snapshots, Ghosts>>

(* abandonTaskWorkspacePg *)
AbandonWorktree ==
    LET t == dispatching.task
        w == NextWork(t)
    IN /\ dispatching.pc = "prepare"
       /\ worktrees' = [worktrees EXCEPT ![w] = "absent"]
       /\ allocations' = IF t \in Isolated THEN [allocations EXCEPT ![w] = "abandoned"]
                         ELSE allocations
       /\ MoveClaimed(t, "pending")
       /\ dispatching' = NoDispatch
       /\ UNCHANGED <<containers, Repository, snapshots, Ghosts>>

(* The tool policy rejects the task: its worktree is left behind. *)
BlockPreparation ==
    /\ dispatching.pc = "prepare"
    /\ MoveClaimed(dispatching.task, "blocked")
    /\ dispatching' = NoDispatch
    /\ UNCHANGED <<containers, Repository, worktrees, allocations, snapshots, Ghosts>>

(* The hand_execution row and the submission; the provider may answer an   *)
(* error although Tork runs the job.                                       *)
SubmitWriter(status, job) ==
    LET t == dispatching.task
    IN /\ dispatching.pc = "prepare"
       /\ writers' = [writers EXCEPT ![t] =
            [rows |-> @.rows + 1, status |-> IF @.status = "claimed" THEN status ELSE @.status]]
       /\ containers' = [containers EXCEPT ![NextWork(t)] = job]
       /\ dispatching' = NoDispatch
       /\ UNCHANGED <<Repository, worktrees, allocations, snapshots, Ghosts>>

DispatchStep ==
    \/ \E t \in WorkTasks : ClaimWriter(t)
    \/ AllocateWorktree
    \/ SnapshotRepository
    \/ CannotFork
    \/ AbandonWorktree
    \/ BlockPreparation
    \/ SubmitWriter("queued", "running")
    \/ \E job \in {"none", "running"} : SubmitWriter("failed", job)

-----------------------------------------------------------------------------
(* The container ends with a result; the agent in it may have committed    *)
(* its work.  Bound: one whose worktree is gone fails.                     *)
EndContainer(w, result, commits) ==
    /\ containers[w] = "running"
    /\ w[1] \in Isolated /\ worktrees[w] = "absent" => result = "failed"
    /\ containers' = [containers EXCEPT ![w] = result]
    /\ worktrees' = IF worktrees[w] = "clean" THEN [worktrees EXCEPT ![w] = "worked"]
                    ELSE worktrees
    /\ head' = IF w[1] \in Direct /\ commits THEN head \cup {w} ELSE head
    /\ dirty' = IF w[1] \in Direct /\ ~commits THEN dirty \cup {w} ELSE dirty
    /\ UNCHANGED <<writers, dispatching, allocations, snapshots, Ghosts>>

(* Recovery makes a task pending whose attempt is given up, or was retried *)
(* by an operator, and which may have been claimed again meanwhile;        *)
(* worktrees stay as they are.                                             *)
RequeueWriter(t) ==
    /\ writers[t].status \notin {"pending", "completed"}
    /\ writers' = [writers EXCEPT ![t].status = "pending"]
    /\ UNCHANGED <<dispatching, containers, Repository, worktrees, allocations, snapshots, Ghosts>>

-----------------------------------------------------------------------------
(* The callback of an attempt, ingested unless its task has ended or a     *)
(* newer attempt has its row.                                              *)

Ended(w) == containers[w] \in {"ok", "failed"}

Current(w) ==
    /\ writers[w[1]].status \notin {"completed", "failed", "blocked"}
    /\ w[2] = writers[w[1]].rows

IgnoreCallback(w) ==
    /\ Ended(w) /\ ~Current(w)
    /\ containers' = [containers EXCEPT ![w] = "posted"]
    /\ UNCHANGED <<writers, dispatching, Repository, worktrees, allocations, snapshots, Ghosts>>

AllocationsOf(t) == {w \in Works : w[1] = t /\ allocations[w] # "none"}

(* Mutant: the allocations are sorted the other way. *)
OldestAllocation(t) ==
    CHOOSE w \in AllocationsOf(t) : \A v \in AllocationsOf(t) : w[2] <= v[2]

(* latestWorkspaceAllocation: the task's, whatever attempt called back. *)
LatestAllocation(t) ==
    CHOOSE w \in AllocationsOf(t) : \A v \in AllocationsOf(t) : w[2] >= v[2]

AllocationStatus(t) ==
    IF AllocationsOf(t) = {} THEN "none" ELSE allocations[LatestAllocation(t)]

(* Mutant: what a rejected attempt left is merged, too. *)
AnyVerdict(w) == Ended(w)

Accepted(w) == containers[w] = "ok"

Ingestible(w) == Ended(w) /\ Current(w)

(* mergeGitWorktree; it also fails when the changes conflict. *)
MayMerge(w) == dirty = {} /\ worktrees[w] # "absent"

MergedWork(w) == IF worktrees[w] = "worked" THEN {w} ELSE {}

Settle(w, status) ==
    /\ writers' = [writers EXCEPT ![w[1]].status = status]
    /\ containers' = [containers EXCEPT ![w] = "posted"]
    /\ finished' = IF status = "completed" THEN finished \cup {w} ELSE finished
    /\ UNCHANGED <<dispatching, dirty, snapshots, torn, restored>>

Cross(w) ==
    crossed' = IF \E v \in AllocationsOf(w[1]) : v[2] > w[2] THEN crossed \cup {w}
               ELSE crossed

(* finalizeTaskWorkspacePg, one action for each of its outcomes. *)
SettleWithoutWorktree(w) ==
    /\ Ingestible(w)
    /\ AllocationStatus(w[1]) \in {"none", "merged", "discarded", "abandoned"}
    /\ Settle(w, IF containers[w] = "ok" THEN "completed" ELSE "failed")
    /\ Cross(w)
    /\ UNCHANGED <<head, worktrees, allocations>>

DiscardWorktree(w) ==
    LET latest == LatestAllocation(w[1])
    IN /\ Ingestible(w) /\ AllocationStatus(w[1]) = "allocated"
       /\ ~Accepted(w)
       /\ worktrees' = [worktrees EXCEPT ![latest] = "absent"]
       /\ allocations' = [allocations EXCEPT ![latest] = "discarded"]
       /\ Settle(w, "failed")
       /\ Cross(w)
       /\ UNCHANGED head

MergeWorktree(w) ==
    LET latest == LatestAllocation(w[1])
    IN /\ Ingestible(w) /\ AllocationStatus(w[1]) = "allocated"
       /\ Accepted(w) /\ MayMerge(latest)
       /\ head' = head \cup MergedWork(latest)
       /\ worktrees' = [worktrees EXCEPT ![latest] = "absent"]
       /\ allocations' = [allocations EXCEPT ![latest] = "merged"]
       /\ Settle(w, IF containers[w] = "ok" THEN "completed" ELSE "failed")
       /\ Cross(w)

(* The worktree is kept for an operator. *)
MergeFails(w) ==
    LET latest == LatestAllocation(w[1])
    IN /\ Ingestible(w)
       /\ \/ AllocationStatus(w[1]) = "allocated" /\ Accepted(w)
          \/ AllocationStatus(w[1]) = "merge_conflict"
       /\ allocations' = [allocations EXCEPT ![latest] = "merge_conflict"]
       /\ Settle(w, "blocked")
       /\ Cross(w)
       /\ UNCHANGED <<head, worktrees>>

(* The transaction fails after the merge, before or after the worktree was *)
(* removed: the callback can be posted again.                              *)
MergeIsTorn(w, removed) ==
    LET latest == LatestAllocation(w[1])
    IN /\ Ingestible(w) /\ AllocationStatus(w[1]) = "allocated"
       /\ Accepted(w) /\ MayMerge(latest)
       /\ MergedWork(latest) # {} /\ Cardinality(torn) < MaxTorn
       /\ head' = head \cup MergedWork(latest)
       /\ torn' = torn \cup MergedWork(latest)
       /\ worktrees' = IF removed THEN [worktrees EXCEPT ![latest] = "absent"] ELSE worktrees
       /\ UNCHANGED <<writers, dispatching, containers, dirty, allocations, snapshots,
                      finished, crossed, restored>>

CallbackStep(w) ==
    \/ IgnoreCallback(w)
    \/ SettleWithoutWorktree(w)
    \/ DiscardWorktree(w)
    \/ MergeWorktree(w)
    \/ MergeFails(w)
    \/ \E removed \in BOOLEAN : MergeIsTorn(w, removed)

-----------------------------------------------------------------------------
(* restoreWorkspaceSnapshotPg, when an approved rollback of the task is    *)
(* applied: git reset --hard and git clean.  The snapshot of an isolated   *)
(* attempt is of its worktree.                                             *)

MayRestore(w) ==
    /\ restored.count < MaxRestores
    /\ writers[w[1]].status # "completed"

RestoreRepository(w) ==
    /\ MayRestore(w)
    /\ snapshots[w].taken
    /\ head' = snapshots[w].commit
    /\ dirty' = {}
    /\ restored' = [count |-> restored.count + 1,
                    lost |-> restored.lost \cup dirty \cup (head \ snapshots[w].commit)]
    /\ writers' = [writers EXCEPT ![w[1]].status = "pending"]
    /\ UNCHANGED <<dispatching, containers, worktrees, allocations, snapshots,
                   finished, crossed, torn>>

RestoreWorktree(w) ==
    /\ MayRestore(w)
    /\ worktrees[w] # "absent"
    /\ worktrees' = [worktrees EXCEPT ![w] = "clean"]
    /\ restored' = [count |-> restored.count + 1, lost |-> restored.lost \cup MergedWork(w)]
    /\ writers' = [writers EXCEPT ![w[1]].status = "pending"]
    /\ UNCHANGED <<dispatching, containers, Repository, allocations, snapshots,
                   finished, crossed, torn>>

WorkspaceNext ==
    \/ DispatchStep
    \/ \E t \in WorkTasks : RequeueWriter(t)
    \/ \E w \in Works :
         \/ \E result \in {"ok", "failed"}, commits \in BOOLEAN : EndContainer(w, result, commits)
         \/ CallbackStep(w)
         \/ RestoreRepository(w)
         \/ RestoreWorktree(w)

WorkspaceSpec == WorkspaceInit /\ [][WorkspaceNext]_workspaceVars

-----------------------------------------------------------------------------

(* The work of an isolated attempt that completed its task is in the       *)
(* repository, through merges of other tasks, attempts given up with their *)
(* worktrees, and failed transactions.  Not so if a rollback of any task   *)
(* threw it away, or if its callback settled the worktree of the next      *)
(* attempt, which had been prepared but had no row yet.                    *)
FinishedWorkIsMerged ==
    \A w \in finished : w[1] \in Isolated => w \in head \cup restored.lost \cup crossed

(* No work of an isolated attempt is in the repository but that of the     *)
(* attempt that completed the task: nothing of an attempt that was         *)
(* rejected, given up, or ignored as stale or late; unless a transaction   *)
(* failed after its merge, which nothing takes back.                       *)
OnlyFinishedWorkIsMerged ==
    \A w \in head : w[1] \in Isolated => w \in finished \cup torn

=============================================================================
