---------------------------- MODULE RuntimeClaims ----------------------------
(***************************************************************************)
(* What the design documents under docs/superpowers/specs say of the       *)
(* runtime and the code of src/v2 does not do.                             *)
(***************************************************************************)
EXTENDS SouthstarRuntime

(* 2026-06-23-southstar-api-completeness-for-runtime-control-plane-design: *)
(* a paused run gets no new hand.  A pass that began before the pause does *)
(* not look at the run's status again.                                     *)
PausedRunGetsNoHand ==
    [][runStatus = "paused" =>
          \A h \in Hands : HandExists(h)' => HandExists(h)]_vars

(* 2026-06-20-southstar-tork-hand-provider-runtime-design, section 11.4: a *)
(* callback of a superseded or lost attempt is recorded as a late          *)
(* observation and does not overwrite the task.  The code tells a late     *)
(* callback from the task's status, and a stale one from a newer row.      *)
Ingests(r) == ingest[r].pc = "ingest" /\ ingest'[r].pc # "ingest"

LateCallbackKeepsTask ==
    [][\A r \in Requests :
          /\ Ingests(r)
          /\ handStatus[ingest[r].cb.hand] \in {"superseded", "lost"}
          => UNCHANGED <<taskStatus, accepted>>]_vars

(* 2026-06-21-southstar-recovery-decision-apply-engine-design, 7.3: a      *)
(* decision about an attempt that a newer one has superseded becomes       *)
(* superseded.  The one transaction of a retry or a reprovision does not   *)
(* compare the attempt it names with the newest one, and puts the task of  *)
(* the newer attempt back to pending.                                      *)
StaleDecisionIsNotApplied ==
    [][\A d \in Decisions :
          /\ DecPath(d) \in {"retry-same-task-new-attempt", "reprovision-hand"}
          /\ NamesHand(d)
          /\ decisions[d] = "applying"
          /\ decisions'[d] = "applied"
          => ~ StaleAttempt(DecHand(d))]_vars

(* The same document, goal 8: a terminal job without a callback forms a    *)
(* recovery chain.  The observer settles the row in one commit and records *)
(* the exception in a later one, and after a crash between them it never   *)
(* looks at the row again.                                                 *)
TerminalJobFormsRecoveryChain == NoStrandedTask

=============================================================================
