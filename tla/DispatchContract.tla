-------------------------- MODULE DispatchContract --------------------------
(***************************************************************************)
(* What the runtime promises about attempts and artifacts, whatever its    *)
(* loops, requests, retries and crashes do: the attempts of a task are     *)
(* numbered without gaps and issued only when the artifacts it depends on  *)
(* are accepted; an attempt ends once; and an artifact is accepted only    *)
(* from the newest attempt, which has then ended.                          *)
(***************************************************************************)
EXTENDS Naturals

CONSTANTS Tasks, Deps, Attempts

VARIABLES
    issued,   \* the attempts that have a hand_execution row
    ended,    \* those of them that are settled for good
    accepted  \* the tasks with an accepted artifact

contractVars == <<issued, ended, accepted>>

Newest(t, n) == \A m \in Attempts : <<t, m>> \in issued => m <= n

ContractInit ==
    /\ issued = {}
    /\ ended = {}
    /\ accepted = {}

Issue(t, n) ==
    /\ Deps[t] \subseteq accepted
    /\ \A m \in Attempts : <<t, m>> \in issued <=> m < n
    /\ issued' = issued \cup {<<t, n>>}
    /\ UNCHANGED <<ended, accepted>>

End(t, n) ==
    /\ <<t, n>> \in issued
    /\ ended' = ended \cup {<<t, n>>}
    /\ UNCHANGED <<issued, accepted>>

Accept(t, n) ==
    /\ <<t, n>> \in issued
    /\ Newest(t, n)
    /\ accepted' = accepted \cup {t}
    /\ ended' = ended \cup {<<t, n>>}
    /\ UNCHANGED issued

ContractNext ==
    \E t \in Tasks, n \in Attempts : Issue(t, n) \/ End(t, n) \/ Accept(t, n)

ContractSpec == ContractInit /\ [][ContractNext]_contractVars

=============================================================================
