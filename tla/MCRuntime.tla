------------------------------ MODULE MCRuntime ------------------------------
(* Instances of SouthstarRuntime for TLC. *)
EXTENDS RuntimeClaims, TLC

CONSTANTS build, test, docs, extra, repo  \* model values: four tasks and a resource key

NoDeps == [t \in Tasks |-> {}]

(* The docs are written about what build produced. *)
DocsAfterBuild == [t \in Tasks |-> IF t = docs THEN {build} ELSE {}]

WholeWorkspace == [t \in Tasks |-> {}]

(* The appliers are interchangeable in a run of safety properties. *)
ApplierSymmetry == Permutations(Appliers)

OneResource == [t \in Tasks |-> {repo}]

(* Bound: one dispatch is cut short, of a writer, and the docs wait then.  *)
OneCutShort ==
    Cardinality(abandoned) <= 1 /\ (abandoned # {} => taskStatus[docs] = "pending")

=============================================================================
