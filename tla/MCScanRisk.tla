---------------------------- MODULE MCScanRisk ------------------------------
(* Model-checking instances of ScanRisk.                                   *)
EXTENDS ScanRisk, TLC
CONSTANTS i1, i2

(* Both underlyings in one cluster, or each in its own. *)
MCClusterings == {[u \in Underlyings |-> "c1"],
                  [u \in Underlyings |-> IF u = "u1" THEN "c1" ELSE "c2"]}

IssuerSymmetry == Permutations(Issuers)

(* A shadow pick reserves nothing, and once admitted no step but its own   *)
(* label depends on it: states that differ in shadow picks only have the   *)
(* same budgets, and the same use, in all that follows.                    *)
BudgetView == <<positions, Reserved, phase, todo, clusterOf, passed, acc, current,
                covered, healthy, running, ReservedOf(new), ReservedOf(orphans),
                batches>>
=============================================================================
