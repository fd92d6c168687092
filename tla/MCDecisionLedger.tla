-------------------------- MODULE MCDecisionLedger --------------------------
(* An instance of DecisionLedger: one flow, verified by two kernels.       *)
EXTENDS DecisionLedger, TLC

CONSTANTS a1, f1, k1, k2, u1, u2, v1, v2

OneAgent == f1 :> a1

Symmetry == Permutations({k1, k2}) \cup Permutations({u1, u2}) \cup Permutations({v1, v2})
=============================================================================
