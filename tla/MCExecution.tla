---------------------------- MODULE MCExecution -----------------------------
(* Instance of Execution: one flow of two steps, two callers, two          *)
(* compensators.                                                           *)
EXTENDS Execution, TLC

Symmetry == Permutations(Callers) \cup Permutations(Compensators)
=============================================================================
