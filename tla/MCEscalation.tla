---------------------------- MODULE MCEscalation ----------------------------
(***************************************************************************)
(* Two callers, two agents, two flows: Budget + Callers requests are one   *)
(* more than the bound on the overspend allows in a window.                *)
(***************************************************************************)
EXTENDS Escalation, TLC

NameSymmetry ==
    Permutations(Callers) \cup Permutations(Flows) \cup Permutations(Agents)
=============================================================================
