------------------------- MODULE MCDecisionRuntime --------------------------
(* One flow of one agent: flows share nothing but their agent's row and    *)
(* the crashes, so that a second one adds nothing a property speaks of.    *)
EXTENDS DecisionRuntime, TLC

CONSTANTS a1, f1

OneFlow == f1 :> a1
=============================================================================
