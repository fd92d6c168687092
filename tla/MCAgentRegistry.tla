-------------------------- MODULE MCAgentRegistry ---------------------------
(* Instance of AgentRegistry: one agent with three contracts, two operators. *)
EXTENDS AgentRegistry, TLC

MCContracts ==
    {[max |-> 1, ceiling |-> 2, amendable |-> TRUE],
     [max |-> 1, ceiling |-> 1, amendable |-> TRUE],
     [max |-> 2, ceiling |-> 2, amendable |-> FALSE]}

OperatorSymmetry == Permutations(Operators)
=============================================================================
