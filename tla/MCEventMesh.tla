----------------------------- MODULE MCEventMesh -----------------------------
(* Two instruments, two positions; prices 2, 3 and 5 percent apart, so that *)
(* a move may wake both kinds of agent, a position's only, or none.         *)
EXTENDS EventMesh

MCTopics == {"OBSERVATION", "NEWS"}
MCScopes == {1, 2}
MCPositions == {3, 4}
MCPrices == {95, 97, 100}
=============================================================================
