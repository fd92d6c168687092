--------------------------- MODULE MCResourceLock ---------------------------
(* Instance of ResourceLock: two resources, requests for one or both.      *)
EXTENDS ResourceLock, TLC

MCResources == {1, 2}

MCCapacity == <<2, 1>>

MCRequests == {<<1, 0>>, <<2, 0>>, <<1, 1>>}

Symmetry == Permutations(Flows)

=============================================================================
