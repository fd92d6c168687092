-------------------------- MODULE MCContractRules ---------------------------
(***************************************************************************)
(* One agent that registers with contracts of every shape: two keys of the *)
(* limits are on one field, and the rules a contract states itself meet    *)
(* those compiled from its clauses by id, by field, and for one policy     *)
(* kind only; some of them have gaps in their envelope.                    *)
(***************************************************************************)
EXTENDS ContractRules

MCFieldOf == [k \in {"max_order_size", "max_order_size_usd", "max_premium_usd"} |->
                 IF k = "max_premium_usd" THEN "premium" ELSE "order_value"]

(* For policy kind 1 only, amendable between 1 and 4.                      *)
Scoped == [Bare EXCEPT !.id = "OWN_ORDER", !.type = "range", !.field = "order_value",
                       !.lo = 1, !.hi = 3, !.kinds = {1},
                       !.amendable = TRUE, !.floor = 1, !.ceiling = 4]

(* Its id is that of a clause.                                             *)
Named == [Bare EXCEPT !.id = "INV_INSTRUMENT_SCOPE", !.field = "policy_kind", !.allowed = {1, 2},
                      !.amendable = TRUE]

(* Rules whose envelope has a gap: no ceiling, a max beyond the ceiling,   *)
(* and a drift, for which there is none.                                   *)
OpenEnded == [Bare EXCEPT !.id = "OWN_OPEN", !.type = "range", !.field = "order_value",
                          !.lo = 2, !.hi = 2, !.amendable = TRUE, !.floor = 1]
Beyond == [OpenEnded EXCEPT !.id = "OWN_BEYOND", !.hi = 3, !.ceiling = 2]
Drifting == [Bare EXCEPT !.id = "OWN_PRICE", !.type = "state_match",
                         !.field = "reference_price", !.amendable = TRUE]

Limit(k, n) == [key |-> k, max |-> n]

MCContracts ==
    [shape : {"authority"}, kinds : {{}, {1}}, instruments : {{}, {1}}, industries : {{}, {2}},
     limits : {<<>>, <<Limit("max_order_size", 2), Limit("max_order_size_usd", 1),
                       Limit("max_premium_usd", 1)>>},
     slippage : {None, 0, 50}, confidence : {2},
     explicit : {{}, {Scoped}, {Named}}]
    \cup
    [shape : {"authority"}, kinds : {{1}}, instruments : {{}}, industries : {{}},
     limits : {<<>>, <<Limit("max_order_size", 2)>>}, slippage : {None, 50}, confidence : {2},
     explicit : {{OpenEnded}, {Beyond}, {Drifting}, {OpenEnded, Drifting}}]
    \cup
    [shape : {"flat", "permissions"}, kinds : {{1}}, instruments : {{1}}, industries : {{2}},
     limits : {<<Limit("max_order_size_usd", 1), Limit("max_order_size", 2)>>},
     slippage : {None, 50}, confidence : {2}, explicit : {{}}]

Patches(i, k, l, h, s) ==
    [id |-> i, keys |-> k, lo |-> l, hi |-> h, allowed |-> s, drift |-> 0]

MCAmendments ==
    {Patches(i, {"max"}, None, h, {}) : i \in {"max_order_size", "OWN_ORDER"}, h \in {None, 1, 4}}
    \cup {Patches("OWN_ORDER", {"min", "max"}, l, 4, {}) : l \in {0, 2}}
    \cup {Patches(i, {"max"}, None, h, {}) : i \in {"OWN_OPEN", "OWN_BEYOND"}, h \in {1, 2, 5}}
    \cup {Patches("OWN_OPEN", {"min"}, l, None, {}) : l \in {None, 1}}
    \cup {[Patches("OWN_PRICE", {"drift_envelope_pct"}, None, None, {}) EXCEPT !.drift = d] :
             d \in {0, 50}}
    \cup {Patches("INV_INSTRUMENT_SCOPE", {"allowed"}, None, None, s) : s \in {{}, {2}, {1, 3}}}

MCProposals ==
    {[f \in Fields |->
        CASE f = "policy_kind" -> k
          [] f = "instrument" -> i
          [] f = "industry" -> i
          [] f = "reference_price" -> q
          [] f = "order_value" -> v
          [] f = "premium" -> m
          [] f = "confidence" -> 3 - m] :
        k \in 1 .. 2, i \in {Missing, 1, 2}, q \in {Missing, 2}, v \in {Missing, 0, 2, 3, 5},
        m \in {1, 2}}

MCPrices == {Missing, 0, 2, 3}
=============================================================================
