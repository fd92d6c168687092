------------------------ MODULE ContractRules_proofs -------------------------
(***************************************************************************)
(* Proofs about ContractRules, for every set of contracts, amendments and  *)
(* proposals.  The rules a contract is compiled to are rules with distinct *)
(* ids (RulesTyped, IdsUnique), so every amendment of the row was valid    *)
(* for the one rule it names (Validated): that is the inductive invariant. *)
(***************************************************************************)
EXTENDS ContractRules, WellFoundedInduction, TLAPS

Ids == ClauseIds \cup DOMAIN FieldOf \cup OwnIds

KindRule(k) == [Bare EXCEPT !.id = "INV_ALLOWED_POLICY_TYPES", !.allowed = k]
InstrumentRule(s) ==
    [Bare EXCEPT !.id = "INV_INSTRUMENT_SCOPE", !.field = "instrument", !.allowed = s]
IndustryRule(s) ==
    [Bare EXCEPT !.id = "INV_PROHIBITED_INDUSTRIES", !.field = "industry", !.denied = s]
LimitRule(l) ==
    [Bare EXCEPT !.id = l.key, !.type = "range", !.field = FieldOf[l.key],
                 !.hi = l.max, !.amendable = TRUE, !.floor = 0, !.ceiling = l.max]
SlippageRule(s) ==
    [Bare EXCEPT !.id = "INV_PRICE_SLIPPAGE", !.type = "state_match",
                 !.field = "reference_price", !.drift = s]

(* What the rules compiled from each clause are, one by one.               *)
LEMMA Members ==
    ASSUME NEW r
    PROVE  /\ \A k : r \in KindRules(k) <=> k # {} /\ r = KindRule(k)
           /\ \A s : r \in InstrumentRules(s) <=> s # {} /\ r = InstrumentRule(s)
           /\ \A s : r \in IndustryRules(s) <=> s # {} /\ r = IndustryRule(s)
           /\ \A s : r \in SlippageRules(s) <=> s # None /\ r = SlippageRule(s)
<1> HIDE DEF None
<1>1. \A k : r \in KindRules(k) <=> k # {} /\ r = KindRule(k)
  BY Zenon DEF KindRules, KindRule
<1>2. \A s : r \in InstrumentRules(s) <=> s # {} /\ r = InstrumentRule(s)
  BY Zenon DEF InstrumentRules, InstrumentRule
<1>3. \A s : r \in IndustryRules(s) <=> s # {} /\ r = IndustryRule(s)
  BY Zenon DEF IndustryRules, IndustryRule
<1>4. \A s : r \in SlippageRules(s) <=> s # None /\ r = SlippageRule(s)
  BY Zenon DEF SlippageRules, SlippageRule
<1> QED
  BY <1>1, <1>2, <1>3, <1>4, Zenon

LEMMA LimitMembers ==
    ASSUME NEW ls, NEW r
    PROVE  r \in LimitRules(ls) <=>
             \E i \in DOMAIN ls : FirstOfField(ls, i) /\ r = LimitRule(ls[i])
  BY Zenon DEF LimitRules, LimitRule

(* A rule stays one when a field of it is set.                             *)
LEMMA Updates ==
    ASSUME NEW r \in Rule
    PROVE  /\ \A x \in Ids : [r EXCEPT !.id = x] \in Rule
           /\ \A x \in {"range", "set", "state_match"} : [r EXCEPT !.type = x] \in Rule
           /\ \A x \in Fields : [r EXCEPT !.field = x] \in Rule
           /\ \A x \in Bound : /\ [r EXCEPT !.lo = x] \in Rule
                               /\ [r EXCEPT !.hi = x] \in Rule
                               /\ [r EXCEPT !.floor = x] \in Rule
                               /\ [r EXCEPT !.ceiling = x] \in Rule
           /\ \A x \in SUBSET Nat : /\ [r EXCEPT !.allowed = x] \in Rule
                                    /\ [r EXCEPT !.denied = x] \in Rule
           /\ \A x \in Nat : [r EXCEPT !.drift = x] \in Rule
           /\ \A x \in BOOLEAN : [r EXCEPT !.amendable = x] \in Rule
<1>1. \A x \in Ids : [r EXCEPT !.id = x] \in Rule
  BY SMT DEF Rule, Ids
<1>2. \A x \in {"range", "set", "state_match"} : [r EXCEPT !.type = x] \in Rule
  BY SMT DEF Rule, Ids
<1>3. \A x \in Fields : [r EXCEPT !.field = x] \in Rule
  BY SMT DEF Rule, Ids
<1>4. \A x \in Bound : [r EXCEPT !.lo = x] \in Rule
  BY SMT DEF Rule, Ids
<1>5. \A x \in Bound : [r EXCEPT !.hi = x] \in Rule
  BY SMT DEF Rule, Ids
<1>6. \A x \in Bound : [r EXCEPT !.floor = x] \in Rule
  BY SMT DEF Rule, Ids
<1>7. \A x \in Bound : [r EXCEPT !.ceiling = x] \in Rule
  BY SMT DEF Rule, Ids
<1>8. \A x \in SUBSET Nat : [r EXCEPT !.allowed = x] \in Rule
  BY SMT DEF Rule, Ids
<1>9. \A x \in SUBSET Nat : [r EXCEPT !.denied = x] \in Rule
  BY SMT DEF Rule, Ids
<1>10. \A x \in Nat : [r EXCEPT !.drift = x] \in Rule
  BY SMT DEF Rule, Ids
<1>11. \A x \in BOOLEAN : [r EXCEPT !.amendable = x] \in Rule
  BY SMT DEF Rule, Ids
<1> QED
  BY <1>1, <1>2, <1>3, <1>4, <1>5, <1>6, <1>7, <1>8, <1>9, <1>10, <1>11

LEMMA RuleOf ==
    ASSUME NEW i \in Ids, NEW t \in {"range", "set", "state_match"}, NEW f \in Fields,
           NEW b \in Bound, NEW s \in SUBSET Nat, NEW n \in Nat, NEW a \in BOOLEAN
    PROVE  [id |-> i, type |-> t, field |-> f, lo |-> b, hi |-> b, allowed |-> s, denied |-> s,
            drift |-> n, kinds |-> s, amendable |-> a, floor |-> b, ceiling |-> b] \in Rule
  BY SMT DEF Rule, Ids

LEMMA BareRule == Bare \in Rule
<1>1. "policy_kind" \in Fields
  BY DEF Fields
<1>2. None \in Bound
  BY DEF Bound
<1>3. {} \in SUBSET Nat
  OBVIOUS
<1>4. 0 \in Nat
  OBVIOUS
<1>5. "INV_ALLOWED_POLICY_TYPES" \in Ids
  BY DEF Ids, ClauseIds
<1>6. "set" \in {"range", "set", "state_match"}
  BY Zenon
<1>7. FALSE \in BOOLEAN
  BY Zenon
<1> QED
  BY <1>1, <1>2, <1>3, <1>4, <1>5, <1>6, <1>7, RuleOf, Zenon DEF Bare

(* The fields of the compiled rules that tell them apart, and those a      *)
(* verdict is on.                                                          *)
LEMMA MadeKind ==
    ASSUME NEW x \in SUBSET Nat
    PROVE  /\ KindRule(x) \in Rule
           /\ KindRule(x).id = "INV_ALLOWED_POLICY_TYPES"
           /\ KindRule(x).type = "set"
           /\ KindRule(x).field = "policy_kind"
           /\ KindRule(x).kinds = {}
           /\ KindRule(x).allowed = x
           /\ KindRule(x).denied = {}
<1> DEFINE r1 == [Bare EXCEPT !.id = "INV_ALLOWED_POLICY_TYPES"]
<1> DEFINE r2 == [r1 EXCEPT !.allowed = x]
<1>1. r1 \in Rule
  <2>1. "INV_ALLOWED_POLICY_TYPES" \in Ids
    BY DEF Ids, ClauseIds
  <2> QED
    BY <2>1, BareRule, Updates, Zenon
<1>2. r2 \in Rule
  <2>1. x \in SUBSET Nat
    OBVIOUS
  <2> HIDE DEF r1
  <2> QED
    BY <2>1, <1>1, Updates, Zenon
<1>3. KindRule(x) = r2
  BY Zenon DEF KindRule
<1>4. r2.id = "INV_ALLOWED_POLICY_TYPES"
  BY SMT DEF Bare
<1>5. r2.type = "set"
  BY SMT DEF Bare
<1>6. r2.field = "policy_kind"
  BY SMT DEF Bare
<1>7. r2.kinds = {}
  BY SMT DEF Bare
<1>8. r2.allowed = x
  BY SMT DEF Bare
<1>9. r2.denied = {}
  BY SMT DEF Bare
<1> HIDE DEF r2
<1> QED
  BY <1>2, <1>3, <1>4, <1>5, <1>6, <1>7, <1>8, <1>9

LEMMA MadeInstrument ==
    ASSUME NEW x \in SUBSET Nat
    PROVE  /\ InstrumentRule(x) \in Rule
           /\ InstrumentRule(x).id = "INV_INSTRUMENT_SCOPE"
           /\ InstrumentRule(x).type = "set"
           /\ InstrumentRule(x).field = "instrument"
           /\ InstrumentRule(x).kinds = {}
           /\ InstrumentRule(x).allowed = x
           /\ InstrumentRule(x).denied = {}
<1> DEFINE r1 == [Bare EXCEPT !.id = "INV_INSTRUMENT_SCOPE"]
<1> DEFINE r2 == [r1 EXCEPT !.field = "instrument"]
<1> DEFINE r3 == [r2 EXCEPT !.allowed = x]
<1>1. r1 \in Rule
  <2>1. "INV_INSTRUMENT_SCOPE" \in Ids
    BY DEF Ids, ClauseIds
  <2> QED
    BY <2>1, BareRule, Updates, Zenon
<1>2. r2 \in Rule
  <2>1. "instrument" \in Fields
    BY DEF Fields
  <2> HIDE DEF r1
  <2> QED
    BY <2>1, <1>1, Updates, Zenon
<1>3. r3 \in Rule
  <2>1. x \in SUBSET Nat
    OBVIOUS
  <2> HIDE DEF r2
  <2> QED
    BY <2>1, <1>2, Updates, Zenon
<1>4. InstrumentRule(x) = r3
  BY Zenon DEF InstrumentRule
<1>5. r3.id = "INV_INSTRUMENT_SCOPE"
  BY SMT DEF Bare
<1>6. r3.type = "set"
  BY SMT DEF Bare
<1>7. r3.field = "instrument"
  BY SMT DEF Bare
<1>8. r3.kinds = {}
  BY SMT DEF Bare
<1>9. r3.allowed = x
  BY SMT DEF Bare
<1>10. r3.denied = {}
  BY SMT DEF Bare
<1> HIDE DEF r3
<1> QED
  BY <1>3, <1>4, <1>5, <1>6, <1>7, <1>8, <1>9, <1>10

LEMMA MadeIndustry ==
    ASSUME NEW x \in SUBSET Nat
    PROVE  /\ IndustryRule(x) \in Rule
           /\ IndustryRule(x).id = "INV_PROHIBITED_INDUSTRIES"
           /\ IndustryRule(x).type = "set"
           /\ IndustryRule(x).field = "industry"
           /\ IndustryRule(x).kinds = {}
           /\ IndustryRule(x).allowed = {}
           /\ IndustryRule(x).denied = x
<1> DEFINE r1 == [Bare EXCEPT !.id = "INV_PROHIBITED_INDUSTRIES"]
<1> DEFINE r2 == [r1 EXCEPT !.field = "industry"]
<1> DEFINE r3 == [r2 EXCEPT !.denied = x]
<1>1. r1 \in Rule
  <2>1. "INV_PROHIBITED_INDUSTRIES" \in Ids
    BY DEF Ids, ClauseIds
  <2> QED
    BY <2>1, BareRule, Updates, Zenon
<1>2. r2 \in Rule
  <2>1. "industry" \in Fields
    BY DEF Fields
  <2> HIDE DEF r1
  <2> QED
    BY <2>1, <1>1, Updates, Zenon
<1>3. r3 \in Rule
  <2>1. x \in SUBSET Nat
    OBVIOUS
  <2> HIDE DEF r2
  <2> QED
    BY <2>1, <1>2, Updates, Zenon
<1>4. IndustryRule(x) = r3
  BY Zenon DEF IndustryRule
<1>5. r3.id = "INV_PROHIBITED_INDUSTRIES"
  BY SMT DEF Bare
<1>6. r3.type = "set"
  BY SMT DEF Bare
<1>7. r3.field = "industry"
  BY SMT DEF Bare
<1>8. r3.kinds = {}
  BY SMT DEF Bare
<1>9. r3.allowed = {}
  BY SMT DEF Bare
<1>10. r3.denied = x
  BY SMT DEF Bare
<1> HIDE DEF r3
<1> QED
  BY <1>3, <1>4, <1>5, <1>6, <1>7, <1>8, <1>9, <1>10

LEMMA MadeSlippage ==
    ASSUME NEW x \in Nat
    PROVE  /\ SlippageRule(x) \in Rule
           /\ SlippageRule(x).id = "INV_PRICE_SLIPPAGE"
           /\ SlippageRule(x).type = "state_match"
           /\ SlippageRule(x).field = "reference_price"
           /\ SlippageRule(x).kinds = {}
           /\ SlippageRule(x).drift = x
<1> DEFINE r1 == [Bare EXCEPT !.id = "INV_PRICE_SLIPPAGE"]
<1> DEFINE r2 == [r1 EXCEPT !.type = "state_match"]
<1> DEFINE r3 == [r2 EXCEPT !.field = "reference_price"]
<1> DEFINE r4 == [r3 EXCEPT !.drift = x]
<1>1. r1 \in Rule
  <2>1. "INV_PRICE_SLIPPAGE" \in Ids
    BY DEF Ids, ClauseIds
  <2> QED
    BY <2>1, BareRule, Updates, Zenon
<1>2. r2 \in Rule
  <2>1. "state_match" \in {"range", "set", "state_match"}
    BY Zenon
  <2> HIDE DEF r1
  <2> QED
    BY <2>1, <1>1, Updates, Zenon
<1>3. r3 \in Rule
  <2>1. "reference_price" \in Fields
    BY DEF Fields
  <2> HIDE DEF r2
  <2> QED
    BY <2>1, <1>2, Updates, Zenon
<1>4. r4 \in Rule
  <2>1. x \in Nat
    OBVIOUS
  <2> HIDE DEF r3
  <2> QED
    BY <2>1, <1>3, Updates, Zenon
<1>5. SlippageRule(x) = r4
  BY Zenon DEF SlippageRule
<1>6. r4.id = "INV_PRICE_SLIPPAGE"
  BY SMT DEF Bare
<1>7. r4.type = "state_match"
  BY SMT DEF Bare
<1>8. r4.field = "reference_price"
  BY SMT DEF Bare
<1>9. r4.kinds = {}
  BY SMT DEF Bare
<1>10. r4.drift = x
  BY SMT DEF Bare
<1> HIDE DEF r4
<1> QED
  BY <1>4, <1>5, <1>6, <1>7, <1>8, <1>9, <1>10

LEMMA MadeLimit ==
    ASSUME NEW x \in [key : DOMAIN FieldOf, max : Nat]
    PROVE  /\ LimitRule(x) \in Rule
           /\ LimitRule(x).id = x.key
           /\ LimitRule(x).type = "range"
           /\ LimitRule(x).field = FieldOf[x.key]
           /\ LimitRule(x).kinds = {}
           /\ LimitRule(x).lo = None
           /\ LimitRule(x).hi = x.max
<1> DEFINE r1 == [Bare EXCEPT !.id = x.key]
<1> DEFINE r2 == [r1 EXCEPT !.type = "range"]
<1> DEFINE r3 == [r2 EXCEPT !.field = FieldOf[x.key]]
<1> DEFINE r4 == [r3 EXCEPT !.hi = x.max]
<1> DEFINE r5 == [r4 EXCEPT !.amendable = TRUE]
<1> DEFINE r6 == [r5 EXCEPT !.floor = 0]
<1> DEFINE r7 == [r6 EXCEPT !.ceiling = x.max]
<1>1. r1 \in Rule
  <2>1. x.key \in Ids
    BY DEF Ids
  <2> QED
    BY <2>1, BareRule, Updates, Zenon
<1>2. r2 \in Rule
  <2>1. "range" \in {"range", "set", "state_match"}
    BY Zenon
  <2> HIDE DEF r1
  <2> QED
    BY <2>1, <1>1, Updates, Zenon
<1>3. r3 \in Rule
  <2>1. FieldOf[x.key] \in Fields
    BY DEF Fields
  <2> HIDE DEF r2
  <2> QED
    BY <2>1, <1>2, Updates, Zenon
<1>4. r4 \in Rule
  <2>1. x.max \in Bound
    BY DEF Bound
  <2> HIDE DEF r3
  <2> QED
    BY <2>1, <1>3, Updates, Zenon
<1>5. r5 \in Rule
  <2>1. TRUE \in BOOLEAN
    BY Zenon
  <2> HIDE DEF r4
  <2> QED
    BY <2>1, <1>4, Updates, Zenon
<1>6. r6 \in Rule
  <2>1. 0 \in Bound
    BY DEF Bound
  <2> HIDE DEF r5
  <2> QED
    BY <2>1, <1>5, Updates, Zenon
<1>7. r7 \in Rule
  <2>1. x.max \in Bound
    BY DEF Bound
  <2> HIDE DEF r6
  <2> QED
    BY <2>1, <1>6, Updates, Zenon
<1>8. LimitRule(x) = r7
  BY Zenon DEF LimitRule
<1>9. r7.id = x.key
  BY SMT DEF Bare
<1>10. r7.type = "range"
  BY SMT DEF Bare
<1>11. r7.field = FieldOf[x.key]
  BY SMT DEF Bare
<1>12. r7.kinds = {}
  BY SMT DEF Bare
<1>13. r7.lo = None
  BY SMT DEF Bare
<1>14. r7.hi = x.max
  BY SMT DEF Bare
<1> HIDE DEF r7
<1> QED
  BY <1>7, <1>8, <1>9, <1>10, <1>11, <1>12, <1>13, <1>14

LEMMA Elements ==
    ASSUME NEW S, NEW q \in Seq(S)
    PROVE  \A i \in DOMAIN q : q[i] \in S
  OBVIOUS

(* The clauses of a contract are well formed.                              *)
LEMMA Clauses ==
    ASSUME NEW c \in Contracts
    PROVE  /\ c.kinds \in SUBSET Nat /\ c.instruments \in SUBSET Nat
           /\ c.industries \in SUBSET Nat
           /\ c.slippage \in Bound /\ c.explicit \subseteq Rule
           /\ c.shape \in {"authority", "flat", "permissions"}
           /\ c.limits \in Seq([key : DOMAIN FieldOf, max : Nat])
           /\ \A i \in DOMAIN c.limits : c.limits[i] \in [key : DOMAIN FieldOf, max : Nat]
           /\ \A i, j \in DOMAIN c.limits : c.limits[i].key = c.limits[j].key => i = j
           /\ \A r, s \in c.explicit : r.id = s.id => r = s
<1>1. c \in Contract
  BY ContractsAssumption
<1>2. c.limits \in Seq([key : DOMAIN FieldOf, max : Nat])
  BY <1>1 DEF Contract
<1>3. \A i \in DOMAIN c.limits : c.limits[i] \in [key : DOMAIN FieldOf, max : Nat]
  BY <1>2, Elements, Zenon
<1> QED
  BY <1>1, <1>2, <1>3, ContractsAssumption DEF Contract

(* The rules compiled from the clauses of a contract.                      *)
Sugar(c) == KindRules(c.kinds) \cup InstrumentRules(c.instruments)
              \cup LimitRules(c.limits) \cup IndustryRules(c.industries)
              \cup SlippageRules(c.slippage)

(* Compiled rules are rules, and no two of them have the same id.          *)
LEMMA SugarRules ==
    ASSUME NEW c \in Contracts
    PROVE  /\ Sugar(c) \subseteq Rule
           /\ \A r, s \in Sugar(c) : r.id = s.id => r = s
<1> DEFINE Limited(r) == \E i \in DOMAIN c.limits : r = LimitRule(c.limits[i])
           Which(r) ==
             \/ r = KindRule(c.kinds)
             \/ r = InstrumentRule(c.instruments)
             \/ r = IndustryRule(c.industries)
             \/ c.slippage \in Nat /\ r = SlippageRule(c.slippage)
             \/ Limited(r)
<1>1. ASSUME NEW r \in Sugar(c) PROVE Which(r)
  <2>1. c.slippage # None => c.slippage \in Nat
    BY Clauses DEF Bound
  <2>2. \/ r \in KindRules(c.kinds)
        \/ r \in InstrumentRules(c.instruments)
        \/ r \in IndustryRules(c.industries)
        \/ r \in SlippageRules(c.slippage)
        \/ r \in LimitRules(c.limits)
    BY DEF Sugar
  <2>3. r \in KindRules(c.kinds) => r = KindRule(c.kinds)
    BY Members, Zenon
  <2>4. r \in InstrumentRules(c.instruments) => r = InstrumentRule(c.instruments)
    BY Members, Zenon
  <2>5. r \in IndustryRules(c.industries) => r = IndustryRule(c.industries)
    BY Members, Zenon
  <2>6. r \in SlippageRules(c.slippage) => c.slippage # None /\ r = SlippageRule(c.slippage)
    BY Members, Zenon
  <2>7. r \in LimitRules(c.limits) => Limited(r)
    BY LimitMembers, Zenon
  <2> HIDE DEF None, Limited
  <2> QED
    BY <2>1, <2>2, <2>3, <2>4, <2>5, <2>6, <2>7, Zenon
<1>2. ASSUME NEW r, Which(r)
      PROVE  r \in Rule
  BY <1>2, Clauses, MadeKind, MadeInstrument, MadeIndustry, MadeSlippage, MadeLimit
<1>3. /\ KindRule(c.kinds).id = "INV_ALLOWED_POLICY_TYPES"
      /\ InstrumentRule(c.instruments).id = "INV_INSTRUMENT_SCOPE"
      /\ IndustryRule(c.industries).id = "INV_PROHIBITED_INDUSTRIES"
      /\ c.slippage \in Nat => SlippageRule(c.slippage).id = "INV_PRICE_SLIPPAGE"
  BY Clauses, MadeKind, MadeInstrument, MadeIndustry, MadeSlippage
<1>4. \A i \in DOMAIN c.limits :
        /\ LimitRule(c.limits[i]).id = c.limits[i].key
        /\ c.limits[i].key \notin ClauseIds
  <2> SUFFICES ASSUME NEW i \in DOMAIN c.limits
               PROVE  /\ LimitRule(c.limits[i]).id = c.limits[i].key
                      /\ c.limits[i].key \notin ClauseIds
    OBVIOUS
  <2>1. c.limits[i] \in [key : DOMAIN FieldOf, max : Nat]
    BY Clauses
  <2> QED
    BY <2>1, MadeLimit, DataAssumption
<1>5. \A r : Which(r) /\ ~Limited(r) => r.id \in ClauseIds
  BY <1>3 DEF ClauseIds
<1>6. \A r : Limited(r) => r.id \notin ClauseIds
  BY <1>4, Zenon
<1>7. ASSUME NEW r, NEW s, Which(r), Which(s), r.id = s.id PROVE r = s
  <2>1. CASE Limited(r)
    <3>1. Limited(s)
      BY <1>5, <1>6, <1>7, <2>1, Zenon
    <3>2. PICK i \in DOMAIN c.limits : r = LimitRule(c.limits[i])
      BY <2>1
    <3>3. PICK j \in DOMAIN c.limits : s = LimitRule(c.limits[j])
      BY <3>1
    <3>4. c.limits[i].key = c.limits[j].key
      BY <1>4, <1>7, <3>2, <3>3
    <3>5. i = j
      BY <3>4, ContractsAssumption
    <3> QED
      BY <3>2, <3>3, <3>5
  <2>2. CASE ~Limited(r)
    <3>1. ~Limited(s)
      BY <1>5, <1>6, <1>7, <2>2, Zenon
    <3> HIDE DEF Limited
    <3> QED
      BY <1>3, <1>7, <2>2, <3>1
  <2> QED
    BY <2>1, <2>2
<1> HIDE DEF Which
<1> QED
  BY <1>1, <1>2, <1>7

(* The projection of a contract.                                           *)
LEMMA Projection ==
    ASSUME NEW c
    PROVE  /\ c.shape = "authority" =>
                /\ Projected(c).rules = Merge(c.explicit, Sugar(c))
                /\ Projected(c).confidence = c.confidence
           /\ c.shape = "permissions" =>
                /\ Projected(c).rules = LimitRules(c.limits) \cup SlippageRules(c.slippage)
                /\ Projected(c).confidence = None
           /\ c.shape = "flat" =>
                /\ Projected(c).rules = IF c.slippage # None THEN SlippageRules(c.slippage)
                                        ELSE KindRules(c.kinds) \cup LimitRules(c.limits)
                /\ Projected(c).confidence = None
<1>1. ASSUME c.shape = "authority"
      PROVE  /\ Projected(c).rules = Merge(c.explicit, Sugar(c))
             /\ Projected(c).confidence = c.confidence
  BY <1>1 DEF Projected, Sugar
<1>2. ASSUME c.shape = "permissions"
      PROVE  /\ Projected(c).rules = LimitRules(c.limits) \cup SlippageRules(c.slippage)
             /\ Projected(c).confidence = None
  BY <1>2 DEF Projected
<1>3. ASSUME c.shape = "flat"
      PROVE  /\ Projected(c).rules = IF c.slippage # None THEN SlippageRules(c.slippage)
                                     ELSE KindRules(c.kinds) \cup LimitRules(c.limits)
             /\ Projected(c).confidence = None
  BY <1>3 DEF Projected
<1> QED
  BY <1>1, <1>2, <1>3

LEMMA IdsUnique ==
    ASSUME NEW c \in Contracts
    PROVE  /\ Projected(c).rules \subseteq Rule
           /\ \A r, s \in Projected(c).rules : r.id = s.id => r = s
<1>1. c.shape # "authority" => Projected(c).rules \subseteq Sugar(c)
  <2>1. CASE c.shape = "permissions"
    BY <2>1, Projection DEF Sugar
  <2>2. CASE c.shape = "flat"
    BY <2>2, Projection DEF Sugar
  <2> QED
    BY <2>1, <2>2, Clauses
<1>2. CASE c.shape = "authority"
  <2>1. Projected(c).rules = Merge(c.explicit, Sugar(c))
    BY <1>2, Projection
  <2> HIDE DEF Sugar
  <2> QED
    BY <2>1, Clauses, SugarRules DEF Merge, Conflicts
<1>3. CASE c.shape # "authority"
  BY <1>1, <1>3, SugarRules
<1> QED
  BY <1>2, <1>3

-----------------------------------------------------------------------------
(* The inductive invariant                                                 *)

(* Every amendment of the row was valid for a rule of the row.             *)
Validated ==
    \A i \in DOMAIN amendments :
        \E r \in row.rules : r.id = amendments[i].id /\ ValidPatch(r, amendments[i])

IInv == TypeOK /\ Validated

LEMMA InitIInv == Init => IInv
<1> SUFFICES ASSUME Init PROVE IInv
  OBVIOUS
<1>1. amendments = <<>> /\ DOMAIN amendments = {}
  BY DEF Init
<1> QED
  BY <1>1 DEF Init, IInv, TypeOK, Validated

LEMMA NextIInv == IInv /\ [Next]_vars => IInv'
<1> SUFFICES ASSUME IInv, [Next]_vars PROVE IInv'
  OBVIOUS
<1> USE DEF IInv
<1>1. ASSUME NEW c \in Contracts, Handshake(c) PROVE IInv'
  <2>1. amendments' = <<>> /\ DOMAIN amendments' = {}
    BY <1>1 DEF Handshake
  <2> QED
    BY <1>1, <2>1 DEF Handshake, TypeOK, Validated
<1>2. ASSUME NEW a \in Amendments, Amend(a) PROVE IInv'
  <2>1. /\ amendments' = Append(amendments, a)
        /\ authored' = authored /\ row' = row /\ lapsed' = lapsed
    BY <1>2 DEF Amend
  <2>2. /\ amendments' \in Seq(Amendments)
        /\ DOMAIN amendments' = DOMAIN amendments \cup {Len(amendments) + 1}
        /\ \A i \in DOMAIN amendments : amendments'[i] = amendments[i]
        /\ amendments'[Len(amendments) + 1] = a
    BY <2>1 DEF TypeOK
  <2>3. TypeOK'
    BY <2>1, <2>2 DEF TypeOK
  <2>4. PICK r \in row.rules : r.id = a.id /\ ValidPatch(r, a)
    BY <1>2 DEF Amend
  <2>5. ASSUME NEW i \in DOMAIN amendments'
        PROVE  \E q \in row'.rules : q.id = amendments'[i].id /\ ValidPatch(q, amendments'[i])
    <3>1. CASE i \in DOMAIN amendments
      BY <2>1, <2>2, <3>1, Zenon DEF Validated
    <3>2. CASE i = Len(amendments) + 1
      BY <2>1, <2>2, <2>4, <3>2, Zenon
    <3> QED
      BY <2>2, <3>1, <3>2
  <2> QED
    BY <2>3, <2>5, Zenon DEF Validated
<1>3. ASSUME NEW i \in 1 .. MaxAmendments, Lapse(i) PROVE IInv'
  BY <1>3 DEF Lapse, TypeOK, Validated
<1>4. CASE UNCHANGED vars
  BY <1>4 DEF vars, TypeOK, Validated
<1> QED
  BY <1>1, <1>2, <1>3, <1>4 DEF Next

THEOREM Inductive == Spec => []IInv
  BY InitIInv, NextIInv, PTL DEF Spec

(* Type correctness: the row is the projection of the contract last handed *)
(* over, and its amendments are ones an operator made.                     *)
THEOREM TypeCorrect == Spec => []TypeOK
<1>1. IInv => TypeOK
  BY DEF IInv
<1> QED
  BY <1>1, Inductive, PTL

-----------------------------------------------------------------------------
(* Judgement without amendments                                            *)

(* A rule no amendment of which is in force is as it was compiled.         *)
LEMMA Unamended ==
    ASSUME IInv, DOMAIN amendments = lapsed, NEW r \in Rule
    PROVE  Effective(r) = r
<1>1. \A key : ~Amended(r, key)
  BY DEF Amended, LatestOf, Active
<1>2. Effective(r) = [r EXCEPT !.lo = @, !.hi = @, !.allowed = @, !.drift = @]
  BY <1>1, Zenon DEF Effective
<1> QED
  BY <1>2 DEF Rule

Ok(r, p, live) == Applies(r, p) => ~Breaks(r, p, live)

(* Which of the rules compiled from a clause a contract's own rules leave. *)
Left(c, r) == \A q \in c.explicit : ~Conflicts(q, r)

LEMMA LeftRules ==
    ASSUME NEW c, NEW r
    PROVE  Left(c, r) <=> ~Displaced(c, r.id, r.type, r.field)
  BY DEF Left, Displaced, Conflicts

LEMMA ProposalFields ==
    ASSUME NEW p \in Proposals
    PROVE  /\ \A f \in Fields : p[f] \in Value
           /\ {"policy_kind", "instrument", "industry", "reference_price"} \subseteq Fields
           /\ \A l \in [key : DOMAIN FieldOf, max : Nat] : FieldOf[l.key] \in Fields
  BY DataAssumption DEF Fields

(* The verdict on a rule, by its type; one for no kinds is for all.         *)
LEMMA Verdicts ==
    ASSUME NEW r, NEW p, NEW live
    PROVE  /\ r.type = "range" => (Breaks(r, p, live) <=> OutOfRange(r, p[r.field]))
           /\ r.type = "set" => (Breaks(r, p, live) <=> OutOfSet(r, p[r.field]))
           /\ r.type = "state_match" =>
                (Breaks(r, p, live) <=>
                   \/ p[r.field] = Missing
                   \/ live = Missing
                   \/ Drifted(r.drift, p[r.field], live))
           /\ r.kinds = {} => (Ok(r, p, live) <=> ~Breaks(r, p, live))
<1>1. r.type = "range" => (Breaks(r, p, live) <=> OutOfRange(r, p[r.field]))
  BY DEF Breaks
<1>2. r.type = "set" => (Breaks(r, p, live) <=> OutOfSet(r, p[r.field]))
  BY DEF Breaks
<1>3. r.type = "state_match" =>
        (Breaks(r, p, live) <=>
           \/ p[r.field] = Missing
           \/ live = Missing
           \/ Drifted(r.drift, p[r.field], live))
  BY DEF Breaks
<1>4. r.kinds = {} => (Ok(r, p, live) <=> ~Breaks(r, p, live))
  BY DEF Ok, Applies
<1> QED
  BY <1>1, <1>2, <1>3, <1>4, Zenon

(* What each compiled rule lets pass is what its clause says.              *)
LEMMA KindOk ==
    ASSUME NEW k \in SUBSET Nat, k # {}, NEW p \in Proposals, NEW live
    PROVE  Ok(KindRule(k), p, live) <=> p["policy_kind"] \in k
<1>1. p["policy_kind"] \in Value
  BY ProposalFields
<1>2. Ok(KindRule(k), p, live) <=> ~OutOfSet(KindRule(k), p["policy_kind"])
  BY MadeKind, Verdicts
<1>3. OutOfSet(KindRule(k), p["policy_kind"]) <=>
        p["policy_kind"] = Missing \/ p["policy_kind"] \notin k
  BY MadeKind DEF OutOfSet
<1> QED
  BY <1>1, <1>2, <1>3 DEF Missing

LEMMA InstrumentOk ==
    ASSUME NEW k \in SUBSET Nat, k # {}, NEW p \in Proposals, NEW live
    PROVE  Ok(InstrumentRule(k), p, live) <=> p["instrument"] \in k
<1>1. p["instrument"] \in Value
  BY ProposalFields
<1>2. Ok(InstrumentRule(k), p, live) <=> ~OutOfSet(InstrumentRule(k), p["instrument"])
  BY MadeInstrument, Verdicts
<1>3. OutOfSet(InstrumentRule(k), p["instrument"]) <=>
        p["instrument"] = Missing \/ p["instrument"] \notin k
  BY MadeInstrument DEF OutOfSet
<1> QED
  BY <1>1, <1>2, <1>3 DEF Missing

LEMMA IndustryOk ==
    ASSUME NEW k \in SUBSET Nat, NEW p \in Proposals, NEW live
    PROVE  Ok(IndustryRule(k), p, live) <=> p["industry"] # Missing /\ p["industry"] \notin k
<1>1. Ok(IndustryRule(k), p, live) <=> ~OutOfSet(IndustryRule(k), p["industry"])
  BY MadeIndustry, Verdicts
<1> QED
  BY <1>1, MadeIndustry DEF OutOfSet

LEMMA SlippageOk ==
    ASSUME NEW k \in Nat, NEW p \in Proposals, NEW live
    PROVE  Ok(SlippageRule(k), p, live) <=>
             /\ p["reference_price"] # Missing
             /\ live # Missing
             /\ ~Drifted(k, p["reference_price"], live)
<1> HIDE DEF Missing
<1> QED
  BY MadeSlippage, Verdicts

LEMMA LimitOk ==
    ASSUME NEW l \in [key : DOMAIN FieldOf, max : Nat], NEW p \in Proposals, NEW live
    PROVE  Ok(LimitRule(l), p, live) <=> LimitKept(l, p)
<1> DEFINE v == p[FieldOf[l.key]]
<1>1. v \in Value
  BY ProposalFields
<1>2. l.max \in Nat
  OBVIOUS
<1>3. Ok(LimitRule(l), p, live) <=> ~OutOfRange(LimitRule(l), v)
  BY MadeLimit, Verdicts
<1>4. OutOfRange(LimitRule(l), v) <=> v = Missing \/ v > l.max
  BY <1>1, <1>2, MadeLimit DEF OutOfRange, Value, Missing, None
<1>5. LimitKept(l, p) <=> v # Missing /\ v <= l.max
  BY DEF LimitKept
<1> HIDE DEF v
<1> QED
  BY <1>1, <1>2, <1>3, <1>4, <1>5 DEF Value, Missing

(* The rules compiled from a clause let pass what the clause says, unless  *)
(* the clause is displaced.                                                *)
LEMMA KindClause ==
    ASSUME NEW c \in Contracts, NEW p \in Proposals, NEW live
    PROVE  (\A s \in KindRules(c.kinds) : Left(c, s) => Ok(s, p, live)) <=>
             KindKept(c, p) \/ Displaced(c, "INV_ALLOWED_POLICY_TYPES", "set", "policy_kind")
<1> DEFINE s == KindRule(c.kinds)
<1>1. (\A r \in KindRules(c.kinds) : Left(c, r) => Ok(r, p, live)) <=>
        (c.kinds # {} => (Left(c, s) => Ok(s, p, live)))
  <2>1. \A r : r \in KindRules(c.kinds) <=> c.kinds # {} /\ r = s
    BY Members, Zenon
  <2> HIDE DEF s
  <2> QED
    BY <2>1, Zenon
<1>2. Left(c, s) <=> ~Displaced(c, "INV_ALLOWED_POLICY_TYPES", "set", "policy_kind")
  BY Clauses, MadeKind, LeftRules
<1>3. c.kinds # {} => (Ok(s, p, live) <=> p["policy_kind"] \in c.kinds)
  BY Clauses, KindOk
<1> HIDE DEF s
<1> QED
  BY <1>1, <1>2, <1>3 DEF KindKept

LEMMA InstrumentClause ==
    ASSUME NEW c \in Contracts, NEW p \in Proposals, NEW live
    PROVE  (\A s \in InstrumentRules(c.instruments) : Left(c, s) => Ok(s, p, live)) <=>
             InstrumentKept(c, p) \/ Displaced(c, "INV_INSTRUMENT_SCOPE", "set", "instrument")
<1> DEFINE s == InstrumentRule(c.instruments)
<1>1. (\A r \in InstrumentRules(c.instruments) : Left(c, r) => Ok(r, p, live)) <=>
        (c.instruments # {} => (Left(c, s) => Ok(s, p, live)))
  <2>1. \A r : r \in InstrumentRules(c.instruments) <=> c.instruments # {} /\ r = s
    BY Members, Zenon
  <2> HIDE DEF s
  <2> QED
    BY <2>1, Zenon
<1>2. Left(c, s) <=> ~Displaced(c, "INV_INSTRUMENT_SCOPE", "set", "instrument")
  BY Clauses, MadeInstrument, LeftRules
<1>3. c.instruments # {} => (Ok(s, p, live) <=> p["instrument"] \in c.instruments)
  BY Clauses, InstrumentOk
<1> HIDE DEF s
<1> QED
  BY <1>1, <1>2, <1>3 DEF InstrumentKept

LEMMA IndustryClause ==
    ASSUME NEW c \in Contracts, NEW p \in Proposals, NEW live
    PROVE  (\A s \in IndustryRules(c.industries) : Left(c, s) => Ok(s, p, live)) <=>
             IndustryKept(c, p) \/ Displaced(c, "INV_PROHIBITED_INDUSTRIES", "set", "industry")
<1> DEFINE s == IndustryRule(c.industries)
<1>1. (\A r \in IndustryRules(c.industries) : Left(c, r) => Ok(r, p, live)) <=>
        (c.industries # {} => (Left(c, s) => Ok(s, p, live)))
  <2>1. \A r : r \in IndustryRules(c.industries) <=> c.industries # {} /\ r = s
    BY Members, Zenon
  <2> HIDE DEF s
  <2> QED
    BY <2>1, Zenon
<1>2. Left(c, s) <=> ~Displaced(c, "INV_PROHIBITED_INDUSTRIES", "set", "industry")
  BY Clauses, MadeIndustry, LeftRules
<1>3. Ok(s, p, live) <=> p["industry"] # Missing /\ p["industry"] \notin c.industries
  BY Clauses, IndustryOk
<1> HIDE DEF s, Missing
<1> QED
  BY <1>1, <1>2, <1>3 DEF IndustryKept

LEMMA SlippageClause ==
    ASSUME NEW c \in Contracts, NEW p \in Proposals, NEW live
    PROVE  (\A s \in SlippageRules(c.slippage) : Left(c, s) => Ok(s, p, live)) <=>
             \/ PriceKept(c, p, live)
             \/ Displaced(c, "INV_PRICE_SLIPPAGE", "state_match", "reference_price")
<1> DEFINE s == SlippageRule(c.slippage)
<1>1. (\A r \in SlippageRules(c.slippage) : Left(c, r) => Ok(r, p, live)) <=>
        (c.slippage # None => (Left(c, s) => Ok(s, p, live)))
  <2> HIDE DEF None
  <2>1. \A r : r \in SlippageRules(c.slippage) <=> c.slippage # None /\ r = s
    BY Members, Zenon
  <2> HIDE DEF s
  <2> QED
    BY <2>1, Zenon
<1>2. c.slippage # None => c.slippage \in Nat
  BY Clauses DEF Bound
<1>3. c.slippage # None =>
        (Left(c, s) <=> ~Displaced(c, "INV_PRICE_SLIPPAGE", "state_match", "reference_price"))
  BY <1>2, MadeSlippage, LeftRules
<1>4. c.slippage # None =>
        (Ok(s, p, live) <=>
           /\ p["reference_price"] # Missing
           /\ live # Missing
           /\ ~Drifted(c.slippage, p["reference_price"], live))
  BY <1>2, SlippageOk
<1> HIDE DEF s, Missing, None
<1> QED
  BY <1>1, <1>3, <1>4 DEF PriceKept

LEMMA LimitClause ==
    ASSUME NEW c \in Contracts, NEW p \in Proposals, NEW live
    PROVE  (\A s \in LimitRules(c.limits) : Left(c, s) => Ok(s, p, live)) <=> LimitsKept(c, p)
<1> DEFINE Kept(i) ==
      \/ Displaced(c, c.limits[i].key, "range", FieldOf[c.limits[i].key])
      \/ Shadowed(c, i)
      \/ LimitKept(c.limits[i], p)
<1>1. LimitsKept(c, p) <=> \A i \in DOMAIN c.limits : Kept(i)
  BY DEF LimitsKept
<1>2. ASSUME NEW i \in DOMAIN c.limits
      PROVE  Kept(i) <=>
               (FirstOfField(c.limits, i) =>
                  (Left(c, LimitRule(c.limits[i])) => Ok(LimitRule(c.limits[i]), p, live)))
  <2>1. c.limits[i] \in [key : DOMAIN FieldOf, max : Nat]
    BY Clauses
  <2>2. FirstOfField(c.limits, i) <=> ~Shadowed(c, i)
    BY DEF FirstOfField, Shadowed
  <2>3. Left(c, LimitRule(c.limits[i])) <=>
          ~Displaced(c, c.limits[i].key, "range", FieldOf[c.limits[i].key])
    BY <2>1, MadeLimit, LeftRules
  <2>4. Ok(LimitRule(c.limits[i]), p, live) <=> LimitKept(c.limits[i], p)
    BY <2>1, LimitOk
  <2> QED
    BY <2>2, <2>3, <2>4, Zenon
<1>3. (\A s \in LimitRules(c.limits) : Left(c, s) => Ok(s, p, live)) <=>
        \A i \in DOMAIN c.limits :
          FirstOfField(c.limits, i) =>
            (Left(c, LimitRule(c.limits[i])) => Ok(LimitRule(c.limits[i]), p, live))
  BY LimitMembers, Zenon
<1> HIDE DEF Kept
<1> QED
  BY <1>1, <1>2, <1>3, Zenon

(* The rules of a contract, taken together.                                *)
LEMMA ContractClauses ==
    ASSUME NEW c \in Contracts, NEW p \in Proposals, NEW live
    PROVE  AsAuthored(c, p, live) <=>
             /\ Projected(c).confidence # None => p["confidence"] >= Projected(c).confidence
             /\ \A r \in Projected(c).rules : Ok(r, p, live)
<1> DEFINE Pass(S) == \A s \in S : Left(c, s) => Ok(s, p, live)
<1>1. CASE c.shape = "authority"
  <2>1. (\A r \in Projected(c).rules : Ok(r, p, live)) <=>
          (\A r \in c.explicit : Ok(r, p, live)) /\ Pass(Sugar(c))
    <3>1. Projected(c).rules = c.explicit \cup {s \in Sugar(c) : Left(c, s)}
      BY <1>1, Projection, Zenon DEF Merge, Left
    <3> QED
      BY <3>1
  <2>2. Pass(Sugar(c)) <=>
          /\ Pass(KindRules(c.kinds)) /\ Pass(InstrumentRules(c.instruments))
          /\ Pass(LimitRules(c.limits)) /\ Pass(IndustryRules(c.industries))
          /\ Pass(SlippageRules(c.slippage))
    BY DEF Sugar
  <2>3. AsAuthored(c, p, live) <=>
           /\ KindKept(c, p) \/ Displaced(c, "INV_ALLOWED_POLICY_TYPES", "set", "policy_kind")
           /\ InstrumentKept(c, p) \/ Displaced(c, "INV_INSTRUMENT_SCOPE", "set", "instrument")
           /\ LimitsKept(c, p)
           /\ IndustryKept(c, p) \/ Displaced(c, "INV_PROHIBITED_INDUSTRIES", "set", "industry")
           /\ \/ PriceKept(c, p, live)
              \/ Displaced(c, "INV_PRICE_SLIPPAGE", "state_match", "reference_price")
           /\ ConfidenceKept(c, p)
           /\ \A r \in c.explicit : Ok(r, p, live)
    BY <1>1 DEF AsAuthored, Ok
  <2>4. ConfidenceKept(c, p) <=>
          (Projected(c).confidence # None => p["confidence"] >= Projected(c).confidence)
    BY <1>1, Projection DEF ConfidenceKept
  <2>5. Pass(KindRules(c.kinds)) <=>
          KindKept(c, p) \/ Displaced(c, "INV_ALLOWED_POLICY_TYPES", "set", "policy_kind")
    BY KindClause
  <2>6. Pass(InstrumentRules(c.instruments)) <=>
          InstrumentKept(c, p) \/ Displaced(c, "INV_INSTRUMENT_SCOPE", "set", "instrument")
    BY InstrumentClause
  <2>7. Pass(IndustryRules(c.industries)) <=>
          IndustryKept(c, p) \/ Displaced(c, "INV_PROHIBITED_INDUSTRIES", "set", "industry")
    BY IndustryClause
  <2>8. Pass(SlippageRules(c.slippage)) <=>
          \/ PriceKept(c, p, live)
          \/ Displaced(c, "INV_PRICE_SLIPPAGE", "state_match", "reference_price")
    BY SlippageClause
  <2>9. Pass(LimitRules(c.limits)) <=> LimitsKept(c, p)
    BY LimitClause
  <2> HIDE DEF Pass, None
  <2> QED
    BY <2>1, <2>2, <2>3, <2>4, <2>5, <2>6, <2>7, <2>8, <2>9, Zenon
<1>2. CASE c.shape # "authority"
  <2>1. c.explicit = {}
    BY <1>2, ContractsAssumption
  <2>2. \A s : Left(c, s)
    BY <2>1 DEF Left
  <2>3. \A i, t, f : ~Displaced(c, i, t, f)
    BY <2>1 DEF Displaced
  <2>4. \A S : Pass(S) <=> \A s \in S : Ok(s, p, live)
    BY <2>2, Zenon
  <2>5. Pass(KindRules(c.kinds)) <=> KindKept(c, p)
    BY <2>3, KindClause, Zenon
  <2>6. Pass(SlippageRules(c.slippage)) <=> PriceKept(c, p, live)
    BY <2>3, SlippageClause, Zenon
  <2>7. Pass(LimitRules(c.limits)) <=> LimitsKept(c, p)
    BY LimitClause
  <2> HIDE DEF Pass, None
  <2>8. CASE c.shape = "permissions"
    <3>1. AsAuthored(c, p, live) <=> LimitsKept(c, p) /\ PriceKept(c, p, live)
      BY <2>8 DEF AsAuthored
    <3>2. /\ Projected(c).rules = LimitRules(c.limits) \cup SlippageRules(c.slippage)
          /\ Projected(c).confidence = None
      BY <2>8, Projection
    <3>3. (\A r \in Projected(c).rules : Ok(r, p, live)) <=>
            Pass(LimitRules(c.limits)) /\ Pass(SlippageRules(c.slippage))
      BY <3>2, <2>4
    <3> QED
      BY <3>1, <3>2, <3>3, <2>6, <2>7, Zenon
  <2>9. CASE c.shape = "flat"
    <3>1. AsAuthored(c, p, live) <=>
            IF c.slippage # None THEN PriceKept(c, p, live) ELSE KindKept(c, p) /\ LimitsKept(c, p)
      BY <2>9 DEF AsAuthored
    <3>2. /\ Projected(c).rules = IF c.slippage # None THEN SlippageRules(c.slippage)
                                 ELSE KindRules(c.kinds) \cup LimitRules(c.limits)
          /\ Projected(c).confidence = None
      BY <2>9, Projection
    <3>3. (\A r \in Projected(c).rules : Ok(r, p, live)) <=>
            IF c.slippage # None THEN Pass(SlippageRules(c.slippage))
            ELSE Pass(KindRules(c.kinds)) /\ Pass(LimitRules(c.limits))
      BY <3>2, <2>4
    <3> QED
      BY <3>1, <3>2, <3>3, <2>5, <2>6, <2>7, Zenon
  <2> QED
    BY <1>2, <2>8, <2>9, Clauses
<1> QED
  BY <1>1, <1>2

(* JudgedAsAuthored: compiling a contract and judging by the rules is the  *)
(* same as reading its clauses, the displaced and shadowed ones apart, for *)
(* every contract, proposal and price.                                     *)
THEOREM AuthoredMeaning == Spec => []JudgedAsAuthored
<1>1. IInv => JudgedAsAuthored
  <2> SUFFICES ASSUME IInv, DOMAIN amendments = lapsed,
                      NEW p \in Proposals, NEW live \in Prices
               PROVE  Accepts(p, live) <=> AsAuthored(authored, p, live)
    BY Zenon DEF JudgedAsAuthored
  <2>1. authored \in Contracts /\ row = Projected(authored)
    BY DEF IInv, TypeOK
  <2>2. row.rules \subseteq Rule
    BY <2>1, IdsUnique
  <2>3. \A r \in row.rules : Effective(r) = r
    BY <2>2, Unamended
  <2>4. Accepts(p, live) <=>
          /\ row.confidence # None => p["confidence"] >= row.confidence
          /\ \A r \in row.rules : Ok(r, p, live)
    BY <2>3, Zenon DEF Accepts, Ok
  <2> QED
    BY <2>1, <2>4, ContractClauses, Zenon
<1> QED
  BY <1>1, Inductive, PTL

-----------------------------------------------------------------------------
(* Amendments keep to the envelope                                         *)

(* The amendment that sets a parameter of a rule is one of those in force, *)
(* and was valid for the rule.                                             *)
LEMMA PatchValid ==
    ASSUME IInv, NEW r \in row.rules, NEW key, Amended(r, key)
    PROVE  \E i \in DOMAIN amendments \ lapsed :
             /\ Patch(r, key) = amendments[i]
             /\ amendments[i].id = r.id
             /\ key \in amendments[i].keys
             /\ ValidPatch(r, amendments[i])
             /\ amendments[i] \in Amendment
<1>1. PICK i : i \in LatestOf(Active(r.id, key)) /\ Patch(r, key) = amendments[i]
  <2> DEFINE j == CHOOSE k \in LatestOf(Active(r.id, key)) : TRUE
  <2>1. j \in LatestOf(Active(r.id, key))
    BY Zenon DEF Amended
  <2>2. Patch(r, key) = amendments[j]
    BY Zenon DEF Patch
  <2> QED
    BY <2>1, <2>2, Zenon
<1>2. /\ i \in DOMAIN amendments \ lapsed
      /\ amendments[i].id = r.id
      /\ key \in amendments[i].keys
  BY <1>1 DEF LatestOf, Active
<1>3. PICK q \in row.rules : q.id = amendments[i].id /\ ValidPatch(q, amendments[i])
  BY <1>2 DEF IInv, Validated
<1>4. q = r
  BY <1>2, <1>3, IdsUnique DEF IInv, TypeOK
<1>5. amendments[i] \in Amendment
  <2>1. amendments[i] \in Amendments
    BY <1>2, Elements DEF IInv, TypeOK
  <2> QED
    BY <2>1, DataAssumption
<1> QED
  BY <1>1, <1>2, <1>3, <1>4, <1>5

(* What a rule has become, parameter by parameter.                         *)
LEMMA EffectiveFields ==
    ASSUME NEW r \in Rule
    PROVE  /\ Effective(r).type = r.type /\ Effective(r).field = r.field
           /\ Effective(r).denied = r.denied /\ Effective(r).kinds = r.kinds
           /\ Effective(r).lo = IF Amended(r, "min") THEN Patch(r, "min").lo ELSE r.lo
           /\ Effective(r).hi = IF Amended(r, "max") THEN Patch(r, "max").hi ELSE r.hi
           /\ Effective(r).allowed =
                IF Amended(r, "allowed") THEN Patch(r, "allowed").allowed ELSE r.allowed
           /\ Effective(r).drift = IF Amended(r, "drift_envelope_pct")
                                  THEN Patch(r, "drift_envelope_pct").drift ELSE r.drift
<1> DEFINE lo == IF Amended(r, "min") THEN Patch(r, "min").lo ELSE r.lo
           hi == IF Amended(r, "max") THEN Patch(r, "max").hi ELSE r.hi
           allowed == IF Amended(r, "allowed") THEN Patch(r, "allowed").allowed ELSE r.allowed
           drift == IF Amended(r, "drift_envelope_pct")
                    THEN Patch(r, "drift_envelope_pct").drift ELSE r.drift
<1>1. Effective(r) = [r EXCEPT !.lo = lo, !.hi = hi, !.allowed = allowed, !.drift = drift]
  BY DEF Effective
<1> HIDE DEF lo, hi, allowed, drift
<1>2. /\ Effective(r).type = r.type /\ Effective(r).field = r.field
      /\ Effective(r).denied = r.denied /\ Effective(r).kinds = r.kinds
      /\ Effective(r).lo = lo /\ Effective(r).hi = hi /\ Effective(r).allowed = allowed
      /\ Effective(r).drift = drift
  BY <1>1 DEF Rule
<1> QED
  BY <1>2 DEF lo, hi, allowed, drift

(* Of the amendments in force that set a parameter one is the last.        *)
LEMMA Latest ==
    ASSUME IInv, NEW r, NEW key, Active(r.id, key) # {}
    PROVE  Amended(r, key)
<1> DEFINE n == Len(amendments)
           is == Active(r.id, key)
           T == {n - i : i \in is}
<1>1. n \in Nat /\ DOMAIN amendments = 1 .. n
  BY DEF IInv, TypeOK
<1>2. is \subseteq 1 .. n /\ is # {}
  BY <1>1 DEF Active
<1>3. T \subseteq Nat /\ T # {}
  BY <1>1, <1>2
<1>4. PICK x \in T : \A y \in T : ~(<<y, x>> \in OpToRel(<, Nat))
  <2> HIDE DEF T
  <2> QED
    BY <1>3, WFMin, NatLessThanWellFounded
<1>5. \A y \in T : ~(y < x)
  <2>1. ASSUME NEW y \in T, y < x PROVE FALSE
    <3>1. x \in Nat /\ y \in Nat
      BY <1>3, <2>1
    <3>2. <<y, x>> \in OpToRel(<, Nat)
      BY <2>1, <3>1 DEF OpToRel
    <3> QED
      BY <1>4, <2>1, <3>2
  <2> QED
    BY <2>1
<1>6. PICK i \in is : x = n - i
  BY <1>4
<1>7. ASSUME NEW j \in is PROVE j <= i
  <2>1. n - j \in T
    BY <1>7
  <2>2. ~(n - j < n - i)
    BY <1>5, <1>6, <2>1
  <2>3. i \in 1 .. n /\ j \in 1 .. n
    BY <1>2, <1>6, <1>7
  <2> QED
    BY <1>1, <2>2, <2>3
<1>8. i \in LatestOf(is)
  BY <1>6, <1>7 DEF LatestOf
<1> QED
  BY <1>8 DEF Amended

(* A parameter no amendment in force touches is not amended.               *)
LEMMA Untouched ==
    ASSUME NEW r, NEW key, Active(r.id, key) = {}
    PROVE  ~Amended(r, key)
  BY DEF Amended, LatestOf

(* A bound that an amendment set is between the ends of the envelope.      *)
LEMMA Bounded ==
    ASSUME IInv, NEW r \in row.rules
    PROVE  /\ UpperEnd(r) # None =>
                /\ UpperEnd(r) \in Nat
                /\ Effective(r).hi \in Nat /\ Effective(r).hi <= UpperEnd(r)
           /\ LowerEnd(r) # None =>
                /\ LowerEnd(r) \in Nat
                /\ Effective(r).lo \in Nat /\ Effective(r).lo >= LowerEnd(r)
<1>0. r \in Rule
  BY IdsUnique DEF IInv, TypeOK
<1>1. r.lo \in Bound /\ r.hi \in Bound /\ r.floor \in Bound /\ r.ceiling \in Bound
  BY <1>0 DEF Rule
<1>2. ASSUME UpperEnd(r) # None
      PROVE  /\ UpperEnd(r) \in Nat
             /\ Effective(r).hi \in Nat /\ Effective(r).hi <= UpperEnd(r)
  <2>1. CASE Active(r.id, "max") = {}
    <3>1. UpperEnd(r) = r.hi /\ Effective(r).hi = r.hi
      BY <1>0, <2>1, Untouched, EffectiveFields DEF UpperEnd
    <3> QED
      BY <1>1, <1>2, <3>1 DEF Bound
  <2>2. CASE Active(r.id, "max") # {} /\ ~Amended(r, "max")
    <3>1. UpperEnd(r) = r.ceiling
      BY <1>2, <2>2 DEF UpperEnd
    <3> QED
      BY <2>2, Latest DEF Amended, IInv
  <2>3. CASE Active(r.id, "max") # {} /\ Amended(r, "max")
    <3>1. /\ UpperEnd(r) = r.ceiling
          /\ \A i \in Active(r.id, "max") : amendments[i].hi # None
      BY <1>2, <2>3 DEF UpperEnd
    <3>2. PICK i \in DOMAIN amendments \ lapsed :
             /\ Patch(r, "max") = amendments[i]
             /\ amendments[i].id = r.id
             /\ "max" \in amendments[i].keys
             /\ ValidPatch(r, amendments[i])
             /\ amendments[i] \in Amendment
      BY <2>3, PatchValid
    <3>3. i \in Active(r.id, "max")
      BY <3>2 DEF Active
    <3>4. amendments[i].hi # None /\ amendments[i].hi \in Nat
      BY <3>1, <3>2, <3>3 DEF Amendment, Bound
    <3>5. amendments[i].hi <= r.ceiling
      BY <1>2, <3>1, <3>2, <3>4 DEF ValidPatch, InEnvelope
    <3>6. Effective(r).hi = amendments[i].hi
      BY <1>0, <2>3, <3>2, EffectiveFields
    <3> QED
      BY <1>1, <1>2, <3>1, <3>4, <3>5, <3>6 DEF Bound
  <2> QED
    BY <2>1, <2>2, <2>3
<1>3. ASSUME LowerEnd(r) # None
      PROVE  /\ LowerEnd(r) \in Nat
             /\ Effective(r).lo \in Nat /\ Effective(r).lo >= LowerEnd(r)
  <2>1. CASE Active(r.id, "min") = {}
    <3>1. LowerEnd(r) = r.lo /\ Effective(r).lo = r.lo
      BY <1>0, <2>1, Untouched, EffectiveFields DEF LowerEnd
    <3> QED
      BY <1>1, <1>3, <3>1 DEF Bound
  <2>2. CASE Active(r.id, "min") # {} /\ ~Amended(r, "min")
    BY <2>2, Latest DEF Amended, IInv
  <2>3. CASE Active(r.id, "min") # {} /\ Amended(r, "min")
    <3>1. /\ LowerEnd(r) = r.floor
          /\ \A i \in Active(r.id, "min") : amendments[i].lo # None
      BY <1>3, <2>3 DEF LowerEnd
    <3>2. PICK i \in DOMAIN amendments \ lapsed :
             /\ Patch(r, "min") = amendments[i]
             /\ amendments[i].id = r.id
             /\ "min" \in amendments[i].keys
             /\ ValidPatch(r, amendments[i])
             /\ amendments[i] \in Amendment
      BY <2>3, PatchValid
    <3>3. i \in Active(r.id, "min")
      BY <3>2 DEF Active
    <3>4. amendments[i].lo # None /\ amendments[i].lo \in Nat
      BY <3>1, <3>2, <3>3 DEF Amendment, Bound
    <3>5. amendments[i].lo >= r.floor
      BY <1>3, <3>1, <3>2, <3>4 DEF ValidPatch, InEnvelope
    <3>6. Effective(r).lo = amendments[i].lo
      BY <1>0, <2>3, <3>2, EffectiveFields
    <3> QED
      BY <1>1, <1>3, <3>1, <3>4, <3>5, <3>6 DEF Bound
  <2> QED
    BY <2>1, <2>2, <2>3
<1> QED
  BY <1>2, <1>3

(* A set is only ever narrowed, unless an amendment empties it.            *)
LEMMA Narrowed ==
    ASSUME IInv, NEW r \in row.rules, AllowedEnd(r) # {}
    PROVE  Effective(r).allowed # {} /\ Effective(r).allowed \subseteq AllowedEnd(r)
<1>0. r \in Rule
  BY IdsUnique DEF IInv, TypeOK
<1>1. /\ AllowedEnd(r) = r.allowed
      /\ \A i \in Active(r.id, "allowed") : amendments[i].allowed # {}
  BY DEF AllowedEnd
<1>2. CASE ~Amended(r, "allowed")
  BY <1>0, <1>1, <1>2, EffectiveFields
<1>3. CASE Amended(r, "allowed")
  <2>1. PICK i \in DOMAIN amendments \ lapsed :
             /\ Patch(r, "allowed") = amendments[i]
             /\ amendments[i].id = r.id
             /\ "allowed" \in amendments[i].keys
             /\ ValidPatch(r, amendments[i])
             /\ amendments[i] \in Amendment
    BY <1>3, PatchValid
  <2>2. i \in Active(r.id, "allowed")
    BY <2>1 DEF Active
  <2>3. amendments[i].allowed # {} /\ amendments[i].allowed \subseteq r.allowed
    BY <1>1, <2>1, <2>2 DEF ValidPatch
  <2>4. Effective(r).allowed = amendments[i].allowed
    BY <1>0, <1>3, <2>1, EffectiveFields
  <2> QED
    BY <1>1, <2>3, <2>4
<1> QED
  BY <1>2, <1>3

(* EnvelopeKept: however amendments are layered, what is accepted keeps    *)
(* each parameter they leave alone as it was signed, and is within the     *)
(* signed end of the envelope of those they change, if it has one and none *)
(* of them takes the bound away.                                           *)
THEOREM EnvelopeHolds == Spec => []EnvelopeKept
<1>1. IInv => EnvelopeKept
  <2> SUFFICES ASSUME IInv, NEW p \in Proposals, NEW live \in Prices, NEW r \in row.rules,
                      Applies(r, p), ~Breaks(Effective(r), p, live)
               PROVE  Inside(r, p[r.field], live)
    BY Zenon DEF EnvelopeKept, Accepts
  <2> DEFINE e == Effective(r)
             v == p[r.field]
  <2>1. r \in Rule
    BY IdsUnique DEF IInv, TypeOK
  <2>2. /\ e.type = r.type /\ e.field = r.field /\ e.denied = r.denied
        /\ Active(r.id, "drift_envelope_pct") = {} => e.drift = r.drift
    BY <2>1, Untouched, EffectiveFields
  <2>3. v \in Value
    BY <2>1, DataAssumption DEF Rule
  <2>4. r.type \in {"range", "set", "state_match"}
    BY <2>1 DEF Rule
  <2>5. CASE r.type = "range"
    <3>1. ~OutOfRange(e, v)
      BY <2>2, <2>5, Verdicts
    <3>2. /\ v # Missing
          /\ e.lo # None => ~(v < e.lo)
          /\ e.hi # None => ~(v > e.hi)
      BY <3>1 DEF OutOfRange
    <3>3. v \in Nat
      BY <2>3, <3>2 DEF Value
    <3>4. /\ UpperEnd(r) # None => UpperEnd(r) \in Nat /\ e.hi \in Nat /\ e.hi <= UpperEnd(r)
          /\ LowerEnd(r) # None => LowerEnd(r) \in Nat /\ e.lo \in Nat /\ e.lo >= LowerEnd(r)
      BY Bounded
    <3> HIDE DEF e, v
    <3>5. UpperEnd(r) # None => v <= UpperEnd(r)
      BY <3>2, <3>3, <3>4 DEF None
    <3>6. LowerEnd(r) # None => v >= LowerEnd(r)
      BY <3>2, <3>3, <3>4 DEF None
    <3> QED
      BY <2>5, <3>2, <3>5, <3>6 DEF Inside, v
  <2>6. CASE r.type = "set"
    <3>1. ~OutOfSet(e, v)
      BY <2>2, <2>6, Verdicts
    <3>2. v # Missing /\ v \notin r.denied /\ (e.allowed # {} => v \in e.allowed)
      BY <2>2, <3>1 DEF OutOfSet
    <3>3. AllowedEnd(r) # {} => e.allowed # {} /\ e.allowed \subseteq AllowedEnd(r)
      BY Narrowed
    <3> QED
      BY <2>6, <3>2, <3>3 DEF Inside
  <2>7. CASE r.type = "state_match"
    <3>1. v # Missing /\ live # Missing /\ ~Drifted(e.drift, v, live)
      BY <2>2, <2>7, Verdicts
    <3> QED
      BY <2>2, <2>7, <3>1 DEF Inside
  <2> QED
    BY <2>4, <2>5, <2>6, <2>7
<1> QED
  BY <1>1, Inductive, PTL
=============================================================================
