---------------------------- MODULE ContractRules ----------------------------
(***************************************************************************)
(* What a Responsibility Contract means to the DIM: the contract an agent  *)
(* hands over at its handshake is compiled into a set of rules             *)
(* (contract_projection.py, invariant_compile.py), operators amend the     *)
(* parameters of some of them for a while (amendments.py), and a proposal  *)
(* is accepted if it breaks none of the rules then in force                *)
(* (invariants.py, dim.py).                                                *)
(*                                                                         *)
(* Policy kinds, instruments and quantities are numbers, and so are the    *)
(* values of a proposal's fields.  AgentRegistry has the calls an amendment *)
(* consists of and what comes in between; here it is one step.             *)
(***************************************************************************)
EXTENDS Integers, Sequences

CONSTANTS
    Contracts,     \* the contracts agents come with
    Amendments,    \* the amendments operators come with
    Proposals,     \* values of the fields of a proposal
    Prices,        \* live prices, or Missing
    OwnIds,        \* ids of the rules contracts state themselves
    FieldOf,       \* LIMIT_TO_PARAM_FIELD, by the key of a limit
    MaxAmendments  \* bound on the amendments of a registration

Missing == -1      \* a field a proposal does not have
None == -1         \* a bound a rule does not have

Fields == {"policy_kind", "instrument", "industry", "reference_price", "confidence"}
              \cup {FieldOf[k] : k \in DOMAIN FieldOf}

ClauseIds == {"INV_ALLOWED_POLICY_TYPES", "INV_INSTRUMENT_SCOPE",
              "INV_PROHIBITED_INDUSTRIES", "INV_PRICE_SLIPPAGE"}

Bound == Nat \cup {None}
Value == Nat \cup {Missing}

(* InvariantSpec.  floor and ceiling envelop what an amendment may make of *)
(* lo and hi; an empty set of kinds or of allowed values restricts nothing. *)
Rule == [id : ClauseIds \cup DOMAIN FieldOf \cup OwnIds,
         type : {"range", "set", "state_match"}, field : Fields,
         lo : Bound, hi : Bound, allowed : SUBSET Nat, denied : SUBSET Nat, drift : Nat,
         kinds : SUBSET Nat, amendable : BOOLEAN, floor : Bound, ceiling : Bound]

(* A contract nests its clauses under "authority", or is flat; a flat one  *)
(* may keep its limits under "permissions".                                *)
Contract == [shape : {"authority", "flat", "permissions"},
             kinds : SUBSET Nat, instruments : SUBSET Nat, industries : SUBSET Nat,
             limits : Seq([key : DOMAIN FieldOf, max : Nat]),
             slippage : Bound, confidence : Bound, explicit : SUBSET Rule]

Amendment == [id : STRING, keys : SUBSET {"min", "max", "allowed", "drift_envelope_pct"},
              lo : Bound, hi : Bound, allowed : SUBSET Nat, drift : Nat]

(* A contract's keys and the ids of its own rules are unique, and a flat   *)
(* one has no rules of its own.                                            *)
ASSUME ContractsAssumption ==
    /\ Contracts \subseteq Contract
    /\ \A c \in Contracts :
           /\ \A i, j \in DOMAIN c.limits : c.limits[i].key = c.limits[j].key => i = j
           /\ \A r, s \in c.explicit : r.id = s.id => r = s
           /\ c.shape # "authority" => c.explicit = {}
           /\ c.shape = "permissions" => c.limits # <<>>

ASSUME DataAssumption ==
    /\ Amendments \subseteq Amendment
    /\ Proposals \subseteq [Fields -> Value]
    /\ Prices \subseteq Value
    /\ DOMAIN FieldOf \cap ClauseIds = {}
    /\ MaxAmendments \in Nat

VARIABLES
    authored,    \* the contract handed over at the latest handshake
    row,         \* the rules and the confidence threshold its row stands for
    amendments,  \* parameter_amendments of the row
    lapsed       \* those that have expired

vars == <<authored, row, amendments, lapsed>>

-----------------------------------------------------------------------------
(* Compilation                                                             *)

(* The defaults of InvariantSpec; id, type and field are the first clause's. *)
Bare == [id |-> "INV_ALLOWED_POLICY_TYPES", type |-> "set", field |-> "policy_kind",
         lo |-> None, hi |-> None, allowed |-> {}, denied |-> {}, drift |-> 0,
         kinds |-> {}, amendable |-> FALSE, floor |-> None, ceiling |-> None]

KindRules(kinds) ==
    {[Bare EXCEPT !.id = "INV_ALLOWED_POLICY_TYPES", !.allowed = k] : k \in {kinds} \ {{}}}

InstrumentRules(instruments) ==
    {[Bare EXCEPT !.id = "INV_INSTRUMENT_SCOPE", !.field = "instrument", !.allowed = s] :
        s \in {instruments} \ {{}}}

IndustryRules(industries) ==
    {[Bare EXCEPT !.id = "INV_PROHIBITED_INDUSTRIES", !.field = "industry", !.denied = s] :
        s \in {industries} \ {{}}}

(* Mutant: of two limits on one field the last one counts.                 *)
LastOfField(limits, i) ==
    \A j \in DOMAIN limits : j > i => FieldOf[limits[j].key] # FieldOf[limits[i].key]

(* A limit on a field that an earlier limit is on is dropped.              *)
FirstOfField(limits, i) ==
    \A j \in DOMAIN limits : j < i => FieldOf[limits[j].key] # FieldOf[limits[i].key]

LimitRules(limits) ==
    {[Bare EXCEPT !.id = limits[i].key, !.type = "range", !.field = FieldOf[limits[i].key],
                  !.hi = limits[i].max, !.amendable = TRUE,
                  !.floor = 0, !.ceiling = limits[i].max] :
        i \in {j \in DOMAIN limits : FirstOfField(limits, j)}}

SlippageRules(slippage) ==
    {[Bare EXCEPT !.id = "INV_PRICE_SLIPPAGE", !.type = "state_match",
                  !.field = "reference_price", !.drift = s] : s \in {slippage} \ {None}}

Conflicts(r, s) == r.id = s.id \/ (r.type = s.type /\ r.field = s.field)

(* A contract's own rules take precedence over those compiled.             *)
Merge(explicit, sugar) ==
    explicit \cup {s \in sugar : \A r \in explicit : ~Conflicts(r, s)}

(* project_contract.  Of a flat contract the compiler finds the slippage   *)
(* and the permissions only.  If that makes no rule, the projection is     *)
(* compiled once more from what it kept of the contract: the policy kinds  *)
(* and the limits.                                                         *)
Projected(c) ==
    CASE c.shape = "authority" ->
           [rules |-> Merge(c.explicit,
                            KindRules(c.kinds) \cup InstrumentRules(c.instruments)
                              \cup LimitRules(c.limits) \cup IndustryRules(c.industries)
                              \cup SlippageRules(c.slippage)),
            confidence |-> c.confidence]
      [] c.shape = "permissions" ->
           [rules |-> LimitRules(c.limits) \cup SlippageRules(c.slippage), confidence |-> None]
      [] c.shape = "flat" ->
           [rules |-> IF c.slippage # None THEN SlippageRules(c.slippage)
                      ELSE KindRules(c.kinds) \cup LimitRules(c.limits),
            confidence |-> None]

-----------------------------------------------------------------------------
(* Amendment                                                               *)

(* Mutant: a bound is compared with its own end of the envelope only.      *)
InEnvelopeBelow(r, n) == r.ceiling # None => n <= r.ceiling

InEnvelope(r, n) ==
    /\ r.ceiling # None => n <= r.ceiling
    /\ r.floor # None => n >= r.floor

(* validate_amendment_patch: None takes a bound away.                      *)
ValidPatch(r, a) ==
    /\ r.amendable
    /\ a.keys # {}
    /\ "max" \in a.keys /\ a.hi # None => InEnvelope(r, a.hi)
    /\ "min" \in a.keys /\ a.lo # None => InEnvelope(r, a.lo)
    /\ "allowed" \in a.keys =>
           IF r.allowed # {} THEN a.allowed \subseteq r.allowed ELSE r.type # "set"

(* The amendments in force that set a parameter of a rule.                 *)
Active(id, key) ==
    {i \in DOMAIN amendments \ lapsed : amendments[i].id = id /\ key \in amendments[i].keys}

(* The last one counts.                                                    *)
LatestOf(is) == {i \in is : \A j \in is : j <= i}

Amended(r, key) == LatestOf(Active(r.id, key)) # {}
Patch(r, key) == amendments[CHOOSE i \in LatestOf(Active(r.id, key)) : TRUE]

(* effective_invariants: what the rule has become.                         *)
Effective(r) ==
    [r EXCEPT !.lo = IF Amended(r, "min") THEN Patch(r, "min").lo ELSE @,
              !.hi = IF Amended(r, "max") THEN Patch(r, "max").hi ELSE @,
              !.allowed = IF Amended(r, "allowed") THEN Patch(r, "allowed").allowed ELSE @,
              !.drift = IF Amended(r, "drift_envelope_pct")
                        THEN Patch(r, "drift_envelope_pct").drift ELSE @]

-----------------------------------------------------------------------------
(* Judgement                                                               *)

Distance(x, y) == IF x < y THEN y - x ELSE x - y

(* evaluate_state_match_rule: percent of the live price, and of 1 if that  *)
(* is 0.                                                                   *)
Drifted(percent, price, live) ==
    IF percent = 0 THEN price # live
    ELSE IF live = 0 THEN Distance(price, live) > percent
    ELSE 100 * Distance(price, live) > percent * live

(* evaluate_range_rule *)
OutOfRange(r, v) ==
    \/ v = Missing
    \/ r.lo # None /\ v < r.lo
    \/ r.hi # None /\ v > r.hi

(* evaluate_set_rule *)
OutOfSet(r, v) ==
    \/ v = Missing
    \/ v \in r.denied
    \/ r.allowed # {} /\ v \notin r.allowed

Breaks(r, p, live) ==
    LET v == p[r.field]
    IN  CASE r.type = "range" -> OutOfRange(r, v)
          [] r.type = "set" -> OutOfSet(r, v)
          [] r.type = "state_match" -> v = Missing \/ live = Missing \/ Drifted(r.drift, v, live)

(* A rule for certain policy kinds says nothing of the others.             *)
Applies(r, p) == r.kinds = {} \/ p["policy_kind"] \in r.kinds

(* validate_proposal with the projection of the registry.                  *)
Accepts(p, live) ==
    /\ row.confidence # None => p["confidence"] >= row.confidence
    /\ \A r \in row.rules : Applies(r, p) => ~Breaks(Effective(r), p, live)

-----------------------------------------------------------------------------

TypeOK ==
    /\ authored \in Contracts
    /\ row = Projected(authored)
    /\ amendments \in Seq(Amendments)
    /\ lapsed \subseteq DOMAIN amendments

Init ==
    /\ authored \in Contracts
    /\ row = Projected(authored)
    /\ amendments = <<>>
    /\ lapsed = {}

(* An agent registers, anew or for the first time.                         *)
Handshake(c) ==
    /\ authored' = c
    /\ row' = Projected(c)
    /\ amendments' = <<>>
    /\ lapsed' = {}

(* apply_parameter_amendment: the row keeps the projection from then on.   *)
Amend(a) ==
    /\ Len(amendments) < MaxAmendments
    /\ \E r \in row.rules : r.id = a.id /\ ValidPatch(r, a)
    /\ amendments' = Append(amendments, a)
    /\ UNCHANGED <<authored, row, lapsed>>

Lapse(i) ==
    /\ i \in DOMAIN amendments \ lapsed
    /\ lapsed' = lapsed \cup {i}
    /\ UNCHANGED <<authored, row, amendments>>

Next ==
    \/ \E c \in Contracts : Handshake(c)
    \/ \E a \in Amendments : Amend(a)
    \/ \E i \in 1 .. MaxAmendments : Lapse(i)

Spec == Init /\ [][Next]_vars

-----------------------------------------------------------------------------
(* Properties                                                              *)

(* What the clauses of a contract say, read one by one.                    *)
KindKept(c, p) == c.kinds # {} => p["policy_kind"] \in c.kinds
InstrumentKept(c, p) == c.instruments # {} => p["instrument"] \in c.instruments
IndustryKept(c, p) ==
    c.industries # {} => p["industry"] # Missing /\ p["industry"] \notin c.industries
LimitKept(l, p) == p[FieldOf[l.key]] # Missing /\ p[FieldOf[l.key]] <= l.max
ConfidenceKept(c, p) == c.confidence # None => p["confidence"] >= c.confidence

PriceKept(c, p, live) ==
    c.slippage # None =>
        /\ p["reference_price"] # Missing
        /\ live # Missing
        /\ ~Drifted(c.slippage, p["reference_price"], live)

(* A clause is displaced by a rule the contract states itself, of the same *)
(* type and on the same field, or under the id the clause compiles to;     *)
(* even if that rule is for other kinds of proposals, or is less strict.   *)
Displaced(c, id, type, field) ==
    \E r \in c.explicit : r.id = id \/ (r.type = type /\ r.field = field)

(* And a limit by an earlier one on its field, even if that is higher.     *)
Shadowed(c, i) ==
    \E j \in DOMAIN c.limits : j < i /\ FieldOf[c.limits[j].key] = FieldOf[c.limits[i].key]

LimitsKept(c, p) ==
    \A i \in DOMAIN c.limits :
        LET l == c.limits[i] IN
        \/ Displaced(c, l.key, "range", FieldOf[l.key])
        \/ Shadowed(c, i)
        \/ LimitKept(l, p)

AsAuthored(c, p, live) ==
    CASE c.shape = "authority" ->
           /\ KindKept(c, p) \/ Displaced(c, "INV_ALLOWED_POLICY_TYPES", "set", "policy_kind")
           /\ InstrumentKept(c, p) \/ Displaced(c, "INV_INSTRUMENT_SCOPE", "set", "instrument")
           /\ LimitsKept(c, p)
           /\ IndustryKept(c, p) \/ Displaced(c, "INV_PROHIBITED_INDUSTRIES", "set", "industry")
           /\ \/ PriceKept(c, p, live)
              \/ Displaced(c, "INV_PRICE_SLIPPAGE", "state_match", "reference_price")
           /\ ConfidenceKept(c, p)
           /\ \A r \in c.explicit : Applies(r, p) => ~Breaks(r, p, live)
      [] c.shape = "permissions" -> LimitsKept(c, p) /\ PriceKept(c, p, live)
      [] c.shape = "flat" ->
           IF c.slippage # None THEN PriceKept(c, p, live) ELSE KindKept(c, p) /\ LimitsKept(c, p)

(* While no amendment is in force, a proposal is accepted just if it keeps *)
(* every clause of the contract its agent handed over, the displaced and   *)
(* shadowed ones apart.  Of a flat contract the instruments, the           *)
(* exclusions and the confidence threshold are not kept, nor are the       *)
(* policy kinds beside "permissions" or a slippage, nor the limits beside  *)
(* a slippage.                                                             *)
JudgedAsAuthored ==
    DOMAIN amendments = lapsed =>
        \A p \in Proposals, live \in Prices : Accepts(p, live) <=> AsAuthored(authored, p, live)

(* Where amendments in force can take a parameter of a rule: to the end of *)
(* the signed envelope; nowhere that an end is missing or an amendment     *)
(* took the bound away with a null (None), for the code lets both through. *)
UpperEnd(r) ==
    LET is == Active(r.id, "max")
    IN  IF is = {} THEN r.hi
        ELSE IF \E i \in is : amendments[i].hi = None THEN None ELSE r.ceiling

LowerEnd(r) ==
    LET is == Active(r.id, "min")
    IN  IF is = {} THEN r.lo
        ELSE IF \E i \in is : amendments[i].lo = None THEN None ELSE r.floor

AllowedEnd(r) ==
    IF \E i \in Active(r.id, "allowed") : amendments[i].allowed = {} THEN {} ELSE r.allowed

(* The drift of a price has no envelope: an amendment sets it to any size. *)
Inside(r, v, live) ==
    /\ v # Missing
    /\ r.type = "range" =>
           /\ UpperEnd(r) # None => v <= UpperEnd(r)
           /\ LowerEnd(r) # None => v >= LowerEnd(r)
    /\ r.type = "set" =>
           /\ v \notin r.denied
           /\ AllowedEnd(r) # {} => v \in AllowedEnd(r)
    /\ r.type = "state_match" =>
           /\ live # Missing
           /\ Active(r.id, "drift_envelope_pct") = {} => ~Drifted(r.drift, v, live)

(* Whatever amendments are in force, however many and however they were    *)
(* layered, an accepted proposal is inside the envelope of every rule that *)
(* applies: what was signed, as long as no amendment touches the parameter *)
(* (even a max that is beyond its own ceiling), else the signed end of the *)
(* envelope.  It says less than the architecture document, where "Every    *)
(* patch MUST stay inside signed min_floor / max_ceiling envelopes.        *)
(* Missing envelope -> fail closed" (DIR_Architectural_Pattern.md:937):    *)
(* amendments.py:50 neither compares a null nor a drift with anything, and *)
(* :52 skips an end that is missing.  There nothing is promised.           *)
EnvelopeKept ==
    \A p \in Proposals, live \in Prices :
        Accepts(p, live) =>
            \A r \in row.rules : Applies(r, p) => Inside(r, p[r.field], live)
=============================================================================
