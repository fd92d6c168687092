------------------------ MODULE AgentRegistry_proofs ------------------------
(* Proofs about AgentRegistry, for any agents, contracts, operators and    *)
(* bounds.                                                                 *)
EXTENDS AgentRegistry, WellFoundedInduction, TLAPS

(* An amendment under way concerns a registered agent and, unless another  *)
(* write has overtaken it, holds what the row holds and a patch the row's  *)
(* contract allows.                                                        *)
UpToDate(o) ==
    LET r == row[agent[o]] IN
    /\ ValidPatch(r.contract, patch[o])
    /\ pc[o] \in {"rec", "upsert"} =>
          stored[o].contract = r.contract /\ stored[o].amendments = r.amendments
    /\ pc[o] = "upsert" => token[o] = r.token

OperatorInv(o) ==
    pc[o] # "idle" => row[agent[o]].status # "unknown" /\ (behind[o] \/ UpToDate(o))

IInv ==
    /\ TypeOK
    /\ \A o \in Operators : OperatorInv(o)
    /\ RowCurrentUnlessTorn
    /\ EnvelopeUnlessTorn

-----------------------------------------------------------------------------

LEMMA BlankTypes ==
    /\ Empty \in Contract
    /\ <<>> \in Seq(Amendment)
    /\ NoPatch \in Amendment
    /\ NothingStored \in [contract : Contract, amendments : Seq(Amendment)]
    /\ Unregistered \in AgentRow
<1>1. Unlimited \in Bounds /\ MaxClock + 1 \in Expiries /\ 0 \in Tokens
  BY BoundsAssumption DEF Bounds, Expiries, Tokens
<1>2. Empty \in Contract /\ NoPatch \in Amendment
  BY <1>1 DEF Empty, Contract, NoPatch, Amendment
<1>3. <<>> \in Seq(Amendment)
  OBVIOUS
<1> QED
  BY <1>1, <1>2, <1>3 DEF NothingStored, Unregistered, AgentRow

(* A row keeps its type when its status changes.                           *)
LEMMA StatusType ==
    ASSUME NEW r \in AgentRow, NEW s \in Statuses
    PROVE  [r EXCEPT !.status = s] \in AgentRow
  BY DEF AgentRow

LEMMA InitTypeOK == Init => TypeOK
  BY BlankTypes, BoundsAssumption DEF Init, TypeOK, Tokens

LEMMA RowAnewType ==
    ASSUME TypeOK, NEW a \in Agents, NEW c \in Contracts, NEW t \in Tokens, RowAnew(a, c, t),
           handshakes' \in Tokens
    PROVE  TypeOK'
<1> USE DEF TypeOK, opvars
<1>1. c \in Contract /\ <<>> \in Seq(Amendment)
  BY ContractsAssumption
<1> QED
  BY <1>1 DEF RowAnew, Overtaken, Statuses, AgentRow

LEMMA NextTypeOK == TypeOK /\ [Next]_vars => TypeOK'
<1> SUFFICES ASSUME TypeOK, [Next]_vars
             PROVE  TypeOK'
  OBVIOUS
<1> USE BoundsAssumption DEF TypeOK, opvars, history
<1>1. ASSUME NEW a \in Agents, NEW c \in Contracts, Handshake(a, c)
      PROVE  TypeOK'
  <2>1. handshakes + 1 \in Tokens
    BY <1>1 DEF Handshake, Tokens
  <2> QED
    BY <1>1, <2>1, RowAnewType DEF Handshake
<1>10. ASSUME NEW a \in Agents, NEW c \in Contracts, RegisterAgent(a, c)
       PROVE  TypeOK'
  <2>1. 0 \in Tokens
    BY DEF Tokens
  <2> QED
    BY <1>10, <2>1, RowAnewType DEF RegisterAgent
<1>2. ASSUME NEW a \in Agents, EnsureRow(a)
      PROVE  TypeOK'
  <2>1. [row[a] EXCEPT !.status = "ACTIVE"] \in AgentRow
    BY StatusType DEF Statuses
  <2> QED
    BY <1>2, <2>1 DEF EnsureRow
<1>3. ASSUME NEW a \in Agents, NEW s \in Statuses, SetStatus(a, s)
      PROVE  TypeOK'
  BY <1>3, StatusType DEF SetStatus
<1>4. ASSUME NEW a \in Agents, NEW o \in Operators, NEW p \in Amendment, Amend(o, a, p)
      PROVE  TypeOK'
  BY <1>4 DEF Amend
<1>5. ASSUME NEW o \in Operators, ReadStored(o)
      PROVE  TypeOK'
  BY <1>5 DEF ReadStored, AgentRow
<1>6. ASSUME NEW o \in Operators, ReadRec(o)
      PROVE  TypeOK'
  BY <1>6 DEF ReadRec, AgentRow
<1>7. ASSUME NEW o \in Operators, Upsert(o)
      PROVE  TypeOK'
  <2>1. /\ Append(stored[o].amendments, patch[o]) \in Seq(Amendment)
        /\ Append(accepted[agent[o]], patch[o]) \in Seq(Amendment)
    OBVIOUS
  <2>2. 0 \in Tokens
    BY DEF Tokens
  <2> QED
    BY <1>7, <2>1, <2>2, BlankTypes DEF Upsert, AmendedRow, Overtaken, Statuses, AgentRow
<1>8. CASE Tick
  BY <1>8 DEF Tick
<1>9. CASE UNCHANGED vars
  BY <1>9 DEF vars
<1> QED
  BY <1>1, <1>2, <1>3, <1>4, <1>5, <1>6, <1>7, <1>8, <1>9, <1>10 DEF Next

(* Every variable keeps its type.                                          *)
THEOREM TypeCorrect == Spec => []TypeOK
  BY InitTypeOK, NextTypeOK, PTL DEF Spec

-----------------------------------------------------------------------------

LEMMA InitIInv == Init => IInv
<1> SUFFICES ASSUME Init
             PROVE  IInv
  OBVIOUS
<1>1. TypeOK
  BY InitTypeOK
<1>2. (\A o \in Operators : OperatorInv(o)) /\ RowCurrentUnlessTorn
  BY DEF Init, OperatorInv, RowCurrentUnlessTorn, Unregistered
<1>3. EnvelopeUnlessTorn
  <2>1. \A a \in Agents : DOMAIN row[a].amendments = {}
    BY DEF Init, Unregistered
  <2> QED
    BY <2>1 DEF EnvelopeUnlessTorn
<1> QED
  BY <1>1, <1>2, <1>3 DEF IInv

(* What a row says besides its agent's status.                             *)
SameContent(a) ==
    /\ row'[a].contract = row[a].contract
    /\ row'[a].amendments = row[a].amendments
    /\ row'[a].token = row[a].token

(* An operator's invariant survives the steps of others that do not write  *)
(* the row it works on, or that mark it as overtaken.                      *)
LEMMA OtherOperator ==
    ASSUME NEW o \in Operators, OperatorInv(o),
           pc'[o] = pc[o], agent'[o] = agent[o], patch'[o] = patch[o],
           stored'[o] = stored[o], token'[o] = token[o],
           (behind'[o] = behind[o] /\ SameContent(agent[o])) \/ behind'[o],
           row[agent[o]].status # "unknown" => row'[agent[o]].status # "unknown"
    PROVE  OperatorInv(o)'
  BY DEF OperatorInv, UpToDate, SameContent, ValidPatch

(* The invariant of the rows survives steps that keep their content.       *)
LEMMA SameRows ==
    ASSUME IInv, \A a \in Agents : SameContent(a),
           UNCHANGED <<issued, accepted, torn>>,
           \A a \in Agents : row[a].status # "unknown" => row'[a].status # "unknown"
    PROVE  RowCurrentUnlessTorn' /\ EnvelopeUnlessTorn'
  BY DEF IInv, SameContent, RowCurrentUnlessTorn, EnvelopeUnlessTorn

LEMMA RowAnewIInv ==
    ASSUME IInv, TypeOK', NEW a \in Agents, NEW c \in Contracts, NEW t \in Tokens, RowAnew(a, c, t)
    PROVE  IInv'
<1> USE DEF RowAnew
<1>1. /\ row'[a] = [status |-> "ACTIVE", contract |-> c, amendments |-> <<>>, token |-> t]
      /\ \A b \in Agents \ {a} : row'[b] = row[b]
  BY DEF IInv, TypeOK
<1>2. ASSUME NEW o \in Operators
      PROVE  OperatorInv(o)'
  <2>1. OperatorInv(o) /\ agent[o] \in Agents
    BY DEF IInv, TypeOK
  <2>2. CASE pc[o] = "idle"
    BY <2>2 DEF OperatorInv, opvars
  <2>3. CASE pc[o] # "idle" /\ agent[o] = a
    <3>1. behind'[o]
      BY <2>3 DEF Overtaken
    <3> QED
      BY <2>1, <2>3, <3>1, <1>1, OtherOperator DEF opvars
  <2>4. CASE pc[o] # "idle" /\ agent[o] # a
    <3>1. behind'[o] = behind[o]
      BY <2>4 DEF Overtaken, IInv, TypeOK
    <3>2. SameContent(agent[o]) /\ row'[agent[o]] = row[agent[o]]
      BY <2>1, <2>4, <1>1 DEF SameContent
    <3> QED
      BY <2>1, <3>1, <3>2, OtherOperator DEF opvars
  <2> QED
    BY <2>2, <2>3, <2>4
<1>3. RowCurrentUnlessTorn'
  BY <1>1 DEF IInv, TypeOK, RowCurrentUnlessTorn
<1>4. EnvelopeUnlessTorn'
  <2>1. DOMAIN row'[a].amendments = {}
    BY <1>1
  <2>2. \A b \in Agents \ {a} : torn'[b] = torn[b]
    BY DEF IInv, TypeOK
  <2> QED
    BY <1>1, <2>1, <2>2 DEF IInv, EnvelopeUnlessTorn
<1> QED
  BY <1>2, <1>3, <1>4 DEF IInv

(* Status writes, by whomever: SQLite's blank row or set_agent_status.     *)
LEMMA StatusIInv ==
    ASSUME IInv, TypeOK', NEW a \in Agents, NEW s \in Statuses, EnsureRow(a) \/ SetStatus(a, s)
    PROVE  IInv'
<1> USE DEF EnsureRow, SetStatus, opvars, history
<1>1. \E t \in Statuses : row' = [row EXCEPT ![a] = [@ EXCEPT !.status = t]]
  BY DEF Statuses
<1>2. \A b \in Agents : SameContent(b)
  BY <1>1 DEF IInv, TypeOK, AgentRow, SameContent
<1>3. \A b \in Agents : row[b].status # "unknown" => row'[b].status # "unknown"
  BY <1>1 DEF IInv, TypeOK, AgentRow, Statuses, Restricted
<1>4. ASSUME NEW o \in Operators
      PROVE  OperatorInv(o)'
  BY <1>2, <1>3, OtherOperator DEF IInv, TypeOK
<1> QED
  BY <1>2, <1>3, <1>4, SameRows DEF IInv

LEMMA AmendIInv ==
    ASSUME IInv, TypeOK', NEW a \in Agents, NEW o \in Operators, NEW p \in Amendment,
           Amend(o, a, p)
    PROVE  IInv'
<1> USE DEF Amend
<1>1. OperatorInv(o)'
  BY DEF IInv, TypeOK, OperatorInv, UpToDate
<1>2. ASSUME NEW q \in Operators \ {o}
      PROVE  OperatorInv(q)'
  BY OtherOperator DEF IInv, TypeOK, SameContent
<1> QED
  BY <1>1, <1>2, SameRows DEF IInv, SameContent

LEMMA ReadStoredIInv ==
    ASSUME IInv, TypeOK', NEW o \in Operators, ReadStored(o)
    PROVE  IInv'
<1> USE DEF ReadStored, history
<1>1. OperatorInv(o)'
  BY DEF IInv, TypeOK, OperatorInv, UpToDate
<1>2. ASSUME NEW q \in Operators \ {o}
      PROVE  OperatorInv(q)'
  BY OtherOperator DEF IInv, TypeOK, SameContent
<1> QED
  BY <1>1, <1>2, SameRows DEF IInv, SameContent

LEMMA ReadRecIInv ==
    ASSUME IInv, TypeOK', NEW o \in Operators, ReadRec(o)
    PROVE  IInv'
<1> USE DEF ReadRec, history
<1>1. OperatorInv(o)'
  BY DEF IInv, TypeOK, OperatorInv, UpToDate
<1>2. ASSUME NEW q \in Operators \ {o}
      PROVE  OperatorInv(q)'
  BY OtherOperator DEF IInv, TypeOK, SameContent
<1> QED
  BY <1>1, <1>2, SameRows DEF IInv, SameContent

LEMMA AppendElements ==
    ASSUME NEW S, NEW s \in Seq(S), NEW e \in S, NEW i \in DOMAIN Append(s, e)
    PROVE  (i \in DOMAIN s /\ Append(s, e)[i] = s[i]) \/ Append(s, e)[i] = e
<1>1. CASE i = Len(s) + 1
  BY <1>1
<1>2. CASE i # Len(s) + 1
  <2>1. i \in 1 .. Len(s)
    BY <1>2
  <2> QED
    BY <2>1
<1> QED
  BY <1>1, <1>2

(* An amendment that nothing has overtaken extends the row it read.        *)
LEMMA UpsertIInv ==
    ASSUME IInv, TypeOK', NEW o \in Operators, Upsert(o)
    PROVE  IInv'
<1> USE DEF Upsert
<1> DEFINE a == agent[o]
<1>1. a \in Agents /\ patch[o] \in Amendment /\ pc[o] = "upsert" /\ OperatorInv(o)
  BY DEF IInv, TypeOK
<1>2. /\ row'[a].status = "ACTIVE"
      /\ row'[a].contract = stored[o].contract
      /\ row'[a].amendments = Append(stored[o].amendments, patch[o])
      /\ row'[a].token = token[o]
      /\ \A b \in Agents \ {a} : row'[b] = row[b]
  BY <1>1 DEF IInv, TypeOK, AmendedRow
<1>3. /\ \A b \in Agents \ {a} : torn'[b] = torn[b] /\ accepted'[b] = accepted[b]
      /\ torn'[a] = (torn[a] \/ behind[o])
      /\ accepted'[a] = Append(accepted[a], patch[o])
      /\ issued' = issued
  BY <1>1 DEF IInv, TypeOK
<1>4. ASSUME NEW q \in Operators
      PROVE  OperatorInv(q)'
  <2>1. OperatorInv(q) /\ agent[q] \in Agents
    BY DEF IInv, TypeOK
  <2>2. CASE q = o
    BY <2>2 DEF IInv, TypeOK, OperatorInv
  <2>3. CASE q # o /\ pc[q] = "idle"
    BY <2>3 DEF IInv, TypeOK, OperatorInv
  <2>4. CASE q # o /\ pc[q] # "idle" /\ agent[q] = a
    <3>1. behind'[q] /\ pc'[q] = pc[q] /\ stored'[q] = stored[q] /\ token'[q] = token[q]
      BY <2>4 DEF IInv, TypeOK, Overtaken
    <3> QED
      BY <2>1, <2>4, <3>1, <1>2, OtherOperator
  <2>5. CASE q # o /\ pc[q] # "idle" /\ agent[q] # a
    <3>1. /\ behind'[q] = behind[q] /\ pc'[q] = pc[q]
          /\ stored'[q] = stored[q] /\ token'[q] = token[q]
      BY <2>5 DEF IInv, TypeOK, Overtaken
    <3> QED
      BY <2>1, <2>5, <3>1, <1>2, OtherOperator DEF SameContent
  <2> QED
    BY <2>2, <2>3, <2>4, <2>5
<1>6. CASE torn'[a]
  <2>1. RowCurrentUnlessTorn' /\ EnvelopeUnlessTorn'
    BY <1>2, <1>3, <1>6 DEF IInv, RowCurrentUnlessTorn, EnvelopeUnlessTorn
  <2> QED
    BY <1>4, <2>1 DEF IInv
<1>7. CASE ~torn'[a]
  <2>1. ~torn[a] /\ UpToDate(o)
    BY <1>1, <1>3, <1>7 DEF OperatorInv
  <2>2. /\ row'[a].contract = row[a].contract
        /\ row'[a].amendments = Append(row[a].amendments, patch[o])
        /\ row'[a].token = row[a].token
        /\ ValidPatch(row[a].contract, patch[o])
    BY <1>1, <1>2, <2>1 DEF UpToDate
  <2>3. RowCurrentUnlessTorn'
    <3>1. /\ row[a].contract = issued[a].contract
          /\ row[a].token = issued[a].token
          /\ row[a].amendments = accepted[a]
      BY <1>1, <2>1 DEF IInv, RowCurrentUnlessTorn
    <3>2. /\ row'[a].contract = issued'[a].contract
          /\ row'[a].token = issued'[a].token
          /\ row'[a].amendments = accepted'[a]
      BY <3>1, <1>3, <2>2
    <3> QED
      BY <3>2, <1>2, <1>3 DEF IInv, RowCurrentUnlessTorn
  <2>4. EnvelopeUnlessTorn'
    <3>1. row[a].amendments \in Seq(Amendment)
      BY <1>1 DEF IInv, TypeOK, AgentRow
    <3>2. ASSUME NEW i \in DOMAIN Append(row[a].amendments, patch[o])
          PROVE  \/ /\ i \in DOMAIN row[a].amendments
                    /\ row'[a].amendments[i] = row[a].amendments[i]
                 \/ row'[a].amendments[i] = patch[o]
      <4>1. \/ /\ i \in DOMAIN row[a].amendments
               /\ Append(row[a].amendments, patch[o])[i] = row[a].amendments[i]
            \/ Append(row[a].amendments, patch[o])[i] = patch[o]
        BY <3>1, <1>1, AppendElements
      <4> QED
        BY <4>1, <2>2
    <3>3. ASSUME NEW i \in DOMAIN row'[a].amendments
          PROVE  /\ row'[a].contract.amendable
                 /\ \/ row'[a].amendments[i].max = Unlimited
                    \/ row'[a].amendments[i].max <= row'[a].contract.ceiling
      <4>1. i \in DOMAIN Append(row[a].amendments, patch[o])
        BY <2>2
      <4>2. CASE i \in DOMAIN row[a].amendments /\ row'[a].amendments[i] = row[a].amendments[i]
        BY <4>2, <1>1, <2>1, <2>2 DEF IInv, EnvelopeUnlessTorn
      <4>3. CASE row'[a].amendments[i] = patch[o]
        BY <4>3, <2>2 DEF ValidPatch
      <4> QED
        BY <4>1, <4>2, <4>3, <3>2
    <3> QED
      BY <1>2, <1>3, <3>3 DEF IInv, EnvelopeUnlessTorn
  <2> QED
    BY <1>4, <2>3, <2>4 DEF IInv
<1> QED
  BY <1>6, <1>7

LEMMA QuietIInv ==
    ASSUME IInv, TypeOK', UNCHANGED <<row, opvars, history>>
    PROVE  IInv'
<1>1. ASSUME NEW o \in Operators
      PROVE  OperatorInv(o)'
  BY OtherOperator DEF IInv, SameContent, opvars, history
<1> QED
  BY <1>1, SameRows DEF IInv, SameContent, history

LEMMA Inductive == IInv /\ [Next]_vars => IInv'
<1> SUFFICES ASSUME IInv, [Next]_vars
             PROVE  IInv'
  OBVIOUS
<1>1. TypeOK'
  BY NextTypeOK DEF IInv
<1>2. CASE Tick \/ UNCHANGED vars
  BY <1>1, <1>2, QuietIInv DEF Tick, vars
<1>3. ASSUME NEW a \in Agents, EnsureRow(a)
      PROVE  IInv'
  <2>1. "ACTIVE" \in Statuses
    BY DEF Statuses
  <2> QED
    BY <1>1, <1>3, <2>1, StatusIInv
<1>4. ASSUME NEW a \in Agents, NEW c \in Contracts, Handshake(a, c) \/ RegisterAgent(a, c)
      PROVE  IInv'
  <2>1. PICK t \in Tokens : RowAnew(a, c, t)
    <3>1. 0 \in Tokens /\ (handshakes < MaxHandshakes => handshakes + 1 \in Tokens)
      BY BoundsAssumption DEF Tokens, IInv, TypeOK
    <3> QED
      BY <1>4, <3>1 DEF Handshake, RegisterAgent
  <2> QED
    BY <1>1, <2>1, RowAnewIInv
<1> QED
  BY <1>1, <1>2, <1>3, <1>4, StatusIInv, AmendIInv, ReadStoredIInv, ReadRecIInv,
     UpsertIInv DEF Next

(* The invariant the results below rest on.                                *)
THEOREM InductiveInvariant == Spec => []IInv
  BY InitIInv, Inductive, PTL DEF Spec

(* Amendments and handshakes that do not overlap lose nothing: the row     *)
(* holds the last handshake and every amendment accepted since.            *)
THEOREM NothingLostUnlessTorn == Spec => []RowCurrentUnlessTorn
<1>1. IInv => RowCurrentUnlessTorn
  BY DEF IInv
<1> QED
  BY <1>1, InductiveInvariant, PTL

(* ... and keep every amendment inside its contract's envelope.            *)
THEOREM EnvelopeRespected == Spec => []EnvelopeUnlessTorn
<1>1. IInv => EnvelopeUnlessTorn
  BY DEF IInv
<1> QED
  BY <1>1, InductiveInvariant, PTL

-----------------------------------------------------------------------------
(* AgentRegistry implements AgentDirectory.                                *)

LEMMA LeastNatural ==
    ASSUME NEW T \in SUBSET Nat, T # {}
    PROVE  \E d \in T : \A e \in T : d <= e
<1> DEFINE R == {ss \in Nat \X Nat : ss[1] < ss[2]}
<1>1. IsWellFoundedOn(R, Nat)
  BY NatLessThanWellFounded DEF OpToRel
<1>2. PICK d \in T : \A e \in T : ~(<<e, d>> \in R)
  <2> HIDE DEF R
  <2> QED
    BY <1>1, WFMin
<1>3. ASSUME NEW e \in T
      PROVE  d <= e
  <2>1. <<e, d>> \in Nat \X Nat /\ ~(<<e, d>> \in R)
    BY <1>2
  <2> QED
    BY <2>1
<1> QED
  BY <1>3

(* A nonempty set of positions in a sequence has a last one.               *)
LEMMA LastPosition ==
    ASSUME NEW n \in Nat, NEW S \in SUBSET (1 .. n), S # {}
    PROVE  Max(S) \in S
<1> DEFINE T == {n - i : i \in S}
<1>1. PICK s \in S : TRUE
  OBVIOUS
<1>2. \A i \in S : n - i \in Nat /\ n - i \in T
  OBVIOUS
<1>3. T \in SUBSET Nat /\ T # {}
  BY <1>1, <1>2
<1> HIDE DEF T
<1>4. PICK d \in T : \A e \in T : d <= e
  BY <1>3, LeastNatural
<1>5. PICK m \in S : d = n - m
  BY <1>4 DEF T
<1>6. ASSUME NEW i \in S
      PROVE  m >= i
  <2>1. n - m <= n - i
    BY <1>2, <1>4, <1>5
  <2> QED
    BY <2>1
<1> QED
  BY <1>6 DEF Max

LEMMA EffectiveBoundType ==
    ASSUME NEW c \in Contract, NEW ams \in Seq(Amendment), NEW now
    PROVE  EffectiveBound(c, ams, now) \in Bounds
<1> DEFINE inForce == {i \in DOMAIN ams : ams[i].expires > now}
<1>1. CASE inForce = {}
  BY <1>1 DEF EffectiveBound, Contract
<1>2. CASE inForce # {}
  <2>1. Len(ams) \in Nat /\ inForce \in SUBSET (1 .. Len(ams))
    OBVIOUS
  <2>2. Max(inForce) \in DOMAIN ams
    BY <1>2, <2>1, LastPosition
  <2>3. ams[Max(inForce)] \in Amendment
    BY <2>2
  <2> QED
    BY <1>2, <2>3 DEF EffectiveBound, Amendment
<1> QED
  BY <1>1, <1>2

(* A bound that no patch removed is the contract's, or one its envelope     *)
(* allows.                                                                 *)
LEMMA BoundInEnvelope ==
    ASSUME NEW c \in Contract, NEW ams \in Seq(Amendment), NEW now,
           c.max <= c.ceiling,
           \A i \in DOMAIN ams : ams[i].max <= c.ceiling \/ ~(ams[i].expires > now)
    PROVE  EffectiveBound(c, ams, now) <= c.ceiling
<1> DEFINE inForce == {i \in DOMAIN ams : ams[i].expires > now}
<1>1. CASE inForce = {}
  BY <1>1 DEF EffectiveBound
<1>2. CASE inForce # {}
  <2>1. Len(ams) \in Nat /\ inForce \in SUBSET (1 .. Len(ams))
    OBVIOUS
  <2>2. Max(inForce) \in inForce
    BY <1>2, <2>1, LastPosition
  <2>3. ams[Max(inForce)].max <= c.ceiling
    BY <2>2
  <2> QED
    BY <1>2, <2>3 DEF EffectiveBound
<1> QED
  BY <1>1, <1>2

(* The bound in force leaves the envelope in three ways only: an amendment *)
(* was written over a changed row, the contract itself signs a max beyond  *)
(* its ceiling, or a null patch is in force.                               *)
EnvelopeInForce ==
    \A a \in Agents :
        \/ EffectiveMax(a) <= row[a].contract.ceiling
        \/ torn[a]
        \/ row[a].contract.max > row[a].contract.ceiling
        \/ \E i \in DOMAIN row[a].amendments :
              row[a].amendments[i].expires > clock /\ row[a].amendments[i].max = Unlimited

(* Apart from those the bound in force, which amendments and time move,    *)
(* never leaves the envelope the contract's issuer signed.                 *)
THEOREM BoundStaysSigned == Spec => []EnvelopeInForce
<1>1. IInv => EnvelopeInForce
  <2> SUFFICES ASSUME IInv, NEW a \in Agents,
                      ~torn[a],
                      ~(row[a].contract.max > row[a].contract.ceiling),
                      \A i \in DOMAIN row[a].amendments :
                         ~(row[a].amendments[i].expires > clock
                            /\ row[a].amendments[i].max = Unlimited)
               PROVE  EffectiveMax(a) <= row[a].contract.ceiling
    BY DEF EnvelopeInForce
  <2>1. row[a].contract \in Contract /\ row[a].amendments \in Seq(Amendment)
    BY DEF IInv, TypeOK, AgentRow
  <2>2. row[a].contract.max \in Nat /\ row[a].contract.ceiling \in Nat
    BY <2>1, LimitsAreNumbers DEF Contract, Bounds
  <2>3. row[a].contract.max <= row[a].contract.ceiling
    BY <2>2
  <2>4. \A i \in DOMAIN row[a].amendments :
            \/ row[a].amendments[i].max <= row[a].contract.ceiling
            \/ ~(row[a].amendments[i].expires > clock)
    BY DEF IInv, EnvelopeUnlessTorn
  <2> QED
    BY <2>1, <2>3, <2>4, BoundInEnvelope DEF EffectiveMax
<1> QED
  BY <1>1, InductiveInvariant, PTL

LEMMA InitDirectory == Init => Directory!DirInit
<1> SUFFICES ASSUME Init
             PROVE  Directory!DirInit
  OBVIOUS
<1>1. ASSUME NEW a \in Agents
      PROVE  row[a].status = "unknown" /\ EffectiveTerms(a) = Directory!NoTerms
  <2>1. row[a] = Unregistered
    BY DEF Init
  <2>2. \A now : EffectiveBound(Empty, <<>>, now) = Unlimited
    BY DEF EffectiveBound, Empty
  <2> QED
    BY <2>1, <2>2 DEF EffectiveTerms, Unregistered, Directory!NoTerms, Directory!Times
<1> QED
  BY <1>1 DEF Directory!DirInit, Init

(* A whole row written for an agent publishes its terms.                   *)
LEMMA RowWritten ==
    ASSUME TypeOK', NEW a \in Agents, row'[a].status = "ACTIVE",
           \A b \in Agents \ {a} : row'[b] = row[b], clock' = clock
    PROVE  Directory!DirNext
<1>1. \A now : EffectiveBound(row'[a].contract, row'[a].amendments, now) \in Bounds
  BY EffectiveBoundType DEF TypeOK, AgentRow
<1>2. EffectiveTerms(a)' \in Directory!Terms
  BY <1>1 DEF EffectiveTerms, Directory!Terms, Directory!Times, Bounds
<1>3. \A b \in Agents \ {a} : EffectiveTerms(b)' = EffectiveTerms(b)
  BY DEF EffectiveTerms
<1>4. PICK ts \in Directory!Terms : ts = EffectiveTerms(a)'
  BY <1>2
<1>5. Directory!Publish(a, ts)
  BY <1>3, <1>4 DEF Directory!Publish
<1> QED
  BY <1>5 DEF Directory!DirNext

LEMMA StatusWritten ==
    ASSUME NEW a \in Agents, NEW s \in Statuses, SetStatus(a, s), TypeOK
    PROVE  Directory!DirNext
<1>1. \A b \in Agents : EffectiveTerms(b)' = EffectiveTerms(b)
  BY DEF SetStatus, EffectiveTerms, TypeOK, AgentRow
<1>2. Directory!SetStatus(a, s)
  BY <1>1 DEF SetStatus, Directory!SetStatus, TypeOK, AgentRow
<1>3. s \in Directory!Statuses
  BY DEF Statuses, Restricted, Directory!Statuses, Directory!Restricted, Directory!Barred
<1> QED
  BY <1>2, <1>3 DEF Directory!DirNext

(* Time moves no row, hence no terms.                                      *)
LEMMA TimePassed ==
    ASSUME Tick
    PROVE  Directory!DirNext
<1>1. Directory!Tick
  BY DEF Tick, Directory!Tick, EffectiveTerms
<1> QED
  BY <1>1 DEF Directory!DirNext

LEMMA StepDirectory == IInv /\ TypeOK' /\ [Next]_vars => [Directory!DirNext]_(Directory!dirvars)
<1> SUFFICES ASSUME IInv, TypeOK', [Next]_vars
             PROVE  Directory!DirNext \/ UNCHANGED Directory!dirvars
  OBVIOUS
<1>1. ASSUME NEW a \in Agents, NEW c \in Contracts, Handshake(a, c) \/ RegisterAgent(a, c)
      PROVE  Directory!DirNext
  <2>1. /\ row'[a].status = "ACTIVE"
        /\ \A b \in Agents \ {a} : row'[b] = row[b]
        /\ clock' = clock
    BY <1>1 DEF IInv, TypeOK, Handshake, RegisterAgent, RowAnew
  <2> QED
    BY <2>1, RowWritten DEF IInv
<1>2. ASSUME NEW a \in Agents, EnsureRow(a)
      PROVE  Directory!DirNext
  BY <1>2, RowWritten DEF IInv, TypeOK, AgentRow, EnsureRow
<1>3. ASSUME NEW a \in Agents, NEW s \in Statuses, SetStatus(a, s)
      PROVE  Directory!DirNext
  BY <1>3, StatusWritten DEF IInv
<1>4. ASSUME NEW o \in Operators, Upsert(o)
      PROVE  Directory!DirNext
  BY <1>4, RowWritten DEF IInv, TypeOK, Upsert, AmendedRow
<1>5. CASE Tick
  BY <1>5, TimePassed DEF IInv
<1>6. ASSUME UNCHANGED <<row, clock>>
      PROVE  UNCHANGED Directory!dirvars
  BY <1>6 DEF Directory!dirvars, EffectiveTerms
<1> QED
  BY <1>1, <1>2, <1>3, <1>4, <1>5, <1>6 DEF Next, Amend, ReadStored, ReadRec, vars

(* The decision runtime may take the registry for an AgentDirectory.       *)
THEOREM Refinement == Spec => ImplementsDirectory
<1>1. IInv /\ IInv' /\ [Next]_vars => [Directory!DirNext]_(Directory!dirvars)
  BY StepDirectory DEF IInv
<1> QED
  BY <1>1, InitDirectory, InductiveInvariant, PTL
     DEF Spec, ImplementsDirectory, Directory!DirSpec
=============================================================================
