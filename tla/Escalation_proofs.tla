------------------------- MODULE Escalation_proofs --------------------------
(* Proofs about Escalation, for any agents, flows, callers and bounds.     *)
EXTENDS Escalation, FiniteSetTheorems, TLAPS

(* No caller's `now` is in the future.                                     *)
AskedBefore == \A c \in Callers : asked[c] <= clock

Spent(a) == Cardinality(Recent(tokens[a], clock)) + Cardinality(Counted(a))

IInv ==
    /\ TypeOK
    /\ AskedBefore
    /\ OverspendBounded
    /\ RequestsPaid

-----------------------------------------------------------------------------
(* Type correctness *)

LEMMA InitType == Init => TypeOK
<1> SUFFICES ASSUME Init PROVE TypeOK
  OBVIOUS
<1>1. 0 \in Times /\ 0 \in 0 .. MaxRequests
  BY NumbersAssumption DEF Times
<1>2. \A f \in Flows : rows[f] = <<>> /\ Len(rows[f]) = 0
  BY DEF Init
<1> QED
  BY <1>1, <1>2 DEF Init, TypeOK

LEMMA TransactionTypes ==
    ASSUME TypeOK, NEW c \in Callers
    PROVE  /\ BetweenTransactions(c) => begun' \in [Callers -> Times]
           /\ \A t \in Begins(c) : t \in Times
           /\ Stamp(c) \in Times
<1>1. clock \in Times /\ begun \in [Callers -> Times]
  BY DEF TypeOK
<1>2. ASSUME NEW t \in Begins(c) PROVE t \in Times
  <2>1. begun[c] \in 0 .. MaxClock /\ clock \in 0 .. MaxClock
    BY <1>1 DEF Times
  <2> QED
    BY <2>1, NumbersAssumption DEF Begins, Times
<1>3. [begun EXCEPT ![c] = clock] \in [Callers -> Times]
  BY <1>1
<1> QED
  BY <1>1, <1>2, <1>3 DEF BetweenTransactions, Stamp

LEMMA NextType == TypeOK /\ [Next]_vars => TypeOK'
<1> SUFFICES ASSUME TypeOK, [Next]_vars PROVE TypeOK'
  OBVIOUS
<1> USE DEF TypeOK
<1>1. ASSUME NEW c \in Callers, NEW a \in Agents, NEW f \in Flows, Request(c, a, f)
      PROVE  TypeOK'
  BY <1>1, NumbersAssumption DEF Request, history
<1>2. ASSUME NEW c \in Callers, CountWindow(c)
      PROVE  TypeOK'
  BY <1>2, TransactionTypes DEF CountWindow, history
<1>3. ASSUME NEW c \in Callers, RecordToken(c)
      PROVE  TypeOK'
  <2>1. tokens' \in [Agents -> Seq(Times)]
    BY <1>3, TransactionTypes DEF RecordToken
  <2>2. paid' \in [Flows -> Nat]
    BY <1>3 DEF RecordToken
  <2> QED
    BY <1>3, <2>1, <2>2, TransactionTypes DEF RecordToken
<1>4. ASSUME NEW c \in Callers, InsertRequest(c)
      PROVE  TypeOK'
  <2> DEFINE Status == Decided \cup {"PENDING"}
  <2>1. Inserted(rows[flow[c]]) \in Seq(Status)
    <3>1. rows[flow[c]] \in Seq(Status) /\ "PENDING" \in Status
      OBVIOUS
    <3> HIDE DEF Status
    <3>2. <<"PENDING">> \in Seq(Status) /\ Append(rows[flow[c]], "PENDING") \in Seq(Status)
      BY <3>1
    <3> QED
      BY <3>2 DEF Inserted
  <2>2. backend = "memory" => Len(Inserted(rows[flow[c]])) = 1
    <3>1. backend = "memory" => Inserted(rows[flow[c]]) = <<"PENDING">>
      BY DEF Inserted
    <3> QED
      BY <3>1
  <2>3. granted' \in [Agents -> Seq(Times)]
    BY <1>4 DEF InsertRequest
  <2>4. rows' = [rows EXCEPT ![flow[c]] = Inserted(rows[flow[c]])] /\ backend' = backend
    BY <1>4 DEF InsertRequest
  <2>5. backend' = "memory" => \A f \in Flows : Len(rows'[f]) <= 1
    <3> SUFFICES ASSUME backend = "memory", NEW f \in Flows PROVE Len(rows'[f]) <= 1
      BY <2>4
    <3>1. rows'[f] = Inserted(rows[flow[c]]) \/ rows'[f] = rows[f]
      BY <2>4
    <3>2. Len(Inserted(rows[flow[c]])) = 1
      BY <2>2
    <3>3. Len(rows[f]) <= 1
      OBVIOUS
    <3>4. CASE rows'[f] = Inserted(rows[flow[c]])
      <4>1. Len(rows'[f]) = 1
        BY <3>2, <3>4, Zenon
      <4> QED
        BY <4>1
    <3>5. CASE rows'[f] = rows[f]
      BY <3>3, <3>5
    <3> QED
      BY <3>1, <3>4, <3>5
  <2>6. rows' \in [Flows -> Seq(Status)]
    BY <2>1, <2>4
  <2> QED
    BY <1>4, <2>3, <2>5, <2>6, TransactionTypes DEF InsertRequest
<1>5. ASSUME NEW f \in Flows, NEW d \in Decided, Resolve(f, d)
      PROVE  TypeOK'
  <2> DEFINE new == [i \in DOMAIN rows[f] |-> IF Resolves(rows[f][i]) THEN d ELSE rows[f][i]]
  <2>1. new \in Seq(Decided \cup {"PENDING"}) /\ Len(new) = Len(rows[f])
    <3>1. rows[f] \in Seq(Decided \cup {"PENDING"})
      OBVIOUS
    <3>2. DOMAIN rows[f] = 1 .. Len(rows[f]) /\ Len(rows[f]) \in Nat
      BY <3>1
    <3>3. \A i \in 1 .. Len(rows[f]) : rows[f][i] \in Decided \cup {"PENDING"}
      BY <3>1
    <3>4. new \in [1 .. Len(rows[f]) -> Decided \cup {"PENDING"}]
      BY <3>2, <3>3
    <3> QED
      BY <3>2, <3>4
  <2>2. rows' = [rows EXCEPT ![f] = new]
    BY <1>5 DEF Resolve
  <2> QED
    BY <1>5, <2>1, <2>2 DEF Resolve, callvars, history
<1>6. ASSUME NEW a \in Agents, Handshake(a)
      PROVE  TypeOK'
  BY <1>6 DEF Handshake, callvars, history
<1>7. ASSUME NEW c \in Callers, Stop(c)
      PROVE  TypeOK'
  BY <1>7, TransactionTypes DEF Stop, history
<1>8. CASE Restart
  BY <1>8 DEF Restart, history
<1>9. CASE Tick
  BY <1>9, NumbersAssumption DEF Tick, Times, callvars, history
<1>10. CASE UNCHANGED vars
  BY <1>10 DEF vars, callvars, history
<1> QED
  BY <1>1, <1>2, <1>3, <1>4, <1>5, <1>6, <1>7, <1>8, <1>9, <1>10 DEF Next

(* Every variable stays in its type (TypeOK): in particular the memory     *)
(* backend never holds two requests of one flow.                           *)
THEOREM TypeCorrect == Spec => []TypeOK
  BY InitType, NextType, PTL DEF Spec

-----------------------------------------------------------------------------
(* Finite sets of tokens and of callers *)

LEMMA TimesAreNumbers == Times \subseteq Nat /\ \A s \in Seq(Times) : \A i \in DOMAIN s : s[i] \in Nat
<1>1. Times \subseteq Nat
  BY DEF Times
<1> HIDE DEF Times
<1>2. ASSUME NEW s \in Seq(Times), NEW i \in DOMAIN s PROVE s[i] \in Times
  OBVIOUS
<1> QED
  BY <1>1, <1>2

LEMMA RecentFinite ==
    ASSUME NEW s \in Seq(Times), NEW now \in Times
    PROVE  /\ IsFiniteSet(Recent(s, now))
           /\ Cardinality(Recent(s, now)) \in Nat
<1>1. DOMAIN s = 1 .. Len(s) /\ Len(s) \in Nat
  OBVIOUS
<1>2. IsFiniteSet(1 .. Len(s)) /\ Recent(s, now) \in SUBSET (1 .. Len(s))
  BY <1>1, FS_Interval DEF Recent
<1> QED
  BY <1>2, FS_Subset, FS_CardinalityType

(* The later `now` is, the fewer tokens are recent.                        *)
LEMMA RecentShrinks ==
    ASSUME NEW s \in Seq(Times), NEW early \in Times, NEW late \in Times, early <= late
    PROVE  Cardinality(Recent(s, late)) <= Cardinality(Recent(s, early))
<1>1. \A i \in DOMAIN s : s[i] \in Nat
  BY TimesAreNumbers
<1>2. Recent(s, late) \in SUBSET Recent(s, early)
  BY <1>1, NumbersAssumption DEF Recent, Times
<1> QED
  BY <1>2, RecentFinite, FS_Subset

(* A new token adds one at most.                                           *)
LEMMA RecentGrows ==
    ASSUME NEW s \in Seq(Times), NEW t \in Times, NEW now \in Times
    PROVE  Cardinality(Recent(Append(s, t), now)) <= Cardinality(Recent(s, now)) + 1
<1> DEFINE more == Recent(s, now) \cup {Len(s) + 1}
<1>1. Recent(Append(s, t), now) \in SUBSET more
  <2>1. \A i \in DOMAIN Append(s, t) : i = Len(s) + 1 \/ (i \in DOMAIN s /\ Append(s, t)[i] = s[i])
    OBVIOUS
  <2> QED
    BY <2>1 DEF Recent
<1>2. IsFiniteSet(more) /\ Cardinality(more) <= Cardinality(Recent(s, now)) + 1
  <2>1. IsFiniteSet(Recent(s, now)) /\ Cardinality(Recent(s, now)) \in Nat
    BY RecentFinite
  <2> DEFINE R == Recent(s, now)
  <2> HIDE DEF R
  <2>2. IsFiniteSet(R) => IsFiniteSet(R \cup {Len(s) + 1})
    BY FS_AddElement
  <2>3. IsFiniteSet(R) =>
            Cardinality(R \cup {Len(s) + 1}) = IF Len(s) + 1 \in R THEN Cardinality(R)
                                                                ELSE Cardinality(R) + 1
    BY FS_AddElement
  <2> QED
    BY <2>1, <2>2, <2>3 DEF R
<1>3. Cardinality(Recent(Append(s, t), now)) <= Cardinality(more)
  BY <1>1, <1>2, FS_Subset
<1>4. Append(s, t) \in Seq(Times)
  OBVIOUS
<1>5. Cardinality(more) \in Nat /\ Cardinality(Recent(Append(s, t), now)) \in Nat
  BY <1>2, <1>4, RecentFinite, FS_CardinalityType
<1> QED
  BY <1>2, <1>3, <1>5, RecentFinite

LEMMA CallerSets ==
    ASSUME NEW S \in SUBSET Callers
    PROVE  /\ IsFiniteSet(S)
           /\ Cardinality(S) \in Nat
           /\ Cardinality(Callers) \in Nat
           /\ Cardinality(S) <= Cardinality(Callers)
  BY CallersAssumption, FS_Subset, FS_CardinalityType

LEMMA CallersOrdered ==
    ASSUME NEW T \in SUBSET Callers, NEW S \in SUBSET T
    PROVE  Cardinality(S) <= Cardinality(T)
  BY CallerSets, FS_Subset

LEMMA CallerLeaves ==
    ASSUME NEW T \in SUBSET Callers, NEW c \in T, NEW S, S = T \ {c}
    PROVE  Cardinality(S) = Cardinality(T) - 1
  BY CallerSets, FS_RemoveElement

LEMMA CallerJoins ==
    ASSUME NEW T \in SUBSET Callers, NEW c \in Callers, NEW S \in SUBSET (T \cup {c})
    PROVE  Cardinality(S) <= Cardinality(T) + 1
<1>1. Cardinality(T \cup {c}) <= Cardinality(T) + 1
  BY CallerSets, FS_AddElement
<1>2. Cardinality(S) <= Cardinality(T \cup {c})
  BY CallersOrdered
<1>3. T \cup {c} \in SUBSET Callers /\ S \in SUBSET Callers
  OBVIOUS
<1> QED
  BY <1>1, <1>2, <1>3, CallerSets

-----------------------------------------------------------------------------
(* The bound on the overspend *)

LEMMA SpentTypes ==
    ASSUME TypeOK, NEW a \in Agents
    PROVE  /\ Counted(a) \in SUBSET Callers
           /\ Cardinality(Counted(a)) \in Nat
           /\ Cardinality(Recent(tokens[a], clock)) \in Nat
           /\ Spent(a) \in Nat
<1>1. Counted(a) \in SUBSET Callers
  BY DEF Counted
<1>2. tokens[a] \in Seq(Times) /\ clock \in Times
  BY DEF TypeOK
<1> QED
  BY <1>1, <1>2, CallerSets, RecentFinite DEF Spent

LEMMA NextAsked == TypeOK /\ TypeOK' /\ AskedBefore /\ [Next]_vars => AskedBefore'
<1> SUFFICES ASSUME TypeOK, TypeOK', AskedBefore, [Next]_vars PROVE AskedBefore'
  OBVIOUS
<1>1. clock \in Nat /\ clock' \in Nat /\ \A c \in Callers : asked[c] \in Nat
  BY DEF TypeOK, Times
<1>2. ASSUME NEW c \in Callers, NEW a \in Agents, NEW f \in Flows, Request(c, a, f)
      PROVE  AskedBefore'
  BY <1>1, <1>2 DEF Request, AskedBefore, TypeOK
<1>3. CASE Tick
  BY <1>1, <1>3 DEF Tick, callvars, AskedBefore
<1>4. CASE UNCHANGED <<clock, asked>>
  BY <1>4 DEF AskedBefore
<1> QED
  BY <1>2, <1>3, <1>4
     DEF Next, CountWindow, RecordToken, InsertRequest, Stop, Resolve, Handshake, Restart,
         vars, callvars

(* Neither the tokens nor the callers about to record one grow in number.  *)
LEMMA NoneSpent ==
    ASSUME TypeOK, TypeOK', NEW a \in Agents,
           \/ tokens'[a] = tokens[a]
           \/ tokens'[a] = <<>>,
           clock <= clock',
           Counted(a)' \in SUBSET Counted(a)
    PROVE  Spent(a)' <= Spent(a)
<1> DEFINE R == Cardinality(Recent(tokens[a], clock))
           S == Cardinality(Recent(tokens'[a], clock'))
<1>1. /\ tokens[a] \in Seq(Times) /\ tokens'[a] \in Seq(Times)
      /\ clock \in Times /\ clock' \in Times
  BY DEF TypeOK
<1>2. R \in Nat /\ S \in Nat
  BY <1>1, RecentFinite
<1>3. S <= R
  <2>1. CASE tokens'[a] = tokens[a]
    BY <1>1, <2>1, RecentShrinks
  <2>2. CASE tokens'[a] = <<>>
    <3>1. Recent(tokens'[a], clock') = {}
      BY <2>2 DEF Recent
    <3> QED
      BY <1>2, <3>1, FS_EmptySet
  <2> QED
    BY <2>1, <2>2
<1>4. PICK C : C = Counted(a)'
  OBVIOUS
<1>5. C \in SUBSET Counted(a) /\ Counted(a) \in SUBSET Callers /\ C \in SUBSET Callers
  BY <1>4, SpentTypes
<1>6. /\ Cardinality(C) <= Cardinality(Counted(a))
      /\ Cardinality(C) \in Nat /\ Cardinality(Counted(a)) \in Nat
  BY <1>5, CallersOrdered, CallerSets
<1>7. Spent(a)' = S + Cardinality(C) /\ Spent(a) = R + Cardinality(Counted(a))
  BY <1>4 DEF Spent
<1> QED
  BY <1>2, <1>3, <1>6, <1>7

(* A token recorded was about to be.                                       *)
LEMMA CountedSpent ==
    ASSUME TypeOK, TypeOK', NEW a \in Agents, NEW c \in Callers, RecordToken(c), agent[c] = a
    PROVE  Spent(a)' <= Spent(a)
<1> DEFINE R == Cardinality(Recent(tokens[a], clock))
           S == Cardinality(Recent(tokens'[a], clock'))
<1>1. /\ tokens[a] \in Seq(Times) /\ tokens'[a] = Append(tokens[a], Stamp(c))
      /\ clock \in Times /\ clock' = clock
  BY DEF TypeOK, RecordToken
<1>2. S <= R + 1
  BY <1>1, RecentGrows, TransactionTypes
<1>3. tokens'[a] \in Seq(Times)
  BY DEF TypeOK
<1>4. R \in Nat /\ S \in Nat
  BY <1>1, <1>3, RecentFinite
<1>5. PICK C : C = Counted(a)'
  OBVIOUS
<1>6. c \in Counted(a) /\ C = Counted(a) \ {c} /\ Counted(a) \in SUBSET Callers
  BY <1>5 DEF RecordToken, Counted, TypeOK
<1>7. /\ Cardinality(C) = Cardinality(Counted(a)) - 1
      /\ Cardinality(Counted(a)) \in Nat
  BY <1>6, CallerLeaves, CallerSets
<1>8. Spent(a)' = S + Cardinality(C) /\ Spent(a) = R + Cardinality(Counted(a))
  BY <1>5 DEF Spent
<1> QED
  BY <1>2, <1>4, <1>7, <1>8

(* A caller that finds room leaves room for the others, once each.         *)
LEMMA RoomCounted ==
    ASSUME TypeOK, TypeOK', AskedBefore, NEW a \in Agents, NEW c \in Callers,
           CountWindow(c), agent[c] = a, ~Exhausted(c)
    PROVE  Spent(a)' < Budget + Cardinality(Callers)
<1> DEFINE R == Cardinality(Recent(tokens[a], clock))
           S == Cardinality(Recent(tokens[a], asked[c]))
<1>1. /\ tokens[a] \in Seq(Times) /\ tokens' = tokens
      /\ clock \in Times /\ clock' = clock /\ asked[c] \in Times /\ asked[c] <= clock
  BY DEF TypeOK, CountWindow, AskedBefore
<1>2. R \in Nat /\ S \in Nat /\ R <= S
  BY <1>1, RecentFinite, RecentShrinks
<1>3. S < Budget
  BY <1>2, NumbersAssumption DEF Exhausted
<1>4. PICK C : C = Counted(a)'
  OBVIOUS
<1>5. C \in SUBSET Callers
  BY <1>4 DEF Counted
<1>6. /\ Cardinality(C) \in Nat /\ Cardinality(Callers) \in Nat
      /\ Cardinality(C) <= Cardinality(Callers)
  BY <1>5, CallerSets
<1>7. Spent(a)' = R + Cardinality(C)
  BY <1>1, <1>4 DEF Spent
<1> QED
  BY <1>2, <1>3, <1>6, <1>7, NumbersAssumption

LEMMA InitOverspend == Init => OverspendBounded
<1> SUFFICES ASSUME Init, NEW a \in Agents PROVE Spent(a) = 0
  BY NumbersAssumption DEF OverspendBounded, Spent
<1>1. Recent(tokens[a], clock) = {} /\ Counted(a) = {}
  BY DEF Init, Recent, Counted
<1> QED
  BY <1>1, FS_EmptySet DEF Spent

LEMMA NextOverspend ==
    TypeOK /\ TypeOK' /\ AskedBefore /\ OverspendBounded /\ [Next]_vars => OverspendBounded'
<1> SUFFICES ASSUME TypeOK, TypeOK', AskedBefore, OverspendBounded, [Next]_vars, NEW a \in Agents
             PROVE  Spent(a)' <= Budget \/ Spent(a)' < Budget + Cardinality(Callers)
  BY DEF OverspendBounded, Spent
<1>1. Spent(a) <= Budget \/ Spent(a) < Budget + Cardinality(Callers)
  BY DEF OverspendBounded, Spent
<1>2. Spent(a) \in Nat
  BY SpentTypes
<1>3. Spent(a)' \in Nat
  <2>1. PICK C : C = Counted(a)'
    OBVIOUS
  <2>2. C \in SUBSET Callers
    BY <2>1 DEF Counted
  <2>3. tokens'[a] \in Seq(Times) /\ clock' \in Times
    BY DEF TypeOK
  <2>4. Cardinality(Recent(tokens'[a], clock')) \in Nat /\ Cardinality(C) \in Nat
    BY <2>2, <2>3, CallerSets, RecentFinite
  <2>5. Spent(a)' = Cardinality(Recent(tokens'[a], clock')) + Cardinality(C)
    BY <2>1 DEF Spent
  <2> QED
    BY <2>4, <2>5
<1>4. Cardinality(Callers) \in Nat
  BY CallersAssumption, FS_CardinalityType
<1>5. ASSUME Spent(a)' <= Spent(a)
      PROVE  Spent(a)' <= Budget \/ Spent(a)' < Budget + Cardinality(Callers)
  BY <1>1, <1>2, <1>3, <1>4, <1>5, NumbersAssumption
<1>6. clock \in Nat /\ clock' \in Nat
  BY DEF TypeOK, Times
<1>7. ASSUME NEW c \in Callers, NEW b \in Agents, NEW f \in Flows, Request(c, b, f)
      PROVE  Spent(a)' <= Spent(a)
  <2>1. Counted(a)' \in SUBSET Counted(a)
    BY <1>7 DEF Request, Counted, TypeOK
  <2> QED
    BY <1>6, <1>7, <2>1, NoneSpent DEF Request
<1>8. ASSUME NEW c \in Callers, CountWindow(c)
      PROVE  \/ Spent(a)' <= Spent(a)
             \/ Spent(a)' < Budget + Cardinality(Callers)
  <2>1. CASE agent[c] = a /\ ~Exhausted(c)
    BY <1>8, <2>1, RoomCounted
  <2>2. CASE agent[c] # a \/ Exhausted(c)
    <3>1. Counted(a)' \in SUBSET Counted(a)
      BY <1>8, <2>2 DEF CountWindow, Counted, TypeOK
    <3> QED
      BY <1>6, <1>8, <3>1, NoneSpent DEF CountWindow
  <2> QED
    BY <2>1, <2>2
<1>9. ASSUME NEW c \in Callers, RecordToken(c)
      PROVE  Spent(a)' <= Spent(a)
  <2>1. CASE agent[c] = a
    BY <1>9, <2>1, CountedSpent
  <2>2. CASE agent[c] # a
    BY <1>6, <1>9, <2>2, NoneSpent DEF RecordToken, Counted, TypeOK
  <2> QED
    BY <2>1, <2>2
<1>10. ASSUME NEW c \in Callers, InsertRequest(c) \/ Stop(c)
       PROVE  Spent(a)' <= Spent(a)
  <2>1. Counted(a)' \in SUBSET Counted(a)
    BY <1>10 DEF InsertRequest, Stop, Counted, TypeOK
  <2> QED
    BY <1>6, <1>10, <2>1, NoneSpent DEF InsertRequest, Stop
<1>11. ASSUME NEW f \in Flows, NEW d \in Decided, Resolve(f, d)
       PROVE  Spent(a)' <= Spent(a)
  BY <1>6, <1>11, NoneSpent DEF Resolve, Counted, callvars
<1>12. ASSUME NEW b \in Agents, Handshake(b)
       PROVE  Spent(a)' <= Spent(a)
  <2>1. tokens'[a] = tokens[a] \/ tokens'[a] = <<>>
    BY <1>12 DEF Handshake, TypeOK
  <2> QED
    BY <1>6, <1>12, <2>1, NoneSpent DEF Handshake, Counted, callvars
<1>13. CASE Restart
  BY <1>5, <1>6, <1>13, NoneSpent DEF Restart, Counted
<1>14. CASE Tick
  BY <1>5, <1>6, <1>14, NoneSpent DEF Tick, Counted, callvars
<1>15. CASE UNCHANGED vars
  BY <1>5, <1>6, <1>15, NoneSpent DEF vars, Counted, callvars
<1> QED
  BY <1>5, <1>7, <1>8, <1>9, <1>10, <1>11, <1>12, <1>13, <1>14, <1>15 DEF Next

-----------------------------------------------------------------------------
(* Requests and tokens *)

LEMMA InitPaid == Init => RequestsPaid
<1> SUFFICES ASSUME Init, NEW f \in Flows PROVE Len(rows[f]) + Cardinality(Inserting(f)) <= paid[f]
  BY DEF RequestsPaid
<1>1. Len(rows[f]) = 0 /\ paid[f] = 0 /\ Inserting(f) = {}
  BY DEF Init, Inserting
<1> QED
  BY <1>1, FS_EmptySet

LEMMA NextPaid == TypeOK /\ TypeOK' /\ RequestsPaid /\ [Next]_vars => RequestsPaid'
<1> SUFFICES ASSUME TypeOK, TypeOK', RequestsPaid, [Next]_vars, NEW f \in Flows
             PROVE  Len(rows'[f]) + Cardinality(Inserting(f)') <= paid'[f]
  BY DEF RequestsPaid
<1> DEFINE I == Inserting(f)
<1>1. PICK J : J = Inserting(f)'
  OBVIOUS
<1>2. I \in SUBSET Callers /\ J \in SUBSET Callers
  BY <1>1 DEF Inserting
<1>3. Cardinality(I) \in Nat /\ Cardinality(J) \in Nat
  BY <1>2, CallerSets
<1>4. /\ Len(rows[f]) \in Nat /\ Len(rows'[f]) \in Nat /\ paid[f] \in Nat /\ paid'[f] \in Nat
      /\ Len(rows[f]) + Cardinality(I) <= paid[f]
  BY DEF TypeOK, RequestsPaid
<1>5. SUFFICES Len(rows'[f]) + Cardinality(J) <= paid'[f]
  BY <1>1
<1>6. ASSUME paid'[f] = paid[f], Len(rows'[f]) <= Len(rows[f]), J \in SUBSET I
      PROVE  Len(rows'[f]) + Cardinality(J) <= paid'[f]
  <2>1. Cardinality(J) <= Cardinality(I)
    BY <1>2, <1>6, CallersOrdered
  <2> QED
    BY <1>3, <1>4, <1>6, <2>1
<1>7. ASSUME NEW c \in Callers, NEW a \in Agents, NEW g \in Flows, Request(c, a, g)
      PROVE  Len(rows'[f]) + Cardinality(J) <= paid'[f]
  <2>1. J \in SUBSET I
    BY <1>1, <1>7 DEF Request, Inserting, TypeOK
  <2> QED
    BY <1>4, <1>6, <1>7, <2>1 DEF Request, history
<1>8. ASSUME NEW c \in Callers, CountWindow(c) \/ Stop(c)
      PROVE  Len(rows'[f]) + Cardinality(J) <= paid'[f]
  <2>1. J \in SUBSET I
    BY <1>1, <1>8 DEF CountWindow, Stop, Inserting, TypeOK
  <2> QED
    BY <1>4, <1>6, <1>8, <2>1 DEF CountWindow, Stop, history
<1>9. ASSUME NEW c \in Callers, RecordToken(c)
      PROVE  Len(rows'[f]) + Cardinality(J) <= paid'[f]
  <2>1. rows' = rows
    BY <1>9 DEF RecordToken
  <2>2. CASE flow[c] = f
    <3>1. J \in SUBSET (I \cup {c})
      BY <1>1, <1>9 DEF RecordToken, Inserting, TypeOK
    <3>2. Cardinality(J) <= Cardinality(I) + 1
      BY <1>2, <3>1, CallerJoins
    <3>3. paid'[f] = paid[f] + 1
      BY <1>9, <2>2 DEF RecordToken, TypeOK
    <3> QED
      BY <1>3, <1>4, <2>1, <3>2, <3>3
  <2>3. CASE flow[c] # f
    <3>1. J \in SUBSET I
      BY <1>1, <1>9, <2>3 DEF RecordToken, Inserting, TypeOK
    <3>2. paid'[f] = paid[f]
      BY <1>9, <2>3 DEF RecordToken, TypeOK
    <3> QED
      BY <1>4, <1>6, <2>1, <3>1, <3>2
  <2> QED
    BY <2>2, <2>3
<1>10. ASSUME NEW c \in Callers, InsertRequest(c)
       PROVE  Len(rows'[f]) + Cardinality(J) <= paid'[f]
  <2>1. paid' = paid
    BY <1>10 DEF InsertRequest
  <2>2. CASE flow[c] = f
    <3>1. c \in I /\ J = I \ {c}
      BY <1>1, <1>10, <2>2 DEF InsertRequest, Inserting, TypeOK
    <3>2. Cardinality(J) = Cardinality(I) - 1
      BY <1>2, <3>1, CallerLeaves
    <3>3. rows'[f] = Inserted(rows[f])
      BY <1>10, <2>2 DEF InsertRequest, TypeOK
    <3>4. Len(rows'[f]) <= Len(rows[f]) + 1
      <4>1. rows[f] \in Seq(Decided \cup {"PENDING"})
        BY DEF TypeOK
      <4>2. Len(Append(rows[f], "PENDING")) = Len(rows[f]) + 1 /\ Len(<<"PENDING">>) = 1
        BY <4>1
      <4> QED
        BY <1>4, <3>3, <4>2 DEF Inserted
    <3> QED
      BY <1>3, <1>4, <2>1, <3>2, <3>4
  <2>3. CASE flow[c] # f
    <3>1. J \in SUBSET I
      BY <1>1, <1>10 DEF InsertRequest, Inserting, TypeOK
    <3>2. rows'[f] = rows[f]
      BY <1>10, <2>3 DEF InsertRequest, TypeOK
    <3> QED
      BY <1>4, <1>6, <2>1, <3>1, <3>2
  <2> QED
    BY <2>2, <2>3
<1>11. ASSUME NEW g \in Flows, NEW d \in Decided, Resolve(g, d)
       PROVE  Len(rows'[f]) + Cardinality(J) <= paid'[f]
  <2>1. J \in SUBSET I /\ paid' = paid
    BY <1>1, <1>11 DEF Resolve, Inserting, callvars, history
  <2>2. Len(rows'[f]) = Len(rows[f])
    <3>1. DOMAIN rows'[f] = DOMAIN rows[f]
      BY <1>11 DEF Resolve, TypeOK
    <3>2. rows[f] \in Seq(Decided \cup {"PENDING"}) /\ rows'[f] \in Seq(Decided \cup {"PENDING"})
      BY DEF TypeOK
    <3>3. 1 .. Len(rows'[f]) = 1 .. Len(rows[f])
      BY <3>1, <3>2
    <3> QED
      BY <1>4, <3>3
  <2> QED
    BY <1>4, <1>6, <2>1, <2>2
<1>12. ASSUME NEW a \in Agents, Handshake(a)
       PROVE  Len(rows'[f]) + Cardinality(J) <= paid'[f]
  BY <1>1, <1>4, <1>6, <1>12 DEF Handshake, Inserting, callvars, history
<1>13. CASE Restart
  <2>1. J = {} /\ Len(rows'[f]) = 0 /\ paid' = paid
    BY <1>1, <1>13 DEF Restart, Inserting, history
  <2> QED
    BY <1>4, <1>6, <2>1
<1>14. CASE Tick \/ UNCHANGED vars
  BY <1>1, <1>4, <1>6, <1>14 DEF Tick, Inserting, vars, callvars, history
<1> QED
  BY <1>7, <1>8, <1>9, <1>10, <1>11, <1>12, <1>13, <1>14 DEF Next

-----------------------------------------------------------------------------

THEOREM InductiveInvariant == Spec => []IInv
<1>1. Init => IInv
  BY InitType, InitOverspend, InitPaid, NumbersAssumption DEF Init, IInv, AskedBefore
<1>2. IInv /\ [Next]_vars => IInv'
  BY NextType, NextAsked, NextOverspend, NextPaid DEF IInv
<1> QED
  BY <1>1, <1>2, PTL DEF Spec

(* However callers overlap, hand over to one another, stop or restart, they *)
(* overspend an agent's budget by less than their number                   *)
(* (OverspendBounded): the count in request_escalation precedes the token. *)
THEOREM BudgetNearlyHolds == Spec => []OverspendBounded
  BY InductiveInvariant, PTL DEF IInv

(* No request reaches a human without a token of its own (RequestsPaid):   *)
(* request_escalation records the token before it inserts the request.     *)
THEOREM NoFreeRequest == Spec => []RequestsPaid
  BY InductiveInvariant, PTL DEF IInv

(* In a database no step changes a decision (DecisionsFinal).               *)
THEOREM DecisionsKept == Spec => DecisionsFinal
<1> DEFINE Kept == backend # "memory" =>
               \A f \in Flows : \A i \in DOMAIN rows[f] :
                   rows[f][i] \in Decided => i \in DOMAIN rows'[f] /\ rows'[f][i] = rows[f][i]
<1>1. TypeOK /\ [Next]_vars => [Kept]_vars
  <2> SUFFICES ASSUME TypeOK, [Next]_vars, backend # "memory", NEW f \in Flows,
                      NEW i \in DOMAIN rows[f], rows[f][i] \in Decided
               PROVE  i \in DOMAIN rows'[f] /\ rows'[f][i] = rows[f][i]
    OBVIOUS
  <2>1. CASE rows'[f] = rows[f]
    BY <2>1
  <2>2. ASSUME NEW c \in Callers, InsertRequest(c)
        PROVE  i \in DOMAIN rows'[f] /\ rows'[f][i] = rows[f][i]
    <3>1. rows[f] \in Seq(Decided \cup {"PENDING"})
      BY DEF TypeOK
    <3>2. rows'[f] = rows[f] \/ rows'[f] = Append(rows[f], "PENDING")
      BY <2>2 DEF InsertRequest, Inserted, TypeOK
    <3> QED
      BY <3>1, <3>2
  <2>3. ASSUME NEW g \in Flows, NEW d \in Decided, Resolve(g, d)
        PROVE  i \in DOMAIN rows'[f] /\ rows'[f][i] = rows[f][i]
    <3>1. ~Resolves(rows[f][i])
      BY DEF Resolves, Decided
    <3> QED
      BY <2>3, <3>1 DEF Resolve, TypeOK
  <2>4. ~Restart
    BY DEF Restart
  <2> QED
    BY <2>1, <2>2, <2>3, <2>4
       DEF Next, Request, CountWindow, RecordToken, Stop, Handshake, Tick, vars, history
<1> QED
  BY <1>1, TypeCorrect, PTL DEF Spec, DecisionsFinal
=============================================================================
