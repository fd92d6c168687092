------------------------ MODULE ResourceLock_proofs -------------------------
(* Proofs about ResourceLock, for any flows, resources, capacities and     *)
(* requests.                                                               *)
EXTENDS ResourceLock, FiniteSetTheorems, TLAPS

-----------------------------------------------------------------------------
(* Sums over a finite set.  SumFunctionOnSet is a recursive function; what *)
(* follows proves that it exists, unfolds it, and derives how it changes   *)
(* with the function summed.  Each induction on a finite set takes a       *)
(* minimal counterexample instead, which no proper subset of it is.        *)

(* The element SumFunctionOnSet takes out of a set next.                   *)
First(s) == CHOOSE x \in s : TRUE

(* iter is the recursive function by which SumFunctionOnSet sums f.        *)
Sums(f, S, iter) ==
    iter = [s \in SUBSET S |->
              IF s = {} THEN 0 ELSE f[First(s)] + iter[s \ {First(s)}]]

(* SumFunctionOnSet in those terms.                                        *)
LEMMA SumDef ==
    ASSUME NEW f, NEW S
    PROVE  SumFunctionOnSet(f, S) = (CHOOSE iter : Sums(f, S, iter))[S]
  BY DEF SumFunctionOnSet, FoldFunctionOnSet, MapThenFoldSet, Sums, First

LEMMA FirstIn ==
    ASSUME NEW s, s # {}
    PROVE  First(s) \in s
  BY DEF First

(* A nonempty family of subsets of a finite set has a minimal member.      *)
LEMMA MinimalSubset ==
  ASSUME NEW S, IsFiniteSet(S), NEW T, T \subseteq SUBSET S, T # {}
  PROVE  \E m \in T : \A s \in T : s \subseteq m => s = m
<1>1. IsWellFoundedOn(StrictSubsetOrdering(S), SUBSET S)
  BY FS_StrictSubsetOrderingWellFounded, FS_FiniteSubsetsOfFinite
<1>2. \E x \in T : \A y \in T : ~(<<y, x>> \in StrictSubsetOrdering(S))
  BY <1>1, WFMin
<1>3. \A x, y \in T : y \subseteq x /\ y # x => <<y, x>> \in StrictSubsetOrdering(S)
  BY DEF StrictSubsetOrdering
<1> QED
  BY <1>2, <1>3

(* Two such functions agree on the sets they both sum.                     *)
LEMMA SumsAgree ==
    ASSUME NEW f, NEW A, NEW B, IsFiniteSet(A), NEW g, NEW h,
           Sums(f, A, g), Sums(f, B, h),
           NEW u, u \subseteq A, u \subseteq B
    PROVE  g[u] = h[u]
<1> DEFINE T == {s \in SUBSET A : s \subseteq B /\ g[s] # h[s]}
<1> SUFFICES ASSUME T # {}
             PROVE  FALSE
  OBVIOUS
<1>0. T \subseteq SUBSET A
  OBVIOUS
<1>1. PICK m \in T : \A s \in T : s \subseteq m => s = m
  <2> HIDE DEF T
  <2> QED
    BY <1>0, MinimalSubset
<1>2. m # {}
  BY <1>1 DEF Sums
<1>3. First(m) \in m
  BY <1>2, FirstIn
<1>4. m \ {First(m)} \notin T
  BY <1>1, <1>3
<1>5. g[m \ {First(m)}] = h[m \ {First(m)}]
  BY <1>1, <1>4
<1>6. /\ g[m] = f[First(m)] + g[m \ {First(m)}]
      /\ h[m] = f[First(m)] + h[m \ {First(m)}]
  BY <1>1, <1>2 DEF Sums
<1> QED
  BY <1>1, <1>5, <1>6

(* On a finite set there is such a function.                               *)
LEMMA SumsExist ==
    ASSUME NEW f, NEW S, IsFiniteSet(S)
    PROVE  \E iter : Sums(f, S, iter)
<1> DEFINE T == {A \in SUBSET S : ~ \E iter : Sums(f, A, iter)}
<1> SUFFICES ASSUME T # {}
             PROVE  FALSE
  OBVIOUS
<1>0. T \subseteq SUBSET S
  OBVIOUS
<1>1. PICK m \in T : \A s \in T : s \subseteq m => s = m
  <2> HIDE DEF T
  <2> QED
    BY <1>0, MinimalSubset
<1> DEFINE G(A) == CHOOSE iter : Sums(f, A, iter)
           rest(s) == s \ {First(s)}
           h == [s \in SUBSET m |->
                   IF s = {} THEN 0 ELSE f[First(s)] + G(rest(s))[rest(s)]]
<1>2. ASSUME NEW A \in SUBSET m, A # m
      PROVE  Sums(f, A, G(A)) /\ IsFiniteSet(A)
  <2>1. A \in SUBSET S /\ A \notin T
    BY <1>1, <1>2
  <2> QED
    BY <2>1, FS_Subset
<1>3. ASSUME NEW u \in SUBSET m, u # m
      PROVE  h[u] = G(u)[u]
  <2>1. Sums(f, u, G(u))
    BY <1>2, <1>3
  <2>2. CASE u = {}
    <3>1. G(u)[u] = 0
      BY <2>1, <2>2 DEF Sums
    <3> QED
      BY <3>1, <2>2
  <2>3. CASE u # {}
    <3>1. First(u) \in u
      BY <2>3, FirstIn
    <3>2. rest(u) \in SUBSET m /\ rest(u) # m /\ rest(u) \subseteq u
      BY <3>1
    <3>3. Sums(f, rest(u), G(rest(u)))
      BY <1>2, <3>2
    <3>4. G(rest(u))[rest(u)] = G(u)[rest(u)]
      BY <1>2, <2>1, <3>2, <3>3, SumsAgree
    <3>5. G(u)[u] = f[First(u)] + G(u)[rest(u)]
      BY <2>1, <2>3 DEF Sums
    <3> HIDE DEF G, rest
    <3> QED
      BY <2>3, <3>4, <3>5
  <2> QED
    BY <2>2, <2>3
<1>4. ASSUME NEW s \in SUBSET m
      PROVE  h[s] = IF s = {} THEN 0 ELSE f[First(s)] + h[rest(s)]
  <2>1. CASE s # {}
    <3>1. First(s) \in s
      BY <2>1, FirstIn
    <3>2. rest(s) \in SUBSET m /\ rest(s) # m
      BY <3>1
    <3>3. h[rest(s)] = G(rest(s))[rest(s)]
      BY <1>3, <3>2
    <3> HIDE DEF G, rest
    <3> QED
      BY <2>1, <3>3
  <2> QED
    BY <2>1
<1>5. Sums(f, m, h)
  <2> HIDE DEF G
  <2> QED
    BY <1>4 DEF Sums
<1> QED
  BY <1>1, <1>5

(* So a sum is 0, or one term and the sum of the rest.                     *)
LEMMA SumUnfolds ==
    ASSUME NEW f, NEW S, IsFiniteSet(S)
    PROVE  /\ S = {} => SumFunctionOnSet(f, S) = 0
           /\ S # {} => /\ First(S) \in S
                        /\ SumFunctionOnSet(f, S) =
                             f[First(S)] + SumFunctionOnSet(f, S \ {First(S)})
<1> DEFINE G(A) == CHOOSE iter : Sums(f, A, iter)
           rest == S \ {First(S)}
<1>1. Sums(f, S, G(S)) /\ Sums(f, rest, G(rest)) /\ IsFiniteSet(rest)
  BY SumsExist, FS_Subset
<1>2. /\ SumFunctionOnSet(f, S) = G(S)[S]
      /\ SumFunctionOnSet(f, rest) = G(rest)[rest]
  BY SumDef
<1>3. G(rest)[rest] = G(S)[rest]
  BY <1>1, SumsAgree
<1>4. /\ S = {} => G(S)[S] = 0
      /\ S # {} => G(S)[S] = f[First(S)] + G(S)[rest]
  BY <1>1 DEF Sums
<1>5. S # {} => First(S) \in S
  BY FirstIn
<1> HIDE DEF G
<1> QED
  BY <1>2, <1>3, <1>4, <1>5

(* It depends only on the values at the elements summed.                   *)
LEMMA SumOfEqual ==
    ASSUME NEW S, IsFiniteSet(S), NEW f, NEW g, \A x \in S : f[x] = g[x]
    PROVE  SumFunctionOnSet(f, S) = SumFunctionOnSet(g, S)
<1> DEFINE T == {s \in SUBSET S : SumFunctionOnSet(f, s) # SumFunctionOnSet(g, s)}
<1> SUFFICES ASSUME T # {}
             PROVE  FALSE
  OBVIOUS
<1>0. T \subseteq SUBSET S
  OBVIOUS
<1>1. PICK m \in T : \A s \in T : s \subseteq m => s = m
  <2> HIDE DEF T
  <2> QED
    BY <1>0, MinimalSubset
<1>2. IsFiniteSet(m)
  BY FS_Subset
<1>3. m # {} /\ First(m) \in m
  BY <1>1, <1>2, SumUnfolds
<1>4. m \ {First(m)} \notin T
  BY <1>1, <1>3
<1> QED
  BY <1>1, <1>2, <1>3, <1>4, SumUnfolds

(* Sums of integers are integers.                                          *)
LEMMA SumInteger ==
    ASSUME NEW S, IsFiniteSet(S), NEW f, \A x \in S : f[x] \in Int
    PROVE  SumFunctionOnSet(f, S) \in Int
<1> DEFINE T == {s \in SUBSET S : SumFunctionOnSet(f, s) \notin Int}
<1> SUFFICES ASSUME T # {}
             PROVE  FALSE
  OBVIOUS
<1>0. T \subseteq SUBSET S
  OBVIOUS
<1>1. PICK m \in T : \A s \in T : s \subseteq m => s = m
  <2> HIDE DEF T
  <2> QED
    BY <1>0, MinimalSubset
<1>2. IsFiniteSet(m)
  BY FS_Subset
<1>3. m # {} /\ First(m) \in m
  <2>1. SumFunctionOnSet(f, m) \notin Int
    BY <1>1
  <2>2. m = {} => SumFunctionOnSet(f, m) = 0
    BY <1>2, SumUnfolds
  <2>3. m # {}
    BY <2>1, <2>2
  <2> QED
    BY <2>3, FirstIn
<1>4. m \ {First(m)} \notin T
  BY <1>1, <1>3
<1>5. SumFunctionOnSet(f, m \ {First(m)}) \in Int
  BY <1>4
<1>6. f[First(m)] \in Int
  BY <1>3
<1> QED
  BY <1>1, <1>2, <1>3, <1>5, <1>6, SumUnfolds

(* A sum of naturals is a natural.                                         *)
LEMMA SumNatural ==
    ASSUME NEW S, IsFiniteSet(S), NEW f, \A x \in S : f[x] \in Nat
    PROVE  SumFunctionOnSet(f, S) \in Nat
<1> DEFINE T == {s \in SUBSET S : SumFunctionOnSet(f, s) \notin Nat}
<1> SUFFICES ASSUME T # {}
             PROVE  FALSE
  OBVIOUS
<1>0. T \subseteq SUBSET S
  OBVIOUS
<1>1. PICK m \in T : \A s \in T : s \subseteq m => s = m
  <2> HIDE DEF T
  <2> QED
    BY <1>0, MinimalSubset
<1>2. IsFiniteSet(m)
  BY FS_Subset
<1>3. m # {} /\ First(m) \in m
  <2>1. m = {} => SumFunctionOnSet(f, m) = 0
    BY <1>2, SumUnfolds
  <2>2. m # {}
    BY <1>1, <2>1
  <2> QED
    BY <2>2, FirstIn
<1>4. m \ {First(m)} \notin T
  BY <1>1, <1>3
<1>5. SumFunctionOnSet(f, m \ {First(m)}) \in Nat /\ f[First(m)] \in Nat
  BY <1>3, <1>4
<1> QED
  BY <1>1, <1>2, <1>3, <1>5, SumUnfolds

LEMMA SumOfZeros ==
    ASSUME NEW S, IsFiniteSet(S), NEW f, \A x \in S : f[x] = 0
    PROVE  SumFunctionOnSet(f, S) = 0
<1> DEFINE T == {s \in SUBSET S : SumFunctionOnSet(f, s) # 0}
<1> SUFFICES ASSUME T # {}
             PROVE  FALSE
  OBVIOUS
<1>0. T \subseteq SUBSET S
  OBVIOUS
<1>1. PICK m \in T : \A s \in T : s \subseteq m => s = m
  <2> HIDE DEF T
  <2> QED
    BY <1>0, MinimalSubset
<1>2. IsFiniteSet(m)
  BY FS_Subset
<1>3. m # {} /\ First(m) \in m
  BY <1>1, <1>2, SumUnfolds
<1>4. m \ {First(m)} \notin T
  BY <1>1, <1>3
<1>5. SumFunctionOnSet(f, m \ {First(m)}) = 0 /\ f[First(m)] = 0
  BY <1>3, <1>4
<1> QED
  BY <1>1, <1>2, <1>3, <1>5, SumUnfolds

(* Any element can be taken out first.                                     *)
LEMMA SumWithout ==
    ASSUME NEW S, IsFiniteSet(S), NEW f, \A x \in S : f[x] \in Int, NEW y \in S
    PROVE  SumFunctionOnSet(f, S) = f[y] + SumFunctionOnSet(f, S \ {y})
<1> DEFINE Sum(s) == SumFunctionOnSet(f, s)
           T == {s \in SUBSET S : \E z \in s : Sum(s) # f[z] + Sum(s \ {z})}
<1> HIDE DEF Sum
<1> SUFFICES ASSUME T # {}
             PROVE  FALSE
  BY DEF Sum
<1>0. T \subseteq SUBSET S
  OBVIOUS
<1>1. PICK m \in T : \A s \in T : s \subseteq m => s = m
  <2> HIDE DEF T
  <2> QED
    BY <1>0, MinimalSubset
<1>2. PICK z \in m : Sum(m) # f[z] + Sum(m \ {z})
  BY <1>1
<1> DEFINE x == First(m)
           rest == (m \ {x}) \ {z}
<1>3. IsFiniteSet(m) /\ m \subseteq S /\ IsFiniteSet(rest)
  BY FS_Subset
<1>4. x \in m /\ Sum(m) = f[x] + Sum(m \ {x})
  BY <1>2, <1>3, SumUnfolds DEF Sum
<1>5. x # z
  BY <1>2, <1>4
<1>6. Sum(m \ {x}) = f[z] + Sum(rest)
  <2>1. m \ {x} \notin T
    BY <1>1, <1>4
  <2> QED
    BY <1>2, <1>3, <1>5, <2>1
<1>7. Sum(m \ {z}) = f[x] + Sum(rest)
  <2>1. m \ {z} \notin T
    BY <1>1, <1>2
  <2>2. (m \ {z}) \ {x} = rest
    OBVIOUS
  <2> QED
    BY <1>3, <1>4, <1>5, <2>1, <2>2
<1>8. f[x] \in Int /\ f[z] \in Int /\ Sum(rest) \in Int
  BY <1>2, <1>3, <1>4, SumInteger DEF Sum
<1> HIDE DEF x, rest
<1> QED
  BY <1>2, <1>4, <1>6, <1>7, <1>8

(* Changing the function at one element changes the sum by as much.        *)
LEMMA SumOneChanged ==
    ASSUME NEW S, IsFiniteSet(S), NEW f, NEW g, NEW y \in S,
           \A x \in S : f[x] \in Int /\ g[x] \in Int,
           \A x \in S \ {y} : g[x] = f[x]
    PROVE  SumFunctionOnSet(g, S) = SumFunctionOnSet(f, S) - f[y] + g[y]
<1> DEFINE rest == S \ {y}
<1>1. IsFiniteSet(rest)
  BY FS_Subset
<1>2. SumFunctionOnSet(f, rest) = SumFunctionOnSet(g, rest)
  BY <1>1, SumOfEqual
<1>3. /\ SumFunctionOnSet(f, S) = f[y] + SumFunctionOnSet(f, rest)
      /\ SumFunctionOnSet(g, S) = g[y] + SumFunctionOnSet(g, rest)
  BY SumWithout
<1>4. SumFunctionOnSet(f, rest) \in Int
  BY <1>1, SumInteger
<1> HIDE DEF rest
<1> QED
  BY <1>2, <1>3, <1>4

(* Of one element that is not zero the sum is its value.                   *)
LEMMA SumOfOne ==
    ASSUME NEW S, IsFiniteSet(S), NEW f, NEW y \in S, f[y] \in Int,
           \A x \in S \ {y} : f[x] = 0
    PROVE  SumFunctionOnSet(f, S) = f[y]
<1>1. SumFunctionOnSet(f, S) = f[y] + SumFunctionOnSet(f, S \ {y})
  BY SumWithout
<1>2. SumFunctionOnSet(f, S \ {y}) = 0
  BY FS_Subset, SumOfZeros
<1> QED
  BY <1>1, <1>2

-----------------------------------------------------------------------------

(* What all the flows have stored of r.                                    *)
Total(r) == Reserved(held, r, Flows)

(* Of a table of natural numbers, the sum is one flow's entry and the sum  *)
(* of the others', which are natural numbers too.                          *)
LEMMA ReservedSplit ==
    ASSUME NEW table \in [Flows -> [Resources -> Nat]], NEW r \in Resources, NEW f \in Flows
    PROVE  /\ Reserved(table, r, Flows) = table[f][r] + Reserved(table, r, Flows \ {f})
           /\ Reserved(table, r, Flows \ {f}) \in Nat
           /\ Reserved(table, r, Flows) \in Nat
<1> DEFINE F == [g \in Flows |-> table[g][r]]
<1>1. (\A g \in Flows : F[g] \in Nat /\ F[g] \in Int) /\ F[f] = table[f][r]
  OBVIOUS
<1>2. /\ Reserved(table, r, Flows) = SumFunctionOnSet(F, Flows)
      /\ Reserved(table, r, Flows \ {f}) = SumFunctionOnSet(F, Flows \ {f})
  BY DEF Reserved
<1> HIDE DEF F
<1>3. SumFunctionOnSet(F, Flows) = F[f] + SumFunctionOnSet(F, Flows \ {f})
  BY <1>1, FlowsAssumption, SumWithout
<1>4. SumFunctionOnSet(F, Flows \ {f}) \in Nat
  BY <1>1, FlowsAssumption, FS_Subset, SumNatural
<1> QED
  BY <1>1, <1>2, <1>3, <1>4

(* So what a check subtracts is what is stored less the flow's own part.   *)
LEMMA TotalSplit ==
    ASSUME TypeOK, NEW r \in Resources, NEW f \in Flows
    PROVE  /\ Total(r) \in Nat
           /\ LockedByOthers(r, f) \in Nat
           /\ LockedByOthers(r, f) = Total(r) - held[f][r]
<1> DEFINE others == Reserved(held, r, Flows \ {f})
<1>1. Total(r) = held[f][r] + others /\ others \in Nat /\ Total(r) \in Nat
  BY ReservedSplit DEF TypeOK, Total
<1>2. held[f][r] \in Nat
  BY DEF TypeOK
<1>3. LockedByOthers(r, f) = others
  BY DEF LockedByOthers
<1> HIDE DEF others
<1> QED
  BY <1>1, <1>2, <1>3

LEMMA TotalSplitNext ==
    ASSUME TypeOK', NEW r \in Resources, NEW f \in Flows
    PROVE  /\ Total(r)' \in Nat
           /\ LockedByOthers(r, f)' \in Nat
           /\ LockedByOthers(r, f)' = Total(r)' - held'[f][r]
<1> DEFINE others == Reserved(held', r, Flows \ {f})
<1>1. Total(r)' = held'[f][r] + others /\ others \in Nat /\ Total(r)' \in Nat
  BY ReservedSplit DEF TypeOK, Total
<1>2. held'[f][r] \in Nat
  BY DEF TypeOK
<1>3. LockedByOthers(r, f)' = others
  BY DEF LockedByOthers
<1> HIDE DEF others
<1> QED
  BY <1>1, <1>2, <1>3

(* A step that changes one flow's entry for r changes the sum by as much.  *)
LEMMA TotalOneEntry ==
    ASSUME TypeOK, TypeOK', NEW r \in Resources, NEW f \in Flows,
           \A g \in Flows \ {f} : held'[g][r] = held[g][r]
    PROVE  Total(r)' = Total(r) - held[f][r] + held'[f][r]
<1> DEFINE F == [g \in Flows |-> held[g][r]]
           G == [g \in Flows |-> held'[g][r]]
<1>1. \A g \in Flows : F[g] \in Int /\ G[g] \in Int
  BY DEF TypeOK
<1>2. /\ \A g \in Flows \ {f} : G[g] = F[g]
      /\ F[f] = held[f][r] /\ G[f] = held'[f][r]
  OBVIOUS
<1>3. Total(r) = SumFunctionOnSet(F, Flows) /\ Total(r)' = SumFunctionOnSet(G, Flows)
  BY DEF Total, Reserved
<1>4. SumFunctionOnSet(G, Flows) = SumFunctionOnSet(F, Flows) - F[f] + G[f]
  <2>1. \A g \in Flows : F[g] \in Int /\ G[g] \in Int
    BY <1>1
  <2>2. \A g \in Flows \ {f} : G[g] = F[g]
    BY <1>2
  <2> HIDE DEF F, G
  <2> QED
    BY <2>1, <2>2, FlowsAssumption, SumOneChanged
<1> QED
  BY <1>2, <1>3, <1>4

(* One that leaves every entry for r alone leaves the sums for r alone.    *)
LEMMA TotalUnmoved ==
    ASSUME NEW r \in Resources, \A g \in Flows : held'[g][r] = held[g][r]
    PROVE  Total(r)' = Total(r) /\ \A g \in Flows : LockedByOthers(r, g)' = LockedByOthers(r, g)
<1>1. [g \in Flows |-> held'[g][r]] = [g \in Flows |-> held[g][r]]
  OBVIOUS
<1> QED
  BY <1>1 DEF Total, LockedByOthers, Reserved

(* Of a resource only one flow holds, what is stored is what it holds.     *)
LEMMA TotalOfOne ==
    ASSUME NEW table \in [Flows -> [Resources -> Nat]], NEW r \in Resources, NEW f \in Flows,
           \A g \in Flows \ {f} : table[g][r] = 0
    PROVE  Reserved(table, r, Flows) = table[f][r]
<1> DEFINE F == [g \in Flows |-> table[g][r]]
<1>1. F[f] = table[f][r] /\ F[f] \in Int /\ \A g \in Flows \ {f} : F[g] = 0
  OBVIOUS
<1>2. Reserved(table, r, Flows) = SumFunctionOnSet(F, Flows)
  BY DEF Reserved
<1> HIDE DEF F
<1> QED
  BY <1>1, <1>2, FlowsAssumption, SumOfOne

(* Of one nobody holds, nothing is stored.                                 *)
LEMMA TotalOfNone ==
    ASSUME NEW table, NEW r \in Resources, \A g \in Flows : table[g][r] = 0
    PROVE  Reserved(table, r, Flows) = 0
<1> DEFINE F == [g \in Flows |-> table[g][r]]
<1>1. \A g \in Flows : F[g] = 0
  OBVIOUS
<1>2. Reserved(table, r, Flows) = SumFunctionOnSet(F, Flows)
  BY DEF Reserved
<1> HIDE DEF F
<1> QED
  BY <1>1, <1>2, FlowsAssumption, SumOfZeros

-----------------------------------------------------------------------------

(* In a database each resource has one row at most: nobody holds it,       *)
(* or one flow holds all that is stored for it.                            *)
OneRow ==
    backend # "memory" =>
        \A r \in Resources :
            \/ \A f \in Flows : held[f][r] = 0
            \/ \E h \in Flows : \A g \in Flows \ {h} : held[g][r] = 0

(* The resources an ongoing acquire has found sufficient.                  *)
Checked(f) == IF pc[f] = "idle" THEN {} ELSE Asked(want[f]) \ unchecked[f]

(* A check nobody has written behind is still right.                       *)
CheckStands ==
    \A f \in Flows : ~stale[f] => \A r \in Checked(f) : Enough(f, r)

(* In a database even an outdated check bounds the request.                *)
CheckBounds ==
    backend # "memory" =>
        \A f \in Flows : \A r \in Checked(f) : want[f][r] <= Capacity[r]

WriteAfterChecks == \A f \in Flows : pc[f] = "write" => unchecked[f] = {}

IInv ==
    /\ TypeOK
    /\ OneRow
    /\ CheckStands
    /\ CheckBounds
    /\ WriteAfterChecks
    /\ NoOversellUnlessRaced
    /\ TableWithinCapacity

-----------------------------------------------------------------------------

LEMMA InitTypeOK == Init => TypeOK
<1> SUFFICES ASSUME Init
             PROVE  TypeOK
  OBVIOUS
<1>1. Nothing \in [Resources -> Nat] /\ Nothing \in [Resources -> Int]
  BY DEF Nothing
<1> QED
  BY <1>1 DEF Init, TypeOK

LEMMA NextTypeOK == TypeOK /\ [Next]_vars => TypeOK'
<1> USE RequestsAssumption DEF TypeOK, Nothing, Asked
<1> SUFFICES ASSUME TypeOK, [Next]_vars
             PROVE  TypeOK'
  OBVIOUS
<1>1. ASSUME NEW f \in Flows, NEW req \in Requests, Acquire(f, req)
      PROVE  TypeOK'
  BY <1>1 DEF Acquire
<1>2. ASSUME NEW f \in Flows, NEW r \in Resources, CheckEnough(f, r)
      PROVE  TypeOK'
  BY <1>2 DEF CheckEnough, AtResource
<1>3. ASSUME NEW f \in Flows, NEW r \in Resources, CheckShort(f, r)
      PROVE  TypeOK'
  BY <1>3 DEF CheckShort, AtResource
<1>4. ASSUME NEW f \in Flows, WriteBatch(f)
      PROVE  TypeOK'
  <2>1. CASE MemoryWrite(f)
    BY <1>4, <2>1 DEF WriteBatch, MemoryWrite
  <2>2. CASE backend # "memory" /\ ReplaceRows(f)
    BY <1>4, <2>2 DEF WriteBatch, ReplaceRows
  <2> QED
    BY <1>4, <2>1, <2>2 DEF WriteBatch, SqliteWrite, PostgresWrite
<1>5. ASSUME NEW f \in Flows, WriteContended(f)
      PROVE  TypeOK'
  BY <1>5 DEF WriteContended
<1>6. ASSUME NEW f \in Flows, Release(f)
      PROVE  TypeOK'
  BY <1>6 DEF Release
<1>7. CASE Crash
  BY <1>7 DEF Crash
<1>8. CASE UNCHANGED vars
  BY <1>8 DEF vars
<1> QED
  BY <1>1, <1>2, <1>3, <1>4, <1>5, <1>6, <1>7, <1>8 DEF Next

(* Every variable keeps its type: what the table stores for a flow, and    *)
(* what the flow was granted, are natural numbers.                         *)
THEOREM TypeCorrect == Spec => []TypeOK
  BY InitTypeOK, NextTypeOK, PTL DEF Spec

-----------------------------------------------------------------------------

(* The initial state satisfies the inductive invariant.                    *)
LEMMA InitIInv == Init => IInv
<1> SUFFICES ASSUME Init
             PROVE  IInv
  OBVIOUS
<1>1. TypeOK
  BY InitTypeOK
<1>2. OneRow /\ NoOversellUnlessRaced /\ TableWithinCapacity
  <2>1. \A r \in Resources, f \in Flows : held[f][r] = 0
    BY DEF Init, Nothing
  <2>2. \A r \in Resources : Reserved(held, r, Flows) = 0
    BY <2>1, TotalOfNone
  <2> QED
    BY <2>1, <2>2, CapacityAssumption DEF OneRow, NoOversellUnlessRaced, TableWithinCapacity
<1>3. CheckStands /\ CheckBounds /\ WriteAfterChecks
  BY DEF Init, CheckStands, CheckBounds, WriteAfterChecks, Checked
<1> QED
  BY <1>1, <1>2, <1>3 DEF IInv

(* A step that leaves the table, the requests and the history alone and    *)
(* checks no further resource preserves what the checks established.       *)
LEMMA QuietStep ==
    ASSUME IInv, TypeOK',
           UNCHANGED <<backend, held, want, stale, raced>>,
           \A f \in Flows : Checked(f)' \subseteq Checked(f),
           WriteAfterChecks'
    PROVE  IInv'
  BY DEF IInv, OneRow, CheckStands, CheckBounds, NoOversellUnlessRaced,
         TableWithinCapacity, Enough, LockedByOthers, Reserved

LEMMA AcquireIInv ==
    ASSUME IInv, TypeOK', NEW f \in Flows, NEW req \in Requests, Acquire(f, req)
    PROVE  IInv'
<1>1. Checked(f)' = {}
  BY RequestsAssumption DEF Acquire, Checked, IInv, TypeOK, Asked
<1>2. \A g \in Flows \ {f} : /\ Checked(g)' = Checked(g)
                             /\ want'[g] = want[g]
                             /\ stale'[g] = stale[g]
  BY DEF Acquire, Checked, IInv, TypeOK
<1>3. UNCHANGED <<backend, held, raced>>
  BY DEF Acquire
<1>4. OneRow' /\ NoOversellUnlessRaced' /\ TableWithinCapacity'
  BY <1>3 DEF IInv, OneRow, NoOversellUnlessRaced, TableWithinCapacity, Reserved
<1>5. CheckStands' /\ CheckBounds'
  BY <1>1, <1>2, <1>3 DEF IInv, CheckStands, CheckBounds, Enough, LockedByOthers, Reserved
<1>6. WriteAfterChecks'
  BY DEF Acquire, IInv, TypeOK, WriteAfterChecks, Asked
<1> QED
  BY <1>4, <1>5, <1>6 DEF IInv

LEMMA CheckEnoughIInv ==
    ASSUME IInv, TypeOK', NEW f \in Flows, NEW r \in Resources, CheckEnough(f, r)
    PROVE  IInv'
<1>1. UNCHANGED <<backend, held, want, stale, raced>>
  BY DEF CheckEnough
<1>2. \A g \in Flows : Checked(g)' \subseteq IF g = f THEN Checked(g) \cup {r} ELSE Checked(g)
  BY DEF CheckEnough, AtResource, Checked, IInv, TypeOK
<1>3. Enough(f, r)
  BY DEF CheckEnough
<1>4. backend # "memory" => want[f][r] <= Capacity[r]
  <2>1. LockedByOthers(r, f) \in Nat
    BY TotalSplit DEF IInv
  <2>2. want[f][r] \in Nat /\ Capacity[r] \in Nat
    BY CapacityAssumption DEF IInv, TypeOK
  <2> QED
    BY <1>3, <2>1, <2>2 DEF Enough
<1>5. OneRow' /\ NoOversellUnlessRaced' /\ TableWithinCapacity'
  BY <1>1 DEF IInv, OneRow, NoOversellUnlessRaced, TableWithinCapacity, Reserved
<1>6. CheckStands' /\ CheckBounds'
  BY <1>1, <1>2, <1>3, <1>4 DEF IInv, CheckStands, CheckBounds, Enough, LockedByOthers, Reserved
<1>7. WriteAfterChecks'
  BY DEF CheckEnough, AtResource, IInv, TypeOK, WriteAfterChecks
<1> QED
  BY <1>5, <1>6, <1>7 DEF IInv

LEMMA CheckShortIInv ==
    ASSUME IInv, TypeOK', NEW f \in Flows, NEW r \in Resources, CheckShort(f, r)
    PROVE  IInv'
<1>1. \A g \in Flows : Checked(g)' \subseteq Checked(g)
  BY DEF CheckShort, AtResource, Checked, IInv, TypeOK
<1>2. WriteAfterChecks'
  BY DEF CheckShort, AtResource, IInv, TypeOK, WriteAfterChecks
<1> QED
  BY <1>1, <1>2, QuietStep DEF CheckShort

LEMMA WriteContendedIInv ==
    ASSUME IInv, TypeOK', NEW f \in Flows, WriteContended(f)
    PROVE  IInv'
<1>1. \A g \in Flows : Checked(g)' \subseteq Checked(g)
  BY DEF WriteContended, Checked, IInv, TypeOK
<1>2. WriteAfterChecks'
  BY DEF WriteContended, IInv, TypeOK, WriteAfterChecks
<1> QED
  BY <1>1, <1>2, QuietStep DEF WriteContended

(* A release takes from the table only: the totals do not grow, nor does   *)
(* what any other flow sees locked.                                        *)
LEMMA ReleaseIInv ==
    ASSUME IInv, TypeOK', NEW f \in Flows, Release(f)
    PROVE  IInv'
<1> USE DEF IInv
<1>1. \A r \in Resources : /\ held'[f][r] = 0
                           /\ \A g \in Flows \ {f} : held'[g][r] = held[g][r]
  BY DEF Release, TypeOK, Nothing
<1>2. \A g \in Flows, r \in Resources :
         /\ held[g][r] \in Nat /\ Total(r) \in Nat /\ Total(r)' \in Nat
         /\ LockedByOthers(r, g) = Total(r) - held[g][r]
         /\ LockedByOthers(r, g)' = Total(r)' - held'[g][r]
         /\ Total(r)' = Total(r) - held[f][r]
  <2> SUFFICES ASSUME NEW g \in Flows, NEW r \in Resources
               PROVE  /\ held[g][r] \in Nat /\ Total(r) \in Nat /\ Total(r)' \in Nat
                      /\ LockedByOthers(r, g) = Total(r) - held[g][r]
                      /\ LockedByOthers(r, g)' = Total(r)' - held'[g][r]
                      /\ Total(r)' = Total(r) - held[f][r]
    OBVIOUS
  <2>1. held[g][r] \in Nat /\ held[f][r] \in Nat
    BY DEF TypeOK
  <2>2. Total(r)' = Total(r) - held[f][r] + held'[f][r]
    BY <1>1, TotalOneEntry
  <2>3. /\ Total(r) \in Nat /\ LockedByOthers(r, g) = Total(r) - held[g][r]
        /\ Total(r)' \in Nat /\ LockedByOthers(r, g)' = Total(r)' - held'[g][r]
    BY TotalSplit, TotalSplitNext
  <2> QED
    BY <1>1, <2>1, <2>2, <2>3
<1>3. UNCHANGED <<backend, pc, want, unchecked, stale, raced>>
  BY DEF Release
<1>4. \A g \in Flows : Checked(g)' = Checked(g)
  BY <1>3 DEF Checked
<1>5. Checked(f) = {}
  BY DEF Release, Checked
<1>6. OneRow'
  BY <1>1, <1>2, <1>3 DEF OneRow
<1>7. NoOversellUnlessRaced' /\ TableWithinCapacity'
  <2>1. \A r \in Resources : Capacity[r] \in Nat
    BY CapacityAssumption
  <2>2. \A r \in Resources : Total(r) <= Capacity[r] => Total(r)' <= Capacity[r]
    BY <1>2, <2>1
  <2> QED
    BY <1>3, <2>2 DEF NoOversellUnlessRaced, TableWithinCapacity, Total
<1>8. CheckBounds'
  BY <1>3, <1>4 DEF CheckBounds
<1>9. CheckStands'
  <2> SUFFICES ASSUME NEW g \in Flows, ~stale[g], NEW r \in Checked(g)
               PROVE  Enough(g, r)'
    BY <1>3, <1>4 DEF CheckStands
  <2>1. g # f /\ r \in Resources /\ Enough(g, r)
    BY <1>5 DEF CheckStands, Checked, Asked
  <2>2. /\ held'[g][r] = held[g][r]
        /\ want'[g][r] = want[g][r]
        /\ Capacity[r] - LockedByOthers(r, g) >= want[g][r]
    BY <1>1, <1>3, <2>1 DEF Enough
  <2>3. /\ held[f][r] \in Nat /\ held[g][r] \in Nat /\ Total(r) \in Nat
        /\ want[g][r] \in Nat /\ Capacity[r] \in Nat
    BY <1>2, <2>1, CapacityAssumption DEF TypeOK
  <2>4. Capacity[r] - LockedByOthers(r, g)' >= want'[g][r]
    BY <1>2, <2>1, <2>2, <2>3
  <2> QED
    BY <2>4 DEF Enough
<1>10. WriteAfterChecks'
  BY <1>3 DEF WriteAfterChecks
<1> QED
  BY <1>6, <1>7, <1>8, <1>9, <1>10

LEMMA CrashIInv ==
    ASSUME IInv, TypeOK', Crash
    PROVE  IInv'
<1> USE DEF IInv
<1>1. \A g \in Flows : pc'[g] = "idle"
  BY DEF Crash
<1>2. CheckStands' /\ CheckBounds' /\ WriteAfterChecks'
  BY <1>1 DEF CheckStands, CheckBounds, WriteAfterChecks, Checked
<1>3. OneRow' /\ NoOversellUnlessRaced' /\ TableWithinCapacity'
  <2>1. CASE backend = "memory"
    <3>1. \A r \in Resources, g \in Flows : held'[g][r] = 0
      BY <2>1 DEF Crash, Nothing
    <3>2. \A r \in Resources : Reserved(held', r, Flows) = 0
      BY <3>1, TotalOfNone
    <3> QED
      BY <3>1, <3>2, CapacityAssumption DEF OneRow, NoOversellUnlessRaced,
           TableWithinCapacity, Reserved
  <2>2. CASE backend # "memory"
    BY <2>2 DEF Crash, OneRow, NoOversellUnlessRaced, TableWithinCapacity, Reserved
  <2> QED
    BY <2>1, <2>2
<1> QED
  BY <1>2, <1>3

(* The write of a batch: an un-stale call wrote what its checks allowed,   *)
(* and no other call's check is outdated without being marked stale.       *)
LEMMA WriteBatchIInv ==
    ASSUME IInv, TypeOK', NEW f \in Flows, WriteBatch(f)
    PROVE  IInv'
<1> USE DEF IInv
<1>1. /\ UNCHANGED <<backend, want, unchecked>>
      /\ pc[f] = "write" /\ pc' = [pc EXCEPT ![f] = "idle"]
      /\ raced' = (raced \/ stale[f])
      /\ \A g \in Flows : stale'[g] = (stale[g] \/ ReadBefore(f, g))
  BY DEF WriteBatch
<1>2. Checked(f)' = {} /\ \A g \in Flows \ {f} : Checked(g)' = Checked(g)
  BY <1>1 DEF Checked, TypeOK
<1>3. Checked(f) = Asked(want[f])
  BY <1>1 DEF WriteAfterChecks, Checked
<1>4. WriteAfterChecks'
  BY <1>1 DEF WriteAfterChecks, TypeOK
<1>5. CheckBounds'
  BY <1>1, <1>2 DEF CheckBounds
<1>6. ASSUME NEW g \in Flows \ {f}, ~stale'[g], NEW r \in Checked(g)
      PROVE  ~stale[g] /\ r \notin Asked(want[f]) /\ Enough(g, r)
  BY <1>1, <1>6 DEF ReadBefore, Checked, CheckStands
<1>7. \A g \in Flows, r \in Resources :
         /\ held[g][r] \in Nat /\ want[g][r] \in Nat
         /\ Total(r) \in Nat /\ Capacity[r] \in Nat
         /\ LockedByOthers(r, g) = Total(r) - held[g][r]
         /\ LockedByOthers(r, g)' = Total(r)' - held'[g][r]
  BY CapacityAssumption, TotalSplit, TotalSplitNext DEF TypeOK
<1>8. CASE MemoryWrite(f)
  <2>1. \A r \in Resources : /\ held'[f][r] = want[f][r]
                             /\ Total(r)' = Total(r) - held[f][r] + want[f][r]
                             /\ \A g \in Flows \ {f} : held'[g][r] = held[g][r]
    <3>1. \A r \in Resources : /\ held'[f][r] = want[f][r]
                               /\ \A g \in Flows \ {f} : held'[g][r] = held[g][r]
      BY <1>8 DEF MemoryWrite, TypeOK
    <3>2. \A r \in Resources : Total(r)' = Total(r) - held[f][r] + held'[f][r]
      BY <3>1, TotalOneEntry
    <3> QED
      BY <3>1, <3>2
  <2>2. OneRow' /\ TableWithinCapacity'
    BY <1>1, <1>8 DEF MemoryWrite, OneRow, TableWithinCapacity
  <2>3. NoOversellUnlessRaced'
    <3> SUFFICES ASSUME ~raced', NEW r \in Resources
                 PROVE  Total(r)' <= Capacity[r]
      BY DEF NoOversellUnlessRaced, Total
    <3>1. ~raced /\ ~stale[f] /\ Total(r) <= Capacity[r]
      BY <1>1 DEF NoOversellUnlessRaced, Total
    <3>2. CASE want[f][r] > 0
      <4>1. Enough(f, r)
        BY <1>3, <3>1, <3>2 DEF CheckStands, Asked
      <4> QED
        BY <1>7, <2>1, <4>1 DEF Enough
    <3>3. CASE ~(want[f][r] > 0)
      BY <1>7, <2>1, <3>1, <3>3
    <3> QED
      BY <3>2, <3>3
  <2>4. CheckStands'
    <3> SUFFICES ASSUME NEW g \in Flows, ~stale'[g], NEW r \in Checked(g)'
                 PROVE  Enough(g, r)'
      BY DEF CheckStands
    <3>1. g # f /\ r \in Checked(g) /\ r \in Resources
      BY <1>2 DEF Checked, Asked
    <3>2. r \notin Asked(want[f]) /\ Enough(g, r)
      BY <1>6, <3>1
    <3>3. want[f][r] = 0
      BY <1>7, <3>1, <3>2 DEF Asked
    <3>4. Total(r)' = Total(r) - held[f][r] /\ held'[g][r] = held[g][r]
      BY <1>7, <2>1, <3>1, <3>3
    <3>5. LockedByOthers(r, g)' = LockedByOthers(r, g) - held[f][r]
      BY <1>7, <3>1, <3>4
    <3>6. LockedByOthers(r, g) \in Int /\ held[f][r] \in Nat /\ want[g][r] \in Nat
      BY <1>7, <3>1
    <3> QED
      BY <1>1, <1>7, <3>1, <3>2, <3>5, <3>6 DEF Enough
  <2> QED
    BY <1>4, <1>5, <2>2, <2>3, <2>4
<1>9. CASE backend # "memory" /\ ReplaceRows(f)
  <2>1. \A r \in Asked(want[f]) : /\ Total(r)' = want[f][r]
                                  /\ held'[f][r] = want[f][r]
                                  /\ \A g \in Flows \ {f} : held'[g][r] = 0
    <3>1. \A r \in Asked(want[f]) : /\ r \in Resources
                                    /\ held'[f][r] = want[f][r]
                                    /\ \A g \in Flows \ {f} : held'[g][r] = 0
      BY <1>9 DEF ReplaceRows, Asked
    <3>2. held' \in [Flows -> [Resources -> Nat]]
      BY DEF TypeOK
    <3>3. \A r \in Asked(want[f]) : Reserved(held', r, Flows) = held'[f][r]
      BY <3>1, <3>2, TotalOfOne
    <3> QED
      BY <3>1, <3>3 DEF Total
  <2>2. \A r \in Resources \ Asked(want[f]) :
           /\ Total(r)' = Total(r)
           /\ \A g \in Flows : /\ held'[g][r] = held[g][r]
                               /\ LockedByOthers(r, g)' = LockedByOthers(r, g)
    <3>1. \A r \in Resources \ Asked(want[f]) : \A g \in Flows : held'[g][r] = held[g][r]
      BY <1>9 DEF ReplaceRows
    <3> QED
      BY <3>1, TotalUnmoved
  <2>3. OneRow'
    <3> SUFFICES ASSUME NEW r \in Resources
                 PROVE  \/ \A g \in Flows : held'[g][r] = 0
                        \/ \E h \in Flows : \A g \in Flows \ {h} : held'[g][r] = 0
      BY DEF OneRow
    <3>1. CASE r \in Asked(want[f])
      BY <2>1, <3>1
    <3>2. CASE r \notin Asked(want[f])
      BY <1>9, <2>2, <3>2 DEF OneRow
    <3> QED
      BY <3>1, <3>2
  <2>4. \A r \in Resources : Total(r)' <= Capacity[r]
    BY <1>3, <1>9, <2>1, <2>2 DEF CheckBounds, TableWithinCapacity, Total
  <2>5. NoOversellUnlessRaced' /\ TableWithinCapacity'
    BY <2>4 DEF NoOversellUnlessRaced, TableWithinCapacity, Total
  <2>6. CheckStands'
    <3> SUFFICES ASSUME NEW g \in Flows, ~stale'[g], NEW r \in Checked(g)'
                 PROVE  Enough(g, r)'
      BY DEF CheckStands
    <3>1. g # f /\ r \in Checked(g) /\ r \in Resources
      BY <1>2 DEF Checked, Asked
    <3>2. r \notin Asked(want[f]) /\ Enough(g, r)
      BY <1>6, <3>1
    <3> QED
      BY <1>1, <2>2, <3>1, <3>2 DEF Enough
  <2> QED
    BY <1>4, <1>5, <2>3, <2>5, <2>6
<1> QED
  BY <1>8, <1>9 DEF WriteBatch, SqliteWrite, PostgresWrite

LEMMA NextIInv == IInv /\ [Next]_vars => IInv'
<1> SUFFICES ASSUME IInv, [Next]_vars
             PROVE  IInv'
  OBVIOUS
<1>1. TypeOK'
  BY NextTypeOK DEF IInv
<1>2. CASE UNCHANGED vars
  <2>1. \A f \in Flows : Checked(f)' = Checked(f)
    BY <1>2 DEF vars, Checked
  <2>2. WriteAfterChecks'
    BY <1>2 DEF vars, IInv, WriteAfterChecks
  <2> QED
    BY <1>1, <1>2, <2>1, <2>2, QuietStep DEF vars
<1> QED
  BY <1>1, <1>2, AcquireIInv, CheckEnoughIInv, CheckShortIInv, WriteBatchIInv,
     WriteContendedIInv, ReleaseIInv, CrashIInv DEF Next

LEMMA Inductive == Spec => []IInv
  BY InitIInv, NextIInv, PTL DEF Spec

(* The lock table over-allocates a resource only through a race between    *)
(* the checks of one acquire() and the write of another, in both backends. *)
THEOREM OversellNeedsRace == Spec => []NoOversellUnlessRaced
<1>1. IInv => NoOversellUnlessRaced
  BY DEF IInv
<1> QED
  BY <1>1, Inductive, PTL

(* A database's table stays in capacity even through such a race.          *)
THEOREM DatabaseTableBounded == Spec => []TableWithinCapacity
<1>1. IInv => TableWithinCapacity
  BY DEF IInv
<1> QED
  BY <1>1, Inductive, PTL

(* ... for the reason that a resource has one holder at most, the last one *)
(* to write, who displaces the former.                                     *)
THEOREM DatabaseSoleHolder == Spec => []SoleHolder
<1>1. IInv => SoleHolder
  BY DEF IInv, OneRow, SoleHolder
<1> QED
  BY <1>1, Inductive, PTL

(* In memory every flow holds what it was last told it has.                *)
ReservationKept ==
    backend = "memory" => held = granted

(* Every step writes the flow's grant and its entry of the table alike:    *)
(* the memory backend never touches the entry of another flow.             *)
LEMMA NextReservationKept ==
    ASSUME TypeOK, ReservationKept, [Next]_vars
    PROVE  ReservationKept'
<1>1. ASSUME UNCHANGED <<backend, held, granted>>
      PROVE  ReservationKept'
  BY <1>1 DEF ReservationKept
<1>2. ASSUME NEW f \in Flows, WriteBatch(f)
      PROVE  ReservationKept'
  <2>1. CASE MemoryWrite(f)
    BY <1>2, <2>1 DEF WriteBatch, MemoryWrite, ReservationKept
  <2>2. CASE backend # "memory" /\ ReplaceRows(f)
    BY <1>2, <2>2 DEF WriteBatch, ReservationKept
  <2> QED
    BY <1>2, <2>1, <2>2 DEF WriteBatch, SqliteWrite, PostgresWrite
<1>3. ASSUME NEW f \in Flows, Release(f)
      PROVE  ReservationKept'
  BY <1>3 DEF Release, ReservationKept
<1>4. CASE Crash
  BY <1>4 DEF Crash, ReservationKept
<1>5. ASSUME NEW f \in Flows,
             \/ \E req \in Requests : Acquire(f, req)
             \/ \E r \in Resources : CheckEnough(f, r) \/ CheckShort(f, r)
             \/ WriteContended(f)
      PROVE  ReservationKept'
  BY <1>1, <1>5 DEF Acquire, CheckEnough, CheckShort, WriteContended
<1>6. CASE UNCHANGED vars
  BY <1>1, <1>6 DEF vars
<1> QED
  BY <1>2, <1>3, <1>4, <1>5, <1>6 DEF Next

(* In memory a flow that was told ACQUIRED holds just what it was granted, *)
(* until it releases or re-acquires it, whatever the other flows do.       *)
THEOREM MemoryKeepsReservations == Spec => []ReservationKept
<1>1. Init => ReservationKept
  BY DEF Init, ReservationKept
<1>2. TypeOK /\ ReservationKept /\ [Next]_vars => ReservationKept'
  BY NextReservationKept
<1> QED
  BY <1>1, <1>2, TypeCorrect, PTL DEF Spec

-----------------------------------------------------------------------------

(* In memory the flows were together granted more than there is only if a  *)
(* call wrote after a check of it was outdated.  (A database also grants   *)
(* too much without a race: it replaces the row of an earlier grant, whose *)
(* flow is not told, and the next check does not see that grant.)          *)
MemoryOvercommitNeedsRace ==
    backend = "memory" /\ ~raced => NoOvercommit

(* The race is the only way to over-allocate that the memory backend has:  *)
(* its table sums what it granted, and stays in capacity but for the race. *)
THEOREM MemoryGrantsBounded == Spec => []MemoryOvercommitNeedsRace
<1>1. ReservationKept /\ NoOversellUnlessRaced => MemoryOvercommitNeedsRace
  BY DEF ReservationKept, NoOversellUnlessRaced, NoOvercommit, MemoryOvercommitNeedsRace
<1> QED
  BY <1>1, MemoryKeepsReservations, OversellNeedsRace, PTL

-----------------------------------------------------------------------------
(* The memory backend implements ReservationBook.                          *)

(* What an ongoing call asks for is a request.                             *)
WantRequested == \A f \in Flows : pc[f] # "idle" => want[f] \in Requests

LEMMA NextWantRequested ==
    ASSUME TypeOK, WantRequested, [Next]_vars
    PROVE  WantRequested'
  BY DEF TypeOK, WantRequested, Next, Acquire, CheckEnough, CheckShort, AtResource, WriteBatch,
         WriteContended, Release, Crash, vars

LEMMA InitBook == Init => Book!BookInit
  BY DEF Init, Book!BookInit, Book!NoReservation, InMemory, Nothing

LEMMA BackendFixed == [Next]_vars => backend' = backend
  BY DEF Next, Acquire, CheckEnough, CheckShort, WriteBatch, WriteContended, Release, Crash, vars

(* The book and the code add up alike.                                     *)
LEMMA BookTaken ==
    ASSUME backend = "memory", NEW f \in Flows, NEW r \in Resources
    PROVE  Book!Taken(r, f) = LockedByOthers(r, f)
<1> DEFINE amounts == [g \in Flows |-> held[g][r]]
<1>1. InMemory(held) = held
  BY DEF InMemory
<1>2. Book!Taken(r, f) = Book!SumFunctionOnSet(amounts, Flows \ {f})
  BY <1>1 DEF Book!Taken
<1>3. Book!SumFunctionOnSet(amounts, Flows \ {f}) = SumFunctionOnSet(amounts, Flows \ {f})
  BY DEF SumFunctionOnSet, FoldFunctionOnSet, MapThenFoldSet,
         Book!SumFunctionOnSet, Book!FoldFunctionOnSet, Book!MapThenFoldSet
<1> QED
  BY <1>2, <1>3 DEF LockedByOthers, Reserved

(* In a database every step leaves the book blank.                         *)
LEMMA NothingBooked ==
    ASSUME backend # "memory", backend' = backend
    PROVE  UNCHANGED Book!bookvars
  BY DEF Book!bookvars, InMemory

LEMMA BookQuiet ==
    ASSUME UNCHANGED <<backend, held, granted, raced>>
    PROVE  UNCHANGED Book!bookvars
  BY DEF Book!bookvars, InMemory

(* The write of a call that was not overtaken fits at that moment; that of *)
(* one that was marks the book.                                            *)
LEMMA WriteBooks ==
    ASSUME IInv, WantRequested, backend = "memory", backend' = backend,
           NEW f \in Flows, WriteBatch(f)
    PROVE  Book!BookNext
<1>1. /\ held' = [held EXCEPT ![f] = want[f]]
      /\ granted' = [granted EXCEPT ![f] = want[f]]
      /\ raced' = (raced \/ stale[f])
      /\ want[f] \in Requests
  BY DEF WriteBatch, MemoryWrite, SqliteWrite, PostgresWrite, WantRequested
<1>2. Book!Enter(f, want[f])
  BY <1>1 DEF Book!Enter, InMemory
<1>3. CASE stale[f]
  <2>1. Book!ReserveBlindly(f, want[f])
    BY <1>1, <1>2, <1>3 DEF Book!ReserveBlindly
  <2> QED
    BY <1>1, <2>1 DEF Book!BookNext
<1>4. CASE ~stale[f]
  <2>1. ASSUME NEW r \in Resources, want[f][r] > 0
        PROVE  Book!Taken(r, f) + want[f][r] <= Capacity[r]
    <3>1. r \in Checked(f)
      BY <2>1 DEF Checked, WriteBatch, Asked, IInv, WriteAfterChecks
    <3>2. Capacity[r] - LockedByOthers(r, f) >= want[f][r]
      BY <1>4, <3>1 DEF IInv, CheckStands, Enough
    <3>3. Book!Taken(r, f) = LockedByOthers(r, f)
      BY BookTaken
    <3>4. /\ Capacity[r] \in Nat /\ want[f][r] \in Nat /\ LockedByOthers(r, f) \in Nat
      BY CapacityAssumption, TotalSplit DEF IInv, TypeOK
    <3> QED
      BY <3>2, <3>3, <3>4
  <2>2. Book!Fits(f, want[f])
    BY <2>1 DEF Book!Fits
  <2>3. raced' = raced
    BY <1>1, <1>4 DEF IInv, TypeOK
  <2>4. Book!Reserve(f, want[f])
    BY <1>2, <2>2, <2>3 DEF Book!Reserve
  <2> QED
    BY <1>1, <2>4 DEF Book!BookNext
<1> QED
  BY <1>3, <1>4 DEF IInv, TypeOK

LEMMA ReleaseBooks ==
    ASSUME backend = "memory", backend' = backend, NEW f \in Flows, Release(f)
    PROVE  Book!BookNext
<1>1. Book!Cancel(f)
  BY DEF Release, Book!Cancel, Book!Enter, Book!NoReservation, InMemory, Nothing
<1> QED
  BY <1>1 DEF Book!BookNext

LEMMA CrashBooks ==
    ASSUME backend = "memory", backend' = backend, Crash
    PROVE  Book!BookNext
<1>1. Book!Clear
  BY DEF Crash, Book!Clear, Book!NoReservation, InMemory, Nothing
<1> QED
  BY <1>1 DEF Book!BookNext

(* Every step is a step of the book, or leaves it as it is.                *)
LEMMA NextBook ==
    ASSUME IInv, WantRequested, [Next]_vars
    PROVE  [Book!BookNext]_(Book!bookvars)
<1>1. backend' = backend
  BY BackendFixed
<1>2. CASE backend # "memory"
  BY <1>1, <1>2, NothingBooked
<1>3. CASE backend = "memory"
  <2>1. ASSUME NEW f \in Flows,
               \/ \E req \in Requests : Acquire(f, req)
               \/ \E r \in Resources : CheckEnough(f, r) \/ CheckShort(f, r)
               \/ WriteContended(f)
        PROVE  UNCHANGED Book!bookvars
    BY <2>1, BookQuiet DEF Acquire, CheckEnough, CheckShort, WriteContended
  <2>2. CASE UNCHANGED vars
    BY <2>2, BookQuiet DEF vars
  <2> QED
    BY <1>1, <1>3, <2>1, <2>2, WriteBooks, ReleaseBooks, CrashBooks DEF Next
<1> QED
  BY <1>2, <1>3

(* In memory acquire is one step for its callers, for any flows, requests  *)
(* and capacities, except where the history variable says that it was not. *)
THEOREM AtomicUnlessOvertaken == Spec => ImplementsReservationBook
<1>1. Init => WantRequested
  BY DEF Init, WantRequested
<1>2. TypeOK /\ WantRequested /\ [Next]_vars => WantRequested'
  BY NextWantRequested
<1>3. IInv /\ WantRequested /\ [Next]_vars => [Book!BookNext]_(Book!bookvars)
  BY NextBook
<1> QED
  BY <1>1, <1>2, <1>3, InitBook, TypeCorrect, Inductive, PTL
     DEF Spec, ImplementsReservationBook, Book!BookSpec
=============================================================================
