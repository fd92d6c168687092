--------------------------- MODULE Execution_proofs ---------------------------
(* Type correctness of Execution and its three safety properties, for any  *)
(* number of callers, compensators, flows and steps.                       *)
EXTENDS Execution, TLAPS

(***************************************************************************)
(* A key that is cached or running has used up the one run it is entitled  *)
(* to; any other key has an excuse for every run there was.                *)
(***************************************************************************)
RunsCovered ==
    \A k \in Keys :
        \/ runs[k] <= mayRerun[k]
        \/ runs[k] <= mayRerun[k] + 1 /\ (cached[k] \/ Running(k) # {})

(***************************************************************************)
(* A dirty flow that nobody compensates is entitled to one more call.      *)
(***************************************************************************)
CallsCovered ==
    \A f \in Flows :
        \/ calls[f] < marks[f] + mayRedo[f]
        \/ calls[f] = marks[f] + mayRedo[f] /\ (dirty[f] = 0 \/ Compensating(f) # {})

LatestOrNone == \A f \in Flows : dirty[f] \in {0, marks[f]}

(* A compensator that is about to clear a flow has compensated what it saw. *)
ClearsUndone ==
    \A p \in Compensators : cpc[p] = "clear" => seen[p] \in undone[cflow[p]]

IInv ==
    /\ TypeOK
    /\ RunsCovered
    /\ CallsCovered
    /\ LatestOrNone
    /\ ClearsUndone
    /\ FailureOnFile

-----------------------------------------------------------------------------

LEMMA KeyType ==
    ASSUME TypeOK, NEW c \in Callers
    PROVE  Key(c) \in Keys
  BY DEF TypeOK, Key, Keys

LEMMA AdvanceType ==
    ASSUME TypeOK, NEW c \in Callers, Advance(c)
    PROVE  /\ pc' \in [Callers -> {"idle", "get", "func", "set", "setNone", "mark"}]
           /\ step' \in [Callers -> 1 .. Steps]
<1>1. step[c] \in 1 .. Steps /\ 1 \in 1 .. Steps
  BY StepsAssumption DEF TypeOK
<1>2. CASE AtLast(c)
  BY <1>1, <1>2 DEF TypeOK, Advance
<1>3. CASE ~AtLast(c)
  <2>1. step[c] + 1 \in 1 .. Steps
    BY <1>1, <1>3, StepsAssumption DEF AtLast
  <2> QED
    BY <1>3, <2>1 DEF TypeOK, Advance
<1> QED
  BY <1>2, <1>3

LEMMA ExcusedType ==
    ASSUME TypeOK, NEW k \in Keys
    PROVE  /\ Excused(k) \in [Keys -> Nat]
           /\ Excused(k)[k] = mayRerun[k] + 1
           /\ \A j \in Keys \ {k} : Excused(k)[j] = mayRerun[j]
  BY DEF TypeOK, Excused

(* A state satisfies the types initially and after every step.             *)
THEOREM TypeCorrect == Spec => []TypeOK
<1>1. Init => TypeOK
  BY FlowsAssumption, StepsAssumption, BoundsAssumption DEF Init, TypeOK, Keys
<1>2. TypeOK /\ [Next]_vars => TypeOK'
  <2> SUFFICES ASSUME TypeOK, [Next]_vars
               PROVE  TypeOK'
    OBVIOUS
  <2> USE DEF TypeOK, tables, caller, compensator, onKeys, onFlows
  <2>1. ASSUME NEW c \in Callers, NEW f \in Flows, Begin(c, f)
        PROVE  TypeOK'
    BY <2>1, StepsAssumption, BoundsAssumption DEF Begin
  <2>2. ASSUME NEW c \in Callers, Hit(c)
        PROVE  TypeOK'
    BY <2>2, AdvanceType DEF Hit
  <2>3. ASSUME NEW c \in Callers, Miss(c)
        PROVE  TypeOK'
    BY <2>3, KeyType, ExcusedType DEF Miss
  <2>4. ASSUME NEW c \in Callers, NEW ok \in BOOLEAN, Return(c, ok)
        PROVE  TypeOK'
    BY <2>4 DEF Return
  <2>5. ASSUME NEW c \in Callers, Raise(c)
        PROVE  TypeOK'
    BY <2>5, KeyType, ExcusedType DEF Raise
  <2>6. ASSUME NEW c \in Callers, Store(c)
        PROVE  TypeOK'
    BY <2>6, KeyType, ExcusedType, AdvanceType DEF Store, Set
  <2>7. ASSUME NEW c \in Callers, StoreFails(c)
        PROVE  TypeOK'
    BY <2>7, KeyType, ExcusedType DEF StoreFails
  <2>8. ASSUME NEW c \in Callers, MarkDirty(c) \/ MarkFails(c)
        PROVE  TypeOK'
    <3>1. flow[c] \in Flows /\ marks[flow[c]] + 1 \in Nat
      OBVIOUS
    <3>2. CASE MarkDirty(c)
      BY <3>1, <3>2 DEF MarkDirty
    <3>3. CASE MarkFails(c)
      BY <3>3 DEF MarkFails
    <3> QED
      BY <2>8, <3>2, <3>3
  <2>9. ASSUME NEW p \in Compensators, NEW f \in Flows, Compensate(p, f)
        PROVE  TypeOK'
    BY <2>9 DEF Compensate
  <2>10. ASSUME NEW p \in Compensators, CallbackTrue(p) \/ CallbackFails(p)
         PROVE  TypeOK'
    BY <2>10 DEF CallbackTrue, CallbackFails
  <2>11. ASSUME NEW p \in Compensators, Clear(p) \/ ClearFails(p)
         PROVE  TypeOK'
    <3>1. CASE Clear(p)
      <4>1. cflow[p] \in Flows /\ Overtaken(cflow[p], seen[p]) \subseteq Nat
        BY DEF Overtaken
      <4> QED
        BY <3>1, <4>1 DEF Clear, Cleared
    <3>2. CASE ClearFails(p)
      BY <3>2 DEF ClearFails
    <3> QED
      BY <2>11, <3>1, <3>2
  <2>12. CASE Crash
    <3>1. mayRerun' \in [Keys -> Nat] /\ mayRedo' \in [Flows -> Nat]
      <4>1. \A k \in Keys : mayRerun[k] \in Nat /\ mayRerun[k] + 1 \in Nat
        OBVIOUS
      <4>2. \A f \in Flows : mayRedo[f] \in Nat /\ mayRedo[f] + 1 \in Nat
        OBVIOUS
      <4>3. mayRerun' \in [Keys -> Nat]
        <5> HIDE DEF TypeOK, Keys
        <5> QED
          BY <2>12, <4>1 DEF Crash
      <4>4. mayRedo' \in [Flows -> Nat]
        <5> HIDE DEF TypeOK
        <5> QED
          BY <2>12, <4>2 DEF Crash
      <4> QED
        BY <4>3, <4>4
    <3>2. cached' \in [Keys -> BOOLEAN] /\ dirty' \in [Flows -> Nat]
      <4>1. [k \in Keys |-> FALSE] \in [Keys -> BOOLEAN] /\ [f \in Flows |-> 0] \in [Flows -> Nat]
        OBVIOUS
      <4>2. \/ cached' = cached /\ dirty' = dirty
            \/ cached' = [k \in Keys |-> FALSE] /\ dirty' = [f \in Flows |-> 0]
        <5> HIDE DEF TypeOK, Keys
        <5> QED
          BY <2>12 DEF Crash
      <4>3. cached \in [Keys -> BOOLEAN] /\ dirty \in [Flows -> Nat]
        OBVIOUS
      <4> HIDE DEF TypeOK, Keys
      <4> QED
        BY <4>1, <4>2, <4>3
    <3>3. dropped' \in [Flows -> SUBSET Nat]
      <4>1. \A f \in Flows : dropped[f] \cup Overtaken(f, 0) \in SUBSET Nat
        BY DEF Overtaken
      <4> QED
        BY <2>12, <4>1 DEF Crash
    <3>4. crashes' \in 0 .. MaxCrashes
      BY <2>12, BoundsAssumption DEF Crash
    <3> QED
      BY <2>12, <3>1, <3>2, <3>3, <3>4 DEF Crash
  <2>13. CASE UNCHANGED vars
    BY <2>13 DEF vars
  <2> QED
    BY <2>1, <2>2, <2>3, <2>4, <2>5, <2>6, <2>7, <2>8, <2>9, <2>10, <2>11, <2>12, <2>13
    DEF Next, CallerStep, CompensatorStep
<1> QED
  BY <1>1, <1>2, PTL DEF Spec

-----------------------------------------------------------------------------

(* A key runs no more often than it is entitled to.                        *)
LEMMA RunsStep ==
    ASSUME IInv, TypeOK', [Next]_vars
    PROVE  RunsCovered'
<1> USE DEF IInv
<1> DEFINE InRun(s) == s \in {"func", "set", "setNone"}
           Covered(k) == \/ runs[k] <= mayRerun[k]
                         \/ runs[k] <= mayRerun[k] + 1 /\ (cached[k] \/ Running(k) # {})
<1>1. \A k \in Keys : runs[k] \in Nat /\ mayRerun[k] \in Nat
  BY DEF TypeOK
<1>2. \A k \in Keys : Covered(k)
  BY DEF RunsCovered
<1>3. ASSUME NEW c \in Callers, ~InRun(pc[c]), ~InRun(pc'[c]),
             \A d \in Callers \ {c} : pc'[d] = pc[d] /\ flow'[d] = flow[d] /\ step'[d] = step[d],
             UNCHANGED <<cached, onKeys>>
      PROVE  RunsCovered'
  <2>1. \A k \in Keys : Running(k)' = Running(k)
    BY <1>3 DEF Running, Key
  <2> QED
    BY <1>2, <1>3, <2>1 DEF RunsCovered, onKeys
<1>4. ASSUME NEW c \in Callers,
             \A d \in Callers \ {c} : pc'[d] = pc[d],
             UNCHANGED <<flow, step>>
      PROVE  \A k \in Keys \ {Key(c)} : Running(k)' = Running(k)
  BY <1>4 DEF Running, Key
<1>5. ASSUME NEW c \in Callers, NEW f \in Flows, Begin(c, f)
      PROVE  RunsCovered'
  BY <1>3, <1>5 DEF Begin, TypeOK, tables
<1>6. ASSUME NEW c \in Callers, Hit(c)
      PROVE  RunsCovered'
  BY <1>3, <1>6 DEF Hit, Advance, TypeOK, tables
<1>7. ASSUME NEW c \in Callers, Miss(c)
      PROVE  RunsCovered'
  <2>1. Key(c) \in Keys /\ Key(c)' = Key(c) /\ c \in Running(Key(c))'
    BY <1>7, KeyType DEF Miss, TypeOK, Running, Key
  <2>2. \A k \in Keys \ {Key(c)} : Covered(k)'
    BY <1>2, <1>4, <1>7, <2>1, ExcusedType DEF Miss, TypeOK, tables
  <2>3. runs'[Key(c)] = runs[Key(c)] + 1
    BY <1>7, <2>1 DEF Miss, TypeOK
  <2>4. runs[Key(c)] + 1 <= mayRerun'[Key(c)] + 1
    BY <1>1, <1>2, <1>7, <2>1, ExcusedType DEF Miss
  <2> QED
    BY <2>1, <2>2, <2>3, <2>4 DEF RunsCovered
<1>8. ASSUME NEW c \in Callers, NEW ok \in BOOLEAN, Return(c, ok)
      PROVE  RunsCovered'
  <2>1. \A k \in Keys : Running(k)' = Running(k)
    BY <1>8 DEF Return, TypeOK, Running, Key
  <2> QED
    BY <1>2, <1>8, <2>1 DEF Return, RunsCovered, tables, onKeys
<1>9. ASSUME NEW c \in Callers, mayRerun' = Excused(Key(c)), UNCHANGED <<runs, cached, flow, step>>,
             \A d \in Callers \ {c} : pc'[d] = pc[d]
      PROVE  RunsCovered'
  <2>1. Key(c) \in Keys
    BY KeyType
  <2>2. \A k \in Keys \ {Key(c)} : Covered(k)'
    BY <1>2, <1>4, <1>9, <2>1, ExcusedType
  <2>3. runs'[Key(c)] <= mayRerun'[Key(c)]
    BY <1>1, <1>2, <1>9, <2>1, ExcusedType
  <2> QED
    BY <2>1, <2>2, <2>3 DEF RunsCovered
<1>10. ASSUME NEW c \in Callers, Raise(c) \/ StoreFails(c)
       PROVE  RunsCovered'
  BY <1>9, <1>10 DEF Raise, StoreFails, TypeOK, tables
<1>11. ASSUME NEW c \in Callers, Store(c)
       PROVE  RunsCovered'
  <2>1. Key(c) \in Keys
    BY KeyType
  <2>2. \A k \in Keys \ {Key(c)} : Running(k)' = Running(k) \/ c \in Running(k)'
    BY <1>11 DEF Store, Advance, TypeOK, Running, Key
  <2>3. \A k \in Keys \ {Key(c)} : Covered(k)'
    BY <1>2, <1>11, <2>1, <2>2, ExcusedType DEF Store, Set, TypeOK
  <2>4. CASE pc[c] = "set"
    <3>1. cached'[Key(c)] /\ mayRerun' = mayRerun /\ runs' = runs
      BY <1>11, <2>1, <2>4 DEF Store, Set, TypeOK
    <3> QED
      BY <1>1, <1>2, <2>1, <2>3, <3>1 DEF RunsCovered
  <2>5. CASE pc[c] # "set"
    <3>1. runs'[Key(c)] <= mayRerun'[Key(c)]
      BY <1>1, <1>2, <1>11, <2>1, <2>5, ExcusedType DEF Store
    <3> QED
      BY <2>1, <2>3, <3>1 DEF RunsCovered
  <2> QED
    BY <2>4, <2>5
<1>12. ASSUME NEW c \in Callers, MarkDirty(c) \/ MarkFails(c)
       PROVE  RunsCovered'
  BY <1>3, <1>12 DEF MarkDirty, MarkFails, TypeOK, tables, onKeys
<1>13. ASSUME UNCHANGED <<cached, caller, onKeys>>
       PROVE  RunsCovered'
  <2>1. \A k \in Keys : Running(k)' = Running(k)
    BY <1>13 DEF Running, Key, caller
  <2> QED
    BY <1>2, <1>13, <2>1 DEF RunsCovered, onKeys
<1>14. ASSUME NEW p \in Compensators, CompensatorStep(p)
       PROVE  RunsCovered'
  BY <1>13, <1>14 DEF CompensatorStep, Compensate, CallbackTrue, CallbackFails, Clear,
     ClearFails, tables
<1>15. CASE Crash
  <2> SUFFICES ASSUME NEW k \in Keys
               PROVE  Covered(k)'
    BY DEF RunsCovered
  <2>1. runs'[k] = runs[k]
    BY <1>15 DEF Crash
  <2>2. CASE Running(k) # {} \/ (backend = "memory" /\ cached[k])
    <3>1. mayRerun'[k] = mayRerun[k] + 1
      BY <1>15, <2>2 DEF Crash
    <3> QED
      BY <1>1, <1>2, <2>1, <3>1
  <2>3. CASE Running(k) = {} /\ ~(backend = "memory" /\ cached[k])
    <3>1. mayRerun'[k] = mayRerun[k]
      BY <1>1, <1>15, <2>3 DEF Crash
    <3>2. cached[k] => cached'[k]
      BY <1>15, <2>3 DEF Crash
    <3> QED
      BY <1>2, <2>1, <2>3, <3>1, <3>2
  <2> QED
    BY <2>2, <2>3
<1>16. CASE UNCHANGED vars
  BY <1>13, <1>16 DEF vars, tables
<1> QED
  BY <1>5, <1>6, <1>7, <1>8, <1>10, <1>11, <1>12, <1>14, <1>15, <1>16
  DEF Next, CallerStep

(* A flow is compensated no more often than it is entitled to.             *)
LEMMA CallsStep ==
    ASSUME IInv, TypeOK', [Next]_vars
    PROVE  CallsCovered'
<1> USE DEF IInv
<1> DEFINE Entitled(f) == \/ calls[f] < marks[f] + mayRedo[f]
                          \/ /\ calls[f] = marks[f] + mayRedo[f]
                             /\ dirty[f] = 0 \/ Compensating(f) # {}
<1>1. \A f \in Flows : calls[f] \in Nat /\ marks[f] \in Nat /\ mayRedo[f] \in Nat
  BY DEF TypeOK
<1>2. \A f \in Flows : Entitled(f)
  BY DEF CallsCovered
<1>3. ASSUME UNCHANGED <<dirty, compensator, calls, marks, mayRedo>>
      PROVE  CallsCovered'
  <2>1. \A f \in Flows : Compensating(f)' = Compensating(f)
    BY <1>3 DEF Compensating, compensator
  <2> QED
    BY <1>2, <1>3, <2>1 DEF CallsCovered
<1>4. ASSUME NEW c \in Callers, CallerStep(c), ~MarkDirty(c)
      PROVE  CallsCovered'
  BY <1>3, <1>4 DEF CallerStep, Begin, Hit, Miss, Return, Raise, Store, StoreFails,
     MarkFails, tables, onFlows
<1>5. ASSUME NEW c \in Callers, MarkDirty(c)
      PROVE  CallsCovered'
  <2>1. \A f \in Flows : Compensating(f)' = Compensating(f)
    BY <1>5 DEF MarkDirty, Compensating, compensator
  <2>2. flow[c] \in Flows
    BY DEF TypeOK
  <2>3. \A f \in Flows \ {flow[c]} : Entitled(f)'
    BY <1>2, <1>5, <2>1, <2>2 DEF MarkDirty, TypeOK
  <2>4. ASSUME NEW f \in Flows, f = flow[c]
        PROVE  Entitled(f)'
    <3>1. marks'[f] = marks[f] + 1 /\ calls'[f] = calls[f] /\ mayRedo'[f] = mayRedo[f]
      BY <1>5, <2>4 DEF MarkDirty, TypeOK
    <3> QED
      BY <1>1, <1>2, <3>1
  <2> QED
    BY <2>3, <2>4 DEF CallsCovered
<1>6. ASSUME NEW p \in Compensators, UNCHANGED cflow,
             \A q \in Compensators \ {p} : cpc'[q] = cpc[q]
      PROVE  \A f \in Flows \ {cflow[p]} : Compensating(f)' = Compensating(f)
  BY <1>6 DEF Compensating
<1>7. ASSUME NEW p \in Compensators, NEW f \in Flows, Compensate(p, f)
      PROVE  CallsCovered'
  <2>1. calls'[f] = calls[f] + 1 /\ marks'[f] = marks[f] /\ p \in Compensating(f)'
    BY <1>7 DEF Compensate, TypeOK, Compensating
  <2>2. \A g \in Flows \ {f} : Compensating(g)' = Compensating(g)
    BY <1>7 DEF Compensate, TypeOK, Compensating
  <2>3. \A g \in Flows \ {f} : Entitled(g)'
    BY <1>2, <1>7, <2>2 DEF Compensate, TypeOK, tables
  <2>4. CASE Compensating(f) = {}
    <3>1. mayRedo'[f] = mayRedo[f] /\ calls[f] < marks[f] + mayRedo[f]
      BY <1>2, <1>7, <2>4 DEF Compensate
    <3>2. Entitled(f)'
      BY <1>1, <2>1, <3>1
    <3> QED
      BY <2>3, <3>2 DEF CallsCovered
  <2>5. CASE Compensating(f) # {}
    <3>1. mayRedo'[f] = mayRedo[f] + 1
      BY <1>7, <2>5 DEF Compensate, TypeOK
    <3>2. Entitled(f)'
      BY <1>1, <1>2, <2>1, <3>1
    <3> QED
      BY <2>3, <3>2 DEF CallsCovered
  <2> QED
    BY <2>4, <2>5
<1>8. ASSUME NEW p \in Compensators, CallbackTrue(p)
      PROVE  CallsCovered'
  <2>1. \A f \in Flows : Compensating(f)' = Compensating(f)
    BY <1>8 DEF CallbackTrue, TypeOK, Compensating
  <2> QED
    BY <1>2, <1>8, <2>1 DEF CallbackTrue, CallsCovered, tables
<1>9. ASSUME NEW p \in Compensators, CallbackFails(p) \/ ClearFails(p)
      PROVE  CallsCovered'
  <2>1. cflow[p] \in Flows
    BY DEF TypeOK
  <2>2. \A f \in Flows \ {cflow[p]} : Entitled(f)'
    BY <1>2, <1>6, <1>9, <2>1 DEF CallbackFails, ClearFails, TypeOK, tables
  <2>3. ASSUME NEW f \in Flows, f = cflow[p]
        PROVE  Entitled(f)'
    <3>1. marks'[f] = marks[f] /\ calls'[f] = calls[f] /\ mayRedo'[f] = mayRedo[f] + 1
      BY <1>9, <2>3 DEF CallbackFails, ClearFails, TypeOK
    <3> QED
      BY <1>1, <1>2, <3>1
  <2> QED
    BY <2>2, <2>3 DEF CallsCovered
<1>10. ASSUME NEW p \in Compensators, Clear(p)
       PROVE  CallsCovered'
  <2>1. \A f \in Flows \ {cflow[p]} : Entitled(f)'
    BY <1>2, <1>6, <1>10 DEF Clear, Cleared, TypeOK
  <2>2. ASSUME NEW f \in Flows, f = cflow[p]
        PROVE  Entitled(f)'
    <3>1. dirty'[f] = 0 /\ UNCHANGED <<calls, marks, mayRedo>>
      BY <1>10, <2>2 DEF Clear, Cleared, TypeOK
    <3> QED
      BY <1>2, <3>1
  <2> QED
    BY <2>1, <2>2 DEF CallsCovered
<1>11. CASE Crash
  <2> SUFFICES ASSUME NEW f \in Flows
               PROVE  Entitled(f)'
    BY DEF CallsCovered
  <2>1. calls'[f] = calls[f] /\ marks'[f] = marks[f]
    BY <1>11 DEF Crash
  <2>2. CASE Compensating(f) # {}
    <3>1. mayRedo'[f] = mayRedo[f] + 1
      BY <1>11, <2>2 DEF Crash
    <3> QED
      BY <1>1, <1>2, <2>1, <3>1
  <2>3. CASE Compensating(f) = {}
    <3>1. mayRedo'[f] = mayRedo[f]
      BY <1>1, <1>11, <2>3 DEF Crash
    <3>2. dirty[f] = 0 => dirty'[f] = 0
      BY <1>11 DEF Crash
    <3> QED
      BY <1>2, <2>1, <2>3, <3>1, <3>2
  <2> QED
    BY <2>2, <2>3
<1>12. CASE UNCHANGED vars
  BY <1>3, <1>12 DEF vars, tables, onFlows
<1> QED
  BY <1>4, <1>5, <1>7, <1>8, <1>9, <1>10, <1>11, <1>12 DEF Next, CompensatorStep

(* A failure stays on file, was compensated, or was dropped.               *)
LEMMA FileStep ==
    ASSUME IInv, TypeOK', [Next]_vars
    PROVE  LatestOrNone' /\ ClearsUndone' /\ FailureOnFile'
<1> USE DEF IInv
<1> DEFINE Filed(f) == marks[f] > 0 => marks[f] \in {dirty[f]} \cup undone[f] \cup dropped[f]
           Goal == LatestOrNone' /\ ClearsUndone' /\ FailureOnFile'
<1>1. /\ \A f \in Flows : dirty[f] \in {0, marks[f]} /\ Filed(f)
      /\ \A p \in Compensators : cpc[p] = "clear" => seen[p] \in undone[cflow[p]]
  BY DEF LatestOrNone, ClearsUndone, FailureOnFile
<1>2. ASSUME UNCHANGED <<dirty, compensator, marks, undone, dropped>>
      PROVE  Goal
  BY <1>1, <1>2 DEF LatestOrNone, ClearsUndone, FailureOnFile, compensator
<1>3. ASSUME NEW c \in Callers, CallerStep(c), ~MarkDirty(c)
      PROVE  Goal
  BY <1>2, <1>3 DEF CallerStep, Begin, Hit, Miss, Return, Raise, Store, StoreFails,
     MarkFails, tables, onFlows
<1>4. ASSUME NEW c \in Callers, MarkDirty(c)
      PROVE  Goal
  <2>1. flow[c] \in Flows
    BY DEF TypeOK
  <2>2. \A f \in Flows :
          \/ dirty'[f] = marks'[f]
          \/ (dirty'[f] = dirty[f] /\ marks'[f] = marks[f])
    <3>1. \A f \in Flows \ {flow[c]} : dirty'[f] = dirty[f] /\ marks'[f] = marks[f]
      BY <1>4, <2>1 DEF MarkDirty, TypeOK
    <3>2. \A f \in Flows : f = flow[c] => dirty'[f] = marks'[f]
      BY <1>4, <2>1 DEF MarkDirty, TypeOK
    <3> QED
      BY <3>1, <3>2
  <2> QED
    BY <1>1, <1>4, <2>2 DEF MarkDirty, compensator, LatestOrNone, ClearsUndone, FailureOnFile
<1>5. ASSUME NEW p \in Compensators, NEW f \in Flows, Compensate(p, f)
      PROVE  Goal
  BY <1>1, <1>5 DEF Compensate, tables, TypeOK, LatestOrNone, ClearsUndone, FailureOnFile
<1>6. ASSUME NEW p \in Compensators, CallbackTrue(p)
      PROVE  Goal
  <2>1. cflow[p] \in Flows
    BY DEF TypeOK
  <2>2. seen[p] \in undone'[cflow[p]] /\ \A f \in Flows : undone[f] \subseteq undone'[f]
    BY <1>6, <2>1 DEF CallbackTrue, TypeOK
  <2>3. \A q \in Compensators \ {p} : cpc'[q] = cpc[q] /\ cflow[q] \in Flows
    BY <1>6 DEF CallbackTrue, TypeOK
  <2> QED
    BY <1>1, <1>6, <2>2, <2>3
    DEF CallbackTrue, tables, LatestOrNone, ClearsUndone, FailureOnFile
<1>7. ASSUME NEW p \in Compensators, CallbackFails(p) \/ ClearFails(p)
      PROVE  Goal
  <2>1. \A q \in Compensators : cpc'[q] = "clear" => cpc[q] = "clear"
    BY <1>7 DEF CallbackFails, ClearFails, TypeOK
  <2> QED
    BY <1>1, <1>7, <2>1
    DEF CallbackFails, ClearFails, tables, LatestOrNone, ClearsUndone, FailureOnFile
<1>8. ASSUME NEW p \in Compensators, Clear(p)
      PROVE  Goal
  <2>1. cflow[p] \in Flows /\ seen[p] \in undone[cflow[p]]
    BY <1>1, <1>8 DEF Clear, TypeOK
  <2>2. \A q \in Compensators : cpc'[q] = "clear" => cpc[q] = "clear"
    BY <1>8 DEF Clear, TypeOK
  <2>3. \A f \in Flows \ {cflow[p]} : dirty'[f] = dirty[f] /\ dropped'[f] = dropped[f]
    BY <1>8, <2>1 DEF Clear, Cleared, TypeOK
  <2>4. \A f \in Flows : f = cflow[p] =>
          dirty'[f] = 0 /\ dropped'[f] = (dropped[f] \cup Overtaken(f, seen[p]))
    BY <1>8, <2>1 DEF Clear, Cleared, TypeOK
  <2>5. LatestOrNone' /\ ClearsUndone'
    BY <1>1, <1>8, <2>2, <2>3, <2>4 DEF Clear, LatestOrNone, ClearsUndone
  <2>6. \A f \in Flows \ {cflow[p]} : Filed(f)'
    BY <1>1, <1>8, <2>3 DEF Clear
  <2>7. ASSUME NEW f \in Flows, f = cflow[p]
        PROVE  Filed(f)'
    BY <1>1, <1>8, <2>1, <2>4, <2>7 DEF Clear, Overtaken
  <2> QED
    BY <2>5, <2>6, <2>7 DEF FailureOnFile
<1>9. CASE Crash
  <2>1. ClearsUndone'
    BY <1>9 DEF Crash, ClearsUndone
  <2>2. \A f \in Flows :
          \/ (dirty'[f] = dirty[f] /\ dropped'[f] = dropped[f])
          \/ dirty'[f] = 0 /\ dropped'[f] = (dropped[f] \cup Overtaken(f, 0))
    <3>1. CASE backend = "memory"
      BY <1>9, <3>1 DEF Crash
    <3>2. CASE backend # "memory"
      BY <1>9, <3>2 DEF Crash
    <3> QED
      BY <3>1, <3>2
  <2>3. \A f \in Flows : dirty'[f] \in {0, marks'[f]} /\ Filed(f)'
    BY <1>1, <1>9, <2>2 DEF Crash, Overtaken
  <2> QED
    BY <2>1, <2>3 DEF LatestOrNone, FailureOnFile
<1>10. CASE UNCHANGED vars
  BY <1>2, <1>10 DEF vars, tables, onFlows
<1> QED
  BY <1>3, <1>4, <1>5, <1>6, <1>7, <1>8, <1>9, <1>10 DEF Next, CompensatorStep

(* The strengthened invariant holds of every reachable state.              *)
THEOREM InductiveInvariant == Spec => []IInv
<1>1. Init => IInv
  <2> SUFFICES ASSUME Init PROVE IInv
    OBVIOUS
  <2>1. TypeOK
    BY FlowsAssumption, StepsAssumption, BoundsAssumption DEF Init, TypeOK, Keys
  <2>2. RunsCovered
    BY DEF Init, RunsCovered
  <2>3. CallsCovered
    <3>1. \A f \in Flows : calls[f] = 0 /\ marks[f] = 0 /\ mayRedo[f] = 0 /\ dirty[f] = 0
      BY DEF Init
    <3> QED
      BY <3>1 DEF CallsCovered
  <2>4. LatestOrNone /\ ClearsUndone /\ FailureOnFile
    BY DEF Init, LatestOrNone, ClearsUndone, FailureOnFile
  <2> QED
    BY <2>1, <2>2, <2>3, <2>4 DEF IInv
<1>2. TypeOK' /\ IInv /\ [Next]_vars => IInv'
  BY RunsStep, CallsStep, FileStep DEF IInv
<1> QED
  BY TypeCorrect, <1>1, <1>2, PTL DEF Spec

(* IdempotencyGuard.run calls the function of a key again only for a run   *)
(* that overlapped or left no result: RunOnceUnlessExcused, for any number *)
(* of callers and attempts.                                                *)
THEOREM RunOnce == Spec => []RunOnceUnlessExcused
<1>1. IInv => RunOnceUnlessExcused
  BY DEF IInv, TypeOK, RunsCovered, RunOnceUnlessExcused
<1> QED
  BY InductiveInvariant, <1>1, PTL

(* execute_compensation calls a callback again for one failure only after  *)
(* an overlap, a refusal or a row it could not remove.                     *)
THEOREM CompensatedOnce == Spec => []CompensatedOnceUnlessExcused
<1>1. IInv => CompensatedOnceUnlessExcused
  BY DEF IInv, TypeOK, CallsCovered, CompensatedOnceUnlessExcused
<1> QED
  BY InductiveInvariant, <1>1, PTL

(* The latest failure of a flow is on file, was compensated, or its row was *)
(* removed by a compensation that had read an earlier one.                 *)
THEOREM FailuresFiled == Spec => []FailureOnFile
<1>1. IInv => FailureOnFile
  BY DEF IInv
<1> QED
  BY InductiveInvariant, <1>1, PTL
=============================================================================
