----------------------- MODULE DecisionRuntime_proofs -----------------------
(* Proofs about DecisionRuntime, for any agents, flows, contracts, retry   *)
(* limit and number of registry changes and crashes.                       *)
EXTENDS DecisionRuntime, TLAPS

(* Between validate_proposal's question to the governor and the record of  *)
(* the rejection the count stays below the maximum, as it was read.        *)
CountUnderWay(f) ==
    /\ pc[f] \in {"count", "recount"} => verdict[f] = "REJECT" /\ count[f] < MaxRetries
    /\ pc[f] = "recount" => seenCount[f] = count[f]
    /\ count[f] <= MaxRetries

(* transition() resets the count before it records the end of the flow,    *)
(* and nothing moves an ended flow again.                                  *)
EndUnderWay(f) ==
    /\ pc[f] = "record" => count[f] = 0
    /\ row[f] \in Ended => pc[f] = "ended" /\ count[f] = 0

(* The rejections recorded in earlier runs of the process have used up no  *)
(* more than those runs' budgets.                                          *)
Budget(f) ==
    /\ count[f] <= recorded[f]
    /\ recorded[f] - count[f] <= MaxRetries * crashes \/ pc[f] \in {"record", "ended"}
    /\ recorded[f] <= MaxRetries * (crashes + 1)

(* A flow told so has exhausted its retries, and so has one with an audit  *)
(* row that says it.                                                       *)
Exhausted(f) ==
    /\ verdict[f] = "EXHAUSTED" => recorded[f] >= MaxRetries
    /\ audit[f]["exhausted"] > 0 => recorded[f] >= MaxRetries
    /\ pc[f] = "audit" => verdict[f] \in {"ACCEPT", "REJECT", "EXHAUSTED"}

(* Steps past the status gate, up to the verdict.                          *)
PastGate == {"session", "contract", "govern", "count", "recount"}

(* A proposal that passed the gate was not barred all along.               *)
GateUnderWay(f) ==
    /\ barred[f] /\ pc[f] = "gate" => status[AgentOf[f]] \in Restricted
    /\ pc[f] \in PastGate \/ verdict[f] = "ACCEPT" => ~barred[f]

(* The row the DIM judges by was the agent's since the submission, at some *)
(* time if not all along.                                                  *)
ContractUnderWay(f) ==
    /\ pc[f] \in {"gate", "session", "contract"} =>
          \A t \in Times : terms[AgentOf[f]][t] <= shown[f][t]
    /\ pc[f] = "govern" => \A t \in Times : seenTerms[f][t] <= shown[f][t]
    /\ Evaluating(f) => verdict[f] = "none"

FlowInv(f) ==
    /\ CountUnderWay(f)
    /\ EndUnderWay(f)
    /\ Budget(f)
    /\ Exhausted(f)
    /\ GateUnderWay(f)
    /\ ContractUnderWay(f)

IInv == TypeOK /\ \A f \in Flows : FlowInv(f)

-----------------------------------------------------------------------------

LEMMA BoundsAreNumbers ==
    /\ Unlimited \in Nat
    /\ \A l \in Limits \cup {Unlimited} : l \in Nat
    /\ \A n \in Amounts : n \in Nat
    /\ \A ts \in Terms, t \in Times : ts[t] \in Nat
    /\ Terms \subseteq [Times -> Nat]
    /\ NothingShown \in [Times -> Nat]
    /\ NoTerms \in Terms
<1>1. Unlimited \in Nat /\ (\A l \in Limits \cup {Unlimited} : l \in Nat)
  BY LimitsAssumption
<1>2. \A n \in Amounts : n \in Nat
  BY <1>1, AmountsAssumption
<1>3. (\A ts \in Terms, t \in Times : ts[t] \in Nat) /\ Terms \subseteq [Times -> Nat]
  BY <1>1 DEF Terms
<1>4. NothingShown \in [Times -> Nat] /\ NoTerms \in Terms
  BY <1>1 DEF NothingShown, NoTerms, Terms
<1> QED
  BY <1>1, <1>2, <1>3, <1>4

LEMMA InitTypeOK == Init => TypeOK
<1> SUFFICES ASSUME Init
             PROVE  TypeOK
  OBVIOUS
<1>1. amending \in BOOLEAN
  BY DEF Init
<1>2. 0 \in Times
  BY ClockAssumption DEF Times
<1>3. DirTypeOK
  BY <1>2, BoundsAreNumbers DEF Init, DirInit, DirTypeOK
<1> QED
  BY <1>1, <1>3, AmountsAssumption, BoundsAreNumbers, BoundsAssumption
     DEF Init, TypeOK, Ended, Rows


(* The registry's own steps keep its types.                                *)
LEMMA DirTypeStep == DirTypeOK /\ DirNext => DirTypeOK'
<1> SUFFICES ASSUME DirTypeOK, DirNext
             PROVE  DirTypeOK'
  OBVIOUS
<1> USE DEF DirTypeOK, Statuses
<1>1. ASSUME NEW a \in Agents, NEW s \in Statuses, SetStatus(a, s)
      PROVE  DirTypeOK'
  BY <1>1 DEF SetStatus
<1>2. ASSUME NEW a \in Agents, NEW t \in Terms, Publish(a, t)
      PROVE  DirTypeOK'
  BY <1>2 DEF Publish
<1>3. CASE Tick
  BY <1>3, ClockAssumption DEF Tick, Times
<1> QED
  BY <1>1, <1>2, <1>3 DEF DirNext

LEMMA NextTypeOK == TypeOK /\ [Next]_vars => TypeOK'
<1> SUFFICES ASSUME TypeOK, [Next]_vars
             PROVE  TypeOK'
  OBVIOUS
<1> USE FlowsAssumption, BoundsAssumption, BoundsAreNumbers DEF TypeOK, Goto, Ended, Rows
<1>1. ASSUME NEW f \in Flows, NEW n \in Amounts, Submit(f, n)
      PROVE  TypeOK'
  BY <1>1 DEF Submit, amendvars, dirvars, DirTypeOK
<1>2. ASSUME NEW f \in Flows, Gate(f)
      PROVE  TypeOK'
  BY <1>2 DEF Gate, history, amendvars, dirvars, DirTypeOK
<1>3. ASSUME NEW f \in Flows, UpdateSession(f)
      PROVE  TypeOK'
  BY <1>3 DEF UpdateSession, history, amendvars, DirTypeOK, Statuses
<1>4. ASSUME NEW f \in Flows, ReadContract(f)
      PROVE  TypeOK'
  BY <1>4 DEF ReadContract, history, amendvars, dirvars, DirTypeOK
<1>5. ASSUME NEW f \in Flows, NEW sound \in BOOLEAN, Validate(f, sound)
      PROVE  TypeOK'
  BY <1>5 DEF Validate, history, amendvars, dirvars, DirTypeOK
<1>6. ASSUME NEW f \in Flows, ReadCount(f)
      PROVE  TypeOK'
  BY <1>6 DEF ReadCount, history, amendvars, dirvars, DirTypeOK
<1>7. ASSUME NEW f \in Flows, WriteCount(f)
      PROVE  TypeOK'
  BY <1>7 DEF WriteCount, NextCount, history, amendvars, dirvars, DirTypeOK
<1>8. ASSUME NEW f \in Flows, Audit(f)
      PROVE  TypeOK'
  BY <1>8 DEF Audit, history, amendvars, dirvars, DirTypeOK
<1>9. ASSUME NEW f \in Flows, Retry(f) \/ Conclude(f) \/ Leave(f)
      PROVE  TypeOK'
  BY <1>9 DEF Retry, Conclude, Leave, history, amendvars, dirvars, DirTypeOK
<1>10. ASSUME NEW f \in Flows, Reset(f)
       PROVE  TypeOK'
  BY <1>10 DEF Reset, history, amendvars, dirvars, DirTypeOK
<1>11. ASSUME NEW f \in Flows, Record(f)
       PROVE  TypeOK'
  BY <1>11 DEF Record, history, amendvars, dirvars, DirTypeOK
<1>12. ASSUME DirTypeOK', Change
       PROVE  /\ barred' \in [Flows -> BOOLEAN]
              /\ shown' \in [Flows -> [Times -> Nat]]
              /\ changes' \in 0 .. MaxChanges
  <2>1. \A f \in Flows, t \in Times : terms'[AgentOf[f]][t] \in Nat
    BY <1>12 DEF DirTypeOK
  <2> QED
    BY <1>12, <2>1 DEF Change
<1>15. CASE Governance
  <2>1. DirTypeOK'
    BY <1>15, DirTypeStep DEF Governance
  <2> QED
    BY <1>12, <1>15, <2>1 DEF Governance, Change, flowvars, amendvars
<1>16. ASSUME NEW a \in Agents, NEW t \in Terms, Amend(a, t)
       PROVE  TypeOK'
  <2>1. DirTypeOK'
    BY <1>16, DirTypeStep DEF Amend, DirNext
  <2> QED
    BY <1>12, <1>16, <2>1 DEF Amend, Change, flowvars
<1>17. CASE AuditAmendment
  <2>1. amending' \in BOOLEAN
    BY <1>17 DEF AuditAmendment
  <2> QED
    BY <1>17, <2>1 DEF AuditAmendment, flowvars, history, dirvars, DirTypeOK
<1>13. CASE Crash
  <2>1. amending' \in BOOLEAN
    BY <1>13 DEF Crash
  <2> QED
    BY <1>13, <2>1 DEF Crash, history, dirvars, DirTypeOK
<1>14. CASE UNCHANGED vars
  BY <1>14 DEF vars, flowvars, history, amendvars, dirvars, DirTypeOK
<1> QED
  BY <1>1, <1>2, <1>3, <1>4, <1>5, <1>6, <1>7, <1>8, <1>9, <1>10, <1>11, <1>13, <1>14, <1>15,
     <1>16, <1>17 DEF Next, Step

(* Every variable keeps its type.                                          *)
THEOREM TypeCorrect == Spec => []TypeOK
  BY InitTypeOK, NextTypeOK, PTL DEF Spec

-----------------------------------------------------------------------------

LEMMA Product ==
    ASSUME NEW m \in Nat, NEW c \in Nat
    PROVE  /\ m * c \in Nat
           /\ m * (c + 1) = m * c + m
           /\ m * (c + 1 + 1) = m * (c + 1) + m
  OBVIOUS

LEMMA InitIInv == Init => IInv
<1> SUFFICES ASSUME Init
             PROVE  IInv
  OBVIOUS
<1>1. TypeOK
  BY InitTypeOK
<1>2. ASSUME NEW f \in Flows
      PROVE  FlowInv(f)
  <2>1. MaxRetries * crashes = 0 /\ MaxRetries * (crashes + 1) = MaxRetries
    BY BoundsAssumption, Product DEF Init
  <2> QED
    BY <2>1, BoundsAssumption
       DEF Init, FlowInv, CountUnderWay, EndUnderWay, Budget, Exhausted, GateUnderWay,
           ContractUnderWay, Evaluating, Ended, PastGate, Rows
<1> QED
  BY <1>1, <1>2 DEF IInv

(* What a flow's invariant says of it, its agent and the crashes.          *)
Same(g) ==
    /\ pc'[g] = pc[g] /\ proposal'[g] = proposal[g] /\ seenTerms'[g] = seenTerms[g]
    /\ seenCount'[g] = seenCount[g] /\ verdict'[g] = verdict[g] /\ count'[g] = count[g]
    /\ row'[g] = row[g] /\ recorded'[g] = recorded[g] /\ audit'[g] = audit[g]
    /\ barred'[g] = barred[g] /\ shown'[g] = shown[g]
    /\ crashes' = crashes
    /\ terms'[AgentOf[g]] = terms[AgentOf[g]]
    /\ status[AgentOf[g]] \in Restricted => status'[AgentOf[g]] \in Restricted

LEMMA OtherFlow ==
    ASSUME NEW g \in Flows, FlowInv(g), Same(g)
    PROVE  FlowInv(g)'
  BY DEF FlowInv, Same, CountUnderWay, EndUnderWay, Budget, Exhausted, GateUnderWay,
         ContractUnderWay, Evaluating

(* A step of one flow's orchestrator preserves the invariant if it does so *)
(* for that flow and leaves what the others' depends on alone.             *)
LEMMA OneFlowStep ==
    ASSUME IInv, TypeOK', NEW f \in Flows, FlowInv(f)',
           \A g \in Flows \ {f} : Same(g)
    PROVE  IInv'
  BY OtherFlow DEF IInv

LEMMA SubmitIInv ==
    ASSUME IInv, TypeOK', NEW f \in Flows, NEW n \in Amounts, Submit(f, n)
    PROVE  IInv'
<1> USE FlowsAssumption, BoundsAssumption DEF IInv, TypeOK, DirTypeOK, Submit, Goto, dirvars
<1>1. FlowInv(f)
  OBVIOUS
<1>2. CountUnderWay(f)' /\ EndUnderWay(f)' /\ Exhausted(f)'
  BY <1>1 DEF FlowInv, CountUnderWay, EndUnderWay, Exhausted
<1>3. Budget(f)'
  BY <1>1 DEF FlowInv, Budget
<1>4. GateUnderWay(f)'
  <2>1. pc'[f] = "gate" /\ verdict'[f] = "none" /\ status' = status
    OBVIOUS
  <2>2. barred'[f] => status[AgentOf[f]] \in Restricted
    <3>1. /\ f \in DOMAIN barred
          /\ barred' = [barred EXCEPT ![f] = status[AgentOf[f]] \in Restricted]
      OBVIOUS
    <3> HIDE DEF IInv, TypeOK, DirTypeOK, Submit, Goto, dirvars
    <3> QED
      BY <3>1, Zenon
  <2> QED
    BY <2>1, <2>2 DEF GateUnderWay, PastGate
<1>5. ContractUnderWay(f)'
  BY <1>1, BoundsAreNumbers DEF FlowInv, ContractUnderWay, Evaluating
<1>6. \A g \in Flows \ {f} : Same(g)
  BY DEF Same
<1> QED
  BY <1>2, <1>3, <1>4, <1>5, <1>6, OneFlowStep DEF FlowInv

LEMMA GateIInv ==
    ASSUME IInv, TypeOK', NEW f \in Flows, Gate(f)
    PROVE  IInv'
<1> USE FlowsAssumption, BoundsAssumption
    DEF IInv, TypeOK, DirTypeOK, Gate, Goto, dirvars, history
<1>1. FlowInv(f)
  OBVIOUS
<1>2. CountUnderWay(f)' /\ EndUnderWay(f)' /\ Exhausted(f)'
  BY <1>1 DEF FlowInv, CountUnderWay, EndUnderWay, Exhausted
<1>3. Budget(f)'
  BY <1>1 DEF FlowInv, Budget
<1>4. GateUnderWay(f)'
  BY <1>1 DEF FlowInv, GateUnderWay, PastGate, Restricted, Bars
<1>5. ContractUnderWay(f)'
  BY <1>1 DEF FlowInv, ContractUnderWay, Evaluating
<1>6. \A g \in Flows \ {f} : Same(g)
  BY DEF Same
<1> QED
  BY <1>2, <1>3, <1>4, <1>5, <1>6, OneFlowStep DEF FlowInv

LEMMA UpdateSessionIInv ==
    ASSUME IInv, TypeOK', NEW f \in Flows, UpdateSession(f)
    PROVE  IInv'
<1> USE FlowsAssumption, BoundsAssumption
    DEF IInv, TypeOK, DirTypeOK, UpdateSession, Goto, history
<1>1. FlowInv(f)
  OBVIOUS
<1>2. CountUnderWay(f)' /\ EndUnderWay(f)' /\ Exhausted(f)'
  BY <1>1 DEF FlowInv, CountUnderWay, EndUnderWay, Exhausted
<1>3. Budget(f)'
  BY <1>1 DEF FlowInv, Budget
<1>4. GateUnderWay(f)'
  BY <1>1 DEF FlowInv, GateUnderWay, PastGate
<1>5. ContractUnderWay(f)'
  BY <1>1 DEF FlowInv, ContractUnderWay, Evaluating
<1>6. \A g \in Flows \ {f} : Same(g)
  BY DEF Same, Restricted, Barred
<1> QED
  BY <1>2, <1>3, <1>4, <1>5, <1>6, OneFlowStep DEF FlowInv

LEMMA ReadContractIInv ==
    ASSUME IInv, TypeOK', NEW f \in Flows, ReadContract(f)
    PROVE  IInv'
<1> USE FlowsAssumption, BoundsAssumption
    DEF IInv, TypeOK, DirTypeOK, ReadContract, Goto, dirvars, history
<1>1. FlowInv(f)
  OBVIOUS
<1>2. CountUnderWay(f)' /\ EndUnderWay(f)' /\ Exhausted(f)'
  BY <1>1 DEF FlowInv, CountUnderWay, EndUnderWay, Exhausted
<1>3. Budget(f)'
  BY <1>1 DEF FlowInv, Budget
<1>4. GateUnderWay(f)'
  BY <1>1 DEF FlowInv, GateUnderWay, PastGate
<1>5. ContractUnderWay(f)'
  BY <1>1 DEF FlowInv, ContractUnderWay, Evaluating
<1>6. \A g \in Flows \ {f} : Same(g)
  BY DEF Same
<1> QED
  BY <1>2, <1>3, <1>4, <1>5, <1>6, OneFlowStep DEF FlowInv

LEMMA ValidateIInv ==
    ASSUME IInv, TypeOK', NEW f \in Flows, NEW sound \in BOOLEAN, Validate(f, sound)
    PROVE  IInv'
<1> USE FlowsAssumption, BoundsAssumption
    DEF IInv, TypeOK, DirTypeOK, Validate, Goto, dirvars, history
<1>1. FlowInv(f)
  OBVIOUS
<1>2. CountUnderWay(f)' /\ EndUnderWay(f)' /\ Exhausted(f)'
  BY <1>1 DEF FlowInv, CountUnderWay, EndUnderWay, Exhausted, ShouldAbort, Budget
<1>3. Budget(f)'
  BY <1>1 DEF FlowInv, Budget
<1>4. GateUnderWay(f)'
  BY <1>1 DEF FlowInv, GateUnderWay, PastGate
<1>5. ContractUnderWay(f)'
  BY DEF ContractUnderWay, Evaluating
<1>6. \A g \in Flows \ {f} : Same(g)
  BY DEF Same
<1> QED
  BY <1>2, <1>3, <1>4, <1>5, <1>6, OneFlowStep DEF FlowInv

LEMMA ReadCountIInv ==
    ASSUME IInv, TypeOK', NEW f \in Flows, ReadCount(f)
    PROVE  IInv'
<1> USE FlowsAssumption, BoundsAssumption
    DEF IInv, TypeOK, DirTypeOK, ReadCount, Goto, dirvars, history
<1>1. FlowInv(f)
  OBVIOUS
<1>2. CountUnderWay(f)' /\ EndUnderWay(f)' /\ Exhausted(f)'
  BY <1>1 DEF FlowInv, CountUnderWay, EndUnderWay, Exhausted
<1>3. Budget(f)'
  BY <1>1 DEF FlowInv, Budget
<1>4. GateUnderWay(f)'
  BY <1>1 DEF FlowInv, GateUnderWay, PastGate
<1>5. ContractUnderWay(f)'
  BY <1>1 DEF FlowInv, ContractUnderWay, Evaluating
<1>6. \A g \in Flows \ {f} : Same(g)
  BY DEF Same
<1> QED
  BY <1>2, <1>3, <1>4, <1>5, <1>6, OneFlowStep DEF FlowInv

LEMMA WriteCountIInv ==
    ASSUME IInv, TypeOK', NEW f \in Flows, WriteCount(f)
    PROVE  IInv'
<1> USE FlowsAssumption, BoundsAssumption
    DEF IInv, TypeOK, DirTypeOK, WriteCount, NextCount, Goto, dirvars, history
<1>1. FlowInv(f)
  OBVIOUS
<1>2. CountUnderWay(f)' /\ EndUnderWay(f)' /\ Exhausted(f)'
  BY <1>1 DEF FlowInv, CountUnderWay, EndUnderWay, Exhausted
<1>3. Budget(f)'
  <2>1. count'[f] = count[f] + 1 /\ recorded'[f] = recorded[f] + 1 /\ count[f] < MaxRetries
    BY <1>1 DEF FlowInv, CountUnderWay
  <2>2. /\ MaxRetries * crashes \in Nat
        /\ MaxRetries * (crashes + 1) = MaxRetries * crashes + MaxRetries
    BY Product
  <2>3. recorded[f] - count[f] <= MaxRetries * crashes
    BY <1>1 DEF FlowInv, Budget
  <2> QED
    BY <1>1, <2>1, <2>2, <2>3 DEF FlowInv, Budget
<1>4. GateUnderWay(f)'
  BY <1>1 DEF FlowInv, GateUnderWay, PastGate, CountUnderWay
<1>5. ContractUnderWay(f)'
  BY <1>1 DEF FlowInv, ContractUnderWay, Evaluating
<1>6. \A g \in Flows \ {f} : Same(g)
  BY DEF Same
<1> QED
  BY <1>2, <1>3, <1>4, <1>5, <1>6, OneFlowStep DEF FlowInv

LEMMA AuditIInv ==
    ASSUME IInv, TypeOK', NEW f \in Flows, Audit(f)
    PROVE  IInv'
<1> USE FlowsAssumption, BoundsAssumption
    DEF IInv, TypeOK, DirTypeOK, Audit, Goto, dirvars, history
<1>1. FlowInv(f)
  OBVIOUS
<1>2. CountUnderWay(f)' /\ EndUnderWay(f)' /\ Exhausted(f)'
  <2>1. CountUnderWay(f)' /\ EndUnderWay(f)'
    BY <1>1 DEF FlowInv, CountUnderWay, EndUnderWay
  <2>2. /\ pc[f] = "audit" /\ pc'[f] = "answered"
        /\ verdict'[f] = verdict[f] /\ recorded'[f] = recorded[f]
    OBVIOUS
  <2>3. verdict[f] # "EXHAUSTED" => audit'[f]["exhausted"] = audit[f]["exhausted"]
    BY <1>1, <2>2 DEF FlowInv, Exhausted, AuditRow, Rows
  <2>4. Exhausted(f)
    BY <1>1 DEF FlowInv
  <2> HIDE DEF IInv, TypeOK, DirTypeOK, Audit, Goto, dirvars, history
  <2>5. Exhausted(f)'
    BY <2>2, <2>3, <2>4 DEF Exhausted
  <2> QED
    BY <2>1, <2>5
<1>3. Budget(f)'
  BY <1>1 DEF FlowInv, Budget
<1>4. GateUnderWay(f)'
  BY <1>1 DEF FlowInv, GateUnderWay, PastGate
<1>5. ContractUnderWay(f)'
  BY <1>1 DEF FlowInv, ContractUnderWay, Evaluating
<1>6. \A g \in Flows \ {f} : Same(g)
  BY DEF Same
<1> QED
  BY <1>2, <1>3, <1>4, <1>5, <1>6, OneFlowStep DEF FlowInv

LEMMA AnswerIInv ==
    ASSUME IInv, TypeOK', NEW f \in Flows, Retry(f) \/ Conclude(f) \/ Leave(f)
    PROVE  IInv'
<1> USE FlowsAssumption, BoundsAssumption
    DEF IInv, TypeOK, DirTypeOK, Retry, Conclude, Leave, Goto, dirvars, history
<1>1. FlowInv(f)
  OBVIOUS
<1>2. CountUnderWay(f)' /\ EndUnderWay(f)' /\ Exhausted(f)'
  BY <1>1 DEF FlowInv, CountUnderWay, EndUnderWay, Exhausted
<1>3. Budget(f)'
  BY <1>1 DEF FlowInv, Budget
<1>4. GateUnderWay(f)'
  BY <1>1 DEF FlowInv, GateUnderWay, PastGate
<1>5. ContractUnderWay(f)'
  BY <1>1 DEF FlowInv, ContractUnderWay, Evaluating
<1>6. \A g \in Flows \ {f} : Same(g)
  BY DEF Same
<1> QED
  BY <1>2, <1>3, <1>4, <1>5, <1>6, OneFlowStep DEF FlowInv

LEMMA ResetIInv ==
    ASSUME IInv, TypeOK', NEW f \in Flows, Reset(f)
    PROVE  IInv'
<1> USE FlowsAssumption, BoundsAssumption
    DEF IInv, TypeOK, DirTypeOK, Reset, Goto, dirvars, history
<1>1. FlowInv(f)
  OBVIOUS
<1>2. CountUnderWay(f)' /\ EndUnderWay(f)' /\ Exhausted(f)'
  BY <1>1 DEF FlowInv, CountUnderWay, EndUnderWay, Exhausted
<1>3. Budget(f)'
  BY <1>1 DEF FlowInv, Budget
<1>4. GateUnderWay(f)'
  BY <1>1 DEF FlowInv, GateUnderWay, PastGate
<1>5. ContractUnderWay(f)'
  BY <1>1 DEF FlowInv, ContractUnderWay, Evaluating
<1>6. \A g \in Flows \ {f} : Same(g)
  BY DEF Same
<1> QED
  BY <1>2, <1>3, <1>4, <1>5, <1>6, OneFlowStep DEF FlowInv

LEMMA RecordIInv ==
    ASSUME IInv, TypeOK', NEW f \in Flows, Record(f)
    PROVE  IInv'
<1> USE FlowsAssumption, BoundsAssumption
    DEF IInv, TypeOK, DirTypeOK, Record, Goto, dirvars, history
<1>1. FlowInv(f)
  OBVIOUS
<1>2. CountUnderWay(f)' /\ EndUnderWay(f)' /\ Exhausted(f)'
  BY <1>1 DEF FlowInv, CountUnderWay, EndUnderWay, Exhausted, Ended
<1>3. Budget(f)'
  BY <1>1 DEF FlowInv, Budget
<1>4. GateUnderWay(f)'
  BY <1>1 DEF FlowInv, GateUnderWay, PastGate
<1>5. ContractUnderWay(f)'
  BY <1>1 DEF FlowInv, ContractUnderWay, Evaluating
<1>6. \A g \in Flows \ {f} : Same(g)
  BY DEF Same
<1> QED
  BY <1>2, <1>3, <1>4, <1>5, <1>6, OneFlowStep DEF FlowInv

(* A change of the registry, an amendment or any other.                    *)
LEMMA ChangeIInv ==
    ASSUME IInv, TypeOK', Change
    PROVE  IInv'
<1> USE FlowsAssumption, BoundsAssumption DEF IInv, TypeOK, DirTypeOK, Change, flowvars
<1>1. SUFFICES ASSUME NEW f \in Flows
               PROVE  FlowInv(f)'
  OBVIOUS
<1>2. FlowInv(f)
  OBVIOUS
<1>3. CountUnderWay(f)' /\ EndUnderWay(f)' /\ Exhausted(f)' /\ Budget(f)'
  BY <1>2 DEF FlowInv, CountUnderWay, EndUnderWay, Exhausted, Budget
<1>4. GateUnderWay(f)'
  BY <1>2 DEF FlowInv, GateUnderWay
<1>5. ContractUnderWay(f)'
  <2>1. ASSUME NEW t \in Times
        PROVE  /\ terms[AgentOf[f]][t] \in Nat /\ terms'[AgentOf[f]][t] \in Nat
               /\ seenTerms[f][t] \in Nat /\ shown[f][t] \in Nat
    BY BoundsAreNumbers
  <2>2. ASSUME NEW t \in Times, Evaluating(f)
        PROVE  shown[f][t] <= shown'[f][t] /\ terms'[AgentOf[f]][t] <= shown'[f][t]
    BY <2>1, <2>2
  <2>3. ASSUME NEW t \in Times, Evaluating(f)
        PROVE  shown'[f][t] \in Nat
    BY <2>1, <2>3
  <2>4. pc'[f] = pc[f] /\ verdict'[f] = verdict[f] /\ seenTerms'[f] = seenTerms[f]
    OBVIOUS
  <2>5. ContractUnderWay(f)
    BY <1>2 DEF FlowInv
  <2> HIDE DEF IInv, TypeOK, DirTypeOK, Change, flowvars
  <2>6. pc[f] = "govern" => \A t \in Times : seenTerms[f][t] <= shown'[f][t]
    BY <2>1, <2>2, <2>3, <2>5 DEF ContractUnderWay, Evaluating
  <2> QED
    BY <2>2, <2>4, <2>5, <2>6 DEF ContractUnderWay, Evaluating
<1> QED
  BY <1>3, <1>4, <1>5 DEF FlowInv

LEMMA CrashIInv ==
    ASSUME IInv, TypeOK', Crash
    PROVE  IInv'
<1> USE BoundsAssumption DEF IInv, TypeOK, DirTypeOK, Crash, history, dirvars
<1>1. SUFFICES ASSUME NEW f \in Flows
               PROVE  FlowInv(f)'
  OBVIOUS
<1>2. FlowInv(f)
  OBVIOUS
<1>3. CountUnderWay(f)' /\ EndUnderWay(f)' /\ Exhausted(f)'
  BY <1>2 DEF FlowInv, CountUnderWay, EndUnderWay, Exhausted
<1>4. Budget(f)'
  <2>1. /\ MaxRetries * (crashes + 1) \in Nat
        /\ MaxRetries * (crashes + 1 + 1) = MaxRetries * (crashes + 1) + MaxRetries
    BY Product
  <2>2. /\ MaxRetries * crashes' = MaxRetries * (crashes + 1)
        /\ MaxRetries * (crashes' + 1) = MaxRetries * (crashes + 1 + 1)
    OBVIOUS
  <2>3. recorded[f] \in Nat /\ count[f] \in Nat /\ recorded[f] <= MaxRetries * (crashes + 1)
    BY <1>2 DEF FlowInv, Budget
  <2> QED
    BY <1>2, <2>1, <2>2, <2>3 DEF FlowInv, Budget
<1>5. GateUnderWay(f)' /\ ContractUnderWay(f)'
  BY <1>2 DEF FlowInv, GateUnderWay, ContractUnderWay, PastGate, Evaluating
<1> QED
  BY <1>3, <1>4, <1>5 DEF FlowInv

LEMMA AuditAmendmentIInv ==
    ASSUME IInv, TypeOK', AuditAmendment
    PROVE  IInv'
<1>1. \A f \in Flows : Same(f)
  BY DEF Same, AuditAmendment, flowvars, history, dirvars
<1> QED
  BY <1>1, OtherFlow DEF IInv

LEMMA StutterIInv ==
    ASSUME IInv, UNCHANGED vars
    PROVE  IInv'
<1>1. TypeOK'
  BY NextTypeOK DEF IInv
<1>2. \A f \in Flows : Same(f)
  BY DEF Same, vars, flowvars, history, dirvars
<1> QED
  BY <1>1, <1>2, OtherFlow DEF IInv

LEMMA Inductive == IInv /\ [Next]_vars => IInv'
<1> SUFFICES ASSUME IInv, [Next]_vars
             PROVE  IInv'
  OBVIOUS
<1>1. TypeOK'
  BY NextTypeOK DEF IInv
<1>2. ASSUME NEW f \in Flows, Step(f)
      PROVE  IInv'
  BY <1>1, <1>2, SubmitIInv, GateIInv, UpdateSessionIInv, ReadContractIInv, ValidateIInv,
     ReadCountIInv, WriteCountIInv, AuditIInv, AnswerIInv, ResetIInv, RecordIInv DEF Step
<1>3. ASSUME NEW a \in Agents, NEW t \in Terms, Amend(a, t)
      PROVE  IInv'
  BY <1>1, <1>3, ChangeIInv DEF Amend
<1>4. CASE Governance
  BY <1>1, <1>4, ChangeIInv DEF Governance
<1> QED
  BY <1>1, <1>2, <1>3, <1>4, AuditAmendmentIInv, CrashIInv, StutterIInv DEF Next

(* The invariant the results below rest on.                                *)
THEOREM InductiveInvariant == Spec => []IInv
  BY InitIInv, Inductive, PTL DEF Spec

(* The persisted rejection count of a flow never passes the maximum.       *)
THEOREM RetriesBounded == Spec => []CountBounded
<1>1. IInv => CountBounded
  BY DEF IInv, FlowInv, CountUnderWay, CountBounded
<1> QED
  BY <1>1, InductiveInvariant, PTL

(* A flow spends at most one retry budget per run of the process.          *)
THEOREM BudgetPerRun == Spec => []BudgetPerCrash
<1>1. IInv => BudgetPerCrash
  BY DEF IInv, FlowInv, Budget, BudgetPerCrash
<1> QED
  BY <1>1, InductiveInvariant, PTL

(* Exhaustion is answered and audited only after as many recorded          *)
(* rejections as the governor allows.                                      *)
THEOREM NoEarlyExhaustion == Spec => []ExhaustedOnlyAfterBudget
<1>1. IInv => ExhaustedOnlyAfterBudget
  BY DEF IInv, FlowInv, Exhausted, ExhaustedOnlyAfterBudget
<1> QED
  BY <1>1, InductiveInvariant, PTL

(* The count of a flow that has ended is cleared, crashes or not.          *)
THEOREM EndedFlowsCleared == Spec => []TerminalFlowsCleared
<1>1. IInv => TerminalFlowsCleared
  BY DEF IInv, FlowInv, EndUnderWay, TerminalFlowsCleared
<1> QED
  BY <1>1, InductiveInvariant, PTL

(* No agent gets a proposal accepted that it made while restricted, unless *)
(* it was reinstated before the gate.                                      *)
THEOREM RestrictionHolds == Spec => []RestrictedNeverAccepted
<1>1. IInv => RestrictedNeverAccepted
  BY DEF IInv, FlowInv, GateUnderWay, RestrictedNeverAccepted
<1> QED
  BY <1>1, InductiveInvariant, PTL

(* Only the DIM accepts, and it does so by a row of the agent's and by the *)
(* time of its verdict.                                                    *)
LEMMA AcceptingStep ==
    ASSUME IInv, [Next]_vars, NEW f \in Flows, verdict[f] # "ACCEPT", verdict'[f] = "ACCEPT"
    PROVE  proposal[f] <= shown[f][clock]
<1>1. /\ verdict \in [Flows -> {"none", "ACCEPT", "REJECT", "EXHAUSTED", "GATED", "ESCALATE"}]
      /\ ContractUnderWay(f)
  BY DEF IInv, TypeOK, FlowInv
<1>2. PICK g \in Flows, sound \in BOOLEAN : Validate(g, sound)
  <2>1. ASSUME NEW g \in Flows, Step(g)
        PROVE  \E sound \in BOOLEAN : Validate(g, sound)
    <3>1. UNCHANGED verdict =>
             FALSE
      OBVIOUS
    <3>2. ~Gate(g)
      BY <1>1 DEF Gate
    <3>3. ~ \E n \in Amounts : Submit(g, n)
      BY <1>1 DEF Submit
    <3> QED
      BY <2>1, <3>1, <3>2, <3>3 DEF Step, UpdateSession, ReadContract, ReadCount, WriteCount,
         Audit, Retry, Conclude, Leave, Reset, Record
  <2>2. Governance \/ AuditAmendment \/ (\E a \in Agents, t \in Terms : Amend(a, t))
          \/ UNCHANGED vars => UNCHANGED verdict
    BY DEF Governance, AuditAmendment, Amend, Change, vars, flowvars
  <2>3. ~Crash
    BY DEF Crash
  <2> QED
    BY <2>1, <2>2, <2>3 DEF Next
<1>3. g = f
  BY <1>1, <1>2 DEF Validate
<1>4. proposal[f] <= seenTerms[f][clock] /\ pc[f] = "govern"
  BY <1>1, <1>2, <1>3 DEF Validate, Passes, Goto
<1>5. clock \in Times /\ seenTerms[f] \in Terms /\ shown[f] \in [Times -> Nat]
      /\ proposal[f] \in Nat
  BY BoundsAreNumbers DEF IInv, TypeOK, DirTypeOK
<1>6. seenTerms[f][clock] \in Nat /\ shown[f][clock] \in Nat
  BY <1>5, BoundsAreNumbers
<1> QED
  BY <1>1, <1>4, <1>5, <1>6 DEF ContractUnderWay

(* A proposal is accepted within the bound a row of its agent's, current   *)
(* since it was submitted, puts on it at the moment it is accepted.        *)
THEOREM ContractHolds == Spec => AcceptedWithinContract
<1>1. IInv /\ [Next]_vars =>
         [\A f \in Flows : verdict[f] # "ACCEPT" /\ verdict'[f] = "ACCEPT"
                               => proposal[f] <= shown[f][clock]]_vars
  BY AcceptingStep
<1> QED
  BY <1>1, InductiveInvariant, PTL DEF Spec, AcceptedWithinContract

-----------------------------------------------------------------------------
(* The audit trail. *)

(* An accepted proposal has been audited and its orchestrator has not died *)
(* since.                                                                  *)
Accepting(f) ==
    \/ pc[f] \in {"answered", "reset", "record"} /\ verdict[f] = "ACCEPT"
    \/ pc[f] \in {"ended", "left"}

AcceptUnderWay(f) ==
    /\ audit[f]["accept"] <= crashes + (IF Accepting(f) THEN 1 ELSE 0)
    /\ pc[f] \in {"answered", "reset", "record"} /\ verdict[f] = "ACCEPT"
          => audit[f]["accept"] > 0
    /\ row[f] = "CLOSED" => audit[f]["accept"] > 0

(* Only a restarted flow finds its retries exhausted when it asks.         *)
ExhaustedUnderWay(f) ==
    /\ audit[f]["exhausted"] <= crashes
    /\ pc[f] \in {"propose", "gate", "session", "contract", "govern"} /\ count[f] >= MaxRetries
          => audit[f]["exhausted"] < crashes
    /\ pc[f] = "audit" /\ verdict[f] \notin {"ACCEPT", "REJECT"} => audit[f]["exhausted"] < crashes

(* A rejection on its way to the audit trail has been recorded.            *)
RejectUnderWay(f) ==
    LET auditing == pc[f] = "audit" /\ verdict[f] = "REJECT"
    IN  /\ audit[f]["reject"] <= recorded[f]
        /\ auditing => audit[f]["reject"] < recorded[f]
        /\ recorded[f] <= audit[f]["reject"] + crashes + (IF auditing THEN 1 ELSE 0)

AmendUnderWay == AmendmentsAudited /\ (amending => amendRows < amended)

AuditInv(f) == AcceptUnderWay(f) /\ ExhaustedUnderWay(f) /\ RejectUnderWay(f)

LEMMA InitAudit == Init => AmendUnderWay /\ \A f \in Flows : AuditInv(f)
  BY BoundsAssumption
     DEF Init, AmendUnderWay, AmendmentsAudited, AuditInv, AcceptUnderWay, Accepting,
         ExhaustedUnderWay, RejectUnderWay, Ended, Rows

(* What a step of the flow's orchestrator does to its part of the trail.   *)
LEMMA FlowAuditStep ==
    ASSUME IInv, NEW f \in Flows, AuditInv(f), Step(f)
    PROVE  AuditInv(f)'
<1> DEFINE Typed(g) == /\ audit[g] \in [Rows -> Nat] /\ recorded[g] \in Nat /\ count[g] \in Nat
                       /\ crashes \in Nat /\ MaxRetries \in Nat
<1>0. Typed(f)
  BY BoundsAssumption DEF IInv, TypeOK
<1> USE <1>0 DEF Rows
<1> DEFINE Facts == CountUnderWay(f) /\ EndUnderWay(f)
<1>00. Facts
  BY DEF IInv, FlowInv
<1> USE <1>00 DEF CountUnderWay, EndUnderWay, AuditInv, AcceptUnderWay, Accepting,
                  ExhaustedUnderWay, RejectUnderWay, Goto
<1>1. ASSUME NEW n \in Amounts, Submit(f, n)
      PROVE  AuditInv(f)'
  BY <1>1 DEF Submit, IInv, TypeOK, DirTypeOK
<1>2. ASSUME Gate(f)
      PROVE  AuditInv(f)'
  BY <1>2 DEF Gate, IInv, TypeOK, DirTypeOK
<1>3. ASSUME UpdateSession(f)
      PROVE  AuditInv(f)'
  BY <1>3 DEF UpdateSession, IInv, TypeOK, DirTypeOK
<1>4. ASSUME ReadContract(f)
      PROVE  AuditInv(f)'
  BY <1>4 DEF ReadContract, IInv, TypeOK, DirTypeOK
<1>5. ASSUME NEW sound \in BOOLEAN, Validate(f, sound)
      PROVE  AuditInv(f)'
  BY <1>5 DEF Validate, ShouldAbort, IInv, TypeOK, DirTypeOK
<1>6. ASSUME ReadCount(f)
      PROVE  AuditInv(f)'
  BY <1>6 DEF ReadCount, IInv, TypeOK, DirTypeOK
<1>7. ASSUME WriteCount(f)
      PROVE  AuditInv(f)'
  BY <1>7 DEF WriteCount, NextCount, IInv, TypeOK, DirTypeOK
<1>8. ASSUME Audit(f)
      PROVE  AuditInv(f)'
  <2>1. /\ audit'[f]["accept"] = audit[f]["accept"] + (IF verdict[f] = "ACCEPT" THEN 1 ELSE 0)
        /\ audit'[f]["reject"] = audit[f]["reject"] + (IF verdict[f] = "REJECT" THEN 1 ELSE 0)
        /\ audit'[f]["exhausted"] = audit[f]["exhausted"]
              + (IF verdict[f] \in {"ACCEPT", "REJECT"} THEN 0 ELSE 1)
    BY <1>8 DEF Audit, AuditRow, IInv, TypeOK
  <2>2. /\ pc[f] = "audit" /\ pc'[f] = "answered"
        /\ verdict' = verdict /\ row' = row /\ recorded' = recorded /\ crashes' = crashes
    BY <1>8 DEF Audit, IInv, TypeOK
  <2> QED
    BY <2>1, <2>2
<1>9. ASSUME Retry(f) \/ Conclude(f) \/ Leave(f)
      PROVE  AuditInv(f)'
  BY <1>9 DEF Retry, Conclude, Leave, ShouldAbort, IInv, TypeOK, DirTypeOK
<1>10. ASSUME Reset(f)
       PROVE  AuditInv(f)'
  BY <1>10 DEF Reset, IInv, TypeOK, DirTypeOK
<1>11. ASSUME Record(f)
       PROVE  AuditInv(f)'
  BY <1>11 DEF Record, IInv, TypeOK, DirTypeOK
<1> QED
  BY <1>1, <1>2, <1>3, <1>4, <1>5, <1>6, <1>7, <1>8, <1>9, <1>10, <1>11 DEF Step

(* Any step that leaves the flow, its rows and the crashes alone.          *)
LEMMA OtherAudit ==
    ASSUME NEW g \in Flows, AuditInv(g), crashes' = crashes,
           pc'[g] = pc[g], verdict'[g] = verdict[g], count'[g] = count[g],
           audit'[g] = audit[g], row'[g] = row[g], recorded'[g] = recorded[g]
    PROVE  AuditInv(g)'
  BY DEF AuditInv, AcceptUnderWay, Accepting, ExhaustedUnderWay, RejectUnderWay

LEMMA OtherFlowAudit ==
    ASSUME IInv, NEW f \in Flows, NEW g \in Flows \ {f}, AuditInv(g), Step(f)
    PROVE  AuditInv(g)'
<1>1. /\ pc'[g] = pc[g] /\ verdict'[g] = verdict[g] /\ count'[g] = count[g]
      /\ audit'[g] = audit[g] /\ row'[g] = row[g] /\ recorded'[g] = recorded[g]
      /\ crashes' = crashes
  BY DEF IInv, TypeOK, Step, Goto, Submit, Gate, UpdateSession, ReadContract, Validate,
         ReadCount, WriteCount, Audit, Retry, Conclude, Leave, Reset, Record
<1> QED
  BY <1>1, OtherAudit

LEMMA CrashAudit ==
    ASSUME IInv, NEW f \in Flows, AuditInv(f), Crash
    PROVE  AuditInv(f)'
<1>1. /\ audit[f] \in [Rows -> Nat] /\ recorded[f] \in Nat /\ count[f] \in Nat
      /\ crashes \in Nat /\ MaxRetries \in Nat
  BY BoundsAssumption DEF IInv, TypeOK
<1>2. row[f] \in Ended => pc[f] = "ended"
  BY DEF IInv, FlowInv, EndUnderWay
<1> QED
  BY <1>1, <1>2 DEF Crash, AuditInv, AcceptUnderWay, Accepting, ExhaustedUnderWay,
         RejectUnderWay, Rows

LEMMA AmendStep ==
    ASSUME TypeOK, AmendUnderWay, [Next]_vars
    PROVE  AmendUnderWay'
<1> USE BoundsAssumption DEF TypeOK, AmendUnderWay, AmendmentsAudited, amendvars
<1>1. ASSUME NEW f \in Flows, Step(f)
      PROVE  AmendUnderWay'
  BY <1>1 DEF Step, Submit, Gate, UpdateSession, ReadContract, Validate,
              ReadCount, WriteCount, Audit, Retry, Conclude, Leave, Reset, Record
<1>2. CASE Governance
  BY <1>2 DEF Governance, Change
<1>3. ASSUME NEW a \in Agents, NEW t \in Terms, Amend(a, t)
      PROVE  AmendUnderWay'
  BY <1>3 DEF Amend, Change
<1>4. CASE AuditAmendment
  BY <1>4 DEF AuditAmendment
<1>5. CASE Crash
  BY <1>5 DEF Crash
<1>6. CASE UNCHANGED vars
  BY <1>6 DEF vars
<1> QED
  BY <1>1, <1>2, <1>3, <1>4, <1>5, <1>6 DEF Next

LEMMA AuditInductive ==
    ASSUME IInv, \A f \in Flows : AuditInv(f), [Next]_vars, NEW g \in Flows
    PROVE  AuditInv(g)'
<1>1. ASSUME NEW f \in Flows, Step(f)
      PROVE  AuditInv(g)'
  BY <1>1, FlowAuditStep, OtherFlowAudit
<1>2. ASSUME UNCHANGED flowvars, crashes' = crashes
      PROVE  AuditInv(g)'
  BY <1>2, OtherAudit DEF flowvars
<1>3. CASE Governance
  BY <1>2, <1>3 DEF Governance, Change
<1>4. ASSUME NEW a \in Agents, NEW t \in Terms, Amend(a, t)
      PROVE  AuditInv(g)'
  BY <1>2, <1>4 DEF Amend, Change
<1>5. CASE AuditAmendment
  BY <1>2, <1>5 DEF AuditAmendment
<1>6. CASE UNCHANGED vars
  BY <1>2, <1>6 DEF vars
<1> QED
  BY <1>1, <1>3, <1>4, <1>5, <1>6, CrashAudit DEF Next

(* The audit trail agrees with the governor, the lifecycle and the contract *)
(* amendments, short of one row per crash.                                 *)
THEOREM AuditComplete == Spec => []AuditTrail
<1> DEFINE Inv == IInv /\ AmendUnderWay /\ \A f \in Flows : AuditInv(f)
<1>1. Init => Inv
  BY InitIInv, InitAudit
<1>2. Inv /\ [Next]_vars => Inv'
  <2> SUFFICES ASSUME Inv, [Next]_vars
               PROVE  Inv'
    OBVIOUS
  <2>1. IInv' /\ AmendUnderWay'
    BY Inductive, AmendStep DEF IInv
  <2>2. \A f \in Flows : AuditInv(f)'
    BY AuditInductive
  <2> QED
    BY <2>1, <2>2
<1>3. Inv => AuditTrail
  <2>1. ASSUME IInv, NEW f \in Flows, AuditInv(f)
        PROVE  FlowAudited(f)
    <3>1. audit[f] \in [Rows -> Nat] /\ crashes \in Nat
      BY <2>1, BoundsAssumption DEF IInv, TypeOK
    <3> QED
      BY <2>1, <3>1 DEF AuditInv, AcceptUnderWay, ExhaustedUnderWay, RejectUnderWay,
                        FlowAudited, Rows
  <2> QED
    BY <2>1 DEF AmendUnderWay, AuditTrail
<1> HIDE DEF Inv
<1> QED
  BY <1>1, <1>2, <1>3, PTL DEF Spec

-----------------------------------------------------------------------------
(* How far a flow is from its end: the part of FlowsEnd that needs no      *)
(* fairness.                                                               *)

(* The flow's last verdict is given, or its orchestrator has left it.      *)
Decided(f) ==
    \/ pc[f] \in {"reset", "record", "ended", "left"}
    \/ pc[f] \in {"audit", "answered"} /\ verdict[f] \in {"ACCEPT", "EXHAUSTED"}

(* The status gate has turned the proposal away.                           *)
TurnedAway(f) == pc[f] = "answered" /\ verdict[f] \in {"GATED", "ESCALATE"}

(* Storage calls left once the flow is decided.                            *)
Closing == [audit |-> 4, answered |-> 3, reset |-> 2, record |-> 1, ended |-> 0, left |-> 0]

(* The place of a call in an attempt; the audit of a rejection comes after *)
(* the count was raised, hence in the attempt that follows.                *)
Place == [audit |-> 11, answered |-> 10, propose |-> 9, gate |-> 8, session |-> 7,
          contract |-> 6, govern |-> 5, count |-> 4, recount |-> 3]

(* An attempt takes fewer than 12 calls, and there is one for each         *)
(* rejection the governor still allows and the one it refuses.             *)
Distance(f) ==
    IF Decided(f) THEN Closing[pc[f]]
    ELSE 12 * (MaxRetries - count[f]) + (IF TurnedAway(f) THEN 7 ELSE Place[pc[f]])

(* A flow is at the end when it has nothing left to do, and never further  *)
(* from it than it was at its start.                                       *)
DistanceBounded ==
    \A f \in Flows : /\ Distance(f) \in 0 .. 12 * MaxRetries + 9
                     /\ Distance(f) = 0 <=> Over(f)

(* Every step of a flow's orchestrator brings the flow closer to its end,  *)
(* except that a proposal turned away at the gate is retried; no step of   *)
(* another flow, of the registry or of an operator moves it, and only a    *)
(* restricted agent's proposal is turned away.  A crash starts it over.    *)
FlowsProgress ==
    [][~Crash => \A f \in Flows :
          /\ \/ Distance(f)' < Distance(f)
             \/ Distance(f)' = Distance(f) /\ pc'[f] = pc[f]
             \/ TurnedAway(f) /\ pc'[f] = "propose"
          /\ TurnedAway(f)' => TurnedAway(f) \/ status[AgentOf[f]] \in Restricted]_vars

(* What the orchestrator knows between the verdict and its response.       *)
Verdicts(f) ==
    /\ pc[f] \in {"audit", "answered"} =>
         /\ verdict[f] # "none"
         /\ verdict[f] = "EXHAUSTED" => count[f] >= MaxRetries
         /\ verdict[f] = "REJECT" => count[f] >= 1
    /\ pc[f] = "audit" => verdict[f] \notin {"GATED", "ESCALATE"}
    /\ pc[f] = "ended" => row[f] \in Ended

LEMMA InitVerdicts == Init => \A f \in Flows : Verdicts(f)
  BY DEF Init, Verdicts

(* What a step of the flow's own orchestrator does to its distance.        *)
StepCloser(f) ==
    /\ Distance(f)' < Distance(f) \/ (TurnedAway(f) /\ pc'[f] = "propose")
    /\ TurnedAway(f)' => status[AgentOf[f]] \in Restricted

LEMMA FlowStepCloser ==
    ASSUME IInv, NEW f \in Flows, Verdicts(f), Step(f)
    PROVE  Verdicts(f)' /\ StepCloser(f)
<1>0. count[f] \in 0 .. MaxRetries /\ MaxRetries \in Nat \ {0}
  BY BoundsAssumption DEF IInv, TypeOK, FlowInv, CountUnderWay
<1> USE <1>0 DEF Goto, Verdicts, StepCloser, Distance, Decided, TurnedAway, Closing, Place
<1>1. ASSUME NEW n \in Amounts, Submit(f, n)
      PROVE  Verdicts(f)' /\ StepCloser(f)
  BY <1>1 DEF Submit, IInv, TypeOK
<1>2. ASSUME Gate(f)
      PROVE  Verdicts(f)' /\ StepCloser(f)
  BY <1>2 DEF Gate, Bars, Restricted, Barred, IInv, TypeOK
<1>3. ASSUME UpdateSession(f)
      PROVE  Verdicts(f)' /\ StepCloser(f)
  BY <1>3 DEF UpdateSession, IInv, TypeOK
<1>4. ASSUME ReadContract(f)
      PROVE  Verdicts(f)' /\ StepCloser(f)
  BY <1>4 DEF ReadContract, IInv, TypeOK
<1>5. ASSUME NEW sound \in BOOLEAN, Validate(f, sound)
      PROVE  Verdicts(f)' /\ StepCloser(f)
  BY <1>5 DEF Validate, ShouldAbort, IInv, TypeOK
<1>6. ASSUME ReadCount(f)
      PROVE  Verdicts(f)' /\ StepCloser(f)
  BY <1>6 DEF ReadCount, IInv, TypeOK
<1>7. ASSUME WriteCount(f)
      PROVE  Verdicts(f)' /\ StepCloser(f)
  <2>1. verdict[f] = "REJECT" /\ seenCount[f] = count[f]
    BY <1>7 DEF WriteCount, IInv, FlowInv, CountUnderWay
  <2> QED
    BY <1>7, <2>1 DEF WriteCount, NextCount, IInv, TypeOK
<1>8. ASSUME Audit(f)
      PROVE  Verdicts(f)' /\ StepCloser(f)
  BY <1>8 DEF Audit, IInv, TypeOK
<1>9. ASSUME Retry(f) \/ Conclude(f) \/ Leave(f)
      PROVE  Verdicts(f)' /\ StepCloser(f)
  BY <1>9 DEF Retry, Conclude, Leave, ShouldAbort, IInv, TypeOK
<1>10. ASSUME Reset(f)
       PROVE  Verdicts(f)' /\ StepCloser(f)
  BY <1>10 DEF Reset, IInv, TypeOK
<1>11. ASSUME Record(f)
       PROVE  Verdicts(f)' /\ StepCloser(f)
  BY <1>11 DEF Record, Ended, IInv, TypeOK
<1> QED
  BY <1>1, <1>2, <1>3, <1>4, <1>5, <1>6, <1>7, <1>8, <1>9, <1>10, <1>11 DEF Step

(* Any step that leaves the flow alone.                                    *)
LEMMA OtherDistance ==
    ASSUME NEW g \in Flows, Verdicts(g),
           pc'[g] = pc[g], verdict'[g] = verdict[g], count'[g] = count[g], row'[g] = row[g]
    PROVE  /\ Verdicts(g)'
           /\ Distance(g)' = Distance(g)
           /\ TurnedAway(g)' => TurnedAway(g)
  BY DEF Verdicts, Distance, Decided, TurnedAway

(* What FlowsProgress says of one flow.                                    *)
Progress(g) ==
    /\ \/ Distance(g)' < Distance(g)
       \/ Distance(g)' = Distance(g) /\ pc'[g] = pc[g]
       \/ TurnedAway(g) /\ pc'[g] = "propose"
    /\ TurnedAway(g)' => TurnedAway(g) \/ status[AgentOf[g]] \in Restricted

LEMMA NextProgress ==
    ASSUME IInv, \A f \in Flows : Verdicts(f), [Next]_vars, NEW g \in Flows
    PROVE  Verdicts(g)' /\ (Crash \/ Progress(g))
<1>1. ASSUME pc'[g] = pc[g], verdict'[g] = verdict[g], count'[g] = count[g], row'[g] = row[g]
      PROVE  Verdicts(g)' /\ Progress(g)
  BY <1>1, OtherDistance DEF Progress
<1>2. ASSUME NEW f \in Flows, Step(f)
      PROVE  Verdicts(g)' /\ Progress(g)
  <2>1. CASE f = g
    BY <1>2, <2>1, FlowStepCloser DEF StepCloser, Progress
  <2>2. CASE f # g
    <3>1. pc'[g] = pc[g] /\ verdict'[g] = verdict[g] /\ count'[g] = count[g] /\ row'[g] = row[g]
      BY <1>2, <2>2 DEF IInv, TypeOK, Step, Goto, Submit, Gate, UpdateSession, ReadContract,
         Validate, ReadCount, WriteCount, Audit, Retry, Conclude, Leave, Reset, Record
    <3> QED
      BY <1>1, <3>1
  <2> QED
    BY <2>1, <2>2
<1>3. UNCHANGED flowvars => Verdicts(g)' /\ Progress(g)
  BY <1>1 DEF flowvars
<1>4. CASE Governance \/ AuditAmendment \/ UNCHANGED vars
         \/ \E a \in Agents, t \in Terms : Amend(a, t)
  BY <1>3, <1>4 DEF Governance, AuditAmendment, Amend, Change, vars
<1>5. CASE Crash
  BY <1>5 DEF Crash, Verdicts
<1> QED
  BY <1>2, <1>4, <1>5 DEF Next

LEMMA KnownVerdicts == Spec => [](IInv /\ \A f \in Flows : Verdicts(f))
<1> DEFINE Inv == IInv /\ \A f \in Flows : Verdicts(f)
<1>1. Init => Inv
  BY InitIInv, InitVerdicts
<1>2. Inv /\ [Next]_vars => Inv'
  BY Inductive, NextProgress
<1> QED
  BY <1>1, <1>2, PTL DEF Spec

(* The distance is a number, bounded by what one budget of retries costs,  *)
(* and 0 when and only when the flow is CLOSED, ABORTED or left.           *)
THEOREM DistanceToEnd == Spec => []DistanceBounded
<1>1. IInv /\ (\A f \in Flows : Verdicts(f)) => DistanceBounded
  <2> SUFFICES ASSUME IInv, NEW f \in Flows, Verdicts(f)
               PROVE  /\ Distance(f) \in 0 .. 12 * MaxRetries + 9
                      /\ Distance(f) = 0 <=> Over(f)
    BY DEF DistanceBounded
  <2>1. /\ count[f] \in 0 .. MaxRetries /\ MaxRetries \in Nat \ {0}
        /\ pc[f] \in {"propose", "gate", "session", "contract", "govern", "count",
                      "recount", "audit", "answered", "reset", "record", "ended", "left"}
        /\ verdict[f] \in {"none", "ACCEPT", "REJECT", "EXHAUSTED", "GATED", "ESCALATE"}
        /\ pc[f] = "ended" <=> row[f] \in Ended
    BY BoundsAssumption DEF IInv, TypeOK, FlowInv, CountUnderWay, EndUnderWay, Verdicts
  <2> QED
    BY <2>1 DEF Verdicts, Distance, Decided, TurnedAway, Closing, Place, Over
<1> QED
  BY <1>1, KnownVerdicts, PTL

(* An orchestrator left to run, with an agent that is not restricted, ends *)
(* its flow within 12 * MaxRetries + 9 storage calls: what fairness adds   *)
(* to this is only that it does run.                                       *)
THEOREM EveryStepCloser == Spec => FlowsProgress
<1>1. IInv /\ (\A f \in Flows : Verdicts(f)) /\ [Next]_vars
        => (~Crash => \A f \in Flows : Progress(f))
  BY NextProgress
<1>2. IInv /\ (\A f \in Flows : Verdicts(f)) /\ [Next]_vars
        => [~Crash => \A f \in Flows :
              /\ \/ Distance(f)' < Distance(f)
                 \/ Distance(f)' = Distance(f) /\ pc'[f] = pc[f]
                 \/ TurnedAway(f) /\ pc'[f] = "propose"
              /\ TurnedAway(f)' => TurnedAway(f) \/ status[AgentOf[f]] \in Restricted]_vars
  BY <1>1 DEF Progress
<1> QED
  BY <1>2, KnownVerdicts, PTL DEF Spec, FlowsProgress
=============================================================================
