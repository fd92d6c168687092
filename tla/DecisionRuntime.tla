-------------------------- MODULE DecisionRuntime ---------------------------
(***************************************************************************)
(* DecisionRuntime.evaluate_proposal (runtime.py), the DIM it calls        *)
(* (dim.py), the retry governor (intent_retry.py) and the lifecycle        *)
(* transition that ends a flow (lifecycle.py), over persistent storage and *)
(* beside a registry that operators and monitors change at any time.       *)
(*                                                                         *)
(* One orchestrator per flow submits proposals.  What it does with the     *)
(* verdict differs between applications: after any verdict it may record   *)
(* the end of the flow (sample 09) or leave the flow as it is (the breaks  *)
(* of sample 40); after a rejection it may try again, but asks the         *)
(* governor first (sample 40).  Every storage call is a step of its own;   *)
(* the whole process may crash between two of them and its orchestrators   *)
(* start over.                                                             *)
(*                                                                         *)
(* A proposal is abstracted to the quantity the contract bounds; whether   *)
(* the DIM's other checks pass (schema, scope, evidence, drift) is a       *)
(* nondeterministic choice.                                                *)
(***************************************************************************)
EXTENDS AgentDirectory

CONSTANTS
    Flows,
    AgentOf,      \* the agent each flow's proposals come from
    Amounts,      \* quantities proposals ask for
    MaxRetries,   \* IntentRetryGovernor.max_retries
    MaxChanges,   \* bound on the registry changes of a behaviour
    MaxCrashes    \* bound on the crashes of a behaviour

ASSUME FlowsAssumption == AgentOf \in [Flows -> Agents]
ASSUME AmountsAssumption == Amounts \subseteq 0 .. Unlimited /\ Amounts # {}
ASSUME BoundsAssumption ==
    /\ MaxRetries \in Nat \ {0}
    /\ MaxChanges \in Nat
    /\ MaxCrashes \in Nat

VARIABLES
    pc,         \* the next storage call of each flow's orchestrator
    proposal,   \* the quantity asked for by the proposal under evaluation
    seenTerms,  \* the row read for it: contract and amendments, not yet resolved
    seenCount,  \* the rejection count read by record_rejection
    verdict,    \* the verdict evaluate_proposal is about to return
    count,      \* intent_retry.rejection_count
    audit,      \* PROPOSAL_ACCEPT / PROPOSAL_REJECT rows, by flow and reason
    row,        \* the last status recorded in flow_transitions
    recorded,   \* history: rejections the governor recorded, never reset
    barred,     \* history: the agent was restricted ever since the submission
    shown,      \* history: for each time, the largest bound of a row since the submission
    amending,   \* an amendment has been applied and not audited yet
    amended,    \* history: amendments applied
    amendRows,  \* CONTRACT_PARAMETER_AMENDED rows
    changes,    \* registry changes so far
    crashes     \* crashes so far

flowvars == <<pc, proposal, seenTerms, seenCount, verdict, count, audit, row, recorded>>
history  == <<barred, shown>>
amendvars == <<amending, amended, amendRows>>
vars     == <<dirvars, flowvars, history, amendvars, changes, crashes>>

-----------------------------------------------------------------------------

Ended == {"CLOSED", "ABORTED"}

Rows == {"accept", "reject", "exhausted"}

NothingShown == [t \in Times |-> 0]

TypeOK ==
    /\ DirTypeOK
    /\ pc \in [Flows -> {"propose", "gate", "session", "contract", "govern", "count",
                         "recount", "audit", "answered", "reset", "record", "ended", "left"}]
    /\ proposal \in [Flows -> Amounts]
    /\ seenTerms \in [Flows -> Terms]
    /\ seenCount \in [Flows -> Nat]
    /\ verdict \in [Flows -> {"none", "ACCEPT", "REJECT", "EXHAUSTED", "GATED", "ESCALATE"}]
    /\ count \in [Flows -> Nat]
    /\ audit \in [Flows -> [Rows -> Nat]]
    /\ row \in [Flows -> {"VALIDATING"} \cup Ended]
    /\ recorded \in [Flows -> Nat]
    /\ barred \in [Flows -> BOOLEAN]
    /\ shown \in [Flows -> [Times -> Nat]]
    /\ amending \in BOOLEAN
    /\ amended \in Nat
    /\ amendRows \in Nat
    /\ changes \in 0 .. MaxChanges
    /\ crashes \in 0 .. MaxCrashes

Init ==
    /\ DirInit
    /\ pc = [f \in Flows |-> "propose"]
    /\ proposal = [f \in Flows |-> CHOOSE n \in Amounts : TRUE]
    /\ seenTerms = [f \in Flows |-> NoTerms]
    /\ seenCount = [f \in Flows |-> 0]
    /\ verdict = [f \in Flows |-> "none"]
    /\ count = [f \in Flows |-> 0]
    /\ audit = [f \in Flows |-> [k \in Rows |-> 0]]
    /\ row = [f \in Flows |-> "VALIDATING"]
    /\ recorded = [f \in Flows |-> 0]
    /\ barred = [f \in Flows |-> FALSE]
    /\ shown = [f \in Flows |-> NothingShown]
    /\ amending = FALSE
    /\ amended = 0
    /\ amendRows = 0
    /\ changes = 0
    /\ crashes = 0

-----------------------------------------------------------------------------
(* The orchestrator's side: submission.                                    *)

Goto(f, here, there) ==
    /\ pc[f] = here
    /\ pc' = [pc EXCEPT ![f] = there]

(* evaluate_proposal is called with whatever the agent came up with.       *)
Submit(f, n) ==
    /\ Goto(f, "propose", "gate")
    /\ proposal' = [proposal EXCEPT ![f] = n]
    /\ verdict' = [verdict EXCEPT ![f] = "none"]
    /\ barred' = [barred EXCEPT ![f] = status[AgentOf[f]] \in Restricted]
    /\ shown' = [shown EXCEPT ![f] = terms[AgentOf[f]]]
    /\ UNCHANGED <<dirvars, seenTerms, seenCount, count, audit, row, recorded,
                   amendvars, changes, crashes>>

-----------------------------------------------------------------------------
(* evaluate_proposal, call by call.                                        *)

(* Mutant: suspended agents pass.                                          *)
BarsExceptSuspended(s) == s \in Barred \ {"SUSPENDED"}

(* Mutant: an agent without a row is turned away like a retired one.       *)
BarsUnregistered(s) == s \in Barred \cup {"unknown"}

Bars(s) == s \in Barred

(* The status gate: a restricted agent is answered at once, without audit  *)
(* row, session or recorded rejection; an agent without a row passes.      *)
Gate(f) ==
    LET s == status[AgentOf[f]]
        v == IF Bars(s) THEN "GATED" ELSE IF s = "ESCALATION_ONLY" THEN "ESCALATE" ELSE "none"
    IN  /\ Goto(f, "gate", IF v = "none" THEN "session" ELSE "answered")
        /\ verdict' = [verdict EXCEPT ![f] = v]
        /\ UNCHANGED <<dirvars, proposal, seenTerms, seenCount, count, audit, row,
                       recorded, history, amendvars, changes, crashes>>

(* context_store.update_session and the compilation of the working context. *)
(* The stored snapshot is not read again here, but SQLite first creates the *)
(* rows its foreign keys need, among them an ACTIVE agent without contract. *)
UpdateSession(f) ==
    /\ Goto(f, "session", "contract")
    /\ status' = [status EXCEPT ![AgentOf[f]] = IF @ = "unknown" THEN "ACTIVE" ELSE @]
    /\ UNCHANGED <<terms, clock, proposal, seenTerms, seenCount, verdict, count, audit, row, recorded,
                   history, amendvars, changes, crashes>>

(* Mutant: a retry is evaluated under the contract of the attempt before.  *)
ReadContractOnce(f) ==
    /\ Goto(f, "contract", "govern")
    /\ seenTerms' = [seenTerms EXCEPT ![f] = IF count[f] = 0 THEN terms[AgentOf[f]] ELSE @]
    /\ UNCHANGED <<dirvars, proposal, seenCount, verdict, count, audit, row, recorded,
                   history, amendvars, changes, crashes>>

(* registry.get_agent_projection: the row as it is, amendments unresolved. *)
ReadContract(f) ==
    /\ Goto(f, "contract", "govern")
    /\ seenTerms' = [seenTerms EXCEPT ![f] = terms[AgentOf[f]]]
    /\ UNCHANGED <<dirvars, proposal, seenCount, verdict, count, audit, row, recorded,
                   history, amendvars, changes, crashes>>

(* Mutant: one retry too many.                                             *)
ShouldAbortLate(f) == count[f] > MaxRetries

ShouldAbort(f) == count[f] >= MaxRetries

(* The DIM's checks on the proposal and the contract it was handed, of     *)
(* whose amendments it applies those that have not expired by now.         *)
Passes(f, sound) == sound /\ proposal[f] <= seenTerms[f][clock]

(* validate_proposal asks the governor first; an exhausted flow is rejected *)
(* without being recorded again.                                           *)
Validate(f, sound) ==
    LET v == IF ShouldAbort(f) THEN "EXHAUSTED" ELSE IF Passes(f, sound) THEN "ACCEPT" ELSE "REJECT"
    IN  /\ Goto(f, "govern", IF v = "REJECT" THEN "count" ELSE "audit")
        /\ verdict' = [verdict EXCEPT ![f] = v]
        /\ seenTerms' = [seenTerms EXCEPT ![f] = NoTerms]
        /\ shown' = [shown EXCEPT ![f] = NothingShown]
        /\ UNCHANGED <<dirvars, proposal, seenCount, count, audit, row, recorded, barred,
                       amendvars, changes, crashes>>

(* record_rejection reads the count ...                                    *)
ReadCount(f) ==
    /\ Goto(f, "count", "recount")
    /\ seenCount' = [seenCount EXCEPT ![f] = count[f]]
    /\ UNCHANGED <<dirvars, proposal, seenTerms, verdict, count, audit, row, recorded,
                   history, amendvars, changes, crashes>>

(* Mutant: the count is written back as it was read.                       *)
SameCount(n) == n

(* Mutant: a rejection is counted twice.                                   *)
CountTwice(n) == n + 2

(* Mutant: a decrement.                                                    *)
PreviousCount(n) == n - 1

NextCount(n) == n + 1

(* ... and writes it back.                                                 *)
WriteCount(f) ==
    /\ Goto(f, "recount", "audit")
    /\ count' = [count EXCEPT ![f] = NextCount(seenCount[f])]
    /\ seenCount' = [seenCount EXCEPT ![f] = 0]
    /\ recorded' = [recorded EXCEPT ![f] = @ + 1]
    /\ UNCHANGED <<dirvars, proposal, seenTerms, verdict, audit, row,
                   history, amendvars, changes, crashes>>

(* Mutant: only accepted proposals are audited.                            *)
AuditAcceptedOnly(f) == IF verdict[f] = "ACCEPT" THEN {"accept"} ELSE {}

(* The audit row an evaluation leaves.                                     *)
AuditRow(f) ==
    {IF verdict[f] = "ACCEPT" THEN "accept"
     ELSE IF verdict[f] = "REJECT" THEN "reject" ELSE "exhausted"}

Audit(f) ==
    /\ Goto(f, "audit", "answered")
    /\ audit' = [audit EXCEPT ![f] =
                   [k \in Rows |-> IF k \in AuditRow(f) THEN @[k] + 1 ELSE @[k]]]
    /\ UNCHANGED <<dirvars, proposal, seenTerms, seenCount, verdict, count, row,
                   recorded, history, amendvars, changes, crashes>>

-----------------------------------------------------------------------------
(* The orchestrator's side: what it does with the verdict.                 *)

(* The retry loop asks the governor before it tries again, after whatever  *)
(* rejection, a restricted agent's too.                                    *)
Retry(f) ==
    /\ Goto(f, "answered", "propose")
    /\ verdict[f] # "ACCEPT"
    /\ ~ShouldAbort(f)
    /\ UNCHANGED <<dirvars, proposal, seenTerms, seenCount, verdict, count, audit, row,
                   recorded, history, amendvars, changes, crashes>>

(* The flow is to be CLOSED after an acceptance, ABORTED after any other   *)
(* verdict, the first one included.                                        *)
Conclude(f) ==
    /\ Goto(f, "answered", "reset")
    /\ UNCHANGED <<dirvars, proposal, seenTerms, seenCount, verdict, count, audit, row,
                   recorded, history, amendvars, changes, crashes>>

(* The loop ends and nothing is said of the flow: no proposal came, or one *)
(* was accepted, escalated, exhausted or not to be retried.                *)
Leave(f) ==
    /\ pc[f] \in {"propose", "answered"}
    /\ pc' = [pc EXCEPT ![f] = "left"]
    /\ UNCHANGED <<dirvars, proposal, seenTerms, seenCount, verdict, count, audit, row,
                   recorded, history, amendvars, changes, crashes>>

(* Mutant: only an aborted flow is reset.                                  *)
ResetAborted(f) ==
    /\ Goto(f, "reset", "record")
    /\ count' = [count EXCEPT ![f] = IF verdict[f] = "ACCEPT" THEN @ ELSE 0]
    /\ UNCHANGED <<dirvars, proposal, seenTerms, seenCount, verdict, audit, row,
                   recorded, history, amendvars, changes, crashes>>

(* lifecycle.transition into CLOSED or ABORTED first resets the governor ... *)
Reset(f) ==
    /\ Goto(f, "reset", "record")
    /\ count' = [count EXCEPT ![f] = 0]
    /\ UNCHANGED <<dirvars, proposal, seenTerms, seenCount, verdict, audit, row,
                   recorded, history, amendvars, changes, crashes>>

(* ... then records the transition.                                        *)
Record(f) ==
    /\ Goto(f, "record", "ended")
    /\ row' = [row EXCEPT ![f] = IF verdict[f] = "ACCEPT" THEN "CLOSED" ELSE "ABORTED"]
    /\ UNCHANGED <<dirvars, proposal, seenTerms, seenCount, verdict, count, audit,
                   recorded, history, amendvars, changes, crashes>>

-----------------------------------------------------------------------------
(* The environment.                                                        *)

(* The DIM has yet to judge the proposal.                                  *)
Evaluating(f) == pc[f] \in {"gate", "session", "contract", "govern"}

(* Every change of the registry, as the flows under evaluation see it.     *)
Change ==
    /\ changes < MaxChanges
    /\ changes' = changes + 1
    /\ barred' = [f \in Flows |-> barred[f] /\ status'[AgentOf[f]] \in Restricted]
    /\ shown' = [f \in Flows |-> [t \in Times |->
                    IF Evaluating(f) /\ terms'[AgentOf[f]][t] > shown[f][t]
                    THEN terms'[AgentOf[f]][t] ELSE shown[f][t]]]
    /\ UNCHANGED <<flowvars, crashes>>

(* Operators, monitors and agents' handshakes change the registry, and     *)
(* time what it stands for.                                                *)
Governance ==
    /\ DirNext
    /\ Change
    /\ UNCHANGED amendvars

(* apply_parameter_amendment: an operator amends a registered agent's      *)
(* contract ...                                                            *)
Amend(a, t) ==
    /\ ~amending
    /\ status[a] # "unknown"
    /\ Publish(a, t)
    /\ Change
    /\ amending' = TRUE
    /\ amended' = amended + 1
    /\ UNCHANGED amendRows

(* ... and the amendment is audited.                                       *)
AuditAmendment ==
    /\ amending
    /\ amending' = FALSE
    /\ amendRows' = amendRows + 1
    /\ UNCHANGED <<dirvars, flowvars, history, amended, changes, crashes>>

(* The process dies; orchestrators of flows without a final row start over. *)
Crash ==
    /\ crashes < MaxCrashes
    /\ crashes' = crashes + 1
    /\ pc' = [f \in Flows |-> IF row[f] \in Ended THEN "ended" ELSE "propose"]
    /\ verdict' = [f \in Flows |-> "none"]
    /\ seenTerms' = [f \in Flows |-> NoTerms]
    /\ seenCount' = [f \in Flows |-> 0]
    /\ shown' = [f \in Flows |-> NothingShown]
    /\ barred' = [f \in Flows |-> FALSE]
    /\ amending' = FALSE
    /\ UNCHANGED <<dirvars, proposal, count, audit, row, recorded, amended, amendRows, changes>>

Step(f) ==
    \/ \E n \in Amounts : Submit(f, n)
    \/ Gate(f) \/ UpdateSession(f) \/ ReadContract(f)
    \/ \E sound \in BOOLEAN : Validate(f, sound)
    \/ ReadCount(f) \/ WriteCount(f) \/ Audit(f)
    \/ Retry(f) \/ Conclude(f) \/ Leave(f) \/ Reset(f) \/ Record(f)

Next ==
    \/ \E f \in Flows : Step(f)
    \/ Governance
    \/ \E a \in Agents, t \in Terms : Amend(a, t)
    \/ AuditAmendment
    \/ Crash

Spec == Init /\ [][Next]_vars

(* An orchestrator that runs is a synchronous loop: it waits for nothing.  *)
FairSpec == Spec /\ \A f \in Flows : WF_vars(Step(f))

-----------------------------------------------------------------------------
(* Properties *)

(* The persisted rejection count never passes the maximum: nothing is      *)
(* validated, hence recorded, for a flow that has reached it.              *)
CountBounded == \A f \in Flows : count[f] <= MaxRetries

(* The retry limit holds per run of the process: transition() resets the   *)
(* governor before it records the end of the flow, so that a crash between *)
(* the two hands the restarted flow a new budget, and no more than that.   *)
BudgetPerCrash ==
    \A f \in Flows : recorded[f] <= MaxRetries * (crashes + 1)

(* The audit rows of a flow agree with the governor and the lifecycle.     *)
(* Rejections are recorded before they are audited: a crash in between     *)
(* loses one row and nothing else does.  One accepted proposal and no      *)
(* exhausted one is audited per run of the process, and a flow is CLOSED   *)
(* only with an acceptance on file.                                        *)
FlowAudited(f) ==
    /\ audit[f]["accept"] <= crashes + 1
    /\ audit[f]["exhausted"] <= crashes
    /\ row[f] = "CLOSED" => audit[f]["accept"] > 0
    /\ audit[f]["reject"] <= recorded[f]
    /\ recorded[f] <= audit[f]["reject"] + crashes
                      + (IF pc[f] = "audit" /\ verdict[f] = "REJECT" THEN 1 ELSE 0)

(* Amendments too are made before they are audited, at one row per crash.  *)
AmendmentsAudited ==
    /\ amendRows <= amended
    /\ amended <= amendRows + crashes + (IF amending THEN 1 ELSE 0)

AuditTrail == AmendmentsAudited /\ \A f \in Flows : FlowAudited(f)

(* REASONING_EXHAUSTION is not answered early: as many rejections as the   *)
(* governor allows were recorded for the flow, whatever was gated, lost,   *)
(* reset or started over in between.  (An application may abort a flow     *)
(* whenever it likes.)                                                     *)
ExhaustedOnlyAfterBudget ==
    \A f \in Flows :
        verdict[f] = "EXHAUSTED" \/ audit[f]["exhausted"] > 0 => recorded[f] >= MaxRetries

(* A flow that is CLOSED or ABORTED leaves no rejection count behind, even *)
(* when the process dies inside transition(): the reset comes first.       *)
TerminalFlowsCleared ==
    \A f \in Flows : row[f] \in Ended => count[f] = 0

(* No proposal submitted while its agent is restricted is accepted, unless *)
(* the agent was reinstated before the status gate was reached; one that   *)
(* has passed the gate is not affected by a later restriction.  (Of        *)
(* DEGRADED agents DIR_Governance.md says otherwise: they keep proposing   *)
(* and only the flagged capability class is blocked.  The code knows no    *)
(* capability classes and turns all their proposals away.)                 *)
RestrictedNeverAccepted ==
    \A f \in Flows : verdict[f] = "ACCEPT" => ~barred[f]

(* A proposal is accepted only within the bound that its agent's row puts  *)
(* on proposals at that very moment, expired amendments no longer counted  *)
(* and unexpired ones enforced.  If the row was written since the proposal *)
(* was submitted, any of the rows it had may be the one; a contract        *)
(* tightened before the submission applies.                                *)
AcceptedWithinContract ==
    [][\A f \in Flows :
          verdict[f] # "ACCEPT" /\ verdict'[f] = "ACCEPT" => proposal[f] <= shown[f][clock]]_vars

Over(f) == row[f] \in Ended \/ pc[f] = "left"

(* A flow comes to an end, or its orchestrator leaves it, and stays so,    *)
(* whatever its agent proposes and however often a rejection is retried,   *)
(* unless its agent stays restricted: rejections by the DIM are counted    *)
(* across crashes.                                                         *)
FlowsEnd ==
    \A f \in Flows : <>[]Over(f) \/ <>[](status[AgentOf[f]] \in Restricted)
=============================================================================
