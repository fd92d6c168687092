--------------------------- MODULE AgentDirectory ---------------------------
(***************************************************************************)
(* What the decision runtime relies on in the agent registry: for each     *)
(* agent a lifecycle status, which its storage replaces in one call, and   *)
(* the terms of its row, the bound that contract and amendments put on a   *)
(* proposal at each time (an amendment may expire while the row stays as   *)
(* it is).  AgentRegistry models how handshakes, amendments and status     *)
(* changes produce the two.                                                *)
(***************************************************************************)
EXTENDS Naturals

CONSTANTS
    Agents,
    Limits,     \* bounds a contract may put on a proposal
    Unlimited,  \* the bound of an agent without a contract
    MaxClock    \* the last time a behaviour reaches

ASSUME LimitsAssumption ==
    /\ Limits \subseteq Nat
    /\ Unlimited \in Nat
    /\ \A l \in Limits : l <= Unlimited

ASSUME ClockAssumption == MaxClock \in Nat

VARIABLES status, terms, clock

dirvars == <<status, terms, clock>>

Times == 0 .. MaxClock

Terms == [Times -> Limits \cup {Unlimited}]

NoTerms == [t \in Times |-> Unlimited]

(* Statuses whose proposals evaluate_proposal rejects before the DIM ...    *)
Barred == {"SUSPENDED", "RETIRED", "DEGRADED"}

(* ... or diverts to a human.                                              *)
Restricted == Barred \cup {"ESCALATION_ONLY"}

Statuses == Restricted \cup {"ACTIVE"}

DirTypeOK ==
    /\ status \in [Agents -> Statuses \cup {"unknown"}]
    /\ terms \in [Agents -> Terms]
    /\ clock \in Times

DirInit ==
    /\ status = [a \in Agents |-> "unknown"]
    /\ terms = [a \in Agents |-> NoTerms]
    /\ clock = 0

(* set_agent_status: False for an agent that is not registered.            *)
SetStatus(a, s) ==
    /\ status[a] # "unknown"
    /\ status' = [status EXCEPT ![a] = s]
    /\ UNCHANGED <<terms, clock>>

(* A handshake, a parameter amendment or the row a session's foreign key   *)
(* needs writes the agent's row, and always with status ACTIVE.            *)
Publish(a, t) ==
    /\ status' = [status EXCEPT ![a] = "ACTIVE"]
    /\ terms' = [terms EXCEPT ![a] = t]
    /\ UNCHANGED clock

(* Time passes, and amendments expire: no row changes.                     *)
Tick ==
    /\ clock < MaxClock
    /\ clock' = clock + 1
    /\ UNCHANGED <<status, terms>>

DirNext ==
    \/ \E a \in Agents : \/ \E s \in Statuses : SetStatus(a, s)
                         \/ \E t \in Terms : Publish(a, t)
    \/ Tick

DirSpec == DirInit /\ [][DirNext]_dirvars
=============================================================================
