----------------------------- MODULE BindingLog -----------------------------
(***************************************************************************)
(* What Topology C relies on in its decision ledger: decisions are only    *)
(* added, each with evidence that admits it, and a flow is told that it is *)
(* bound only when the log holds a decision of it.  DecisionLedger models  *)
(* how kernels verify intents and how each kind of ledger adds them.       *)
(***************************************************************************)
EXTENDS Sequences

CONSTANTS
    Flows,
    Admissible   \* the decisions that may bind each flow

VARIABLES
    exclusive,   \* whether the log refuses a flow's second decision, fixed
    log,         \* the decisions, in order
    bound        \* the flows that were told they are bound

logvars == <<exclusive, log, bound>>

(* The log holds a decision of f.                                          *)
Binds(f) == \E i \in DOMAIN log : log[i] \in Admissible[f]

LogInit ==
    /\ exclusive \in BOOLEAN
    /\ log = <<>>
    /\ bound = {}

(* A decision of f is added; the answer may get lost.  (That the log       *)
(* changes is said first to spare TLC the choice of d where it does not.)  *)
Bind(f) ==
    /\ log' # log
    /\ exclusive => ~Binds(f)
    /\ \E d \in Admissible[f] : log' = Append(log, d)
    /\ bound' \in {bound, bound \cup {f}}
    /\ UNCHANGED exclusive

(* An intent of a flow that is bound already is answered as bound.         *)
Confirm(f) ==
    /\ Binds(f)
    /\ bound' = bound \cup {f}
    /\ UNCHANGED <<exclusive, log>>

LogNext ==
    \E f \in Flows : Bind(f) \/ Confirm(f)

LogSpec == LogInit /\ [][LogNext]_logvars
=============================================================================
