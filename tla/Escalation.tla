----------------------------- MODULE Escalation -----------------------------
(***************************************************************************)
(* EscalationManager (escalation.py) over each storage backend, the        *)
(* samples' PostgreSQL one (shared/storage/pg_repo.py, with a connection   *)
(* per caller) among them: the hourly budget of each agent and the         *)
(* requests a human decides.                                               *)
(*                                                                         *)
(* A request is three storage calls: it counts the agent's tokens in the   *)
(* window, records one more, and inserts the request.  Nothing is held     *)
(* between them, so callers interleave and may stop half-way.              *)
(*                                                                         *)
(* Requests are told apart by their flow and status only; the clock ticks  *)
(* in units the stored timestamps can tell apart (seconds).                *)
(***************************************************************************)
EXTENDS Naturals, Sequences, FiniteSets

CONSTANTS
    Agents,
    Flows,
    Callers,      \* threads or processes that call request_escalation
    Backends,     \* the storages considered
    Budget,       \* max_escalations_per_hour
    Window,       \* refill_interval_sec
    MaxRequests,  \* bounds on a behaviour
    MaxClock

ASSUME BackendsAssumption == Backends \subseteq {"memory", "sqlite", "postgres"}
ASSUME CallersAssumption == IsFiniteSet(Callers)
ASSUME NumbersAssumption ==
    /\ Budget \in Nat
    /\ Window \in Nat
    /\ MaxRequests \in Nat
    /\ MaxClock \in Nat

VARIABLES
    backend,   \* the storage the manager was built with
    clock,     \* datetime.now(), in seconds
    requests,  \* calls of request_escalation so far
    tokens,    \* escalation_budget: when each of the agent's tokens was recorded
    rows,      \* escalation_requests: the statuses of the flow's requests
    pc,        \* which storage call each caller makes next
    agent,     \* the agent and the flow it asks for
    flow,
    asked,     \* the `now` it read on entry
    begun,     \* postgres: when the transaction its connection is in began,
               \* or else its last commit, before which none can have begun
    paid,      \* history: tokens recorded for each flow's requests
    granted    \* history: when each of the agent's requests was granted

callvars == <<pc, agent, flow, asked, begun>>
history  == <<paid, granted>>
vars     == <<backend, clock, requests, tokens, rows, callvars, history>>

-----------------------------------------------------------------------------

Times == 0 .. MaxClock

Decided == {"APPROVED", "REJECTED"}

TypeOK ==
    /\ backend \in Backends
    /\ clock \in Times
    /\ requests \in 0 .. MaxRequests
    /\ tokens \in [Agents -> Seq(Times)]
    /\ rows \in [Flows -> Seq(Decided \cup {"PENDING"})]
    /\ backend = "memory" => \A f \in Flows : Len(rows[f]) <= 1
    /\ pc \in [Callers -> {"idle", "count", "record", "insert"}]
    /\ agent \in [Callers -> Agents]
    /\ flow \in [Callers -> Flows]
    /\ asked \in [Callers -> Times]
    /\ begun \in [Callers -> Times]
    /\ paid \in [Flows -> Nat]
    /\ granted \in [Agents -> Seq(Times)]

Init ==
    /\ backend \in Backends
    /\ clock = 0
    /\ requests = 0
    /\ tokens = [a \in Agents |-> <<>>]
    /\ rows = [f \in Flows |-> <<>>]
    /\ pc = [c \in Callers |-> "idle"]
    /\ agent \in [Callers -> Agents]
    /\ flow \in [Callers -> Flows]
    /\ asked = [c \in Callers |-> 0]
    /\ begun = [c \in Callers |-> 0]
    /\ paid = [f \in Flows |-> 0]
    /\ granted = [a \in Agents |-> <<>>]

-----------------------------------------------------------------------------

(* The entries of a sequence of times that are at most a window older than *)
(* `now` (get_window_count: created_at >= since).                          *)
Recent(times, now) == {i \in DOMAIN times : times[i] + Window >= now}

(* request_escalation is entered: it takes the time.                       *)
Request(c, a, f) ==
    /\ pc[c] = "idle"
    /\ requests < MaxRequests
    /\ requests' = requests + 1
    /\ pc' = [pc EXCEPT ![c] = "count"]
    /\ agent' = [agent EXCEPT ![c] = a]
    /\ flow' = [flow EXCEPT ![c] = f]
    /\ asked' = [asked EXCEPT ![c] = clock]
    /\ UNCHANGED <<backend, clock, tokens, rows, begun, history>>

(* Mutant: > for >=.                                                       *)
ExhaustedLate(c) == Cardinality(Recent(tokens[agent[c]], asked[c])) > Budget

Exhausted(c) == Cardinality(Recent(tokens[agent[c]], asked[c])) >= Budget

(* The times at which the transaction of a SELECT may have begun: psycopg2  *)
(* opens one with the first statement after a commit, and the reads of     *)
(* pg_repo.py do not commit.                                               *)
Begins(c) == IF backend = "postgres" THEN begun[c] .. clock ELSE {begun[c]}

(* It counts the tokens of the window: BUDGET_EXHAUSTED, or on to record.  *)
CountWindow(c) ==
    /\ pc[c] = "count"
    /\ \E t \in Begins(c) : begun' = [begun EXCEPT ![c] = t]
    /\ pc' = [pc EXCEPT ![c] = IF Exhausted(c) THEN "idle" ELSE "record"]
    /\ UNCHANGED <<backend, clock, requests, tokens, rows, agent, flow, asked, history>>

(* The caller's connection, if it is one to Postgres, is between            *)
(* transactions: after a commit, or because it is a new one.               *)
BetweenTransactions(c) ==
    begun' = IF backend = "postgres" THEN [begun EXCEPT ![c] = clock] ELSE begun

(* Mutant: a token that cannot be written is ignored.                      *)
RecordTokenOrNot(c) ==
    /\ pc[c] = "record"
    /\ pc' = [pc EXCEPT ![c] = "insert"]
    /\ BetweenTransactions(c)
    /\ UNCHANGED <<backend, clock, requests, tokens, rows, agent, flow, asked, history>>

(* created_at of a token: CURRENT_TIMESTAMP, the time of the write, under  *)
(* SQLite and in memory; NOW() under Postgres, which is the beginning of   *)
(* the transaction and hence no later than the count.                      *)
Stamp(c) == IF backend = "postgres" THEN begun[c] ELSE clock

(* record_budget_token                                                     *)
RecordToken(c) ==
    /\ pc[c] = "record"
    /\ pc' = [pc EXCEPT ![c] = "insert"]
    /\ tokens' = [tokens EXCEPT ![agent[c]] = Append(@, Stamp(c))]
    /\ paid' = [paid EXCEPT ![flow[c]] = @ + 1]
    /\ BetweenTransactions(c)
    /\ UNCHANGED <<backend, clock, requests, rows, agent, flow, asked, granted>>

(* Mutant: the memory backend keeps the earlier request beside the new one. *)
InsertedBeside(statuses) == Append(statuses, "PENDING")

(* insert_request: a database adds a row; in memory the request takes the  *)
(* place of the flow's earlier one, decided or not.                        *)
Inserted(statuses) ==
    IF backend = "memory" THEN <<"PENDING">> ELSE Append(statuses, "PENDING")

(* The request is inserted, and GRANTED.                                   *)
InsertRequest(c) ==
    /\ pc[c] = "insert"
    /\ pc' = [pc EXCEPT ![c] = "idle"]
    /\ rows' = [rows EXCEPT ![flow[c]] = Inserted(@)]
    /\ granted' = [granted EXCEPT ![agent[c]] = Append(@, clock)]
    /\ BetweenTransactions(c)
    /\ UNCHANGED <<backend, clock, requests, tokens, agent, flow, asked, paid>>

(* Mutant: the UPDATE without its status = 'PENDING'.                      *)
ResolvesAny(status) == TRUE

(* The rows resolve_request updates: the WHERE of a database's UPDATE names *)
(* the pending ones, the memory backend looks at no status.                *)
Resolves(status) == backend = "memory" \/ status = "PENDING"

(* A human decides: OVERRIDE and MODIFY approve, ABORT rejects.            *)
Resolve(f, decision) ==
    /\ rows' = [rows EXCEPT ![f] =
                   [i \in DOMAIN @ |-> IF Resolves(@[i]) THEN decision ELSE @[i]]]
    /\ UNCHANGED <<backend, clock, requests, tokens, callvars, history>>

(* The agent registers again.  upsert_agent is an INSERT OR REPLACE, and   *)
(* escalation_budget references agent_registry ON DELETE CASCADE.  (The    *)
(* upsert of Postgres updates the row: nothing cascades.)                  *)
Handshake(a) ==
    /\ backend = "sqlite"
    /\ tokens' = [tokens EXCEPT ![a] = <<>>]
    /\ UNCHANGED <<backend, clock, requests, rows, callvars, history>>

(* A caller stops between two storage calls (its process dies, or the      *)
(* database raises): what it has committed stays.                          *)
Stop(c) ==
    /\ backend # "memory"
    /\ pc[c] # "idle"
    /\ pc' = [pc EXCEPT ![c] = "idle"]
    /\ BetweenTransactions(c)
    /\ UNCHANGED <<backend, clock, requests, tokens, rows, agent, flow, asked, history>>

(* The process that holds the memory backend restarts.                     *)
Restart ==
    /\ backend = "memory"
    /\ pc' = [c \in Callers |-> "idle"]
    /\ tokens' = [a \in Agents |-> <<>>]
    /\ rows' = [f \in Flows |-> <<>>]
    /\ UNCHANGED <<backend, clock, requests, agent, flow, asked, begun, history>>

Tick ==
    /\ clock < MaxClock
    /\ clock' = clock + 1
    /\ UNCHANGED <<backend, requests, tokens, rows, callvars, history>>

Next ==
    \/ \E c \in Callers :
          \/ \E a \in Agents, f \in Flows : Request(c, a, f)
          \/ CountWindow(c) \/ RecordToken(c) \/ InsertRequest(c) \/ Stop(c)
    \/ \E f \in Flows, decision \in Decided : Resolve(f, decision)
    \/ \E a \in Agents : Handshake(a)
    \/ Restart
    \/ Tick

Spec == Init /\ [][Next]_vars

-----------------------------------------------------------------------------
(* Properties *)

(* The callers that have counted the tokens of a and not recorded theirs.  *)
Counted(a) == {c \in Callers : pc[c] = "record" /\ agent[c] = a}

(* Overlapping callers overspend the budget, each by at most one token:    *)
(* with those about to be recorded, the tokens of any window exceed the    *)
(* budget by fewer than there are callers.  A token's time is the one it   *)
(* carries, which under Postgres may lie before the count it follows: what *)
(* is bounded then is what later counts see, not what was granted since.   *)
OverspendBounded ==
    \A a \in Agents :
        LET spent == Cardinality(Recent(tokens[a], clock)) + Cardinality(Counted(a))
        IN  spent <= Budget \/ spent < Budget + Cardinality(Callers)

(* The callers about to insert a request of f.                             *)
Inserting(f) == {c \in Callers : pc[c] = "insert" /\ flow[c] = f}

(* A request a human sees was paid for: no flow has more requests, with    *)
(* those about to be inserted, than tokens recorded for it, whoever stops  *)
(* where.                                                                  *)
RequestsPaid ==
    \A f \in Flows : Len(rows[f]) + Cardinality(Inserting(f)) <= paid[f]

(* In a database a human's decision is final: no later request, decision,   *)
(* handshake or failure changes or loses it.  (In memory both a second     *)
(* decision and a second request replace it.)                              *)
DecisionsFinal ==
    [][backend # "memory" =>
          \A f \in Flows : \A i \in DOMAIN rows[f] :
              rows[f][i] \in Decided => i \in DOMAIN rows'[f] /\ rows'[f][i] = rows[f][i]]_vars

(* What the documents say of the budget: the human sees at most Budget     *)
(* requests of an agent in a window.                                       *)
BudgetHolds ==
    \A a \in Agents : Cardinality(Recent(granted[a], clock)) <= Budget
=============================================================================
