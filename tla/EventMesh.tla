------------------------------ MODULE EventMesh ------------------------------
(***************************************************************************)
(* The event-oriented agent mesh of sample 31: an orchestrator on top of   *)
(* EventBus wakes the agents of an instrument when its price moves         *)
(* (orchestrator.py), takes their proposals, arbitrates (arbitration.py),  *)
(* has the winner evaluated and executes it (run.py).  News opens          *)
(* positions, each with an agent of its own, and those agents reduce and   *)
(* close them (roa_agents.py).                                             *)
(*                                                                         *)
(* One thread does all of it.  What can go wrong is in the order of the    *)
(* steps, in what the agents share, and in a storage call that fails half  *)
(* way: it ends the program and leaves three records of a position, the    *)
(* audit trail, the registry and the bus, as they happen to be.            *)
(***************************************************************************)
EXTENDS EventBus, FiniteSets

CONSTANTS
    Positions,          \* numbers of the positions that may be opened
    Prices,
    AgentThreshold,     \* wake_up_threshold_pct of the instrument agents
    PositionThreshold,  \* ... and of the position agents
    StopLoss,           \* max_drawdown_limit and take_profit_pct of a
    TakeProfit,         \*   position, in percent
    Floor,              \* reductions that leave less than a dollar
    MaxEvents           \* bound on the events published

Instruments == Scopes   \* instrument i is watched by the instrument agent i
Scorer == 0             \* the agent that qualifies news
Agents == Instruments \cup Positions \cup {Scorer}

ASSUME MeshAssumption ==
    /\ Topics = {"OBSERVATION", "NEWS"}
    /\ Instruments \subseteq Nat \ {0}
    /\ Everywhere \notin Instruments
    /\ Positions \subseteq Nat \ {0}
    /\ \A i \in Instruments, p \in Positions : i < p

ASSUME LimitsAssumption ==
    /\ Prices \subseteq Nat \ {0}
    /\ {AgentThreshold, PositionThreshold} \subseteq Nat \ {0}
    /\ {StopLoss, TakeProfit, Floor, MaxEvents} \subseteq Nat

VARIABLES
    at,           \* where the loop of run.py is
    event,        \* the event being handled ...
    before,       \* ... and the last price when it was published
    events,       \* events published
    lastPrice,    \* _last_prices: the price that last woke an agent
    quote,        \* last_prices of run.py: the price last seen
    woken,        \* agents called for this event that were not suppressed
    pending,      \* _pending: proposals for this event
    winner,       \* the proposal arbitration chose
    spawned,      \* positions with an agent object
    instrument,   \* ... and what they are about,
    entry,        \*     the price they were opened at
    halved,       \*     and how often their agent has halved its exposure
    onRecord,     \* halvings in the audit trail
    refused,      \* history: halvings refused since one was recorded
    opened,       \* positions recorded as spawned,
    closed,       \*   and as closed
    registry      \* agent_registry: the status of each agent

position == <<spawned, instrument, entry, halved>>
records == <<onRecord, opened, closed, registry>>
vars == <<busvars, at, event, before, events, lastPrice, quote, woken, pending,
          winner, position, records, refused>>

-----------------------------------------------------------------------------

Unknown == 0   \* no price yet
PriceOrNone == Prices \cup {Unknown}

Kinds == {"RISK_ALERT", "CLOSE", "TAKE_PROFIT", "NEWS_QUALIFIED", "REDUCE", "HOLD"}
Proposal == [agent : Agents, kind : Kinds, halved : 0 .. Floor]
NoProposal == [agent |-> Scorer, kind |-> "none", halved |-> 0]
Event == [topic : Topics, instrument : Instruments, price : PriceOrNone]

Opening == {"spawn", "recordSpawn", "register"}
Closing == {"recordClose", "retire", "cleanup"}
Deciding == {"idle", "notify", "arbitrate", "evaluate", "recordReduce"}

TypeOK ==
    /\ BusTypeOK
    /\ todo \subseteq Agents
    /\ at \in Opening \cup Closing \cup Deciding \cup {"stopped"}
    /\ event \in Event
    /\ before \in PriceOrNone
    /\ events \in 0 .. MaxEvents
    /\ lastPrice \in [Instruments -> PriceOrNone]
    /\ quote \in [Instruments -> Prices]
    /\ woken \subseteq Agents
    /\ pending \subseteq Proposal
    /\ winner \in Proposal \cup {NoProposal}
    /\ spawned \subseteq Positions
    /\ instrument \in [Positions -> Instruments]
    /\ entry \in [Positions -> Prices]
    /\ halved \in [Positions -> 0 .. Floor]
    /\ onRecord \in [Positions -> 0 .. Floor]
    /\ refused \in [Positions -> 0 .. Floor]
    /\ opened \subseteq Positions
    /\ closed \subseteq Positions
    /\ registry \in [Agents -> {"none", "ACTIVE", "RETIRED"}]

(* The instrument agents subscribe before any position exists; all agents  *)
(* of the configuration are registered.                                    *)
Init ==
    /\ listeners = [t \in Topics |->
           IF t = "NEWS" THEN {[callback |-> Scorer, scope |-> Everywhere]}
           ELSE {[callback |-> i, scope |-> i] : i \in Instruments}]
    /\ todo = {}
    /\ at = "idle"
    /\ event \in [topic : {"NEWS"}, instrument : Instruments, price : {Unknown}]
    /\ before = Unknown
    /\ events = 0
    /\ lastPrice = [i \in Instruments |-> Unknown]
    /\ quote \in [Instruments -> Prices]
    /\ woken = {}
    /\ pending = {}
    /\ winner = NoProposal
    /\ spawned = {}
    /\ instrument \in [Positions -> {event.instrument}]
    /\ \E v \in Prices : entry = [p \in Positions |-> v]
    /\ halved = [p \in Positions |-> 0]
    /\ onRecord = [p \in Positions |-> 0]
    /\ refused = [p \in Positions |-> 0]
    /\ opened = {}
    /\ closed = {}
    /\ registry = [a \in Agents |-> IF a \in Positions THEN "none" ELSE "ACTIVE"]

-----------------------------------------------------------------------------
(* Publishing an event and calling its listeners                           *)

Publish(topic, i, price, scope) ==
    /\ at = "idle"
    /\ events < MaxEvents
    /\ at' = "notify"
    /\ event' = [topic |-> topic, instrument |-> i, price |-> price]
    /\ before' = lastPrice[i]
    /\ events' = events + 1
    /\ woken' = {}
    /\ winner' = NoProposal
    /\ Dispatch(topic, scope)
    /\ UNCHANGED <<lastPrice, pending, position, records, refused>>

(* emit_observation: a tick of an instrument.                              *)
Observe(i, price) ==
    /\ Publish("OBSERVATION", i, price, i)
    /\ quote' = [quote EXCEPT ![i] = price]

(* emit_news: an event without a scope, about one instrument.              *)
News(i) ==
    /\ Publish("NEWS", i, Unknown, Everywhere)
    /\ UNCHANGED quote

Threshold(a) == IF a \in Positions THEN PositionThreshold ELSE AgentThreshold

Distance(x, y) == IF x < y THEN y - x ELSE x - y

(* The wake-up predicate: the price has moved by the agent's threshold.    *)
Moves(a, from, to) ==
    from = Unknown \/ 100 * Distance(from, to) >= Threshold(a) * from

Suppress(a) ==
    /\ at = "notify" /\ event.topic = "OBSERVATION"
    /\ Turn(a)
    /\ ~Moves(a, lastPrice[event.instrument], event.price)
    /\ Called(a)
    /\ UNCHANGED <<at, event, before, events, lastPrice, quote, woken, pending,
                   winner, position, records, refused>>

(* Mutant: the price is not remembered when an agent is woken.             *)
Forget(i) == UNCHANGED lastPrice

(* One last price for all agents of an instrument.                         *)
Remember(i) == lastPrice' = [lastPrice EXCEPT ![i] = event.price]

LosesTooMuch(p, price) == 100 * price + StopLoss * entry[p] <= 100 * entry[p]
GainsEnough(p, price) == 100 * price >= (100 + TakeProfit) * entry[p]

(* Mutant: an exposure that is gone closes nothing.                        *)
NeverSpent(p) ==
    IF GainsEnough(p, event.price) THEN {"TAKE_PROFIT"}
    ELSE IF LosesTooMuch(p, event.price) THEN {"CLOSE"} ELSE {}

(* A position whose exposure is gone, whose profit is made or whose loss   *)
(* is too large is closed without asking the model.                        *)
AutoClose(p) ==
    IF halved[p] >= Floor THEN {"CLOSE"}
    ELSE IF GainsEnough(p, event.price) THEN {"TAKE_PROFIT"}
    ELSE IF LosesTooMuch(p, event.price) THEN {"CLOSE"} ELSE {}

(* What an agent may propose: HOLD stands for every kind that only leaves  *)
(* an event in the audit trail.                                            *)
Choices(a) ==
    IF a = Scorer THEN {"NEWS_QUALIFIED", "HOLD"}
    ELSE IF a \in Instruments THEN {"RISK_ALERT", "HOLD"}
    ELSE IF AutoClose(a) # {} THEN AutoClose(a) ELSE {"REDUCE", "CLOSE", "HOLD"}

(* The agent whose turn it is is called and proposes.  A REDUCE halves the *)
(* exposure its agent holds there and then.                                *)
Propose(a, kind) ==
    /\ kind \in Choices(a)
    /\ LET h == IF a \in Positions THEN halved[a] + (IF kind = "REDUCE" THEN 1 ELSE 0)
                                   ELSE 0
       IN  /\ pending' = pending \cup {[agent |-> a, kind |-> kind, halved |-> h]}
           /\ halved' = [p \in Positions |-> IF p = a THEN h ELSE halved[p]]

(* It raises, escalates, or finds the news not worth a proposal; an agent  *)
(* that closes by itself never does.                                       *)
KeepSilent(a) ==
    /\ a \in Positions => AutoClose(a) = {}
    /\ UNCHANGED <<pending, halved>>

Wakes(a) ==
    /\ at = "notify"
    /\ Turn(a)
    /\ IF event.topic = "OBSERVATION"
       THEN /\ Moves(a, lastPrice[event.instrument], event.price)
            /\ Remember(event.instrument)
       ELSE UNCHANGED lastPrice
    /\ woken' = woken \cup {a}
    /\ KeepSilent(a) \/ \E kind \in Kinds : Propose(a, kind)
    /\ Called(a)
    /\ UNCHANGED <<at, event, before, events, quote, winner, spawned, instrument,
                   entry, records, refused>>

Notified ==
    /\ at = "notify"
    /\ todo = {}
    /\ at' = "arbitrate"
    /\ UNCHANGED <<busvars, event, before, events, lastPrice, quote, woken, pending,
                   winner, position, records, refused>>

-----------------------------------------------------------------------------
(* Arbitration and evaluation                                              *)

(* priority_matrix; a kind it does not list has priority 10.               *)
Priority(kind) ==
    CASE kind = "RISK_ALERT" -> 1
      [] kind = "CLOSE" -> 2
      [] kind = "TAKE_PROFIT" -> 3
      [] kind = "NEWS_QUALIFIED" -> 5
      [] OTHER -> 10

(* select_winner: the first of those with the lowest priority number.      *)
Wins(w, proposals) ==
    /\ w \in proposals
    /\ \A q \in proposals :
           \/ Priority(w.kind) < Priority(q.kind)
           \/ Priority(w.kind) = Priority(q.kind) /\ w.agent <= q.agent

Arbitrate ==
    /\ at = "arbitrate"
    /\ \/ /\ pending = {}
          /\ at' = "idle"
          /\ UNCHANGED winner
       \/ /\ \E w \in pending : Wins(w, pending) /\ winner' = w
          /\ at' = "evaluate"
    /\ pending' = {}
    /\ UNCHANGED <<busvars, event, before, events, lastPrice, quote, woken, position,
                   records, refused>>

Accepted ==
    CASE winner.kind = "NEWS_QUALIFIED" -> "spawn"
      [] winner.kind \in {"CLOSE", "TAKE_PROFIT"} -> "recordClose"
      [] winner.kind = "REDUCE" -> "recordReduce"
      [] OTHER -> "idle"

RefuseReduction ==
    refused' = IF winner.kind = "REDUCE"
               THEN [refused EXCEPT ![winner.agent] = @ + 1] ELSE refused

(* evaluate_proposal (see DecisionRuntime): never of a retired agent.      *)
Evaluate ==
    /\ at = "evaluate"
    /\ \/ /\ registry[winner.agent] # "RETIRED"
          /\ at' = Accepted
          /\ UNCHANGED refused
       \/ /\ at' = "idle"
          /\ RefuseReduction
    /\ UNCHANGED <<busvars, event, before, events, lastPrice, quote, woken, pending,
                   winner, position, records>>

-----------------------------------------------------------------------------
(* Execution                                                               *)

(* spawn_position_agent: the agent exists and observes ...                 *)
Spawn(p) ==
    /\ at = "spawn"
    /\ p \in Positions \ spawned
    /\ \A q \in Positions \ spawned : p <= q
    /\ at' = "recordSpawn"
    /\ winner' = [winner EXCEPT !.agent = p]
    /\ spawned' = spawned \cup {p}
    /\ instrument' = [instrument EXCEPT ![p] = event.instrument]
    /\ entry' = [entry EXCEPT ![p] = quote[event.instrument]]
    /\ Subscribe("OBSERVATION", p, event.instrument)
    /\ UNCHANGED <<todo, event, before, events, lastPrice, quote, woken, pending,
                   halved, records, refused>>

(* ... is recorded ...                                                     *)
RecordSpawned ==
    /\ at = "recordSpawn"
    /\ at' = "register"
    /\ opened' = opened \cup {winner.agent}
    /\ UNCHANGED <<busvars, event, before, events, lastPrice, quote, woken, pending,
                   winner, position, onRecord, closed, registry, refused>>

(* Mutant: the new agent's registration is forgotten.                      *)
RegisterForgotten ==
    /\ at = "register"
    /\ at' = "idle"
    /\ UNCHANGED <<busvars, event, before, events, lastPrice, quote, woken, pending,
                   winner, position, records, refused>>

(* ... and registered.                                                     *)
Register ==
    /\ at = "register"
    /\ at' = "idle"
    /\ registry' = [registry EXCEPT ![winner.agent] = "ACTIVE"]
    /\ UNCHANGED <<busvars, event, before, events, lastPrice, quote, woken, pending,
                   winner, position, onRecord, opened, closed, refused>>

(* A position is recorded as closed, its agent is retired ...              *)
RecordClosed ==
    /\ at = "recordClose"
    /\ at' = "retire"
    /\ closed' = closed \cup {winner.agent}
    /\ UNCHANGED <<busvars, event, before, events, lastPrice, quote, woken, pending,
                   winner, position, onRecord, opened, registry, refused>>

Retire ==
    /\ at = "retire"
    /\ at' = "cleanup"
    /\ registry' = [registry EXCEPT ![winner.agent] = "RETIRED"]
    /\ UNCHANGED <<busvars, event, before, events, lastPrice, quote, woken, pending,
                   winner, position, onRecord, opened, closed, refused>>

(* ... and leaves the bus.                                                 *)
Cleanup ==
    /\ at = "cleanup"
    /\ at' = "idle"
    /\ Unsubscribe("OBSERVATION", winner.agent)
    /\ UNCHANGED <<todo, event, before, events, lastPrice, quote, woken, pending,
                   winner, position, records, refused>>

(* Mutant: the exposure on record is halved instead.                       *)
HalveRecord ==
    /\ at = "recordReduce"
    /\ at' = "idle"
    /\ onRecord' = [onRecord EXCEPT ![winner.agent] = @ + 1]
    /\ refused' = [refused EXCEPT ![winner.agent] = 0]
    /\ UNCHANGED <<busvars, event, before, events, lastPrice, quote, woken, pending,
                   winner, position, opened, closed, registry>>

(* A reduction is recorded with the exposure that was proposed.            *)
RecordReduced ==
    /\ at = "recordReduce"
    /\ at' = "idle"
    /\ onRecord' = [onRecord EXCEPT ![winner.agent] = winner.halved]
    /\ refused' = [refused EXCEPT ![winner.agent] = 0]
    /\ UNCHANGED <<busvars, event, before, events, lastPrice, quote, woken, pending,
                   winner, position, opened, closed, registry>>

(* A call of the storage or of the DIM raises outside the bus: the program *)
(* ends.                                                                   *)
Stop ==
    /\ at \notin {"idle", "notify", "stopped"}
    /\ at' = "stopped"
    /\ UNCHANGED <<busvars, event, before, events, lastPrice, quote, woken, pending,
                   winner, position, records, refused>>

Next ==
    \/ \E i \in Instruments, price \in Prices : Observe(i, price)
    \/ \E i \in Instruments : News(i)
    \/ \E a \in Agents : Suppress(a) \/ Wakes(a)
    \/ Notified
    \/ Arbitrate
    \/ Evaluate
    \/ \E p \in Positions : Spawn(p)
    \/ RecordSpawned
    \/ Register
    \/ RecordClosed
    \/ Retire
    \/ Cleanup
    \/ RecordReduced
    \/ Stop

Spec == Init /\ [][Next]_vars

-----------------------------------------------------------------------------
(* Properties                                                              *)

(* At most one agent is woken by an event, and so arbitration never has a  *)
(* choice: the agent woken first moves the last price that all agents of   *)
(* its instrument are compared with (orchestrator.py:135).  The sample's   *)
(* README says otherwise (see ThresholdActivates), and arbitration.py:4    *)
(* and README.md:113 and 284 speak of several proposals.                   *)
OneWoken ==
    /\ Cardinality(woken) <= 1
    /\ Cardinality(pending) <= 1

(* A position's agent, and with it its stop loss, is only woken by moves   *)
(* too small for the instrument's agent: every larger one wakes the        *)
(* instrument's agent instead, which subscribed first.  It states how far  *)
(* the code departs from ThresholdActivates: the departure is not a matter *)
(* of chance but befalls every large move.                                 *)
PositionsSeeMinorMoves ==
    \A p \in Positions \cap woken :
        ~Moves(event.instrument, before, event.price)

(* What the sample's README says and the code does not do: "If change >=   *)
(* threshold: Agent activated normally" (README.md:359; 281 for position   *)
(* agents), so that once an event is dispatched every agent it concerns    *)
(* and whose threshold the move reached was woken.                         *)
ThresholdActivates ==
    at = "arbitrate" /\ event.topic = "OBSERVATION" /\ before # Unknown =>
        \A a \in Matching("OBSERVATION", event.instrument) :
            Moves(a, before, event.price) => a \in woken

Subscribed == {s.callback : s \in listeners["OBSERVATION"]} \cap Positions
Active == {p \in Positions : registry[p] = "ACTIVE"}
Open == opened \ closed
InHand == IF at \in Deciding THEN {} ELSE {winner.agent}

(* The positions open in the audit trail, the position agents on the bus   *)
(* and those active in the registry are the same, except the one being     *)
(* opened or closed: if the program ends there, for good.                  *)
AgentsFollowPositions ==
    /\ Subscribed \ InHand = Open \ InHand
    /\ Active \ InHand = Open \ InHand

OnItsWay(p) ==
    at # "idle" /\ \E q \in pending \cup {winner} : q.agent = p /\ q.kind = "REDUCE"

(* An agent halves its exposure when it proposes to, before the verdict    *)
(* (roa_agents.py:523).  So what it holds is not what is on record, but    *)
(* exactly as many halvings below it as were refused since the last one on *)
(* record, and one more while a reduction is on its way: an accepted       *)
(* reduction brings the record back in line with the agent.                *)
ReductionsOnRecord ==
    \A p \in Positions :
        halved[p] = onRecord[p] + refused[p] + (IF OnItsWay(p) THEN 1 ELSE 0)
=============================================================================
