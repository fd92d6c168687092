-------------------------- MODULE EventMesh_proofs --------------------------
(***************************************************************************)
(* Proofs about the agent mesh, for any number of instruments, positions,  *)
(* prices and events.  The inductive invariant has one part for each       *)
(* property; the parts rest on who subscribes to what (Listening).         *)
(***************************************************************************)
EXTENDS EventMesh, FiniteSetTheorems, TLAPS

Observing == event.topic = "OBSERVATION"
Subscriptions == listeners["OBSERVATION"]

(* The instrument's agent listens to its instrument, others to one each.   *)
Listening ==
    /\ listeners["NEWS"] = {[callback |-> Scorer, scope |-> Everywhere]}
    /\ \A i \in Instruments : [callback |-> i, scope |-> i] \in Subscriptions
    /\ \A s \in Subscriptions :
           /\ s.scope \in Instruments
           /\ \/ s.callback = s.scope
              \/ s.callback \in spawned

(* Whom the event being handled still has to reach.                        *)
Reaching ==
    /\ at = "notify" =>
           /\ todo \subseteq (IF Observing THEN {event.instrument} \cup spawned ELSE {Scorer})
           /\ Observing => event.price \in Prices
    /\ at \in {"notify", "arbitrate"} => winner = NoProposal

(* One agent is woken, for it moves the last price or is the only one.     *)
Alone ==
    /\ woken = {} \/ \E a \in Agents : woken = {a}
    /\ pending = {} \/ \E q \in Proposal : pending = {q}
    /\ at = "notify" /\ woken = {} => pending = {}
    /\ at = "notify" /\ woken # {} =>
           IF Observing THEN lastPrice[event.instrument] = event.price ELSE todo = {}
    /\ at \notin {"notify", "arbitrate", "stopped"} => pending = {}

(* A position's agent has its turn after the instrument's agent slept on.  *)
Minor ==
    /\ at = "notify" /\ Observing /\ woken = {} =>
           /\ lastPrice[event.instrument] = before
           /\ event.instrument \in todo
              \/ ~Moves(event.instrument, before, event.price)
    /\ PositionsSeeMinorMoves

(* What a step of opening or closing a position has done.                  *)
Following ==
    /\ closed \subseteq spawned
    /\ opened \subseteq spawned
    /\ winner.kind \in {"CLOSE", "TAKE_PROFIT", "REDUCE"} => winner.agent \in spawned
    /\ \A q \in pending :
           q.kind \in {"CLOSE", "TAKE_PROFIT", "REDUCE"} => q.agent \in spawned
    /\ at \in {"recordSpawn", "register"} =>
           winner.agent \in (Positions \cap Subscribed) \ closed
    /\ at = "register" => winner.agent \in opened
    /\ at \in Closing \cup {"recordSpawn", "register"} => winner.agent \in spawned
    /\ at \in {"retire", "cleanup"} => winner.agent \in closed
    /\ at = "cleanup" => winner.agent \notin Active
    /\ AgentsFollowPositions

(* A proposed reduction is the one its agent has made.                     *)
Reducing ==
    /\ \A p \in Positions :
           /\ OnItsWay(p) => halved[p] = onRecord[p] + refused[p] + 1
           /\ ~OnItsWay(p) => halved[p] = onRecord[p] + refused[p]
    /\ at # "stopped" =>
           \A q \in pending \cup {winner} :
               q.kind = "REDUCE" => q.agent \in Positions /\ q.halved = halved[q.agent]
    /\ at = "recordReduce" => winner.kind = "REDUCE"
    /\ at \in Opening \cup Closing => winner.kind # "REDUCE"

(* A proposal is at work from its arbitration to the end of its steps.     *)
Working == at \notin {"idle", "notify", "arbitrate", "stopped"} => winner \in Proposal

(* Only the scorer qualifies news.                                         *)
Qualifying ==
    /\ \A q \in pending : q.kind = "NEWS_QUALIFIED" => q.agent = Scorer
    /\ at \in {"evaluate", "spawn"} /\ winner.kind = "NEWS_QUALIFIED" =>
           winner.agent = Scorer
    /\ at = "spawn" => winner.kind = "NEWS_QUALIFIED"

IInv ==
    /\ TypeOK /\ Working /\ Listening /\ Reaching /\ Alone
    /\ Minor /\ Qualifying /\ Following /\ Reducing

LEMMA Apart == \A i \in Instruments : i \notin Positions
<1>1. ASSUME NEW i \in Instruments, i \in Positions PROVE FALSE
  <2>1. i \in Nat /\ i < i
    BY <1>1, MeshAssumption DEF Instruments
  <2>. QED
    BY <2>1
<1>. QED
  BY <1>1

LEMMA Sleeps ==
  ASSUME NEW a \in Agents, NEW x \in Prices
  PROVE  ~Moves(a, x, x)
<1>1. /\ Threshold(a) \in Nat \ {0}
      /\ x \in Nat \ {0}
  BY LimitsAssumption DEF Threshold
<1>2. Threshold(a) * x >= 1
  BY <1>1
<1>. QED
  BY <1>1, <1>2 DEF Moves, Distance, Unknown

(* What an agent proposes: a position's halvings stay within the floor.    *)
LEMMA Proposes ==
  ASSUME TypeOK, NEW a \in Agents, NEW kind \in Kinds, Propose(a, kind)
  PROVE  \E h \in 0 .. Floor :
             /\ pending' = pending \cup {[agent |-> a, kind |-> kind, halved |-> h]}
             /\ halved' = [p \in Positions |-> IF p = a THEN h ELSE halved[p]]
             /\ a \in Positions /\ kind # "REDUCE" => h = halved[a]
             /\ kind \in {"CLOSE", "TAKE_PROFIT", "REDUCE"} => a \in Positions
             /\ kind = "NEWS_QUALIFIED" => a = Scorer
<1> DEFINE h == IF a \in Positions THEN halved[a] + (IF kind = "REDUCE" THEN 1 ELSE 0)
                                      ELSE 0
<1>1. /\ pending' = pending \cup {[agent |-> a, kind |-> kind, halved |-> h]}
      /\ halved' = [p \in Positions |-> IF p = a THEN h ELSE halved[p]]
  BY DEF Propose
<1>2. /\ kind \in {"CLOSE", "TAKE_PROFIT", "REDUCE"} => a \in Positions
      /\ kind = "NEWS_QUALIFIED" => a = Scorer
  BY DEF Propose, Choices, AutoClose, Agents
<1>3. h \in 0 .. Floor
  <2>1. CASE a \notin Positions
    BY <2>1, LimitsAssumption
  <2>2. CASE a \in Positions
    <3>1. halved[a] \in 0 .. Floor /\ Floor \in Nat
      BY <2>2, LimitsAssumption DEF TypeOK
    <3>2. a # Scorer /\ a \notin Instruments
      BY <2>2, Apart, MeshAssumption DEF Scorer
    <3>3. kind = "REDUCE" => ~(halved[a] >= Floor)
      BY <3>2 DEF Propose, Choices, AutoClose
    <3>. QED
      BY <2>2, <3>1, <3>3
  <2>. QED
    BY <2>1, <2>2
<1>4. a \in Positions /\ kind # "REDUCE" => h = halved[a]
  BY LimitsAssumption DEF TypeOK
<1>. QED
  BY <1>1, <1>2, <1>3, <1>4

LEMMA ListeningStep == IInv /\ [Next]_vars => Listening'
<1> SUFFICES ASSUME IInv, [Next]_vars PROVE Listening'
  OBVIOUS
<1> USE MeshAssumption, LimitsAssumption
      DEF IInv, Listening, Subscriptions, TypeOK, BusTypeOK, Subscription, Scorer, Instruments, busvars, position, records
<1>1. ASSUME NEW i \in Instruments, NEW price \in Prices, Observe(i, price) PROVE Listening'
  BY <1>1 DEF Observe, Publish, Dispatch
<1>2. ASSUME NEW i \in Instruments, News(i) PROVE Listening'
  BY <1>2 DEF News, Publish, Dispatch
<1>3. ASSUME NEW a \in Agents, Suppress(a) PROVE Listening'
  BY <1>3 DEF Suppress, Called, Turn
<1>4. ASSUME NEW a \in Agents, Wakes(a) PROVE Listening'
  BY <1>4 DEF Wakes, Called, Turn
<1>5. ASSUME Notified PROVE Listening'
  BY <1>5 DEF Notified
<1>6. ASSUME Arbitrate PROVE Listening'
  BY <1>6 DEF Arbitrate, Wins
<1>7. ASSUME Evaluate PROVE Listening'
  BY <1>7 DEF Evaluate, Accepted, RefuseReduction
<1>8. ASSUME NEW p \in Positions, Spawn(p) PROVE Listening'
  <2>1. listeners' = [listeners EXCEPT !["OBSERVATION"] = Subscriptions
                        \cup {[callback |-> p, scope |-> event.instrument]}]
    BY <1>8 DEF Spawn, Subscribe
  <2>2. /\ listeners'["NEWS"] = listeners["NEWS"]
        /\ Subscriptions' = Subscriptions \cup {[callback |-> p, scope |-> event.instrument]}
        /\ event.instrument \in Instruments
    <3>1. "NEWS" \in Topics /\ "OBSERVATION" \in Topics /\ "NEWS" # "OBSERVATION"
      OBVIOUS
    <3>2. listeners \in [Topics -> SUBSET Subscription]
      BY DEF BusTypeOK
    <3>3. event.instrument \in Instruments
      BY DEF Event
    <3>. HIDE DEF Subscription, Instruments
    <3>. QED
      BY <2>1, <3>1, <3>2, <3>3
  <2>3. spawned' = spawned \cup {p}
    BY <1>8 DEF Spawn
  <2>. QED
    BY <2>2, <2>3
<1>9. ASSUME RecordSpawned PROVE Listening'
  BY <1>9 DEF RecordSpawned
<1>10. ASSUME Register PROVE Listening'
  BY <1>10 DEF Register
<1>11. ASSUME RecordClosed PROVE Listening'
  BY <1>11 DEF RecordClosed
<1>12. ASSUME Retire PROVE Listening'
  BY <1>12 DEF Retire
<1>13. ASSUME Cleanup PROVE Listening'
  <2>1. winner.agent \in Positions
    BY <1>13 DEF Cleanup, Following, Closing
  <2>2. listeners' = [listeners EXCEPT !["OBSERVATION"] =
                        {s \in Subscriptions : s.callback # winner.agent}]
    BY <1>13 DEF Cleanup, Unsubscribe
  <2>3. /\ listeners'["NEWS"] = listeners["NEWS"]
        /\ Subscriptions' = {s \in Subscriptions : s.callback # winner.agent}
    BY <2>2
  <2>4. spawned' = spawned
    BY <1>13 DEF Cleanup
  <2>. QED
    BY <2>1, <2>3, <2>4
<1>14. ASSUME RecordReduced PROVE Listening'
  BY <1>14 DEF RecordReduced
<1>15. ASSUME Stop PROVE Listening'
  BY <1>15 DEF Stop
<1>16. CASE UNCHANGED vars
  BY <1>16 DEF vars
<1>17. QED
  BY <1>1, <1>2, <1>3, <1>4, <1>5, <1>6, <1>7, <1>8, <1>9, <1>10, <1>11, <1>12, <1>13, <1>14, <1>15, <1>16 DEF Next

LEMMA ReachingStep == IInv /\ [Next]_vars => Reaching'
<1> SUFFICES ASSUME IInv, [Next]_vars PROVE Reaching'
  OBVIOUS
<1> USE MeshAssumption, LimitsAssumption
      DEF IInv, Reaching, Listening, Subscriptions, Observing, TypeOK, Event, Matching, Scorer, Instruments, busvars, position, records
<1>1. ASSUME NEW i \in Instruments, NEW price \in Prices, Observe(i, price) PROVE Reaching'
  BY <1>1 DEF Observe, Publish, Dispatch
<1>2. ASSUME NEW i \in Instruments, News(i) PROVE Reaching'
  BY <1>2 DEF News, Publish, Dispatch
<1>3. ASSUME NEW a \in Agents, Suppress(a) PROVE Reaching'
  BY <1>3 DEF Suppress, Called, Turn
<1>4. ASSUME NEW a \in Agents, Wakes(a) PROVE Reaching'
  BY <1>4 DEF Wakes, Called, Turn
<1>5. ASSUME Notified PROVE Reaching'
  BY <1>5 DEF Notified
<1>6. ASSUME Arbitrate PROVE Reaching'
  BY <1>6 DEF Arbitrate, Wins
<1>7. ASSUME Evaluate PROVE Reaching'
  BY <1>7 DEF Evaluate, Accepted, RefuseReduction
<1>8. ASSUME NEW p \in Positions, Spawn(p) PROVE Reaching'
  BY <1>8 DEF Spawn, Subscribe
<1>9. ASSUME RecordSpawned PROVE Reaching'
  BY <1>9 DEF RecordSpawned
<1>10. ASSUME Register PROVE Reaching'
  BY <1>10 DEF Register
<1>11. ASSUME RecordClosed PROVE Reaching'
  BY <1>11 DEF RecordClosed
<1>12. ASSUME Retire PROVE Reaching'
  BY <1>12 DEF Retire
<1>13. ASSUME Cleanup PROVE Reaching'
  BY <1>13 DEF Cleanup, Unsubscribe
<1>14. ASSUME RecordReduced PROVE Reaching'
  BY <1>14 DEF RecordReduced
<1>15. ASSUME Stop PROVE Reaching'
  BY <1>15 DEF Stop
<1>16. CASE UNCHANGED vars
  BY <1>16 DEF vars
<1>17. QED
  BY <1>1, <1>2, <1>3, <1>4, <1>5, <1>6, <1>7, <1>8, <1>9, <1>10, <1>11, <1>12, <1>13, <1>14, <1>15, <1>16 DEF Next

LEMMA AloneStep == IInv /\ [Next]_vars => Alone'
<1> SUFFICES ASSUME IInv, [Next]_vars PROVE Alone'
  OBVIOUS
<1> USE MeshAssumption, LimitsAssumption
      DEF IInv, Alone, Reaching, Observing, TypeOK, Event, Scorer, Instruments, busvars, position, records
<1>1. ASSUME NEW i \in Instruments, NEW price \in Prices, Observe(i, price) PROVE Alone'
  BY <1>1 DEF Observe, Publish, Dispatch
<1>2. ASSUME NEW i \in Instruments, News(i) PROVE Alone'
  BY <1>2 DEF News, Publish, Dispatch
<1>3. ASSUME NEW a \in Agents, Suppress(a) PROVE Alone'
  BY <1>3 DEF Suppress, Called, Turn
<1>4. ASSUME NEW a \in Agents, Wakes(a) PROVE Alone'
  <2>1. woken = {} /\ pending = {}
    BY <1>4, Sleeps DEF Wakes, Turn
  <2>2. woken' = {a}
    BY <2>1, <1>4 DEF Wakes
  <2>3. pending' = {} \/ \E q \in Proposal : pending' = {q}
    <3>1. CASE pending' = pending
      BY <2>1, <3>1
    <3>2. CASE \E kind \in Kinds : Propose(a, kind)
      <4>1. PICK kind \in Kinds : Propose(a, kind)
        BY <3>2
      <4>2. PICK h \in 0 .. Floor :
                pending' = pending \cup {[agent |-> a, kind |-> kind, halved |-> h]}
        BY <4>1, Proposes
      <4>. QED
        BY <2>1, <4>1, <4>2 DEF Proposal
    <3>. QED
      BY <1>4, <3>1, <3>2 DEF Wakes, KeepSilent
  <2>4. IF Observing THEN lastPrice'[event.instrument] = event.price ELSE todo' = {}
    BY <1>4 DEF Wakes, Called, Turn, Remember
  <2>. QED
    BY <1>4, <2>2, <2>3, <2>4 DEF Wakes, Called
<1>5. ASSUME Notified PROVE Alone'
  BY <1>5 DEF Notified
<1>6. ASSUME Arbitrate PROVE Alone'
  BY <1>6 DEF Arbitrate, Wins
<1>7. ASSUME Evaluate PROVE Alone'
  BY <1>7 DEF Evaluate, Accepted, RefuseReduction
<1>8. ASSUME NEW p \in Positions, Spawn(p) PROVE Alone'
  BY <1>8 DEF Spawn, Subscribe
<1>9. ASSUME RecordSpawned PROVE Alone'
  BY <1>9 DEF RecordSpawned
<1>10. ASSUME Register PROVE Alone'
  BY <1>10 DEF Register
<1>11. ASSUME RecordClosed PROVE Alone'
  BY <1>11 DEF RecordClosed
<1>12. ASSUME Retire PROVE Alone'
  BY <1>12 DEF Retire
<1>13. ASSUME Cleanup PROVE Alone'
  BY <1>13 DEF Cleanup, Unsubscribe
<1>14. ASSUME RecordReduced PROVE Alone'
  BY <1>14 DEF RecordReduced
<1>15. ASSUME Stop PROVE Alone'
  BY <1>15 DEF Stop
<1>16. CASE UNCHANGED vars
  BY <1>16 DEF vars
<1>17. QED
  BY <1>1, <1>2, <1>3, <1>4, <1>5, <1>6, <1>7, <1>8, <1>9, <1>10, <1>11, <1>12, <1>13, <1>14, <1>15, <1>16 DEF Next

LEMMA TypeStep == IInv /\ [Next]_vars => TypeOK'
<1> SUFFICES ASSUME IInv, [Next]_vars PROVE TypeOK'
  OBVIOUS
<1> USE MeshAssumption, LimitsAssumption
      DEF IInv, TypeOK, BusTypeOK, Opening, Closing, Deciding, busvars, position, records
<1>1. ASSUME NEW i \in Instruments, NEW price \in Prices, Observe(i, price) PROVE TypeOK'
  <2>1. i \in Nat /\ i \in Agents
    BY DEF Agents, Instruments
  <2>2. Matching("OBSERVATION", i) \subseteq Agents
    <3>1. ASSUME NEW s \in Subscriptions PROVE s.callback \in Agents
      BY DEF Listening, Agents
    <3>. QED
      BY <3>1 DEF Matching, Subscriptions
  <2>3. events' \in 0 .. MaxEvents
    BY <1>1 DEF Observe, Publish
  <2>4. Agents \subseteq Nat
    BY DEF Agents, Scorer, Instruments
  <2>5. event' \in Event
    BY <1>1 DEF Observe, Publish, Event, PriceOrNone
  <2>. QED
    BY <1>1, <2>2, <2>3, <2>4, <2>5 DEF Observe, Publish, Dispatch, NoProposal
<1>2. ASSUME NEW i \in Instruments, News(i) PROVE TypeOK'
  <2>2. Matching("NEWS", Everywhere) \subseteq Agents
    BY DEF Matching, Listening, Agents
  <2>3. events' \in 0 .. MaxEvents
    BY <1>2 DEF News, Publish
  <2>4. Agents \subseteq Nat
    BY DEF Agents, Scorer, Instruments
  <2>5. event' \in Event
    BY <1>2 DEF News, Publish, Event, PriceOrNone
  <2>. QED
    BY <1>2, <2>2, <2>3, <2>4, <2>5 DEF News, Publish, Dispatch, NoProposal
<1>3. ASSUME NEW a \in Agents, Suppress(a) PROVE TypeOK'
  BY <1>3 DEF Suppress, Called, Turn
<1>4. ASSUME NEW a \in Agents, Wakes(a) PROVE TypeOK'
  <2>1. halved' \in [Positions -> 0 .. Floor] /\ pending' \subseteq Proposal
    <3>1. CASE KeepSilent(a)
      BY <3>1 DEF KeepSilent
    <3>2. CASE \E kind \in Kinds : Propose(a, kind)
      <4>1. PICK kind \in Kinds : Propose(a, kind)
        BY <3>2
      <4>2. PICK h \in 0 .. Floor :
                /\ pending' = pending \cup {[agent |-> a, kind |-> kind, halved |-> h]}
                /\ halved' = [p \in Positions |-> IF p = a THEN h ELSE halved[p]]
        BY <4>1, Proposes
      <4>. QED
        BY <1>4, <4>1, <4>2 DEF Proposal
    <3>. QED
      BY <1>4, <3>1, <3>2 DEF Wakes
  <2>2. lastPrice' \in [Instruments -> PriceOrNone]
    <3>1. event.price \in PriceOrNone /\ event.instrument \in Instruments
      BY DEF Event
    <3>. QED
      BY <1>4, <3>1 DEF Wakes, Remember
  <2>. QED
    BY <1>4, <2>1, <2>2 DEF Wakes, Called
<1>5. ASSUME Notified PROVE TypeOK'
  BY <1>5 DEF Notified
<1>6. ASSUME Arbitrate PROVE TypeOK'
  <2>1. winner' \in Proposal \cup {NoProposal}
    BY <1>6 DEF Arbitrate, Wins
  <2>. QED
    BY <1>6, <2>1 DEF Arbitrate
<1>7. ASSUME Evaluate PROVE TypeOK'
  <2>1. refused' \in [Positions -> 0 .. Floor]
    <3>1. winner.kind = "REDUCE" => winner.agent \in Positions
      BY <1>7 DEF Evaluate, Reducing
    <3>2. CASE winner.kind # "REDUCE" \/ UNCHANGED refused
      BY <1>7, <3>2 DEF Evaluate, RefuseReduction
    <3>3. CASE winner.kind = "REDUCE" /\ RefuseReduction
      <4> DEFINE p == winner.agent
      <4>1. p \in Positions /\ OnItsWay(p)
        BY <1>7, <3>1, <3>3 DEF Evaluate, OnItsWay
      <4>2. halved[p] \in 0 .. Floor /\ onRecord[p] \in 0 .. Floor /\ refused[p] \in 0 .. Floor
        BY <4>1
      <4>3. halved[p] = onRecord[p] + refused[p] + 1
        BY <4>1 DEF Reducing
      <4>4. refused[p] + 1 \in 0 .. Floor
        BY <4>2, <4>3
      <4>5. refused' = [refused EXCEPT ![p] = @ + 1]
        BY <3>3 DEF RefuseReduction
      <4>. QED
        BY <4>1, <4>4, <4>5
    <3>. QED
      BY <1>7, <3>2, <3>3 DEF Evaluate
  <2>2. at' \in Opening \cup Closing \cup Deciding
    BY <1>7 DEF Evaluate, Accepted
  <2>. QED
    BY <1>7, <2>1, <2>2 DEF Evaluate
<1>8. ASSUME NEW p \in Positions, Spawn(p) PROVE TypeOK'
  <2>1. listeners' \in [Topics -> SUBSET Subscription]
    <3>1. [callback |-> p, scope |-> event.instrument] \in Subscription
      BY DEF Event, Subscription, Instruments
    <3>. HIDE DEF Subscription
    <3>. QED
      BY <1>8, <3>1 DEF Spawn, Subscribe
  <2>2. winner' \in Proposal
    <3>1. winner \in Proposal
      BY <1>8 DEF Spawn, Working
    <3>2. p \in Agents
      BY DEF Agents
    <3>. QED
      BY <1>8, <3>1, <3>2 DEF Spawn, Proposal
  <2>3. entry' \in [Positions -> Prices] /\ instrument' \in [Positions -> Instruments]
    BY <1>8 DEF Spawn, Event
  <2>. QED
    BY <1>8, <2>1, <2>2, <2>3 DEF Spawn
<1>9. ASSUME RecordSpawned PROVE TypeOK'
  <2>1. winner.agent \in Positions
    BY <1>9 DEF RecordSpawned, Following, Closing
  <2>. QED
    BY <1>9, <2>1 DEF RecordSpawned
<1>10. ASSUME Register PROVE TypeOK'
  <2>1. winner.agent \in Positions
    BY <1>10 DEF Register, Following, Closing
  <2>. QED
    BY <1>10, <2>1 DEF Register
<1>11. ASSUME RecordClosed PROVE TypeOK'
  <2>1. winner.agent \in Positions
    BY <1>11 DEF RecordClosed, Following, Closing
  <2>. QED
    BY <1>11, <2>1 DEF RecordClosed
<1>12. ASSUME Retire PROVE TypeOK'
  <2>1. winner.agent \in Positions
    BY <1>12 DEF Retire, Following, Closing
  <2>. QED
    BY <1>12, <2>1 DEF Retire
<1>13. ASSUME Cleanup PROVE TypeOK'
  <2>1. listeners' \in [Topics -> SUBSET Subscription]
    BY <1>13 DEF Cleanup, Unsubscribe
  <2>. QED
    BY <1>13, <2>1 DEF Cleanup
<1>14. ASSUME RecordReduced PROVE TypeOK'
  <2>1. winner \in Proposal /\ winner.agent \in Positions
    BY <1>14 DEF RecordReduced, Reducing, Working
  <2>. QED
    BY <1>14, <2>1 DEF RecordReduced, Proposal
<1>15. ASSUME Stop PROVE TypeOK'
  BY <1>15 DEF Stop
<1>16. CASE UNCHANGED vars
  BY <1>16 DEF vars
<1>17. QED
  BY <1>1, <1>2, <1>3, <1>4, <1>5, <1>6, <1>7, <1>8, <1>9, <1>10, <1>11, <1>12, <1>13, <1>14, <1>15, <1>16 DEF Next

(* A step outside the notification leaves what is remembered of it.        *)
LEMMA MinorKept ==
  ASSUME Minor, event' = event, before' = before, woken' = woken, at' # "notify"
  PROVE  Minor'
BY DEF Minor, PositionsSeeMinorMoves, Moves, Threshold

LEMMA MinorStep == IInv /\ [Next]_vars => Minor'
<1> SUFFICES ASSUME IInv, [Next]_vars PROVE Minor'
  OBVIOUS
<1> USE MeshAssumption, LimitsAssumption
      DEF IInv
<1>1. ASSUME NEW i \in Instruments, NEW price \in Prices, Observe(i, price) PROVE Minor'
  <2>1. [callback |-> i, scope |-> i] \in Subscriptions
    BY DEF Listening
  <2>2. i \in Matching("OBSERVATION", i)
    BY <2>1 DEF Matching, Subscriptions
  <2>3. /\ event'.instrument = i
        /\ before' = lastPrice[i] /\ woken' = {} /\ lastPrice' = lastPrice
        /\ todo' = Matching("OBSERVATION", i)
    BY <1>1 DEF Observe, Publish, Dispatch
  <2>4. PositionsSeeMinorMoves'
    BY <2>3 DEF PositionsSeeMinorMoves
  <2>. QED
    BY <2>2, <2>3, <2>4 DEF Minor
<1>2. ASSUME NEW i \in Instruments, News(i) PROVE Minor'
  <2>1. event'.topic = "NEWS" /\ woken' = {}
    BY <1>2 DEF News, Publish
  <2>. QED
    BY <2>1 DEF Minor, Observing, PositionsSeeMinorMoves
<1>3. ASSUME NEW a \in Agents, Suppress(a) PROVE Minor'
  <2>1. /\ event' = event /\ before' = before /\ at' = at /\ woken' = woken
        /\ lastPrice' = lastPrice
        /\ todo' = todo \ {a}
        /\ ~Moves(a, lastPrice[event.instrument], event.price)
    BY <1>3 DEF Suppress, Called
  <2>2. PositionsSeeMinorMoves'
    BY <2>1 DEF Minor, PositionsSeeMinorMoves, Moves, Threshold
  <2>3. Moves(event.instrument, before, event.price)' <=> Moves(event.instrument, before, event.price)
    BY <2>1 DEF Moves, Threshold
  <2>. QED
    BY <2>1, <2>2, <2>3 DEF Minor, Observing
<1>4. ASSUME NEW a \in Agents, Wakes(a) PROVE Minor'
  <2>1. woken = {} /\ woken' = {a}
    BY <1>4, Sleeps DEF Wakes, Turn, Alone, Reaching, Observing, TypeOK, Event
  <2>2. ASSUME NEW p \in Positions, p \in woken'
        PROVE  ~Moves(event.instrument, before, event.price)
    <3>1. p = a /\ at = "notify" /\ a \in todo
      BY <1>4, <2>1, <2>2 DEF Wakes, Turn
    <3>2. Observing /\ event.price \in Prices
      BY <3>1 DEF Reaching, Scorer
    <3>3. /\ event.instrument \in Instruments
          /\ before \in PriceOrNone
      BY DEF TypeOK, Event
    <3>4. event.instrument < p /\ event.instrument \in Nat /\ p \in Nat
      BY <3>3 DEF Instruments
    <3>5. event.instrument \notin todo
      BY <1>4, <3>1, <3>4 DEF Wakes, Turn
    <3>6. ~Moves(event.instrument, before, event.price)
      BY <2>1, <3>1, <3>2, <3>5 DEF Minor
    <3>. QED
      BY <3>6
  <2>3. event' = event /\ before' = before
    BY <1>4 DEF Wakes
  <2>4. PositionsSeeMinorMoves'
    BY <2>2, <2>3 DEF PositionsSeeMinorMoves, Moves, Threshold
  <2>. QED
    BY <2>1, <2>4 DEF Minor
<1>5. ASSUME Notified PROVE Minor'
  BY <1>5, MinorKept DEF Notified
<1>6. ASSUME Arbitrate PROVE Minor'
  BY <1>6, MinorKept DEF Arbitrate
<1>7. ASSUME Evaluate PROVE Minor'
  BY <1>7, MinorKept DEF Evaluate, Accepted
<1>8. ASSUME NEW p \in Positions, Spawn(p) PROVE Minor'
  BY <1>8, MinorKept DEF Spawn
<1>9. ASSUME RecordSpawned PROVE Minor'
  BY <1>9, MinorKept DEF RecordSpawned
<1>10. ASSUME Register PROVE Minor'
  BY <1>10, MinorKept DEF Register
<1>11. ASSUME RecordClosed PROVE Minor'
  BY <1>11, MinorKept DEF RecordClosed
<1>12. ASSUME Retire PROVE Minor'
  BY <1>12, MinorKept DEF Retire
<1>13. ASSUME Cleanup PROVE Minor'
  BY <1>13, MinorKept DEF Cleanup
<1>14. ASSUME RecordReduced PROVE Minor'
  BY <1>14, MinorKept DEF RecordReduced
<1>15. ASSUME Stop PROVE Minor'
  BY <1>15, MinorKept DEF Stop
<1>16. CASE UNCHANGED vars
  BY <1>16 DEF vars, busvars, Minor, PositionsSeeMinorMoves, Observing, Moves, Threshold
<1>17. QED
  BY <1>1, <1>2, <1>3, <1>4, <1>5, <1>6, <1>7, <1>8, <1>9, <1>10, <1>11, <1>12, <1>13, <1>14, <1>15, <1>16 DEF Next

LEMMA WorkingStep == IInv /\ [Next]_vars => Working'
<1> SUFFICES ASSUME IInv, [Next]_vars PROVE Working'
  OBVIOUS
<1> USE MeshAssumption, LimitsAssumption
      DEF IInv, Working, TypeOK, busvars, position, records
<1>1. ASSUME NEW i \in Instruments, NEW price \in Prices, Observe(i, price) PROVE Working'
  BY <1>1 DEF Observe, Publish, Dispatch
<1>2. ASSUME NEW i \in Instruments, News(i) PROVE Working'
  BY <1>2 DEF News, Publish, Dispatch
<1>3. ASSUME NEW a \in Agents, Suppress(a) PROVE Working'
  BY <1>3 DEF Suppress, Called, Turn
<1>4. ASSUME NEW a \in Agents, Wakes(a) PROVE Working'
  BY <1>4 DEF Wakes, Called, Turn
<1>5. ASSUME Notified PROVE Working'
  BY <1>5 DEF Notified
<1>6. ASSUME Arbitrate PROVE Working'
  BY <1>6 DEF Arbitrate, Wins
<1>7. ASSUME Evaluate PROVE Working'
  BY <1>7 DEF Evaluate, Accepted, RefuseReduction
<1>8. ASSUME NEW p \in Positions, Spawn(p) PROVE Working'
  <2>1. winner \in Proposal /\ p \in Agents
    BY <1>8 DEF Spawn, Agents
  <2>. QED
    BY <1>8, <2>1 DEF Spawn, Proposal
<1>9. ASSUME RecordSpawned PROVE Working'
  BY <1>9 DEF RecordSpawned
<1>10. ASSUME Register PROVE Working'
  BY <1>10 DEF Register
<1>11. ASSUME RecordClosed PROVE Working'
  BY <1>11 DEF RecordClosed
<1>12. ASSUME Retire PROVE Working'
  BY <1>12 DEF Retire
<1>13. ASSUME Cleanup PROVE Working'
  BY <1>13 DEF Cleanup, Unsubscribe
<1>14. ASSUME RecordReduced PROVE Working'
  BY <1>14 DEF RecordReduced
<1>15. ASSUME Stop PROVE Working'
  BY <1>15 DEF Stop
<1>16. CASE UNCHANGED vars
  BY <1>16 DEF vars
<1>17. QED
  BY <1>1, <1>2, <1>3, <1>4, <1>5, <1>6, <1>7, <1>8, <1>9, <1>10, <1>11, <1>12, <1>13, <1>14, <1>15, <1>16 DEF Next

LEMMA QualifyingStep == IInv /\ [Next]_vars => Qualifying'
<1> SUFFICES ASSUME IInv, [Next]_vars PROVE Qualifying'
  OBVIOUS
<1> USE MeshAssumption, LimitsAssumption
      DEF IInv, Qualifying, busvars, position, records
<1>1. ASSUME NEW i \in Instruments, NEW price \in Prices, Observe(i, price) PROVE Qualifying'
  BY <1>1 DEF Observe, Publish, Dispatch
<1>2. ASSUME NEW i \in Instruments, News(i) PROVE Qualifying'
  BY <1>2 DEF News, Publish, Dispatch
<1>3. ASSUME NEW a \in Agents, Suppress(a) PROVE Qualifying'
  BY <1>3 DEF Suppress, Called, Turn
<1>4. ASSUME NEW a \in Agents, Wakes(a) PROVE Qualifying'
  <2>1. CASE KeepSilent(a)
    BY <1>4, <2>1 DEF Wakes, KeepSilent
  <2>2. CASE \E kind \in Kinds : Propose(a, kind)
    <3>1. PICK kind \in Kinds : Propose(a, kind)
      BY <2>2
    <3>2. PICK h \in 0 .. Floor :
              /\ pending' = pending \cup {[agent |-> a, kind |-> kind, halved |-> h]}
              /\ kind = "NEWS_QUALIFIED" => a = Scorer
      BY <3>1, Proposes
    <3>. QED
      BY <1>4, <3>2 DEF Wakes
  <2>. QED
    BY <1>4, <2>1, <2>2 DEF Wakes
<1>5. ASSUME Notified PROVE Qualifying'
  BY <1>5 DEF Notified
<1>6. ASSUME Arbitrate PROVE Qualifying'
  BY <1>6 DEF Arbitrate, Wins
<1>7. ASSUME Evaluate PROVE Qualifying'
  BY <1>7 DEF Evaluate, Accepted, RefuseReduction
<1>8. ASSUME NEW p \in Positions, Spawn(p) PROVE Qualifying'
  BY <1>8 DEF Spawn, Subscribe
<1>9. ASSUME RecordSpawned PROVE Qualifying'
  BY <1>9 DEF RecordSpawned
<1>10. ASSUME Register PROVE Qualifying'
  BY <1>10 DEF Register
<1>11. ASSUME RecordClosed PROVE Qualifying'
  BY <1>11 DEF RecordClosed
<1>12. ASSUME Retire PROVE Qualifying'
  BY <1>12 DEF Retire
<1>13. ASSUME Cleanup PROVE Qualifying'
  BY <1>13 DEF Cleanup, Unsubscribe
<1>14. ASSUME RecordReduced PROVE Qualifying'
  BY <1>14 DEF RecordReduced
<1>15. ASSUME Stop PROVE Qualifying'
  BY <1>15 DEF Stop
<1>16. CASE UNCHANGED vars
  BY <1>16 DEF vars
<1>17. QED
  BY <1>1, <1>2, <1>3, <1>4, <1>5, <1>6, <1>7, <1>8, <1>9, <1>10, <1>11, <1>12, <1>13, <1>14, <1>15, <1>16 DEF Next

(* Who is open, subscribed and active is a matter of five variables.       *)
LEMMA SamePositions ==
  ASSUME UNCHANGED <<listeners, opened, closed, registry>>
  PROVE  UNCHANGED <<Subscribed, Open, Active>>
BY DEF Subscribed, Open, Active

LEMMA FollowingStep == IInv /\ [Next]_vars => Following'
<1> SUFFICES ASSUME IInv, [Next]_vars PROVE Following'
  OBVIOUS
<1> USE MeshAssumption, LimitsAssumption
      DEF IInv, Following, AgentsFollowPositions, InHand, Opening, Closing, Deciding, busvars, position, records
<1>1. ASSUME NEW i \in Instruments, NEW price \in Prices, Observe(i, price) PROVE Following'
  <2>1. UNCHANGED <<Subscribed, Open, Active>>
    BY <1>1, SamePositions DEF Observe, Publish, Dispatch
  <2>. QED
    BY <1>1, <2>1 DEF Observe, Publish, Dispatch, NoProposal
<1>2. ASSUME NEW i \in Instruments, News(i) PROVE Following'
  <2>1. UNCHANGED <<Subscribed, Open, Active>>
    BY <1>2, SamePositions DEF News, Publish, Dispatch
  <2>. QED
    BY <1>2, <2>1 DEF News, Publish, Dispatch, NoProposal
<1>3. ASSUME NEW a \in Agents, Suppress(a) PROVE Following'
  <2>1. UNCHANGED <<Subscribed, Open, Active>>
    BY <1>3, SamePositions DEF Suppress, Called, Turn
  <2>. QED
    BY <1>3, <2>1 DEF Suppress, Called, Turn
<1>4. ASSUME NEW a \in Agents, Wakes(a) PROVE Following'
  <2>1. UNCHANGED <<Subscribed, Open, Active>>
    BY <1>4, SamePositions DEF Wakes, Called
  <2>2. \A q \in pending' :
            q.kind \in {"CLOSE", "TAKE_PROFIT", "REDUCE"} => q.agent \in spawned
    <3>1. a \in Positions => a \in spawned
      <4>1. a \in todo /\ at = "notify"
        BY <1>4 DEF Wakes, Turn
      <4>2. event.instrument \in Instruments
        BY DEF TypeOK, Event
      <4>. QED
        BY <4>1, <4>2, Apart DEF Reaching, Scorer
    <3>2. CASE KeepSilent(a)
      BY <3>2 DEF KeepSilent
    <3>3. CASE \E kind \in Kinds : Propose(a, kind)
      <4>1. PICK kind \in Kinds : Propose(a, kind)
        BY <3>3
      <4>2. PICK h \in 0 .. Floor :
                /\ pending' = pending \cup {[agent |-> a, kind |-> kind, halved |-> h]}
                /\ kind \in {"CLOSE", "TAKE_PROFIT", "REDUCE"} => a \in Positions
        BY <4>1, Proposes
      <4>. QED
        BY <3>1, <4>2
    <3>. QED
      BY <1>4, <3>2, <3>3 DEF Wakes
  <2>. QED
    BY <1>4, <2>1, <2>2 DEF Wakes, Called
<1>5. ASSUME Notified PROVE Following'
  <2>1. UNCHANGED <<Subscribed, Open, Active>>
    BY <1>5, SamePositions DEF Notified
  <2>. QED
    BY <1>5, <2>1 DEF Notified
<1>6. ASSUME Arbitrate PROVE Following'
  <2>1. UNCHANGED <<Subscribed, Open, Active>>
    BY <1>6, SamePositions DEF Arbitrate, Wins
  <2>. QED
    BY <1>6, <2>1 DEF Arbitrate, Wins
<1>7. ASSUME Evaluate PROVE Following'
  <2>1. UNCHANGED <<Subscribed, Open, Active>>
    BY <1>7, SamePositions DEF Evaluate
  <2>. QED
    BY <1>7, <2>1 DEF Evaluate, Accepted
<1>8. ASSUME NEW p \in Positions, Spawn(p) PROVE Following'
  <2>1. /\ Subscribed' = Subscribed \cup {p}
        /\ UNCHANGED <<Open, Active, opened, closed>>
        /\ winner'.agent = p /\ winner'.kind = winner.kind
        /\ spawned' = spawned \cup {p} /\ p \notin spawned
        /\ at' = "recordSpawn" /\ at = "spawn" /\ UNCHANGED pending
    <3>1. Subscriptions' = Subscriptions \cup {[callback |-> p, scope |-> event.instrument]}
      BY <1>8 DEF Spawn, Subscribe, Subscriptions, TypeOK, BusTypeOK
    <3>2. Subscribed' = Subscribed \cup {p}
      <4>1. \A c : c \in Subscribed <=> c \in Positions /\ \E s \in Subscriptions : s.callback = c
        BY DEF Subscriptions, Subscribed
      <4>2. \A c : c \in Subscribed' <=> c \in Positions /\ \E s \in Subscriptions' : s.callback = c
        BY DEF Subscriptions, Subscribed
      <4>3. [callback |-> p, scope |-> event.instrument].callback = p
        OBVIOUS
      <4>4. \A c : c \in Subscribed' <=> c \in Subscribed \cup {p}
        BY <3>1, <4>1, <4>2, <4>3, Zenon
      <4>. QED
        BY <4>4
    <3>3. winner \in Proposal
      BY <1>8 DEF Working, Spawn
    <3>. QED
      BY <1>8, <3>2, <3>3 DEF Spawn, Open, Active, Proposal
  <2>2. winner \in Proposal
    BY <1>8 DEF Working, Spawn
  <2>3. winner.agent = Scorer
    BY <1>8 DEF Spawn, Qualifying
  <2>4. Scorer \notin Subscribed /\ Scorer \notin Open /\ Scorer \notin Active
    BY DEF Subscribed, Open, Active, Scorer, TypeOK
  <2>5. Subscribed = Open /\ Active = Open
    BY <2>1, <2>3, <2>4
  <2>6. AgentsFollowPositions'
    BY <2>1, <2>5
  <2>7. p \in Subscribed' /\ p \notin closed
    BY <2>1
  <2>. QED
    BY <2>1, <2>2, <2>6, <2>7
<1>9. ASSUME RecordSpawned PROVE Following'
  <2>1. /\ at = "recordSpawn" /\ at' = "register"
        /\ opened' = opened \cup {winner.agent}
        /\ UNCHANGED <<listeners, closed, registry, winner, spawned, pending>>
    BY <1>9 DEF RecordSpawned
  <2>2. /\ UNCHANGED <<Subscribed, Active>>
        /\ Open' = Open \cup {winner.agent}
    BY <2>1 DEF Subscribed, Active, Open
  <2>. QED
    BY <2>1, <2>2
<1>10. ASSUME Register PROVE Following'
  <2>1. /\ at = "register" /\ at' = "idle"
        /\ registry' = [registry EXCEPT ![winner.agent] = "ACTIVE"]
        /\ UNCHANGED <<listeners, opened, closed, winner, spawned, pending>>
    BY <1>10 DEF Register
  <2>2. winner.agent \in Positions /\ winner.agent \in Open
    BY <2>1 DEF Open
  <2>3. /\ UNCHANGED <<Subscribed, Open>>
        /\ Active' = Active \cup {winner.agent}
    BY <2>1, <2>2 DEF Subscribed, Active, Open, TypeOK, Agents
  <2>. QED
    BY <2>1, <2>2, <2>3
<1>11. ASSUME RecordClosed PROVE Following'
  <2>1. /\ at = "recordClose" /\ at' = "retire"
        /\ closed' = closed \cup {winner.agent}
        /\ UNCHANGED <<listeners, opened, registry, winner, spawned, pending>>
    BY <1>11 DEF RecordClosed
  <2>2. /\ UNCHANGED <<Subscribed, Active>>
        /\ Open' = Open \ {winner.agent}
    BY <2>1 DEF Subscribed, Active, Open
  <2>. QED
    BY <2>1, <2>2
<1>12. ASSUME Retire PROVE Following'
  <2>1. /\ at = "retire" /\ at' = "cleanup"
        /\ registry' = [registry EXCEPT ![winner.agent] = "RETIRED"]
        /\ UNCHANGED <<listeners, opened, closed, winner, spawned, pending>>
    BY <1>12 DEF Retire
  <2>2. winner.agent \in Agents
    BY <2>1 DEF TypeOK, Agents
  <2>3. /\ UNCHANGED <<Subscribed, Open>>
        /\ Active' = Active \ {winner.agent}
    BY <2>1, <2>2 DEF Subscribed, Active, Open, TypeOK, Agents
  <2>. QED
    BY <2>1, <2>3
<1>13. ASSUME Cleanup PROVE Following'
  <2>1. /\ at = "cleanup" /\ at' = "idle"
        /\ UNCHANGED <<registry, opened, closed, winner, spawned, pending>>
    BY <1>13 DEF Cleanup
  <2>2. Subscriptions' = {s \in Subscriptions : s.callback # winner.agent}
    BY <1>13 DEF Cleanup, Unsubscribe, Subscriptions, TypeOK, BusTypeOK
  <2>3. Subscribed' = Subscribed \ {winner.agent}
    BY <2>2 DEF Subscriptions, Subscribed
  <2>4. winner.agent \notin Active /\ winner.agent \notin Open
    BY <2>1 DEF Open
  <2>. QED
    BY <2>1, <2>3, <2>4 DEF Open, Active
<1>14. ASSUME RecordReduced PROVE Following'
  <2>1. UNCHANGED <<Subscribed, Open, Active>>
    BY <1>14, SamePositions DEF RecordReduced
  <2>. QED
    BY <1>14, <2>1 DEF RecordReduced
<1>15. ASSUME Stop PROVE Following'
  <2>1. UNCHANGED <<Subscribed, Open, Active>>
    BY <1>15, SamePositions DEF Stop
  <2>. QED
    BY <1>15, <2>1 DEF Stop
<1>16. CASE UNCHANGED vars
  BY <1>16, SamePositions DEF vars, busvars
<1>17. QED
  BY <1>1, <1>2, <1>3, <1>4, <1>5, <1>6, <1>7, <1>8, <1>9, <1>10, <1>11, <1>12, <1>13, <1>14, <1>15, <1>16 DEF Next

(* A step that neither proposes, refuses nor records a reduction.          *)
LEMMA Quietly ==
  ASSUME IInv, UNCHANGED <<halved, onRecord, refused, pending, winner>>,
         \A p \in Positions : OnItsWay(p)' <=> OnItsWay(p),
         at = "stopped" => at' = "stopped",
         at' = "recordReduce" => winner.kind = "REDUCE",
         at' \in Opening \cup Closing => winner.kind # "REDUCE"
  PROVE  Reducing'
<1>. HIDE DEF OnItsWay
<1>1. Reducing
  BY DEF IInv
<1>2. \A p \in Positions :
          /\ OnItsWay(p)' => halved'[p] = onRecord'[p] + refused'[p] + 1
          /\ ~OnItsWay(p)' => halved'[p] = onRecord'[p] + refused'[p]
  BY <1>1 DEF Reducing
<1>3. /\ at' = "recordReduce" => winner'.kind = "REDUCE"
      /\ at' \in (Opening \cup Closing)' => winner'.kind # "REDUCE"
  BY DEF Opening, Closing
<1>4. at' # "stopped" =>
           \A q \in pending' \cup {winner'} :
               q.kind = "REDUCE" => q.agent \in Positions /\ q.halved = halved'[q.agent]
  BY <1>1 DEF Reducing
<1>. QED
  BY <1>2, <1>3, <1>4 DEF Reducing

LEMMA ReducingStep == IInv /\ [Next]_vars => Reducing'
<1> SUFFICES ASSUME IInv, [Next]_vars PROVE Reducing'
  OBVIOUS
<1> USE DEF position, records, busvars
<1>0. Reducing /\ Alone /\ Reaching /\ TypeOK
  BY DEF IInv
<1>1. ASSUME NEW i \in Instruments, NEW price \in Prices, Observe(i, price) PROVE Reducing'
  <2>1. /\ at = "idle" /\ at' = "notify"
        /\ winner' = NoProposal /\ UNCHANGED <<pending, halved, onRecord, refused>>
    BY <1>1 DEF Observe, Publish
  <2>2. pending = {}
    BY <1>0, <2>1 DEF Alone
  <2>3. \A p \in Positions : ~OnItsWay(p) /\ ~OnItsWay(p)'
    BY <2>1, <2>2 DEF OnItsWay, NoProposal
  <2>. QED
    BY <1>0, <2>1, <2>2, <2>3 DEF Reducing, NoProposal, Opening, Closing
<1>2. ASSUME NEW i \in Instruments, News(i) PROVE Reducing'
  <2>1. /\ at = "idle" /\ at' = "notify"
        /\ winner' = NoProposal /\ UNCHANGED <<pending, halved, onRecord, refused>>
    BY <1>2 DEF News, Publish
  <2>2. pending = {}
    BY <1>0, <2>1 DEF Alone
  <2>3. \A p \in Positions : ~OnItsWay(p) /\ ~OnItsWay(p)'
    BY <2>1, <2>2 DEF OnItsWay, NoProposal
  <2>. QED
    BY <1>0, <2>1, <2>2, <2>3 DEF Reducing, NoProposal, Opening, Closing
<1>3. ASSUME NEW a \in Agents, Suppress(a) PROVE Reducing'
  BY <1>3, Quietly DEF Suppress, OnItsWay, Opening, Closing
<1>4. ASSUME NEW a \in Agents, Wakes(a) PROVE Reducing'
  <2>1. /\ at = "notify" /\ at' = "notify" /\ winner = NoProposal /\ winner' = NoProposal
        /\ pending = {} /\ UNCHANGED <<onRecord, refused>>
    BY <1>0, <1>4, Sleeps DEF Wakes, Turn, Alone, Reaching, Observing, TypeOK, Event
  <2>2. \A p \in Positions : ~OnItsWay(p) /\ halved[p] = onRecord[p] + refused[p]
    BY <1>0, <2>1 DEF OnItsWay, NoProposal, Reducing
  <2>3. CASE KeepSilent(a)
    <3>1. \A p \in Positions : OnItsWay(p)' <=> OnItsWay(p)
      BY <2>1, <2>3 DEF KeepSilent, OnItsWay
    <3>. QED
      BY <2>1, <2>3, <3>1, Quietly DEF KeepSilent, Opening, Closing
  <2>4. CASE \E kind \in Kinds : Propose(a, kind)
    <3>1. PICK kind \in Kinds : Propose(a, kind)
      BY <2>4
    <3>2. /\ kind \in {"CLOSE", "TAKE_PROFIT", "REDUCE"} => a \in Positions
          /\ a \in Positions => halved[a] \in Nat
      BY <1>0, <3>1, Proposes DEF TypeOK
    <3> DEFINE h == IF a \in Positions
                    THEN halved[a] + (IF kind = "REDUCE" THEN 1 ELSE 0) ELSE 0
    <3>3. /\ pending' = {[agent |-> a, kind |-> kind, halved |-> h]}
          /\ halved' = [p \in Positions |-> IF p = a THEN h ELSE halved[p]]
      BY <2>1, <3>1 DEF Propose
    <3>4. \A p \in Positions : OnItsWay(p)' <=> p = a /\ kind = "REDUCE"
      BY <2>1, <3>3 DEF OnItsWay, NoProposal
    <3>5. \A p \in Positions :
              /\ OnItsWay(p)' => halved'[p] = onRecord'[p] + refused'[p] + 1
              /\ ~OnItsWay(p)' => halved'[p] = onRecord'[p] + refused'[p]
      <4> SUFFICES ASSUME NEW p \in Positions
                   PROVE  /\ OnItsWay(p)' => halved'[p] = onRecord'[p] + refused'[p] + 1
                          /\ ~OnItsWay(p)' => halved'[p] = onRecord'[p] + refused'[p]
        OBVIOUS
      <4>1. CASE p = a
        <5>1. halved'[p] = halved[p] + (IF kind = "REDUCE" THEN 1 ELSE 0)
          BY <3>3, <4>1
        <5>2. halved[p] = onRecord[p] + refused[p] /\ halved[p] \in Nat
          BY <2>2, <3>2, <4>1
        <5>. QED
          BY <2>1, <3>4, <4>1, <5>1, <5>2
      <4>2. CASE p # a
        BY <2>1, <2>2, <3>3, <3>4, <4>2
      <4>. QED
        BY <4>1, <4>2
    <3>6. \A q \in pending' \cup {winner'} :
              q.kind = "REDUCE" => q.agent \in Positions /\ q.halved = halved'[q.agent]
      <4>1. \A q \in pending' \cup {winner'} : q.kind = "REDUCE" =>
                q = [agent |-> a, kind |-> kind, halved |-> h] /\ a \in Positions
        BY <2>1, <3>2, <3>3 DEF NoProposal
      <4>2. a \in Positions => halved'[a] = h
        BY <3>3
      <4>. HIDE DEF h
      <4>. QED
        BY <4>1, <4>2
    <3>. QED
      BY <2>1, <3>5, <3>6 DEF Reducing, Opening, Closing
  <2>. QED
    BY <1>4, <2>3, <2>4 DEF Wakes
<1>5. ASSUME Notified PROVE Reducing'
  BY <1>5, Quietly DEF Notified, OnItsWay, Opening, Closing
<1>6. ASSUME Arbitrate PROVE Reducing'
  <2>1. /\ at = "arbitrate" /\ pending' = {} /\ winner = NoProposal
        /\ UNCHANGED <<halved, onRecord, refused>>
    BY <1>0, <1>6 DEF Arbitrate, Reaching
  <2>2. CASE pending = {} /\ at' = "idle" /\ UNCHANGED winner
    <3>1. \A p \in Positions : OnItsWay(p)' <=> OnItsWay(p)
      BY <2>1, <2>2 DEF OnItsWay, NoProposal
    <3>. QED
      BY <2>1, <2>2, <3>1, Quietly DEF Opening, Closing
  <2>3. CASE (\E w \in pending : Wins(w, pending) /\ winner' = w) /\ at' = "evaluate"
    <3>1. pending = {winner'}
      BY <1>0, <2>3 DEF Alone, Wins
    <3>2. \A p \in Positions : OnItsWay(p)' <=> OnItsWay(p)
      BY <2>1, <2>3, <3>1 DEF OnItsWay, NoProposal
    <3>3. \A p \in Positions :
              /\ OnItsWay(p)' => halved'[p] = onRecord'[p] + refused'[p] + 1
              /\ ~OnItsWay(p)' => halved'[p] = onRecord'[p] + refused'[p]
      BY <1>0, <2>1, <3>2 DEF Reducing
    <3>4. winner'.kind = "REDUCE" =>
              winner'.agent \in Positions /\ winner'.halved = halved'[winner'.agent]
      BY <1>0, <2>1, <3>1 DEF Reducing
    <3>. QED
      BY <2>1, <2>3, <3>3, <3>4 DEF Reducing, Opening, Closing
  <2>. QED
    BY <1>6, <2>2, <2>3 DEF Arbitrate
<1>7. ASSUME Evaluate PROVE Reducing'
  <2>1. /\ at = "evaluate" /\ pending = {} /\ pending' = {}
        /\ UNCHANGED <<halved, onRecord, winner>>
    BY <1>0, <1>7 DEF Evaluate, Alone
  <2>2. CASE UNCHANGED refused /\ at' = Accepted
    <3>1. \A p \in Positions : OnItsWay(p)' <=> OnItsWay(p)
      BY <2>1, <2>2 DEF OnItsWay, Accepted
    <3>. QED
      BY <2>1, <2>2, <3>1, Quietly DEF Accepted, Opening, Closing
  <2>3. CASE winner.kind # "REDUCE" /\ RefuseReduction /\ at' = "idle"
    <3>1. \A p \in Positions : OnItsWay(p)' <=> OnItsWay(p)
      BY <2>1, <2>3 DEF OnItsWay
    <3>. QED
      BY <2>1, <2>3, <3>1, Quietly DEF RefuseReduction, Opening, Closing
  <2>4. CASE winner.kind = "REDUCE" /\ RefuseReduction /\ at' = "idle"
    <3>1. /\ winner.agent \in Positions /\ winner.halved = halved[winner.agent]
          /\ refused' = [refused EXCEPT ![winner.agent] = @ + 1]
      BY <1>0, <2>1, <2>4 DEF Reducing, RefuseReduction
    <3>2. \A p \in Positions : ~OnItsWay(p)' /\ (OnItsWay(p) <=> p = winner.agent)
      BY <2>1, <2>4 DEF OnItsWay
    <3>3. \A p \in Positions : halved'[p] = onRecord'[p] + refused'[p]
      <4> SUFFICES ASSUME NEW p \in Positions PROVE halved'[p] = onRecord'[p] + refused'[p]
        OBVIOUS
      <4>1. onRecord[p] \in Nat /\ refused[p] \in Nat /\ refused \in [Positions -> 0 .. Floor]
        BY <1>0 DEF TypeOK
      <4>2. CASE p = winner.agent
        <5>1. refused'[p] = refused[p] + 1
          BY <3>1, <4>1, <4>2
        <5>2. halved[p] = onRecord[p] + refused[p] + 1
          BY <1>0, <3>2, <4>2 DEF Reducing
        <5>. QED
          BY <2>1, <4>1, <5>1, <5>2
      <4>3. CASE p # winner.agent
        <5>1. refused'[p] = refused[p]
          BY <3>1, <4>1, <4>3
        <5>2. halved[p] = onRecord[p] + refused[p]
          BY <1>0, <3>2, <4>3 DEF Reducing
        <5>. QED
          BY <2>1, <5>1, <5>2
      <4>. QED
        BY <4>2, <4>3
    <3>. QED
      BY <2>1, <2>4, <3>1, <3>2, <3>3 DEF Reducing, Opening, Closing
  <2>. QED
    BY <1>7, <2>2, <2>3, <2>4 DEF Evaluate
<1>8. ASSUME NEW p \in Positions, Spawn(p) PROVE Reducing'
  <2>1. /\ at = "spawn" /\ at' = "recordSpawn" /\ UNCHANGED <<halved, onRecord, refused>>
        /\ pending = {} /\ pending' = {}
        /\ winner \in Proposal /\ winner' = [winner EXCEPT !.agent = p]
        /\ winner.kind = "NEWS_QUALIFIED"
    BY <1>8 DEF IInv, Spawn, Alone, Working, Qualifying
  <2>2. winner'.kind = "NEWS_QUALIFIED"
    BY <2>1 DEF Proposal
  <2>3. \A q \in Positions : ~OnItsWay(q) /\ ~OnItsWay(q)'
    BY <2>1, <2>2 DEF OnItsWay
  <2>4. \A q \in Positions : halved'[q] = onRecord'[q] + refused'[q]
    BY <1>0, <2>1, <2>3 DEF Reducing
  <2>. QED
    BY <2>1, <2>2, <2>3, <2>4 DEF Reducing
<1>9. ASSUME RecordSpawned PROVE Reducing'
  <2>1. /\ at \in Opening \cup Closing /\ at' \in Opening \cup Closing \cup {"idle"}
        /\ UNCHANGED <<halved, onRecord, refused, pending, winner>>
    BY <1>9 DEF RecordSpawned, Opening, Closing
  <2>2. pending = {} /\ winner.kind # "REDUCE"
    BY <1>0, <2>1 DEF Alone, Reducing, Opening, Closing
  <2>3. \A p \in Positions : OnItsWay(p)' <=> OnItsWay(p)
    BY <2>1, <2>2 DEF OnItsWay
  <2>. QED
    BY <2>1, <2>2, <2>3, Quietly DEF Opening, Closing
<1>10. ASSUME Register PROVE Reducing'
  <2>1. /\ at \in Opening \cup Closing /\ at' \in Opening \cup Closing \cup {"idle"}
        /\ UNCHANGED <<halved, onRecord, refused, pending, winner>>
    BY <1>10 DEF Register, Opening, Closing
  <2>2. pending = {} /\ winner.kind # "REDUCE"
    BY <1>0, <2>1 DEF Alone, Reducing, Opening, Closing
  <2>3. \A p \in Positions : OnItsWay(p)' <=> OnItsWay(p)
    BY <2>1, <2>2 DEF OnItsWay
  <2>. QED
    BY <2>1, <2>2, <2>3, Quietly DEF Opening, Closing
<1>11. ASSUME RecordClosed PROVE Reducing'
  <2>1. /\ at \in Opening \cup Closing /\ at' \in Opening \cup Closing \cup {"idle"}
        /\ UNCHANGED <<halved, onRecord, refused, pending, winner>>
    BY <1>11 DEF RecordClosed, Opening, Closing
  <2>2. pending = {} /\ winner.kind # "REDUCE"
    BY <1>0, <2>1 DEF Alone, Reducing, Opening, Closing
  <2>3. \A p \in Positions : OnItsWay(p)' <=> OnItsWay(p)
    BY <2>1, <2>2 DEF OnItsWay
  <2>. QED
    BY <2>1, <2>2, <2>3, Quietly DEF Opening, Closing
<1>12. ASSUME Retire PROVE Reducing'
  <2>1. /\ at \in Opening \cup Closing /\ at' \in Opening \cup Closing \cup {"idle"}
        /\ UNCHANGED <<halved, onRecord, refused, pending, winner>>
    BY <1>12 DEF Retire, Opening, Closing
  <2>2. pending = {} /\ winner.kind # "REDUCE"
    BY <1>0, <2>1 DEF Alone, Reducing, Opening, Closing
  <2>3. \A p \in Positions : OnItsWay(p)' <=> OnItsWay(p)
    BY <2>1, <2>2 DEF OnItsWay
  <2>. QED
    BY <2>1, <2>2, <2>3, Quietly DEF Opening, Closing
<1>13. ASSUME Cleanup PROVE Reducing'
  <2>1. /\ at \in Opening \cup Closing /\ at' \in Opening \cup Closing \cup {"idle"}
        /\ UNCHANGED <<halved, onRecord, refused, pending, winner>>
    BY <1>13 DEF Cleanup, Opening, Closing
  <2>2. pending = {} /\ winner.kind # "REDUCE"
    BY <1>0, <2>1 DEF Alone, Reducing, Opening, Closing
  <2>3. \A p \in Positions : OnItsWay(p)' <=> OnItsWay(p)
    BY <2>1, <2>2 DEF OnItsWay
  <2>. QED
    BY <2>1, <2>2, <2>3, Quietly DEF Opening, Closing
<1>14. ASSUME RecordReduced PROVE Reducing'
  <2>1. /\ at = "recordReduce" /\ at' = "idle" /\ winner.kind = "REDUCE"
        /\ pending = {} /\ pending' = {} /\ UNCHANGED <<halved, winner>>
        /\ onRecord' = [onRecord EXCEPT ![winner.agent] = winner.halved]
        /\ refused' = [refused EXCEPT ![winner.agent] = 0]
    BY <1>0, <1>14 DEF RecordReduced, Alone, Reducing
  <2>2. winner.agent \in Positions /\ winner.halved = halved[winner.agent]
    BY <1>0, <2>1 DEF Reducing
  <2>3. \A p \in Positions : ~OnItsWay(p)' /\ (OnItsWay(p) <=> p = winner.agent)
    BY <2>1 DEF OnItsWay
  <2>4. \A p \in Positions : halved'[p] = onRecord'[p] + refused'[p]
    <3> SUFFICES ASSUME NEW p \in Positions PROVE halved'[p] = onRecord'[p] + refused'[p]
      OBVIOUS
    <3>1. /\ onRecord \in [Positions -> 0 .. Floor] /\ refused \in [Positions -> 0 .. Floor]
          /\ halved[p] \in Nat
      BY <1>0 DEF TypeOK
    <3>2. CASE p = winner.agent
      <4>1. onRecord'[p] = halved[p] /\ refused'[p] = 0
        BY <2>1, <2>2, <3>1, <3>2
      <4>. QED
        BY <2>1, <3>1, <4>1
    <3>3. CASE p # winner.agent
      <4>1. onRecord'[p] = onRecord[p] /\ refused'[p] = refused[p]
        BY <2>1, <3>1, <3>3
      <4>2. halved[p] = onRecord[p] + refused[p]
        BY <1>0, <2>3, <3>3 DEF Reducing
      <4>. QED
        BY <2>1, <4>1, <4>2
    <3>. QED
      BY <3>2, <3>3
  <2>. QED
    BY <2>1, <2>2, <2>3, <2>4 DEF Reducing, Opening, Closing
<1>15. ASSUME Stop PROVE Reducing'
  BY <1>15, Quietly DEF Stop, OnItsWay, Opening, Closing
<1>16. CASE UNCHANGED vars
  <2>1. UNCHANGED <<halved, onRecord, refused, pending, winner, at>>
    BY <1>16 DEF vars
  <2>2. \A p \in Positions : OnItsWay(p)' <=> OnItsWay(p)
    BY <2>1 DEF OnItsWay
  <2>. QED
    BY <1>0, <2>1, <2>2, Quietly DEF Reducing
<1>17. QED
  BY <1>1, <1>2, <1>3, <1>4, <1>5, <1>6, <1>7, <1>8, <1>9, <1>10, <1>11, <1>12, <1>13, <1>14, <1>15, <1>16 DEF Next

LEMMA InitIInv == Init => IInv
<1> SUFFICES ASSUME Init PROVE IInv
  OBVIOUS
<1> USE MeshAssumption, LimitsAssumption DEF Init
<1>1. event \in Event /\ event.topic = "NEWS"
  BY DEF Event, PriceOrNone
<1>2. PICK v \in Prices : entry = [p \in Positions |-> v]
  OBVIOUS
<1>3. Subscriptions = {[callback |-> i, scope |-> i] : i \in Instruments}
  BY DEF Subscriptions
<1>4. listeners["NEWS"] = {[callback |-> Scorer, scope |-> Everywhere]}
  OBVIOUS
<1>5. TypeOK
  <2>1. BusTypeOK
    <3>1. Subscriptions \subseteq Subscription
      BY <1>3 DEF Subscription, Instruments
    <3>2. listeners["NEWS"] \subseteq Subscription
      BY <1>4 DEF Subscription, Scorer
    <3>. QED
      BY <3>1, <3>2 DEF BusTypeOK, Subscriptions
  <2>2. event.instrument \in Instruments
    BY <1>1 DEF Event
  <2>3. instrument \in [Positions -> Instruments] /\ entry \in [Positions -> Prices]
    BY <1>2, <2>2
  <2>. QED
    BY <1>1, <2>1, <2>3 DEF TypeOK, Deciding, NoProposal, PriceOrNone
<1>6. Listening
  BY <1>3, <1>4 DEF Listening
<1>7. Working /\ Reaching /\ Alone /\ Qualifying
  BY DEF Working, Reaching, Alone, Qualifying
<1>8. Minor
  BY DEF Minor, PositionsSeeMinorMoves
<1>9. Following
  <2>1. Subscribed = {}
    BY <1>3, Apart DEF Subscriptions, Subscribed
  <2>2. Active = {}
    BY DEF Active, Agents
  <2>. QED
    BY <2>1, <2>2 DEF Following, AgentsFollowPositions, Open, Closing, NoProposal, InHand
<1>10. Reducing
  BY DEF Reducing, OnItsWay, NoProposal, Opening, Closing
<1>. QED
  BY <1>5, <1>6, <1>7, <1>8, <1>9, <1>10 DEF IInv

THEOREM Inductive == Spec => []IInv
<1>1. IInv /\ [Next]_vars => IInv'
  BY TypeStep, WorkingStep, ListeningStep, ReachingStep, AloneStep, MinorStep,
     QualifyingStep, FollowingStep, ReducingStep DEF IInv
<1>. QED
  BY InitIInv, <1>1, PTL DEF Spec

(* Type correctness.                                                       *)
THEOREM TypeCorrect == Spec => []TypeOK
<1>1. IInv => TypeOK
  BY DEF IInv
<1>. QED
  BY Inductive, <1>1, PTL

(* However many agents watch an instrument, an event wakes one at most     *)
(* (the wake-up predicate of orchestrator.py).                             *)
THEOREM OneAgentPerEvent == Spec => []OneWoken
<1>1. IInv => OneWoken
  <2> SUFFICES ASSUME IInv PROVE OneWoken
    OBVIOUS
  <2>1. Cardinality(woken) <= 1
    BY FS_EmptySet, FS_Singleton DEF IInv, Alone
  <2>2. Cardinality(pending) <= 1
    <3>1. CASE pending = {}
      BY <3>1, FS_EmptySet
    <3>2. CASE \E q \in Proposal : pending = {q}
      <4>1. PICK q \in Proposal : pending = {q}
        BY <3>2
      <4>2. Cardinality({q}) = 1
        BY FS_Singleton
      <4>. QED
        BY <4>1, <4>2
    <3>. QED
      BY <3>1, <3>2 DEF IInv, Alone
  <2>. QED
    BY <2>1, <2>2 DEF OneWoken
<1>. QED
  BY Inductive, <1>1, PTL

(* Position agents are woken only by moves their instrument's agent sleeps *)
(* through, whatever the thresholds are.                                   *)
THEOREM LargeMovesShadowed == Spec => []PositionsSeeMinorMoves
<1>1. IInv => PositionsSeeMinorMoves
  BY DEF IInv, Minor
<1>. QED
  BY Inductive, <1>1, PTL

(* Audit trail, bus and registry agree on the open positions, up to the    *)
(* one a step is opening or closing.                                       *)
THEOREM ThreeRecordsAgree == Spec => []AgentsFollowPositions
<1>1. IInv => AgentsFollowPositions
  BY DEF IInv, Following
<1>. QED
  BY Inductive, <1>1, PTL

(* What an agent holds and what is on record of it differ by its refused   *)
(* reductions and the one on its way, however many proposals are refused.  *)
THEOREM ReductionsFiled == Spec => []ReductionsOnRecord
<1>1. IInv => ReductionsOnRecord
  <2> SUFFICES ASSUME IInv, NEW p \in Positions
               PROVE  halved[p] = onRecord[p] + refused[p] + (IF OnItsWay(p) THEN 1 ELSE 0)
    BY DEF ReductionsOnRecord
  <2>1. onRecord[p] \in Nat /\ refused[p] \in Nat
    BY DEF IInv, TypeOK
  <2>. QED
    BY <2>1 DEF IInv, Reducing
<1>. QED
  BY Inductive, <1>1, PTL
=============================================================================
