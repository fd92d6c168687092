# Decision Intelligence Runtime: TLA+ models and proofs

This directory holds the specifications of `dir_core`, the library of this
repository (`src/dir_core`), and of two programs of `samples/` that are built on
it: state machines of the stateful components at the granularity of storage
calls, the rules a contract compiles to, TLC instances that check them, and TLAPS
proofs of their invariants for every value of the constants.

## The system

`dir_core` is a kernel between LLM agents that *propose* and effects that are
*executed*. Everything it knows lives in a storage (in memory, SQLite, or the
PostgreSQL storage the samples share); a
component is a thin object over storage calls. There is no scheduler and no
lock around a component's method: callers are threads or processes, and
whatever one method reads in one storage call may have changed at its next.
That is where its difficulties are.

| Component | State | Operations | Talks to | Hard part | Correct when |
|---|---|---|---|---|---|
| `ResourceLockManager` | amounts locked per flow and resource | `acquire`, `release` | its storage, an availability provider | check and write are separate calls; the backends differ in what a write replaces; rows of a database outlive a crash | capacity is not over-allocated; a granted reservation is kept |
| `DecisionRuntime` + DIM | none of its own | `evaluate_proposal`, `apply_parameter_amendment` | registry, context store, governor, audit | five stores read and written one after the other while operators change the registry; crash in between | restricted agents and proposals outside the contract are not accepted; audit agrees with the verdicts |
| `IntentRetryGovernor` | rejections per flow | `record_rejection`, `should_abort`, `reset` | DIM, orchestrator, lifecycle | read-modify-write; reset before the end is recorded; which rejections count | retries are bounded, flows end |
| lifecycle `transition` | transition log | `transition` | governor, its storage | two stores | an ended flow leaves no count |
| `AgentRegistry`, amendments | one row per agent: status, contract, amendments, session token | `handshake`, `register_agent`, `set_agent_status`, `apply_parameter_amendment` | storage; rows also appear through foreign keys | an amendment is three reads and one write of the whole row; amendments expire | no update is lost, patches stay in the envelope, restrictions last |
| `EscalationManager` | budget tokens, requests | `request_escalation`, `resolve_escalation` | storage; the registry through `ON DELETE CASCADE` | count and spend are separate calls; token without request; re-registration | budget, no free request, final decisions |
| `IdempotencyGuard` | cached results | `run` | storage, the operation | concurrent misses, crash before `set`, `None` results | an operation is not repeated |
| `SagaCompensation` | dirty flows | `mark_dirty`, `execute_compensation` | callbacks | a mark during the callback is cleared | no dirty flow is forgotten |
| `EventBus` | subscriptions | `subscribe`, `unsubscribe`, `dispatch` | listeners | dispatch over a copy, in the order of subscription | who is called |
| event mesh (sample 31) | agents, positions, last prices, proposals | price ticks, news, arbitration, opening and closing positions | bus, registry, DIM, audit | agents of an instrument share one last price; a position is on three records | every event reaches who it concerns; the records agree |
| `ContextStore` | session and state per flow and agent | `update_*`, `compile_working_context` | storage; the registry through foreign keys | read, merge and write are separate calls; a registration wipes the agent's state; torn snapshot | merged updates survive |
| `ProofChecker`, `DecisionLedger` | append-only entries | `verify`, `append` | a kernel, the context store, the registry | session and contract are read at different times, the contract three times; three kinds of ledger treat a second entry of a flow differently | what is bound was verified, once per flow, and stays |
| contract compilation, amendments, invariants | a contract and its amendments in a registry row | `project_contract`, `effective_invariants`, `evaluate_*_rule` | registry, DIM | precedence of rules by id and by field; shapes of contracts; empty sets, `None`; layering and expiry | the rules say what the contract says; amendments stay in the signed envelope |
| audit trail | append-only rows | `record` | runtime | written after the change it reports | rows agree with decisions |
| arbitration, JIT drift, wake-up predicates | none | pure functions | orchestrators | ties, missing keys | the first of the most urgent wins |

Of the samples, the programs modelled are those that put components together in
a way the library leaves to its callers: the retry loop of sample 40, the closing
transition of sample 09, the kernel of sample 33 and the event mesh of sample 31.
The other samples, the contract tooling, the documentation and the LLM and logging
utilities are not modelled. `PROJECT.json` lists components, hazards (each at its line) and what
covers them.

## The modules

| Module | Models | Rests on |
|---|---|---|
| `ReservationBook` | what callers take `acquire` and `release` for: one step that finds room and reserves, one that gives up (abstract specification) | |
| `ResourceLock` | `resource_lock.py` over the three lock storages | its memory backend implements `ReservationBook` (`ImplementsReservationBook`) |
| `AgentDirectory` | what the runtime relies on in the registry: per agent a status and the terms of its row, that is, the bound the row stands for at each time (abstract specification) | |
| `DecisionRuntime` | `runtime.py`, `dim.py`, `intent_retry.py`, `lifecycle.py` and an orchestrator per flow | EXTENDS `AgentDirectory`, whose steps are its environment |
| `AgentRegistry` | `agent_registry.py`, `amendments.py` | implements `AgentDirectory` (`ImplementsDirectory`) |
| `Escalation` | `escalation.py` over the three escalation storages | |
| `Execution` | `idempotency.py` and `saga.py`, composed in the execution of a multi-step flow, over each storage | |
| `ContextStore` | `context_store.py` over the three storages | |
| `BindingLog` | what the readers of the ledger rely on: decisions are only added, each with evidence that admits it, and a flow is told it is bound only once it is (abstract specification) | |
| `DecisionLedger` | `pci.py`, `ledger.py` and the kernel that calls them (`samples/33_insurance_underwriting/kernel.py`), over each kind of ledger | EXTENDS `ContextStore`, whose steps and the registrations are its environment; implements `BindingLog` (`ImplementsBindingLog`) |
| `ContractRules` | `contract_projection.py`, `invariant_compile.py`, `amendments.py`, `invariants.py` and the checks of `dim.py` that read them | |
| `EventBus` | `event_bus.py`: subscriptions and a dispatch, callback by callback | |
| `EventMesh` | sample 31: `orchestrator.py`, `roa_agents.py`, `run.py`, with `arbitration.py` | EXTENDS `EventBus`, whose callbacks are its agents |
| `MC*` | instances for TLC: constants and symmetry only | |
| `*_proofs` | theorems | the module of that name |

`AgentDirectory` is how the two large modules compose: `DecisionRuntime` is
checked against any directory, and `AgentRegistry` is shown to be one. A row is
written whole and read whole, and only time resolves its amendments, which is why a
directory keeps `terms`, a bound for each time, and a `clock`. There a
contract is one bound; `ContractRules` opens it up and takes an amendment as one
step, while `AgentRegistry` keeps the view in which its four calls can be torn.

The other two abstract specifications say what a component amounts to for its
callers. `ReservationBook` has no checks to overtake: a reservation fits among
those of the other flows at the moment it is made, except that the reservation of
an overtaken call need not, and sets `overtaken`. `ResourceLock` maps `held` to the
book and `granted` to what the flows were told; in a database a write takes rows from
flows that are not told, and the mapping leaves the book blank. `BindingLog` maps to
`ledger` and the flows that were answered; what may be added is what the
verification certifies (`Certified`).

### State and actions against the code

Everywhere a storage call is one atomic step (a `with _connect(...)` block that
commits, or one dict operation) and a method is a sequence of steps with a
program counter `pc` per caller. Variables marked *history* exist only to state
properties; no guard reads them. Definitions that begin with "Mutant:" are
plausible bugs which the properties must notice; no specification uses them.

**`ResourceLock`.** `held` is the table, `Reserved` the sum over it that
`get_locked_amount` computes at each call, `want` and `unchecked` are the locals of
`acquire`. `Acquire` enters
the call, `CheckEnough` and `CheckShort` are one turn of its loop over the sorted
ids, `WriteBatch` is `acquire_batch` (`MemoryWrite` replaces the flow's entry,
`SqliteWrite` and `PostgresWrite` the resources' rows: PostgreSQL's `LOCK TABLE`
comes after the checks and protects none of them), `WriteContended` its timeout, `Release` and
`Crash` the rest. `stale` and `raced` record whether a flow writes after another
has written something it had already checked. Amounts are integers and the
capacity does not change; `acquire` with an empty request goes straight to the
write, as the code does.

**`DecisionRuntime`.** `Submit` (the caller), then in order `Gate`,
`UpdateSession`, `ReadContract`, `Validate` (governor first), `ReadCount` and
`WriteCount` (`record_rejection`), `Audit`. `ReadContract` copies the row with its
amendments unresolved (`runtime.py:161`); `Validate` counts those that have not
expired at its own time (`dim.py:59`, `dim.py:83`), so that a row read earlier may be
judged by a later clock. Then the caller: `Retry` asks the governor
and goes on, `Conclude` goes to `Reset` and `Record`, the two halves of `transition`,
and `Leave` ends the loop without a word about the flow. Which of them follows a
verdict is the application's affair and chosen freely: sample 09 concludes after the
first verdict whatever it is (`run.py:271-288`), so that a flow is ABORTED after one
rejection, a gated one included; sample 40 retries, and leaves when no proposal
comes, after an acceptance, an escalation or an exhausted budget, and in a scenario
without retries (`orchestrator.py:199-299`). `Governance` is a step
of `AgentDirectory`, and so is `Amend`, which `AuditAmendment` follows in a call of
its own; `Crash` loses every local and keeps what is stored. A proposal
is the quantity a contract bounds; whether the other checks of the DIM pass is
chosen freely in `Validate`, so every property holds whatever they decide.
The library's default for the governor is
memory; the model takes the persistent one, which is the interesting case for
crashes.

**`AgentRegistry`.** `row` is the table. `Handshake`, `RegisterAgent`,
`SetStatus` and `EnsureRow` (the row SQLite inserts for a foreign key) are one
call each; an amendment is `Amend` (read and validate), `ReadStored`, `ReadRec`,
`Upsert`. `Tick` lets amendments expire. A contract is one range invariant: its
`max`, its envelope's `max_ceiling` and whether it is `runtime_amendable`;
`Unlimited` stands for every way of having no bound. `torn` marks a row written
by an amendment over changes it had not read. `EffectiveTerms` reads off a row what
`AgentDirectory` calls its terms: the effective bound at each time, if nobody writes
the row meanwhile.

**`ContractRules`.** A `Rule` is an `InvariantSpec`; `Projected` is what the
registry's row keeps of a contract, for each shape a contract comes in: clauses
nested under `authority`, a flat contract, and a flat one with `permissions`.
`Handshake`, `Amend` and `Lapse` change the row; `Effective` layers the amendments in
force over a rule; `Accepts` is the verdict. `AsAuthored` says the same from the
clauses as they were written, naming the ones that do not count: a clause gives way
to a rule the contract states itself under its id, *or* of its type on its field (the
compiler's docstring has the first case only), a limit to an earlier limit on its
field, and of a flat contract the compiler reads little: no instruments, no
exclusions, no confidence threshold, no policy kinds beside permissions or a
slippage, no limits beside a slippage. Left out: kinds and instruments that match as
substrings, `expected` values, values that are no numbers, custom validators, and
amendments with a TTL that the runtime refuses.

**`EventMesh`.** `at` is where the loop of `run.py` is. `Observe` and `News` publish;
`Suppress` and `Wakes` are the callback of the agent whose turn it is, `Notified` the
end of the dispatch. `Arbitrate` and `Evaluate` choose and judge; `Spawn`,
`RecordSpawned`, `Register` open a position, `RecordClosed`, `Retire`, `Cleanup` close
one, `RecordReduced` files a reduction; `Stop` is an exception out of any of these
calls, which ends the program. Callbacks are numbered in the order in which they
subscribe. An agent's choice of proposal and the verdict of the DIM are free, except
that an agent closes by itself at its stop loss, its profit, or with its exposure
spent. An exposure is how often it has been halved, until less than a dollar is
left. Left out: the `OPEN_POSITION` branch the sample calls deprecated, and its report.

**`Escalation`.** `Request`, `CountWindow`, `RecordToken` and `InsertRequest` are
`request_escalation`; `Resolve` is the human's decision; `Handshake` is the
cascade of a registry row's replacement; `Stop` and `Restart` are failures under
each backend. Timestamps are whole seconds, as SQLite stores them. Under PostgreSQL a
token is stamped with the beginning of its transaction, `begun`, which an earlier
read of the same connection opened (`BetweenTransactions` is a commit); a handshake
cascades to the tokens under SQLite only, since an upsert deletes nothing.

**`Execution`.** `pc`, `flow` and `step` are a caller that executes the steps of
a flow in turn, each through `IdempotencyGuard.run`: `Begin`, then `Hit` or `Miss`
(`get`), `Return` or `Raise` (the function), `Store` or `StoreFails` (`set`); a step
that raises goes to `MarkDirty` or `MarkFails` (`mark_dirty`). `cpc`, `cflow` and
`seen` are a compensator: `Compensate` reads the row, `CallbackTrue` and
`CallbackFails` are what its callback did, `Clear` and `ClearFails` `clear_dirty`. A
failure is numbered, so that a row that was replaced is told from the one a
compensator read. `Crash` empties the memory backend and ends every call. A result
of `None` is stored and never found again, as `run` treats it. Only calls that do
something are actions: compensating a clean flow, or one without a callback,
changes nothing.

**`ContextStore`.** A *cell* is a session (one per flow) or a state (one per agent);
its content is the set of keys it has. `ReadCell` and `WriteCell` are the two calls of
`update_session` and `update_state`, with `Merging` between them; `WriteFails` is the
foreign key of an unregistered agent's state, or a database that stays locked.
`Replace` is a registration, which deletes the agent's state under SQLite; under
PostgreSQL an update creates the row it needs and a registration deletes nothing. `missed`
and `excused` are history: keys written behind the back of an update, and keys a cell
may lack for that reason.

**`DecisionLedger`.** `verifying` holds the intents that kernels work on and `at` is
where `verify_and_commit` is: `HashContext` and `HashContract` are the two callbacks
`ProofChecker.verify` makes, and its comparison; `Recheck` the contract read after it;
`Validate` the projection read for the DIM, with its range rule on the amount (its
other checks may refuse freely). The append is `AppendSqlite` or `AppendPostgres`, `AppendFails`, the two
halves `ScanMemory` and `AddMemory`, or `AppendUnstored` for a ledger in a list. A hash
is what it is the hash of: equal hashes stand for equal content (no collisions), `sound`
says that the intent's payload is the one hashed, and the hash of an empty session or
contract, for which the kernel substitutes "", matches nothing. An amended contract is
another contract; expiry is left to `AgentRegistry`. The ledger's storage, where it has
one, is of the same kind as the context store's. A crash is left out: a call that
stops for good and a kernel that never takes its step look the same to safety, and
the runs that lose a memory ledger are new behaviours.

## What the runs check

| Run | Instance and bounds | Shows |
|---|---|---|
| `resource_lock` | 3 flows, resources of capacity 2 and 1, requests for one or both, the three backends; unbounded behaviours | over-allocation needs a race (`NoOversellUnlessRaced`) and in a database never reaches the table (`TableWithinCapacity`, `SoleHolder`); in memory a granted reservation is kept and acquire is one step unless it was overtaken (`ImplementsReservationBook`); no deadlock |
| `resource_lock_overcommit` | the same, SQLite | **violated**: two flows are told `ACQUIRED` for the same unit |
| `decision_runtime` | 1 flow, 2 retries, 3 registry changes (ticks included), 1 crash, clock 0..1, fair | retry budget, audit trail of verdicts and amendments, gate; an accepted proposal is within a bound in force at its validation; `FlowsEnd` |
| `agent_registry` | 1 agent, 3 contracts, 2 operators, 2 amendments, 1 token and registrations without one, clock 0..1 | nothing is lost without a torn write; envelope; implements `AgentDirectory` |
| `agent_registry_reinstate` | 2 tokens, 1 amendment | **violated**: a handshake lifts a suspension |
| `contract_rules` | 1 agent, 164 contracts (every shape; own rules that meet the compiled ones by id, by field, for one kind; rules that lack an end of their envelope, sign a max beyond it, or match a price), 2 amendments per registration, 120 proposals, 4 live prices | the compiled rules accept what the contract's clauses accept, the displaced and shadowed ones apart; however amendments are layered, each rule's parameters stay at what was signed or go to the end of the signed envelope, where there is one |
| `escalation` | 2 callers, agents and flows, budget 1, 3 requests, clock 0..2, the three backends | overspend is less than the number of callers; every request is paid for; decisions in a database are final |
| `escalation_budget` | 1 caller, 2 requests | **violated**: a re-registered agent has a fresh budget |
| `execution` | 2 callers, 2 compensators, 1 flow of 2 steps, 3 attempts, 2 compensations, 1 crash, in memory and in a database | a step runs again only for a reason (overlap, failure, `None`, an unstored result, a crash), one run per reason; likewise a compensation; a flow's latest failure is on file until compensated, unless a compensation of an earlier one removed it |
| `decision_ledger` | 1 flow and its agent, 2 kernels, 2 updaters, 2 keys, 2 updates, 2 intents, 2 registrations, contracts with bounds 1 and 2, amount 2 (at the one, beyond the other), each kind of ledger | evidence was in force during its verification; a contract rewritten in between is the only way past the certified bound; one entry per bound flow; the ledger implements `BindingLog`, so entries stay; which updates are lost |
| `event_mesh` | 2 instruments, 2 positions, 3 prices, thresholds 4 and 2 percent, stop and profit 4 percent, 2 halvings, 6 events, a failure anywhere | an event wakes one agent at most; the agents of positions see small moves only; bus, registry and audit trail agree but for the position in hand; the exposure held is exactly the refused reductions, and the one under way, below the exposure on record |
| `event_mesh_threshold` | the same, 3 events | **violated**: a move beyond a position's threshold, past its profit, wakes the instrument's agent and not the position's |

Why the bounds suffice. Three flows are a race and a bystander; two resources
exercise the order of the checks and partial overlap. Flows of one agent
meet in the registry only, and every property of the runtime speaks of one flow
and is violated, if at all, by it and its environment (the proofs are for any
number of them). Two registry changes suspend and reinstate (or
tighten and loosen) within one evaluation, and a third comes after; two times and
three changes make a row that is read, replaced and judged after its amendment lapsed.
One crash separates any two storage calls; what `BudgetPerCrash` and `AuditTrail`
allow per crash is told from what they allow once by the behaviours with
and without it, and the proofs are for any number. Two operators are
what it takes for one amendment to overtake another, and a handshake overtakes
either. In `execution`, two callers and two compensators are what a race takes, a third
attempt is one after a failure and its retry, and one crash falls between any two
steps. In `decision_ledger` two updates overlap, or make the session change under a
verification; the second registration does so for the contract; two intents are a
binding and a repetition, or a race of two; a second flow would share only the agent's
contract, which registrations change already. In
`contract_rules` two amendments are a layer and the one below, in either order of
expiry; the numbers lie on, below and above each bound; every kind of rule is there with and
without each end of an envelope. In `event_mesh` two positions
on one instrument compete with each other and with the instrument's agent, which the
second instrument never meets; six events suffice to open a position, to halve it away
and to close it. `execution` has the memory and one database: the steps of SQLite and
PostgreSQL do not differ there. Budget + callers requests are one more than the bound on the overspend
allows. The bounds are constants named `Max...` and appear in guards only (`MaxClock` also in
the times that `AgentDirectory` tabulates a row for); they
make the state space finite and the proofs hold for any value of them.

`CHECK_DEADLOCK FALSE` is set where a system may stop: flows end, and the counts
of changes, crashes, handshakes and requests run out. `ResourceLock` can always
continue and is checked for deadlock.

### Fairness

`FairSpec` of `DecisionRuntime` asks weak fairness of each orchestrator's
`Step`: an orchestrator is a synchronous loop that waits for nothing, so a
running one takes its next step, whichever it chooses (it may retry for as long as
the governor lets it). Nothing is assumed of operators, monitors or
crashes. `FlowsEnd` therefore excludes only the flows whose agent stays
restricted for ever, and may retry for ever: the gate's verdicts do not count as rejections, so that
their retry loop has no bound. No other module states liveness: callers of a
lock, a guard or a ledger are told no and stop, and an event mesh waits for
events nobody promises.

## What the violations say

The code and the repository's own documents disagree in the following places. The
first four are runs in which TLC finds the documented statement violated;
`PROJECT.json` quotes each with its line. The passing runs state what holds instead.

* Concurrent callers can both be granted the same unit, although the contract of
  `acquire_batch` (`storage/base.py:287-289`) rules it out (`NoOvercommit`).
* An agent reinstates itself by a handshake; `DIR_Governance.md:421` leaves that to
  human operators (`OnlyOperatorsReinstate`).
* A handshake resets the agent's escalation budget under SQLite, and overlapping
  callers exceed it; `DIR_Architectural_Pattern.md:903` promises N per hour
  (`BudgetHolds`).
* In sample 31 an event wakes one agent at most, and a position's agent only by moves
  too small for the instrument's agent, because the first agent called moves the last
  price all are compared with (`orchestrator.py:135`). The sample's README has every
  agent woken at or above its threshold (`README.md:257-261`, `281`, `359-367`), several
  proposals to arbitrate (`113`, `284`; also `arbitration.py:4`), and the drawdown limit enforced
  automatically (`615-628`, `663`); its `config.yaml:77` calls the position agents the
  more sensitive ones, "for risk management", and `event_bus.py:116` names a priority
  ordering that `dispatch` does not have. `ThresholdActivates` is the documented statement;
  `OneWoken` and `PositionsSeeMinorMoves`, which pass, say how far the code departs from
  it: always.

The others are visible in the properties that pass, which are stated for what the code
does:

* `DIR_Governance.md:410`, `416` and `419`: a `DEGRADED` agent continues to propose and only the
  flagged capability class is blocked. `runtime.py:129` rejects every proposal of
  such an agent, as if it were suspended; the code knows no capability classes.
  `RestrictedNeverAccepted` therefore holds for `DEGRADED` agents too.
* `DIR_Architectural_Pattern.md:937`: "Every patch MUST stay inside signed `min_floor` / `max_ceiling`
  envelopes. Missing envelope → fail closed." A null patch removes the bound
  (`amendments.py:50` compares it with nothing), an end of the envelope that was not
  signed stops nothing (`:52`), a drift has no envelope, and a max that was
  signed beyond its own ceiling counts until it is amended. `EnvelopeKept` and
  `EnvelopeUnlessTorn` name these as what they do not promise.

## What is proved

For every value of the constants that meets the named assumptions (which TLC
evaluates in the runs):

* `ResourceLock_proofs`: `TypeOK`, `NoOversellUnlessRaced`, `TableWithinCapacity`,
  `SoleHolder`, and the refinement `ImplementsReservationBook`. The
  inductive invariant says that a flow past a check, and not stale, still finds the room it saw; a write then keeps the sum in capacity,
  and makes everyone who read before it stale. In a database the sum over a
  resource is the single row's amount, bounded when it is written. The code sums anew at
  each check, and so does `Reserved`; that needs
  facts about sums over a finite set, which the fold of the community modules defines by
  recursion: each induction takes a minimal set that fails, which exists because
  the subsets of a finite set are well-founded, and leads it to a contradiction. With
  them the refinement follows: a check that stands finds the room `Reserve` asks for. Of the
  violated `NoOvercommit`, `MemoryOvercommitNeedsRace` is what holds: in memory the
  flows are granted too much only by an overtaken call. (In a database
  no race is needed. The row of an earlier grant is replaced, and the next check does
  not see that grant.) `ReservationKept` holds in memory as well.
* `DecisionRuntime_proofs`: `TypeOK` and every safety property of the run. The invariant describes one flow by its program counter: the count
  it read is the count (only its own orchestrator writes it), rejected flows are
  below the maximum until the write, recorded rejections are the present count
  plus at most a full budget per crash, and the row read puts at each time at most the bound
  on a proposal that some row since the submission put there, whatever the clock
  does between the read and the validation (`ContractHolds`). `NoEarlyExhaustion` rests
  on the recorded rejections being at least the count. A step of one flow leaves the others' alone.
  For `AuditTrail` the rows a flow has and the rows it still owes, by its program
  counter, make up its count, and every crash may cost one; amendments and their rows
  balance in the same way. Of `FlowsEnd` everything but the fairness is proved:
  `Distance` counts the steps a flow has left, at most `12 * MaxRetries + 9` and 0
  exactly when the flow is over or left (`DistanceBounded`), and every step of its orchestrator
  lowers it (`FlowsProgress`) but the retry of a proposal turned away at the gate,
  which only a restricted agent's is; only a crash raises it otherwise.
* `AgentRegistry_proofs`: `TypeOK`, `RowCurrentUnlessTorn`, `EnvelopeUnlessTorn`,
  and the refinement `ImplementsDirectory`. The invariant says that an amendment
  under way is marked as behind or still holds what the row holds. The refinement
  maps a row to its `EffectiveTerms`, which the passage of time leaves alone. Of the documented
  envelope `EnvelopeInForce` is what holds: the bound
  in force leaves it only by an overtaken amendment, a contract that
  signs a max beyond its own ceiling, or a null patch in force.
* `ContractRules_proofs`: `TypeOK`, `JudgedAsAuthored`, `EnvelopeKept`, for every set of
  contracts, amendments and proposals. The first is a lemma per clause and shape: the
  rule a clause compiles to is broken just by the proposals the clause forbids. The
  second follows from what a valid patch is: the latest amendment in force of a
  parameter decides (`Latest`), and was checked against the ends of the envelope of the
  rule that is still there (`Bounded`, `Narrowed`); what no amendment in force touches is as
  signed (`Untouched`). It speaks of every rule, and where an end is missing of the
  other end.
* `EventMesh_proofs`: every property of the run, for any number of instruments and
  positions and any prices. `OneWoken` rests on instrument agents being called first
  and on `Remember`: once an agent is woken, the price has not moved any more, and
  every later predicate of the same event is false. `AgentsFollowPositions` says of
  each stage of opening and closing which of the three records are already changed.
  `ReductionsOnRecord` is an equation that proposing, refusing and recording a reduction
  each keep.
* `Escalation_proofs`: `TypeOK`, `OverspendBounded`, `RequestsPaid`,
  `DecisionsFinal`. The callers that have counted and not recorded are added to
  the tokens: counting puts the sum below budget plus callers, recording does not
  raise it, and time, handshakes and failures lower it. It rests on no caller's
  `now` lying in the future.
* `Execution_proofs`: `TypeOK`, `RunOnceUnlessExcused`, `CompensatedOnceUnlessExcused`
  and `FailureOnFile`. The first two balance an account: a key has an excuse for
  every run of it, but for one while its result is cached or its function is under
  way; a flow's compensations stay below its failures and excuses, and reach them only
  while it is clean or being compensated. The third rests on a compensator that is
  about to clear having undone the failure it read.
* `DecisionLedger_proofs`: every property of the run, the refinement
  `ImplementsBindingLog` included. What a stage of a verification
  has established is carried from stage to stage: past `HashContext` the context
  that matched was in force, past `HashContract` the contract was, and while the
  contract is not rewritten the one to be read is the one certified. For
  `OneEntryPerBoundFlow` the kernels about to add are counted with the entries:
  a scan that finds nothing raises the count by one, and only an overlap raises it
  past one; in a database there is none, so that a flow has one entry at most
  (`DatabaseBindsOnce`). An update that has read a cell has in `read`, `missed` and
  `excused` together everything merged there, which makes `UpdatesKeptUnlessOvertaken` inductive.

The assumptions are those the code justifies: finite sets of flows and callers where
something is counted or summed over them (`FlowsAssumption` of `ResourceLock`: the
entries of a dict or a table; `CallersAssumption` of `Escalation`), natural numbers for limits, capacities and bounds.

Only model-checked: `FlowsEnd`, since liveness under fairness and ENABLED are beyond
the prover; its safety content is `FlowsProgress`, above. Every other property of a
passing run is a theorem, for every value of the constants. Not proved either is that
a recursive definition computes what a sequence of calls does for every input; the sums
above are the one fold the properties need.

## Not modelled

Hazards that `PROJECT.json` lists without a property, each with its reason:

* a step that was compensated keeps its cached result (`idempotency.py:73`): what a
  compensation undoes is the caller's business, and the library relates it to nothing;
* the two layers of `compile_working_context` may be of different times
  (`context_store.py:101`): no caller updates both together, so that no statement is
  contradicted;
* the kernel of sample 33 never reads the agent's status
  (`samples/33_insurance_underwriting/kernel.py:94`): the sample states no such gate;
* rows of `resource_locks` outlive the process that took them (`schema.sql:259`): they are
  modelled (`Crash` keeps `held`), cost capacity and oversell none, and nothing
  promises to give it back;
* two evaluations of one flow at once would lose a rejection (`intent_retry.py:53`): every
  caller in the repository evaluates a flow's proposals one after the other;
* PostgreSQL stamps a token with the beginning of its transaction (`pg_repo.py:811`): modelled,
  and `OverspendBounded` is a bound over these stamps;
* in memory a second decision of an escalation overwrites the first (`memory.py:382`):
  modelled, and stated for no property, since nothing says that it is final there;
* the session and the contract that evidence was compared with may never have been in
  force together (`pci.py:83`): the evidence hashes them apart and promises nothing of
  the pair.

Parts that are left out or cut down:

* PostgreSQL: threads that share one connection, a connection left in an aborted
  transaction, and a commit whose answer is lost. Each caller has its own connection,
  as the processes of the samples have.
* Lifecycle transitions between open statuses, which log a row and read nothing; audit
  queries; tables nothing reads.
* `jit.py` and `wakeup.py`: pure predicates that keep no state. What sample 31 does
  in their place (one last price for many agents) is in `EventMesh`.
* Data types, models and identifiers; LLM clients and logging.
* `tools/contract`, an offline authoring tool with a web interface and documents of its
  own, and the documentation site.
* The rest of `samples/`: two thirds of the repository's Python. They are scripts that
  run one scenario in one thread with mock agents, print what happens and write a
  report; the calls they make are those of the components above, in the order the
  modelled programs make them, and their text, HTML and chart generation has no
  state to be right or wrong about. This is why the map, which names the
  lines of `dir_core` that keep or change state or decide, covers a small share of the
  repository's.
