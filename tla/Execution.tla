------------------------------ MODULE Execution ------------------------------
(***************************************************************************)
(* The execution of a multi-step flow: every step runs through             *)
(* IdempotencyGuard.run (idempotency.py), a step that fails marks the flow *)
(* dirty, and SagaCompensation.execute_compensation (saga.py) undoes it,   *)
(* in memory or in a database, SQLite or the samples' PostgreSQL           *)
(* (shared/storage/pg_repo.py): the steps below are the same in both.      *)
(*                                                                         *)
(* Several callers may execute one flow (a retry beside the attempt it     *)
(* gave up on) and several compensators may undo it.  Other steps come     *)
(* between any two storage calls, between them and the function a step     *)
(* runs or the callback that compensates, and the process may crash.       *)
(*                                                                         *)
(* A flow's step has one set of parameters, so that <<flow, step>> is what *)
(* its idempotency key tells apart.  A result is only "not None" or None.  *)
(***************************************************************************)
EXTENDS Naturals

CONSTANTS
    Callers,
    Compensators,
    Flows,
    Steps,         \* the number of steps of a flow
    Backends,      \* the storages considered
    MaxAttempts,   \* bound on the executions of a flow
    MaxCalls,      \* bound on the compensations of a flow
    MaxCrashes     \* bound on the crashes of a behaviour

ASSUME FlowsAssumption == Flows # {}
ASSUME StepsAssumption == Steps \in Nat \ {0}
ASSUME BackendsAssumption == Backends \subseteq {"memory", "sqlite", "postgres"}
ASSUME BoundsAssumption == {MaxAttempts, MaxCalls, MaxCrashes} \subseteq Nat

VARIABLES
    backend,    \* the storage this deployment uses, fixed
    cached,     \* idempotency_cache: the keys with a result that is not None
    dirty,      \* saga_dirty_state: the failure recorded last, 0 for no row
    pc,         \* where each caller is, and on which step of which flow
    flow,
    step,
    cpc,        \* where each compensator is, on which flow
    cflow,
    seen,       \* the failure it read
    attempts,   \* executions of each flow so far
    crashes,    \* crashes so far
    runs,       \* history: calls of the function of each key
    mayRerun,   \* history: reasons for a key to run again (see Excused)
    marks,      \* history: failures recorded for each flow
    calls,      \* history: compensation callbacks made for each flow
    mayRedo,    \* history: reasons to compensate a flow again
    undone,     \* history: failures a callback compensated
    dropped     \* history: failures removed from the table uncompensated

tables      == <<backend, cached, dirty>>
caller      == <<pc, flow, step>>
compensator == <<cpc, cflow, seen>>
onKeys      == <<runs, mayRerun>>
onFlows     == <<marks, calls, mayRedo, undone, dropped>>
vars == <<tables, caller, compensator, attempts, crashes, onKeys, onFlows>>

-----------------------------------------------------------------------------

Keys == Flows \X (1 .. Steps)

TypeOK ==
    /\ backend \in Backends
    /\ cached \in [Keys -> BOOLEAN]
    /\ dirty \in [Flows -> Nat]
    /\ pc \in [Callers -> {"idle", "get", "func", "set", "setNone", "mark"}]
    /\ flow \in [Callers -> Flows]
    /\ step \in [Callers -> 1 .. Steps]
    /\ cpc \in [Compensators -> {"idle", "callback", "clear"}]
    /\ cflow \in [Compensators -> Flows]
    /\ seen \in [Compensators -> Nat]
    /\ attempts \in [Flows -> 0 .. MaxAttempts]
    /\ crashes \in 0 .. MaxCrashes
    /\ runs \in [Keys -> Nat]
    /\ mayRerun \in [Keys -> Nat]
    /\ marks \in [Flows -> Nat]
    /\ calls \in [Flows -> Nat]
    /\ mayRedo \in [Flows -> Nat]
    /\ undone \in [Flows -> SUBSET Nat]
    /\ dropped \in [Flows -> SUBSET Nat]

Init ==
    /\ backend \in Backends
    /\ cached = [k \in Keys |-> FALSE]
    /\ dirty = [f \in Flows |-> 0]
    /\ pc = [c \in Callers |-> "idle"]
    /\ flow = [c \in Callers |-> CHOOSE f \in Flows : TRUE]
    /\ step = [c \in Callers |-> 1]
    /\ cpc = [p \in Compensators |-> "idle"]
    /\ cflow = [p \in Compensators |-> CHOOSE f \in Flows : TRUE]
    /\ seen = [p \in Compensators |-> 0]
    /\ attempts = [f \in Flows |-> 0]
    /\ crashes = 0
    /\ runs = [k \in Keys |-> 0]
    /\ mayRerun = [k \in Keys |-> 0]
    /\ marks = [f \in Flows |-> 0]
    /\ calls = [f \in Flows |-> 0]
    /\ mayRedo = [f \in Flows |-> 0]
    /\ undone = [f \in Flows |-> {}]
    /\ dropped = [f \in Flows |-> {}]

-----------------------------------------------------------------------------
(* IdempotencyGuard.run, for each step of a flow in turn.                  *)

Key(c) == <<flow[c], step[c]>>

(* Callers that missed k and have yet to store a result for it.            *)
Running(k) == {c \in Callers : pc[c] \in {"func", "set", "setNone"} /\ Key(c) = k}

(* A run of k is excused if another one was under way when it missed, and  *)
(* if a run before it left no result that a later lookup finds.            *)
Excused(k) == [mayRerun EXCEPT ![k] = @ + 1]

(* Mutant: one step past the end.                                          *)
PastLast(c) == step[c] > Steps

AtLast(c) == step[c] = Steps

(* guard.run returned: the caller goes on to the next step or is done.     *)
Advance(c) ==
    /\ pc' = [pc EXCEPT ![c] = IF AtLast(c) THEN "idle" ELSE "get"]
    /\ step' = [step EXCEPT ![c] = IF AtLast(c) THEN 1 ELSE @ + 1]

(* An attempt at the flow f.                                               *)
Begin(c, f) ==
    /\ pc[c] = "idle"
    /\ attempts[f] < MaxAttempts
    /\ attempts' = [attempts EXCEPT ![f] = @ + 1]
    /\ pc' = [pc EXCEPT ![c] = "get"]
    /\ flow' = [flow EXCEPT ![c] = f]
    /\ step' = [step EXCEPT ![c] = 1]
    /\ UNCHANGED <<tables, compensator, crashes, onKeys, onFlows>>

(* backend.get(key) finds a result, which run() returns however old it is: *)
(* nothing reads the expires_at column.                                    *)
Hit(c) ==
    /\ pc[c] = "get"
    /\ cached[Key(c)]
    /\ Advance(c)
    /\ UNCHANGED <<tables, flow, compensator, attempts, crashes, onKeys, onFlows>>

(* backend.get(key) returns None, for want of a row or because the row     *)
(* holds None, and run() calls the function.                               *)
Miss(c) ==
    /\ pc[c] = "get"
    /\ ~cached[Key(c)]
    /\ pc' = [pc EXCEPT ![c] = "func"]
    /\ runs' = [runs EXCEPT ![Key(c)] = @ + 1]
    /\ mayRerun' = IF Running(Key(c)) = {} THEN mayRerun ELSE Excused(Key(c))
    /\ UNCHANGED <<tables, flow, step, compensator, attempts, crashes, onFlows>>

(* The function returns something, or None.                                *)
Return(c, ok) ==
    /\ pc[c] = "func"
    /\ pc' = [pc EXCEPT ![c] = IF ok THEN "set" ELSE "setNone"]
    /\ UNCHANGED <<tables, flow, step, compensator, attempts, crashes, onKeys, onFlows>>

(* It raises: run() stores nothing and the caller marks the flow dirty.    *)
Raise(c) ==
    /\ pc[c] = "func"
    /\ pc' = [pc EXCEPT ![c] = "mark"]
    /\ mayRerun' = Excused(Key(c))
    /\ UNCHANGED <<tables, flow, step, compensator, attempts, crashes, runs, onFlows>>

(* Mutant: a result is kept only when it confirms one on file.             *)
SetKnown(c) == [cached EXCEPT ![Key(c)] = @ /\ pc[c] = "set"]

(* backend.set(key, result) replaces what is on file.                      *)
Set(c) == [cached EXCEPT ![Key(c)] = pc[c] = "set"]

Store(c) ==
    /\ pc[c] \in {"set", "setNone"}
    /\ cached' = Set(c)
    /\ mayRerun' = IF pc[c] = "set" THEN mayRerun ELSE Excused(Key(c))
    /\ Advance(c)
    /\ UNCHANGED <<backend, dirty, flow, compensator, attempts, crashes, runs, onFlows>>

(* The database refuses: the write raises after the function has run, and  *)
(* the caller cannot tell that from a step that failed.                    *)
StoreFails(c) ==
    /\ pc[c] \in {"set", "setNone"}
    /\ backend # "memory"
    /\ pc' = [pc EXCEPT ![c] = "mark"]
    /\ mayRerun' = Excused(Key(c))
    /\ UNCHANGED <<tables, flow, step, compensator, attempts, crashes, runs, onFlows>>

-----------------------------------------------------------------------------
(* SagaCompensation.                                                       *)

(* mark_dirty: the row of the flow is written or replaced.                 *)
MarkDirty(c) ==
    /\ pc[c] = "mark"
    /\ pc' = [pc EXCEPT ![c] = "idle"]
    /\ marks' = [marks EXCEPT ![flow[c]] = @ + 1]
    /\ dirty' = [dirty EXCEPT ![flow[c]] = marks[flow[c]] + 1]
    /\ UNCHANGED <<backend, cached, flow, step, compensator, attempts, crashes,
                   onKeys, calls, mayRedo, undone, dropped>>

(* The database refuses: the failure leaves no trace.                      *)
MarkFails(c) ==
    /\ pc[c] = "mark"
    /\ backend # "memory"
    /\ pc' = [pc EXCEPT ![c] = "idle"]
    /\ UNCHANGED <<tables, flow, step, compensator, attempts, crashes, onKeys, onFlows>>

Compensating(f) == {p \in Compensators : cpc[p] # "idle" /\ cflow[p] = f}

(* execute_compensation with REVERT or CLOSE_ALL finds the flow dirty and   *)
(* calls its callback.  (On a clean flow it returns; NOOP, ALERT_HUMAN and *)
(* an action without a callback change nothing.)                           *)
Compensate(p, f) ==
    /\ cpc[p] = "idle"
    /\ dirty[f] # 0
    /\ calls[f] < MaxCalls
    /\ cpc' = [cpc EXCEPT ![p] = "callback"]
    /\ cflow' = [cflow EXCEPT ![p] = f]
    /\ seen' = [seen EXCEPT ![p] = dirty[f]]
    /\ calls' = [calls EXCEPT ![f] = @ + 1]
    /\ mayRedo' = IF Compensating(f) = {} THEN mayRedo ELSE [mayRedo EXCEPT ![f] = @ + 1]
    /\ UNCHANGED <<tables, caller, attempts, crashes, onKeys, marks, undone, dropped>>

(* The callback returns True ...                                           *)
CallbackTrue(p) ==
    /\ cpc[p] = "callback"
    /\ cpc' = [cpc EXCEPT ![p] = "clear"]
    /\ undone' = [undone EXCEPT ![cflow[p]] = @ \cup {seen[p]}]
    /\ UNCHANGED <<tables, caller, cflow, seen, attempts, crashes, onKeys,
                   marks, calls, mayRedo, dropped>>

(* Mutant: what the callback returns is not looked at.                     *)
CallbackIgnored(p) ==
    /\ cpc[p] = "callback"
    /\ cpc' = [cpc EXCEPT ![p] = "clear"]
    /\ UNCHANGED <<tables, caller, cflow, seen, attempts, crashes, onKeys, onFlows>>

(* ... or False, or raises: the flow stays dirty.                          *)
CallbackFails(p) ==
    /\ cpc[p] = "callback"
    /\ cpc' = [cpc EXCEPT ![p] = "idle"]
    /\ mayRedo' = [mayRedo EXCEPT ![cflow[p]] = @ + 1]
    /\ UNCHANGED <<tables, caller, cflow, seen, attempts, crashes, onKeys,
                   marks, calls, undone, dropped>>

(* What removing the row of f drops when only the failure m was undone.    *)
Overtaken(f, m) == {dirty[f]} \ {0, m}

(* Mutant: the row is not removed.                                         *)
ClearedNever(p) == dirty

(* clear_dirty removes the row of the flow, whichever failure it holds.    *)
Cleared(p) == [dirty EXCEPT ![cflow[p]] = 0]

Clear(p) ==
    /\ cpc[p] = "clear"
    /\ cpc' = [cpc EXCEPT ![p] = "idle"]
    /\ dirty' = Cleared(p)
    /\ dropped' = [dropped EXCEPT ![cflow[p]] = @ \cup Overtaken(cflow[p], seen[p])]
    /\ UNCHANGED <<backend, cached, caller, cflow, seen, attempts, crashes, onKeys,
                   marks, calls, mayRedo, undone>>

(* The database refuses: the flow stays dirty although it was compensated. *)
ClearFails(p) ==
    /\ cpc[p] = "clear"
    /\ backend # "memory"
    /\ cpc' = [cpc EXCEPT ![p] = "idle"]
    /\ mayRedo' = [mayRedo EXCEPT ![cflow[p]] = @ + 1]
    /\ UNCHANGED <<tables, caller, cflow, seen, attempts, crashes, onKeys,
                   marks, calls, undone, dropped>>

-----------------------------------------------------------------------------

(* The process dies, and with it what the memory backend holds.            *)
Crash ==
    /\ crashes < MaxCrashes
    /\ crashes' = crashes + 1
    /\ pc' = [c \in Callers |-> "idle"]
    /\ cpc' = [p \in Compensators |-> "idle"]
    /\ mayRerun' = [k \in Keys |->
         mayRerun[k] + (IF Running(k) # {} \/ (backend = "memory" /\ cached[k]) THEN 1 ELSE 0)]
    /\ mayRedo' = [f \in Flows |->
         mayRedo[f] + (IF Compensating(f) # {} THEN 1 ELSE 0)]
    /\ IF backend = "memory"
       THEN /\ cached' = [k \in Keys |-> FALSE]
            /\ dirty' = [f \in Flows |-> 0]
            /\ dropped' = [f \in Flows |-> dropped[f] \cup Overtaken(f, 0)]
       ELSE UNCHANGED <<cached, dirty, dropped>>
    /\ UNCHANGED <<backend, flow, step, cflow, seen, attempts, runs,
                   marks, calls, undone>>

CallerStep(c) ==
    \/ \E f \in Flows : Begin(c, f)
    \/ Hit(c) \/ Miss(c) \/ \E ok \in BOOLEAN : Return(c, ok)
    \/ Raise(c) \/ Store(c) \/ StoreFails(c)
    \/ MarkDirty(c) \/ MarkFails(c)

CompensatorStep(p) ==
    \/ \E f \in Flows : Compensate(p, f)
    \/ CallbackTrue(p) \/ CallbackFails(p) \/ Clear(p) \/ ClearFails(p)

Next ==
    \/ \E c \in Callers : CallerStep(c)
    \/ \E p \in Compensators : CompensatorStep(p)
    \/ Crash

Spec == Init /\ [][Next]_vars

-----------------------------------------------------------------------------
(* Properties *)

(* The function of a step runs once, and again only for a reason: a run    *)
(* that overlapped another one of the same key, or one whose result a later *)
(* lookup cannot find (it raised, it returned None, it could not be stored, *)
(* the process died, or the memory that held it did).  One reason, one run. *)
RunOnceUnlessExcused == \A k \in Keys : runs[k] <= 1 + mayRerun[k]

(* A failure is compensated once, and again only for a reason: a           *)
(* compensation that overlapped another one of the flow, whose callback did *)
(* not succeed, or that did not get to remove the row.                     *)
CompensatedOnceUnlessExcused == \A f \in Flows : calls[f] <= marks[f] + mayRedo[f]

(* The latest failure of a flow is on file until it was compensated, unless *)
(* its row was removed by a compensation that had read an earlier failure, *)
(* or the memory that held it was lost.                                    *)
FailureOnFile ==
    \A f \in Flows : marks[f] > 0 =>
        marks[f] \in {dirty[f]} \cup undone[f] \cup dropped[f]
=============================================================================
