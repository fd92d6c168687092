---------------------------- MODULE ResourceLock ----------------------------
(***************************************************************************)
(* Reservation locks (dir_core/resource_lock.py) over the built-in storage *)
(* backends (storage/memory.py, storage/sqlite.py) and the samples'        *)
(* PostgreSQL one (shared/storage/pg_repo.py, one connection per caller).  *)
(*                                                                         *)
(* ResourceLockManager.acquire reads the reserved amount of each requested *)
(* resource, one storage call per resource in sorted order, and then       *)
(* writes the whole request in one storage call that checks nothing.       *)
(* Other flows may run between any two of these calls.                     *)
(*                                                                         *)
(* A request is a function Resources -> Nat where 0 is "not in the dict".  *)
(***************************************************************************)
EXTENDS Integers, FiniteSets, Functions

CONSTANTS
    Flows,        \* the dfids that reserve resources, one caller each
    Resources,    \* resource ids, numbered in their sorted order
    Capacity,     \* availability_provider, for each resource
    Requests,     \* the requests callers make
    Backends      \* the storages considered

ASSUME FlowsAssumption     == IsFiniteSet(Flows)
ASSUME ResourcesAssumption == Resources \subseteq Nat
ASSUME CapacityAssumption  == Capacity \in [Resources -> Nat]
ASSUME RequestsAssumption  == Requests \subseteq [Resources -> Nat]
ASSUME BackendsAssumption  == Backends \subseteq {"memory", "sqlite", "postgres"}

VARIABLES
    backend,    \* the storage this deployment uses, fixed
    held,       \* the lock table: amount of each resource stored for each flow
    pc,         \* where each flow's acquire() call is
    want,       \* the request of that call
    unchecked,  \* the requested resources whose availability it has yet to read
    granted,    \* what each flow was told it reserved and has not released
    stale,      \* history: a resource the call has read was written since
    raced       \* history: some call wrote although it was stale

vars == <<backend, held, pc, want, unchecked, granted, stale, raced>>

-----------------------------------------------------------------------------

Nothing == [r \in Resources |-> 0]

Asked(req) == {r \in Resources : req[r] > 0}

(* The sum of a table's entries for r over the flows of S.                 *)
Reserved(table, r, S) == SumFunctionOnSet([f \in Flows |-> table[f][r]], S)

(* get_locked_amount(r, exclude_dfid = f): a SUM over the table, computed  *)
(* anew by each call.                                                      *)
LockedByOthers(r, f) == Reserved(held, r, Flows \ {f})

TypeOK ==
    /\ backend \in Backends
    /\ held \in [Flows -> [Resources -> Nat]]
    /\ pc \in [Flows -> {"idle", "check", "write"}]
    /\ want \in [Flows -> [Resources -> Nat]]
    /\ unchecked \in [Flows -> SUBSET Resources]
    /\ granted \in [Flows -> [Resources -> Nat]]
    /\ stale \in [Flows -> BOOLEAN]
    /\ raced \in BOOLEAN

Init ==
    /\ backend \in Backends
    /\ held = [f \in Flows |-> Nothing]
    /\ pc = [f \in Flows |-> "idle"]
    /\ want = [f \in Flows |-> Nothing]
    /\ unchecked = [f \in Flows |-> {}]
    /\ granted = [f \in Flows |-> Nothing]
    /\ stale = [f \in Flows |-> FALSE]
    /\ raced = FALSE

-----------------------------------------------------------------------------

(* acquire(f, req) is called; its deadline lies in the future.             *)
Acquire(f, req) ==
    /\ pc[f] = "idle"
    /\ pc' = [pc EXCEPT ![f] = IF Asked(req) = {} THEN "write" ELSE "check"]
    /\ want' = [want EXCEPT ![f] = req]
    /\ unchecked' = [unchecked EXCEPT ![f] = Asked(req)]
    /\ stale' = [stale EXCEPT ![f] = FALSE]
    /\ UNCHANGED <<backend, held, granted, raced>>

(* Mutant: the reservations of other flows are not subtracted.             *)
EnoughAlone(f, r) == Capacity[r] >= want[f][r]

(* available - locked < resources[rid] fails                               *)
Enough(f, r) == Capacity[r] - LockedByOthers(r, f) >= want[f][r]

(* The loop over sorted_ids is at resource r.                              *)
AtResource(f, r) ==
    /\ pc[f] = "check"
    /\ r \in unchecked[f]
    /\ \A s \in unchecked[f] : r <= s

(* It finds enough of r ...                                                *)
CheckEnough(f, r) ==
    /\ AtResource(f, r)
    /\ Enough(f, r)
    /\ unchecked' = [unchecked EXCEPT ![f] = @ \ {r}]
    /\ pc' = [pc EXCEPT ![f] = IF unchecked[f] = {r} THEN "write" ELSE "check"]
    /\ UNCHANGED <<backend, held, want, granted, stale, raced>>

(* ... or acquire returns INSUFFICIENT_LIQUIDITY at once.                  *)
CheckShort(f, r) ==
    /\ AtResource(f, r)
    /\ ~Enough(f, r)
    /\ pc' = [pc EXCEPT ![f] = "idle"]
    /\ unchecked' = [unchecked EXCEPT ![f] = {}]
    /\ UNCHANGED <<backend, held, want, granted, stale, raced>>

(* Mutant of ReplaceRows: resource_locks keyed by (resource_id, dfid).     *)
MergeRows(f) ==
    held' = [held EXCEPT ![f] =
               [r \in Resources |-> IF want[f][r] > 0 THEN want[f][r] ELSE @[r]]]

(* Mutant: the batch is merged into what the flow held.                    *)
MemoryMerge(f) == backend = "memory" /\ MergeRows(f)

(* Mutant: a re-acquisition writes what it adds to the former reservation. *)
MemoryDelta(f) ==
    /\ backend = "memory"
    /\ held' = [held EXCEPT ![f] = [r \in Resources |-> want[f][r] - @[r]]]

(* MemoryResourceLockStorage.acquire_batch: _locks[dfid] = dict(resources), *)
(* which drops what the flow held before.                                  *)
MemoryWrite(f) ==
    /\ backend = "memory"
    /\ held' = [held EXCEPT ![f] = want[f]]

(* A row per resource, in a table whose primary key is resource_id alone:  *)
(* the row of another flow on the same resource is replaced.               *)
ReplaceRows(f) ==
    held' = [g \in Flows |-> [r \in Resources |->
               IF r \notin Asked(want[f]) THEN held[g][r]
               ELSE IF g = f THEN want[f][r] ELSE 0]]

(* SqliteResourceLockStorage.acquire_batch: INSERT OR REPLACE per resource *)
(* in one transaction.                                                     *)
SqliteWrite(f) == backend = "sqlite" /\ ReplaceRows(f)

(* PgResourceLockStorage.acquire_batch: ON CONFLICT (resource_id) DO UPDATE *)
(* under LOCK TABLE.  The lock is taken after the checks, whose reads it   *)
(* therefore does not protect.                                             *)
PostgresWrite(f) == backend = "postgres" /\ ReplaceRows(f)

(* A call g has already read a resource that f is about to write.           *)
ReadBefore(f, g) ==
    /\ g # f
    /\ pc[g] # "idle"
    /\ \E r \in Asked(want[f]) \cap Asked(want[g]) : r \notin unchecked[g]

(* The storage writes the batch and acquire returns ACQUIRED.              *)
WriteBatch(f) ==
    /\ pc[f] = "write"
    /\ MemoryWrite(f) \/ SqliteWrite(f) \/ PostgresWrite(f)
    /\ pc' = [pc EXCEPT ![f] = "idle"]
    /\ granted' = [granted EXCEPT ![f] = want[f]]
    /\ stale' = [g \in Flows |-> stale[g] \/ ReadBefore(f, g)]
    /\ raced' = (raced \/ stale[f])
    /\ UNCHANGED <<backend, want, unchecked>>

(* Some connection keeps the table locked until the deadline: acquire_batch *)
(* returns False, and after its sleep the manager's own deadline has passed *)
(* too, so that acquire returns RESOURCE_CONTENTION_TIMEOUT.  (A write that *)
(* raises is rolled back and ends the call in the same state.)             *)
WriteContended(f) ==
    /\ pc[f] = "write"
    /\ backend # "memory"
    /\ pc' = [pc EXCEPT ![f] = "idle"]
    /\ UNCHANGED <<backend, held, want, unchecked, granted, stale, raced>>

(* release(f)                                                              *)
Release(f) ==
    /\ pc[f] = "idle"
    /\ held' = [held EXCEPT ![f] = Nothing]
    /\ granted' = [granted EXCEPT ![f] = Nothing]
    /\ UNCHANGED <<backend, pc, want, unchecked, stale, raced>>

(* The process dies with its calls; the rows of a database outlive it, and *)
(* nothing reads their expires_at column.                                  *)
Crash ==
    /\ held' = IF backend = "memory" THEN [f \in Flows |-> Nothing] ELSE held
    /\ pc' = [f \in Flows |-> "idle"]
    /\ unchecked' = [f \in Flows |-> {}]
    /\ granted' = [f \in Flows |-> Nothing]
    /\ UNCHANGED <<backend, want, stale, raced>>

Next ==
    \/ \E f \in Flows : \/ \E req \in Requests : Acquire(f, req)
                        \/ \E r \in Resources : CheckEnough(f, r) \/ CheckShort(f, r)
                        \/ WriteBatch(f)
                        \/ WriteContended(f)
                        \/ Release(f)
    \/ Crash

Spec == Init /\ [][Next]_vars

-----------------------------------------------------------------------------
(* Properties *)

(* The lock table exceeds a resource's capacity only if some acquire() wrote *)
(* after another flow had written a resource the first had already checked: *)
(* checks and writes that do not overlap never over-allocate, whatever the *)
(* re-acquisitions, releases and crashes in between.                       *)
NoOversellUnlessRaced ==
    ~raced => \A r \in Resources : Reserved(held, r, Flows) <= Capacity[r]

(* In a database one flow at most holds a resource: the primary key of     *)
(* resource_locks makes a reservation exclusive, and the later one wins.   *)
SoleHolder ==
    backend # "memory" =>
        \A r \in Resources : \A f, g \in Flows :
            held[f][r] > 0 /\ held[g][r] > 0 => f = g

(* In a database the table itself never exceeds the capacity, raced or not,  *)
(* because a write replaces the row the check may have missed.             *)
TableWithinCapacity ==
    backend # "memory" => \A r \in Resources : Reserved(held, r, Flows) <= Capacity[r]

(* In memory the lock table and the answers of acquire and release are a   *)
(* ReservationBook's: every reservation found room among those the others  *)
(* held when it was written, unless its checks had been overtaken, and a   *)
(* flow holds exactly what it was told.  (A database is not one: it gives  *)
(* a flow's row to the next to write, and is left out of the comparison.)  *)
InMemory(table) == IF backend = "memory" THEN table ELSE [f \in Flows |-> Nothing]

Book == INSTANCE ReservationBook WITH
            book      <- InMemory(held),
            told      <- InMemory(granted),
            overtaken <- backend = "memory" /\ raced

ImplementsReservationBook == Book!BookSpec

(* What storage/base.py asks of every backend: two concurrent callers      *)
(* cannot both see enough room and both succeed.  (No backend does.)       *)
NoOvercommit ==
    \A r \in Resources : Reserved(granted, r, Flows) <= Capacity[r]
=============================================================================
