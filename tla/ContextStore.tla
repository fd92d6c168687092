---------------------------- MODULE ContextStore ----------------------------
(***************************************************************************)
(* The two layers of ContextStore (context_store.py) over the built-in     *)
(* storages and the samples' PostgreSQL one (shared/storage/pg_repo.py): a *)
(* session for each flow and a state for each agent.  Both are updated by  *)
(* reading a dictionary, merging keys into it and writing it back whole,   *)
(* in two storage calls.  A layer's entry is called a cell; of its content *)
(* the model keeps which keys it has.                                      *)
(*                                                                         *)
(* Under SQLite a cell hangs on a row of agent_registry: a session's write *)
(* creates that row, a state's write fails without it, and the REPLACE of  *)
(* a handshake or an amendment deletes the agent's state.  Under Postgres  *)
(* both writes create the row, and an upsert leaves the state alone.       *)
(***************************************************************************)
EXTENDS Naturals

CONSTANTS
    Flows,
    Agents,
    AgentOf,      \* the agent of each flow
    Keys,         \* keys of a session or a state
    Updaters,     \* callers of update_session and update_state
    Backends,     \* the storages considered
    MaxUpdates    \* bound on the updates of a behaviour

ASSUME CellsAssumption == Flows \cap Agents = {}
ASSUME AgentOfAssumption == AgentOf \in [Flows -> Agents]
ASSUME BackendsAssumption == Backends \subseteq {"memory", "sqlite", "postgres"}
ASSUME UpdatesAssumption == MaxUpdates \in Nat

VARIABLES
    backend,      \* the storage this deployment uses, fixed
    registered,   \* agents with a row in agent_registry, where a cell needs one
    content,      \* the keys each cell has
    pending,      \* updates that have read their cell and not yet written it
    updates,      \* updates begun so far
    merged,       \* history: the keys whose update of a cell has returned
    excused       \* history: keys a cell may have lost (see WriteCell, Replace)

ctxvars == <<backend, registered, content, pending, updates, merged, excused>>

-----------------------------------------------------------------------------

Cells == Flows \cup Agents

(* An update between its two calls: what it read, and (history) what       *)
(* others wrote into the cell since.                                       *)
Update == [who : Updaters, cell : Cells, key : Keys, read : SUBSET Keys, missed : SUBSET Keys]

CtxTypeOK ==
    /\ backend \in Backends
    /\ registered \subseteq Agents
    /\ content \in [Cells -> SUBSET Keys]
    /\ pending \subseteq Update
    /\ \A w, x \in pending : w.who = x.who => w = x
    /\ updates \in 0 .. MaxUpdates
    /\ merged \in [Cells -> SUBSET Keys]
    /\ excused \in [Cells -> SUBSET Keys]

CtxInit ==
    /\ backend \in Backends
    /\ registered = {}
    /\ content = [c \in Cells |-> {}]
    /\ pending = {}
    /\ updates = 0
    /\ merged = [c \in Cells |-> {}]
    /\ excused = [c \in Cells |-> {}]

(* get_session or get_state: {} for a cell that was never written.         *)
ReadCell(u, c, k) ==
    /\ \A w \in pending : w.who # u
    /\ updates < MaxUpdates
    /\ updates' = updates + 1
    /\ pending' = pending \cup
         {[who |-> u, cell |-> c, key |-> k, read |-> content[c], missed |-> {}]}
    /\ UNCHANGED <<backend, registered, content, merged, excused>>

(* Mutant: the update replaces what is there.                              *)
Replacing(w) == {w.key}

(* current.update(updates).                                                *)
Merging(w) == w.read \cup {w.key}

(* An agent_state row must name a registered agent, and SQLite's set_state *)
(* does not see to it.                                                     *)
MayWrite(c) == backend = "sqlite" => c \in Flows \cup registered

(* The updates under way once w has written.                               *)
Behind(w) ==
    {IF x.cell = w.cell THEN [x EXCEPT !.missed = @ \cup w.read \cup {w.key}] ELSE x :
        x \in pending \ {w}}

(* set_session or set_state.  A session that names its agent registers it  *)
(* under SQLite.  What others wrote since w read is lost.                  *)
WriteCell(w) ==
    /\ MayWrite(w.cell)
    /\ content' = [content EXCEPT ![w.cell] = Merging(w)]
    /\ pending' = Behind(w)
    /\ \/ UNCHANGED registered
       \/ /\ backend = "sqlite" /\ w.cell \in Flows
          /\ registered' = registered \cup {AgentOf[w.cell]}
    /\ merged' = [merged EXCEPT ![w.cell] = @ \cup {w.key}]
    /\ excused' = [excused EXCEPT ![w.cell] = (@ \cup w.missed) \ (w.read \cup {w.key})]
    /\ UNCHANGED <<backend, updates>>

(* The foreign key of an unregistered agent's state, a database that stays *)
(* locked or a connection that is lost: the update raises.                 *)
WriteFails(w) ==
    /\ backend # "memory"
    /\ pending' = pending \ {w}
    /\ UNCHANGED <<backend, registered, content, updates, merged, excused>>

(* A handshake or an amendment writes the agent's registry row.            *)
Replace(a) ==
    /\ IF backend = "sqlite"
       THEN /\ registered' = registered \cup {a}
            /\ content' = [content EXCEPT ![a] = {}]
            /\ excused' = [excused EXCEPT ![a] = merged[a]]
       ELSE UNCHANGED <<registered, content, excused>>
    /\ UNCHANGED <<backend, pending, updates, merged>>

(* What was merged into a cell is there, unless an update that had read    *)
(* before that merge overwrote it, or the cell is the state of an agent    *)
(* whose registry row was replaced under SQLite.                           *)
UpdatesKeptUnlessOvertaken == \A c \in Cells : merged[c] \subseteq content[c] \cup excused[c]
=============================================================================
