--------------------------- MODULE AgentRegistry ----------------------------
(***************************************************************************)
(* AgentRegistry (agent_registry.py) with contract amendments              *)
(* (amendments.py) over each storage backend.                              *)
(*                                                                         *)
(* A handshake and a status change are one storage call each.  A parameter *)
(* amendment is four: it reads the contract it validates the patch against, *)
(* reads the contract again to extend it, reads the row for its token, and *)
(* writes a whole new row.  Other callers may run between any two of them. *)
(* (An operator that dies half-way is one that takes no further step.)     *)
(*                                                                         *)
(* A contract is abstracted to one range invariant: the max it signs, the  *)
(* max_ceiling of its envelope, and whether it is runtime_amendable.       *)
(***************************************************************************)
EXTENDS Naturals, Sequences, FiniteSetsExt

CONSTANTS
    Agents,
    Limits,         \* the values a contract's or a patch's "max" takes
    Unlimited,      \* "no max": an empty contract, a missing ceiling, {"max": null}
    Contracts,      \* the contracts agents present
    Operators,      \* the humans who amend contracts
    MaxHandshakes,  \* bounds on a behaviour
    MaxAmendments,
    MaxClock

ASSUME LimitsAreNumbers ==
    /\ Limits \subseteq Nat
    /\ Unlimited \in Nat
    /\ \A l \in Limits : l <= Unlimited

Bounds == Limits \cup {Unlimited}

Contract == [max : Bounds, ceiling : Bounds, amendable : BOOLEAN]

ASSUME ContractsAssumption == Contracts \subseteq Contract
ASSUME BoundsAssumption == MaxHandshakes \in Nat /\ MaxAmendments \in Nat /\ MaxClock \in Nat

VARIABLES
    row,         \* agent_registry
    clock,       \* datetime.now()
    handshakes,  \* handshakes so far, hence the last token issued
    amendments,  \* amendments requested so far
    pc,          \* where each operator's apply_parameter_amendment is
    agent,       \* the agent it amends
    patch,       \* the amendment: the new max and when it expires
    stored,      \* the contract and amendments it read to extend
    token,       \* the session token it read
    issued,      \* history: the contract and token of the last handshake
    accepted,    \* history: the amendments accepted since
    behind,      \* history: the row was written since the operator first read it
    torn         \* history: such an operator wrote the row, and no handshake since

opvars  == <<pc, agent, patch, stored, token>>
history == <<issued, accepted, behind, torn>>
vars    == <<row, clock, handshakes, amendments, opvars, history>>

-----------------------------------------------------------------------------

Restricted == {"SUSPENDED", "RETIRED", "DEGRADED", "ESCALATION_ONLY"}

Statuses == Restricted \cup {"ACTIVE"}

Expiries == 1 .. MaxClock + 1   \* the last one is beyond the horizon: never

Amendment == [max : Bounds, expires : Expiries]

Tokens == 0 .. MaxHandshakes    \* 0 is None

(* The '{}' contract.                                                      *)
Empty == [max |-> Unlimited, ceiling |-> Unlimited, amendable |-> FALSE]

Unregistered == [status |-> "unknown", contract |-> Empty, amendments |-> <<>>, token |-> 0]

AgentRow == [status : Statuses \cup {"unknown"}, contract : Contract,
             amendments : Seq(Amendment), token : Tokens]

TypeOK ==
    /\ row \in [Agents -> AgentRow]
    /\ clock \in 0 .. MaxClock
    /\ handshakes \in Tokens
    /\ amendments \in 0 .. MaxAmendments
    /\ pc \in [Operators -> {"idle", "stored", "rec", "upsert"}]
    /\ agent \in [Operators -> Agents]
    /\ patch \in [Operators -> Amendment]
    /\ stored \in [Operators -> [contract : Contract, amendments : Seq(Amendment)]]
    /\ token \in [Operators -> Tokens]
    /\ issued \in [Agents -> [contract : Contract, token : Tokens]]
    /\ accepted \in [Agents -> Seq(Amendment)]
    /\ behind \in [Operators -> BOOLEAN]
    /\ torn \in [Agents -> BOOLEAN]

NoPatch == [max |-> Unlimited, expires |-> MaxClock + 1]

NothingStored == [contract |-> Empty, amendments |-> <<>>]

Init ==
    /\ row = [a \in Agents |-> Unregistered]
    /\ clock = 0
    /\ handshakes = 0
    /\ amendments = 0
    /\ pc = [o \in Operators |-> "idle"]
    /\ agent \in [Operators -> Agents]
    /\ patch = [o \in Operators |-> NoPatch]
    /\ stored = [o \in Operators |-> NothingStored]
    /\ token = [o \in Operators |-> 0]
    /\ issued = [a \in Agents |-> [contract |-> Empty, token |-> 0]]
    /\ accepted = [a \in Agents |-> <<>>]
    /\ behind = [o \in Operators |-> FALSE]
    /\ torn = [a \in Agents |-> FALSE]

-----------------------------------------------------------------------------

(* effective_invariants: the amendments in force are applied in order, so  *)
(* that the last one not yet expired decides.                              *)
EffectiveBound(contract, patches, now) ==
    LET inForce == {i \in DOMAIN patches : patches[i].expires > now}
    IN  IF inForce = {} THEN contract.max ELSE patches[Max(inForce)].max

EffectiveMax(a) == EffectiveBound(row[a].contract, row[a].amendments, clock)

(* What the row stands for now and at any other time.                      *)
EffectiveTerms(a) ==
    [now \in 0 .. MaxClock |-> EffectiveBound(row[a].contract, row[a].amendments, now)]

(* Operators who have read the row of a that is now written.               *)
Overtaken(a) == [o \in Operators |-> behind[o] \/ (pc[o] # "idle" /\ agent[o] = a)]

(* The agent's row is written anew, ACTIVE and without amendments.          *)
RowAnew(a, c, t) ==
    /\ row' = [row EXCEPT ![a] = [status |-> "ACTIVE", contract |-> c, amendments |-> <<>>,
                                  token |-> t]]
    /\ issued' = [issued EXCEPT ![a] = [contract |-> c, token |-> t]]
    /\ accepted' = [accepted EXCEPT ![a] = <<>>]
    /\ behind' = Overtaken(a)
    /\ torn' = [torn EXCEPT ![a] = FALSE]
    /\ UNCHANGED <<clock, amendments, opvars>>

(* The handshake of an agent of a compatible version issues a new session  *)
(* token ...                                                               *)
Handshake(a, c) ==
    /\ handshakes < MaxHandshakes
    /\ handshakes' = handshakes + 1
    /\ RowAnew(a, c, handshakes + 1)

(* ... and the deprecated register_agent none.                             *)
RegisterAgent(a, c) == RowAnew(a, c, 0) /\ UNCHANGED handshakes

(* _ensure_agent_registry_row: SQLite's session writes insert a row for an *)
(* agent nobody registered (INSERT OR IGNORE).                             *)
EnsureRow(a) ==
    /\ row[a].status = "unknown"
    /\ row' = [row EXCEPT ![a] = [@ EXCEPT !.status = "ACTIVE"]]
    /\ UNCHANGED <<clock, handshakes, amendments, opvars, history>>

(* Mutant: update_status inserts the row it does not find.                 *)
SetStatusUpsert(a, s) ==
    /\ row' = [row EXCEPT ![a] = [@ EXCEPT !.status = s]]
    /\ UNCHANGED <<clock, handshakes, amendments, opvars, history>>

(* set_agent_status of a registered agent.                                 *)
SetStatus(a, s) ==
    /\ row[a].status # "unknown"
    /\ row' = [row EXCEPT ![a] = [@ EXCEPT !.status = s]]
    /\ UNCHANGED <<clock, handshakes, amendments, opvars, history>>

(* Mutant: the envelope is not checked.                                    *)
ValidPatchAnywhere(c, p) == c.amendable

(* validate_amendment_patch: a null max passes without a look at the       *)
(* envelope.                                                               *)
ValidPatch(c, p) == c.amendable /\ (p.max = Unlimited \/ p.max <= c.ceiling)

(* apply_parameter_amendment reads the contract and accepts the patch.     *)
Amend(o, a, p) ==
    /\ pc[o] = "idle"
    /\ amendments < MaxAmendments
    /\ row[a].status # "unknown"
    /\ ValidPatch(row[a].contract, p)
    /\ amendments' = amendments + 1
    /\ pc' = [pc EXCEPT ![o] = "stored"]
    /\ agent' = [agent EXCEPT ![o] = a]
    /\ patch' = [patch EXCEPT ![o] = p]
    /\ behind' = [behind EXCEPT ![o] = FALSE]
    /\ UNCHANGED <<row, clock, handshakes, stored, token, issued, accepted, torn>>

(* It reads the contract again, to extend its amendments ...               *)
ReadStored(o) ==
    /\ pc[o] = "stored"
    /\ pc' = [pc EXCEPT ![o] = "rec"]
    /\ stored' = [stored EXCEPT ![o] = [contract   |-> row[agent[o]].contract,
                                        amendments |-> row[agent[o]].amendments]]
    /\ UNCHANGED <<row, clock, handshakes, amendments, agent, patch, token, history>>

(* Mutant: the token is not carried over.                                  *)
ReadRecWithoutToken(o) ==
    /\ pc[o] = "rec"
    /\ pc' = [pc EXCEPT ![o] = "upsert"]
    /\ UNCHANGED <<row, clock, handshakes, amendments, agent, patch, stored, token, history>>

(* ... reads the row again for priority, version and token ...             *)
ReadRec(o) ==
    /\ pc[o] = "rec"
    /\ pc' = [pc EXCEPT ![o] = "upsert"]
    /\ token' = [token EXCEPT ![o] = row[agent[o]].token]
    /\ UNCHANGED <<row, clock, handshakes, amendments, agent, patch, stored, history>>

(* Mutant: an amendment opens a new session.                               *)
AmendedRowNewSession(o) ==
    [status |-> "ACTIVE", contract |-> stored[o].contract,
     amendments |-> Append(stored[o].amendments, patch[o]), token |-> handshakes + 1]

(* ... and writes the whole row, ACTIVE whatever its status was.           *)
AmendedRow(o) ==
    [status |-> "ACTIVE", contract |-> stored[o].contract,
     amendments |-> Append(stored[o].amendments, patch[o]), token |-> token[o]]

Upsert(o) ==
    LET a == agent[o] IN
    /\ pc[o] = "upsert"
    /\ pc' = [pc EXCEPT ![o] = "idle"]
    /\ row' = [row EXCEPT ![a] = AmendedRow(o)]
    /\ accepted' = [accepted EXCEPT ![a] = Append(@, patch[o])]
    /\ behind' = [Overtaken(a) EXCEPT ![o] = FALSE]
    /\ torn' = [torn EXCEPT ![a] = @ \/ behind[o]]
    /\ stored' = [stored EXCEPT ![o] = NothingStored]
    /\ token' = [token EXCEPT ![o] = 0]
    /\ UNCHANGED <<clock, handshakes, amendments, agent, patch, issued>>

(* Time passes; an amendment is in force strictly before it expires.       *)
Tick ==
    /\ clock < MaxClock
    /\ clock' = clock + 1
    /\ UNCHANGED <<row, handshakes, amendments, opvars, history>>

Next ==
    \/ \E a \in Agents :
          \/ \E c \in Contracts : Handshake(a, c) \/ RegisterAgent(a, c)
          \/ EnsureRow(a)
          \/ \E s \in Statuses : SetStatus(a, s)
          \/ \E o \in Operators, p \in Amendment : Amend(o, a, p)
    \/ \E o \in Operators : ReadStored(o) \/ ReadRec(o) \/ Upsert(o)
    \/ Tick

Spec == Init /\ [][Next]_vars

-----------------------------------------------------------------------------
(* Properties *)

(* Unless an amendment was written over a row that had changed since it was *)
(* read, the row holds the last handshake's contract and token and every   *)
(* amendment accepted since, in order.  (Overlapping amendments lose one   *)
(* another, and one that overlaps a handshake restores the old contract.)  *)
RowCurrentUnlessTorn ==
    \A a \in Agents : ~torn[a] =>
        /\ row[a].contract = issued[a].contract
        /\ row[a].token = issued[a].token
        /\ row[a].amendments = accepted[a]

(* Under the same condition every amendment in the row respects the        *)
(* envelope of the contract beside it, null patches apart.                 *)
EnvelopeUnlessTorn ==
    \A a \in Agents : ~torn[a] =>
        \A i \in DOMAIN row[a].amendments :
            /\ row[a].contract.amendable
            /\ \/ row[a].amendments[i].max = Unlimited
               \/ row[a].amendments[i].max <= row[a].contract.ceiling

(* For evaluate_proposal the registry is an AgentDirectory: each of its    *)
(* steps changes the statuses, the bounds the rows stand for now and later *)
(* and the time as one of the directory's does, or leaves them alone.      *)
Directory == INSTANCE AgentDirectory WITH
                 status <- [a \in Agents |-> row[a].status],
                 terms  <- [a \in Agents |-> EffectiveTerms(a)]

ImplementsDirectory == Directory!DirSpec

(* What the documents say of suspensions and degradations: only a human    *)
(* operator's status change lifts them.  (The agent's own handshake does.) *)
OnlyOperatorsReinstate ==
    [][\A a \in Agents :
          row[a].status \in {"SUSPENDED", "DEGRADED"} /\ row'[a].status = "ACTIVE"
              => SetStatus(a, "ACTIVE")]_vars
=============================================================================
