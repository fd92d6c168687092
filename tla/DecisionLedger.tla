--------------------------- MODULE DecisionLedger ---------------------------
(***************************************************************************)
(* Topology C: kernels verify proof-carrying intents (pci.py) against the  *)
(* context store and the agent registry and bind them in the decision      *)
(* ledger (ledger.py), as verify_and_commit of sample 33 does, while       *)
(* sessions are updated and agents registered anew.  ContextStore is the   *)
(* environment; every read of it or of the registry is a step.             *)
(*                                                                         *)
(* A hash is modelled by what it is the hash of.  The contract n \in Nat   *)
(* bounds an intent's amount by n; NoContract stands for an agent without  *)
(* a row and for the empty contract of a row a foreign key needed.         *)
(***************************************************************************)
EXTENDS ContextStore, Sequences, FiniteSets

CONSTANTS
    Kernels,
    Contracts,          \* contracts agents register with
    Amounts,            \* amounts of intents
    MaxIntents,         \* bound on the intents of a flow
    MaxRegistrations    \* bound on the registry rows written

ASSUME ContractsAssumption == Contracts \subseteq Nat \ {0} /\ Amounts \subseteq Nat
ASSUME IntentsAssumption == {MaxIntents, MaxRegistrations} \subseteq Nat

VARIABLES
    contract,        \* the contract of each agent
    registrations,   \* registry rows written so far
    stored,          \* whether the ledger has a storage or lives in the process
    verifying,       \* the intents emitted and not yet answered
    ledger,          \* the entries, in order
    intents,         \* intents of each flow so far
    answers,         \* history: times "Policy Bound" was answered for a flow
    raced            \* history: appends in memory that overlapped another one

vars == <<ctxvars, contract, registrations, stored, verifying, ledger, intents,
          answers, raced>>

-----------------------------------------------------------------------------

NoContract == 0

(* What evidence_hash binds an intent to; it is sound when the amount is   *)
(* the one that was hashed.                                                *)
PCI == [flow : Flows, amount : Amounts, context : SUBSET Keys,
        contract : Contracts \cup {NoContract}, sound : BOOLEAN]

(* An entry of the ledger.  History: the context and the contract of its   *)
(* evidence were in force during its verification; the contract's row was  *)
(* written again between the reads that verified and that validated.       *)
Entry == [pci : PCI, ctxHeld : BOOLEAN, conHeld : BOOLEAN, rewritten : BOOLEAN]

Verification ==
    [by : Kernels, pci : PCI, ctxMatches : BOOLEAN,
     at : {"emitted", "contract", "recheck", "validate", "append", "add"},
     ctxHeld : BOOLEAN, conHeld : BOOLEAN, rewritten : BOOLEAN]

TypeOK ==
    /\ CtxTypeOK
    /\ contract \in [Agents -> Contracts \cup {NoContract}]
    /\ registrations \in 0 .. MaxRegistrations
    /\ stored \in BOOLEAN
    /\ verifying \subseteq Verification
    /\ \A v, w \in verifying : v.by = w.by => v = w
    /\ ledger \in Seq(Entry)
    /\ intents \in [Flows -> 0 .. MaxIntents]
    /\ answers \in [Flows -> Nat]
    /\ raced \in [Flows -> Nat]

Init ==
    /\ CtxInit
    /\ contract = [a \in Agents |-> NoContract]
    /\ registrations = 0
    /\ stored \in BOOLEAN
    /\ verifying = {}
    /\ ledger = <<>>
    /\ intents = [f \in Flows |-> 0]
    /\ answers = [f \in Flows |-> 0]
    /\ raced = [f \in Flows |-> 0]

-----------------------------------------------------------------------------
(* The environment: updates of the context store and registrations.        *)

(* The verifications under way once the session of f is S.                 *)
AfterSession(f, S) ==
    {[v EXCEPT !.ctxHeld = @ \/ (v.pci.flow = f /\ v.pci.context = S)] : v \in verifying}

UpdateSession(w) ==
    /\ w.cell \in Flows
    /\ WriteCell(w)
    /\ verifying' = AfterSession(w.cell, Merging(w))
    /\ UNCHANGED <<contract, registrations, stored, ledger, intents, answers, raced>>

UpdateState(w) ==
    /\ w.cell \in Agents
    /\ WriteCell(w)
    /\ UNCHANGED <<contract, registrations, stored, verifying, ledger, intents, answers, raced>>

Begin(u) ==
    /\ \E c \in Cells, k \in Keys : ReadCell(u, c, k)
    /\ UNCHANGED <<contract, registrations, stored, verifying, ledger, intents, answers, raced>>

Fail(w) ==
    /\ WriteFails(w)
    /\ UNCHANGED <<contract, registrations, stored, verifying, ledger, intents, answers, raced>>

(* Stages between the contract's read that verifies and the one that        *)
(* validates.                                                              *)
Between == {"recheck", "validate"}

AfterContract(a, n) ==
    {IF AgentOf[v.pci.flow] = a
     THEN [v EXCEPT !.conHeld = @ \/ v.pci.contract = n,
                    !.rewritten = @ \/ v.at \in Between]
     ELSE v : v \in verifying}

(* A handshake or an amendment: an amended contract is another contract.   *)
Register(a, n) ==
    /\ registrations < MaxRegistrations
    /\ registrations' = registrations + 1
    /\ Replace(a)
    /\ contract' = [contract EXCEPT ![a] = n]
    /\ verifying' = AfterContract(a, n)
    /\ UNCHANGED <<stored, ledger, intents, answers, raced>>

-----------------------------------------------------------------------------
(* The agent and the kernel.                                               *)

quiet == <<ctxvars, contract, registrations, stored>>

(* Mutant: a kernel takes an intent beside the one it has.                 *)
FreeAlways(k) == TRUE

Free(k) == \A v \in verifying : v.by # k

(* The agent emits an intent with evidence of the session and the contract *)
(* as they are, or an unsound one; the kernel gets to it some time later.  *)
Emit(k, f, n, s) ==
    /\ Free(k)
    /\ intents[f] < MaxIntents
    /\ intents' = [intents EXCEPT ![f] = @ + 1]
    /\ verifying' = verifying \cup
         {[by |-> k, at |-> "emitted", ctxMatches |-> FALSE,
           pci |-> [flow |-> f, amount |-> n, context |-> content[f],
                    contract |-> contract[AgentOf[f]], sound |-> s],
           ctxHeld |-> FALSE, conHeld |-> FALSE, rewritten |-> FALSE]}
    /\ UNCHANGED <<quiet, ledger, answers, raced>>

Current(v) == contract[AgentOf[v.pci.flow]]

Goto(v, w) == verifying' = (verifying \ {v}) \cup {w}

(* get_context_hash: the session is read and hashed.  An empty one gives   *)
(* "", which is the hash of nothing the agent hashed.                      *)
HashContext(v) ==
    LET now == content[v.pci.flow] = v.pci.context IN
    /\ v.at = "emitted"
    /\ Goto(v, [v EXCEPT !.at = "contract", !.ctxMatches = now /\ v.pci.context # {},
                         !.ctxHeld = now, !.conHeld = Current(v) = v.pci.contract])
    /\ UNCHANGED <<quiet, ledger, intents, answers, raced>>

(* Mutant: the evidence is compared with the contract only.                *)
EvidenceOfContract(v) ==
    v.pci.contract = Current(v) /\ v.pci.contract # NoContract /\ v.pci.sound

(* Recomputed from the session read before and the contract read now (an   *)
(* empty contract gives "" as well).                                       *)
EvidenceValid(v) ==
    v.ctxMatches /\ v.pci.contract = Current(v) /\ v.pci.contract # NoContract /\ v.pci.sound

(* Answered: "Evidence Invalid", "Contract Not Found" or a reason of the    *)
(* DIM's.                                                                  *)
Refuse(v) == verifying' = verifying \ {v}

(* get_contract_hash, and the hashes are compared.                         *)
HashContract(v) ==
    /\ v.at = "contract"
    /\ IF EvidenceValid(v) THEN Goto(v, [v EXCEPT !.at = "recheck"]) ELSE Refuse(v)
    /\ UNCHANGED <<quiet, ledger, intents, answers, raced>>

Recheck(v) ==
    /\ v.at = "recheck"
    /\ IF Current(v) = NoContract THEN Refuse(v) ELSE Goto(v, [v EXCEPT !.at = "validate"])
    /\ UNCHANGED <<quiet, ledger, intents, answers, raced>>

(* The bound a contract puts on an amount.                                 *)
Permits(n, amount) == n = NoContract \/ amount <= n

(* Mutant: the bound is off by one.                                        *)
AllowedBarely(v) == Permits(Current(v), v.pci.amount) \/ v.pci.amount = Current(v) + 1

Allowed(v) == Permits(Current(v), v.pci.amount)

(* validate_proposal against the projection of the contract as it is now;   *)
(* its other checks, of the session and the intent, may refuse as well.     *)
Validate(v) ==
    /\ v.at = "validate"
    /\ \/ /\ Allowed(v)
          /\ Goto(v, [v EXCEPT !.at = "append"])
       \/ Refuse(v)
    /\ UNCHANGED <<quiet, ledger, intents, answers, raced>>

EntryOf(v) ==
    [pci |-> v.pci, ctxHeld |-> v.ctxHeld, conHeld |-> v.conHeld, rewritten |-> v.rewritten]

OnFile(f) == \E i \in DOMAIN ledger : ledger[i].pci.flow = f

(* Mutant: INSERT OR REPLACE.                                              *)
InsertOrReplace(v) ==
    Append(SelectSeq(ledger, LAMBDA e : e.pci.flow # v.pci.flow), EntryOf(v))

(* INSERT OR IGNORE, or ON CONFLICT DO NOTHING, with a unique dfid.        *)
InsertOrIgnore(v) == IF OnFile(v.pci.flow) THEN ledger ELSE Append(ledger, EntryOf(v))

Answer(v) ==
    /\ answers' = [answers EXCEPT ![v.pci.flow] = @ + 1]
    /\ verifying' = verifying \ {v}

(* Counting the entries is a call of its own, and may raise.               *)
AppendRow(v) ==
    /\ v.at = "append" /\ stored
    /\ ledger' = InsertOrIgnore(v)
    /\ \/ Answer(v)
       \/ Refuse(v) /\ UNCHANGED answers
    /\ UNCHANGED <<quiet, intents, raced>>

AppendSqlite(v) == backend = "sqlite" /\ AppendRow(v)

AppendPostgres(v) == backend = "postgres" /\ AppendRow(v)

(* The database stays locked: verify_and_commit raises.                    *)
AppendFails(v) ==
    /\ v.at = "append" /\ stored /\ backend # "memory"
    /\ Refuse(v)
    /\ UNCHANGED <<quiet, ledger, intents, answers, raced>>

(* Without a storage every append is an entry.                             *)
AppendUnstored(v) ==
    /\ v.at = "append" /\ ~stored
    /\ ledger' = Append(ledger, EntryOf(v))
    /\ Answer(v)
    /\ UNCHANGED <<quiet, intents, raced>>

(* Another call is about to add an entry for the flow.                     *)
Adding(f) == \E v \in verifying : v.at = "add" /\ v.pci.flow = f

(* Mutant: the entries are not looked through.                             *)
NeverOnFile(f) == FALSE

AlreadyBound(f) == OnFile(f)

(* In memory the entries are looked through ...                            *)
ScanMemory(v) ==
    /\ v.at = "append" /\ stored /\ backend = "memory"
    /\ IF AlreadyBound(v.pci.flow)
       THEN /\ Answer(v)
            /\ UNCHANGED raced
       ELSE /\ Goto(v, [v EXCEPT !.at = "add"])
            /\ raced' = [raced EXCEPT ![v.pci.flow] = IF Adding(v.pci.flow) THEN @ + 1 ELSE @]
            /\ UNCHANGED answers
    /\ UNCHANGED <<quiet, ledger, intents>>

(* ... and the new one is added, by then perhaps beside another.           *)
AddMemory(v) ==
    /\ v.at = "add"
    /\ ledger' = Append(ledger, EntryOf(v))
    /\ Answer(v)
    /\ UNCHANGED <<quiet, intents, raced>>

-----------------------------------------------------------------------------

Environment ==
    \/ \E u \in Updaters : Begin(u)
    \/ \E w \in pending : UpdateSession(w) \/ UpdateState(w) \/ Fail(w)
    \/ \E a \in Agents, n \in Contracts \cup {NoContract} : Register(a, n)

KernelStep(v) ==
    \/ HashContext(v) \/ HashContract(v) \/ Recheck(v) \/ Validate(v)
    \/ AppendSqlite(v) \/ AppendPostgres(v) \/ AppendFails(v) \/ AppendUnstored(v)
    \/ ScanMemory(v) \/ AddMemory(v)

Next ==
    \/ Environment
    \/ \E k \in Kernels, f \in Flows, n \in Amounts, s \in BOOLEAN : Emit(k, f, n, s)
    \/ \E v \in verifying : KernelStep(v)

Spec == Init /\ [][Next]_vars

-----------------------------------------------------------------------------
(* Properties *)

Entries(f) == {i \in DOMAIN ledger : ledger[i].pci.flow = f}

(* The evidence of an entry is sound, and its context and its contract were *)
(* in force at some time while it was verified (not only when the agent    *)
(* formed the intent, and not necessarily at the same time).               *)
EvidenceInForce ==
    \A i \in DOMAIN ledger :
        ledger[i].pci.sound /\ ledger[i].ctxHeld /\ ledger[i].conHeld

(* The contract an entry certifies permits its amount, unless the agent's  *)
(* contract was written anew between the two reads of one verification.    *)
CertifiedAmount ==
    \A i \in DOMAIN ledger :
        Permits(ledger[i].pci.contract, ledger[i].pci.amount) \/ ledger[i].rewritten

(* A ledger with a storage has one entry for each flow that was told it is  *)
(* bound, whichever intent is bound again, unless appends in memory raced;  *)
(* one without a storage has an entry for each answer.                     *)
OneEntryPerBoundFlow ==
    \A f \in Flows :
        /\ answers[f] > 0 => Entries(f) # {}
        /\ IF stored THEN Cardinality(Entries(f)) <= 1 + raced[f]
                     ELSE Cardinality(Entries(f)) = answers[f]

(* What an entry of each flow certifies when it is added.                  *)
Certified ==
    [f \in Flows |->
       {e \in Entry : /\ e.pci.flow = f /\ e.pci.sound /\ e.ctxHeld /\ e.conHeld
                      /\ Permits(e.pci.contract, e.pci.amount) \/ e.rewritten}]

(* For the flows the ledger is a BindingLog: no step removes, changes or    *)
(* reorders an entry, only a certified one is added, a flow is told it is  *)
(* bound only once an entry of it is there, and a database adds none for a *)
(* flow that has one.                                                      *)
Binding == INSTANCE BindingLog WITH
               Admissible <- Certified,
               exclusive  <- stored /\ backend # "memory",
               log        <- ledger,
               bound      <- {f \in Flows : answers[f] > 0}

ImplementsBindingLog == Binding!LogSpec
=============================================================================
