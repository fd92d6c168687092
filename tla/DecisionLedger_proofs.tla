----------------------- MODULE DecisionLedger_proofs ------------------------
(* Proofs about DecisionLedger and the ContextStore it is composed with,   *)
(* for any flows, agents, keys, callers, contracts and bounds.             *)
EXTENDS DecisionLedger, FiniteSetTheorems, TLAPS

(* What an update under way has not read and not seen written since is     *)
(* excused already.                                                        *)
PendingCovered ==
    \A w \in pending : merged[w.cell] \subseteq w.read \cup w.missed \cup excused[w.cell]

CtxInv == CtxTypeOK /\ PendingCovered /\ UpdatesKeptUnlessOvertaken

(* What a kernel has established at each stage.                            *)
Established(v) ==
    /\ v.at = "contract" =>
         /\ v.ctxMatches => v.ctxHeld
         /\ v.pci.contract = Current(v) => v.conHeld
    /\ v.at \in {"recheck", "validate", "append", "add"} =>
         v.pci.sound /\ v.ctxHeld /\ v.conHeld
    /\ v.at \in Between => v.pci.contract = Current(v) \/ v.rewritten
    /\ v.at \in {"append", "add"} =>
         Permits(v.pci.contract, v.pci.amount) \/ v.rewritten

AllEstablished == \A v \in verifying : Established(v)

VerifyingOK ==
    /\ verifying \subseteq Verification
    /\ \A v, w \in verifying : v.by = w.by => v = w

-----------------------------------------------------------------------------
(* The context store *)

LEMMA ReadCellKeeps ==
  ASSUME CtxInv, NEW u \in Updaters, NEW c \in Cells, NEW k \in Keys, ReadCell(u, c, k)
  PROVE  CtxInv'
<1> DEFINE new == [who |-> u, cell |-> c, key |-> k, read |-> content[c], missed |-> {}]
<1>1. new \in Update /\ new.who = u /\ new.cell = c /\ new.read = content[c]
  BY DEF CtxInv, CtxTypeOK, Update
<1>2. pending' = pending \cup {new} /\ (\A w \in pending : w.who # u)
  BY DEF ReadCell
<1>3. updates' \in 0 .. MaxUpdates
  BY UpdatesAssumption DEF ReadCell, CtxInv, CtxTypeOK
<1> HIDE DEF new
<1>4. CtxTypeOK'
  <2>1. pending' \subseteq Update
    BY <1>1, <1>2 DEF CtxInv, CtxTypeOK
  <2>2. \A w, x \in pending' : w.who = x.who => w = x
    BY <1>1, <1>2 DEF CtxInv, CtxTypeOK
  <2> QED
    BY <1>3, <2>1, <2>2 DEF ReadCell, CtxInv, CtxTypeOK
<1>5. PendingCovered'
  <2> SUFFICES ASSUME NEW w \in pending'
               PROVE  merged'[w.cell] \subseteq w.read \cup w.missed \cup excused'[w.cell]
    BY DEF PendingCovered
  <2>1. merged' = merged /\ excused' = excused
    BY DEF ReadCell
  <2>2. CASE w \in pending
    BY <2>1, <2>2 DEF CtxInv, PendingCovered
  <2>3. CASE w = new
    BY <1>1, <2>1, <2>3 DEF CtxInv, UpdatesKeptUnlessOvertaken
  <2> QED
    BY <1>2, <2>2, <2>3
<1>6. UpdatesKeptUnlessOvertaken'
  BY DEF ReadCell, CtxInv, UpdatesKeptUnlessOvertaken
<1> QED
  BY <1>4, <1>5, <1>6 DEF CtxInv

LEMMA WriteCellKeeps ==
  ASSUME CtxInv, NEW w \in pending, WriteCell(w)
  PROVE  CtxInv'
<1> USE DEF CtxInv
<1>1. w \in Update /\ w.cell \in Cells /\ w.key \in Keys /\ w.read \subseteq Keys
         /\ w.missed \subseteq Keys
  BY DEF CtxTypeOK, Update
<1>2. ASSUME NEW x \in pending'
      PROVE  \E y \in pending \ {w} :
               /\ x \in Update
               /\ x.who = y.who /\ x.cell = y.cell /\ x.read = y.read
               /\ x.missed = IF y.cell = w.cell THEN y.missed \cup w.read \cup {w.key}
                                                ELSE y.missed
               /\ x = IF y.cell = w.cell
                      THEN [y EXCEPT !.missed = @ \cup w.read \cup {w.key}] ELSE y
  <2>1. PICK y \in pending \ {w} :
          x = IF y.cell = w.cell
              THEN [y EXCEPT !.missed = @ \cup w.read \cup {w.key}] ELSE y
    BY DEF WriteCell, Behind
  <2>2. y \in Update
    BY DEF CtxTypeOK
  <2> QED
    BY <1>1, <2>1, <2>2 DEF Update
<1>3. CtxTypeOK'
  <2>1. pending' \subseteq Update
    BY <1>2
  <2>2. ASSUME NEW x \in pending', NEW z \in pending', x.who = z.who
        PROVE  x = z
    <3>1. PICK y \in pending \ {w} :
            /\ x.who = y.who
            /\ x = IF y.cell = w.cell
                   THEN [y EXCEPT !.missed = @ \cup w.read \cup {w.key}] ELSE y
      BY <1>2
    <3>2. PICK t \in pending \ {w} :
            /\ z.who = t.who
            /\ z = IF t.cell = w.cell
                   THEN [t EXCEPT !.missed = @ \cup w.read \cup {w.key}] ELSE t
      BY <1>2
    <3>3. y = t
      BY <2>2, <3>1, <3>2 DEF CtxTypeOK
    <3> QED
      BY <3>1, <3>2, <3>3
  <2>3. content' \in [Cells -> SUBSET Keys]
    BY <1>1 DEF WriteCell, Merging, CtxTypeOK
  <2>4. registered' \subseteq Agents
    BY AgentOfAssumption DEF WriteCell, CtxTypeOK
  <2>5. merged' \in [Cells -> SUBSET Keys] /\ excused' \in [Cells -> SUBSET Keys]
    BY <1>1 DEF WriteCell, CtxTypeOK
  <2> QED
    BY <2>1, <2>2, <2>3, <2>4, <2>5 DEF WriteCell, CtxTypeOK
<1>4. \A c \in Cells :
        /\ merged'[c] = IF c = w.cell THEN merged[c] \cup {w.key} ELSE merged[c]
        /\ content'[c] = IF c = w.cell THEN w.read \cup {w.key} ELSE content[c]
        /\ excused'[c] = IF c = w.cell
                         THEN (excused[c] \cup w.missed) \ (w.read \cup {w.key})
                         ELSE excused[c]
  BY <1>1 DEF WriteCell, Merging, CtxTypeOK
<1>5. merged[w.cell] \subseteq w.read \cup w.missed \cup excused[w.cell]
  BY DEF PendingCovered
<1>6. PendingCovered'
  <2> SUFFICES ASSUME NEW x \in pending'
               PROVE  merged'[x.cell] \subseteq x.read \cup x.missed \cup excused'[x.cell]
    BY DEF PendingCovered
  <2>1. PICK y \in pending \ {w} :
          /\ x.cell = y.cell /\ x.read = y.read
          /\ x.missed = IF y.cell = w.cell THEN y.missed \cup w.read \cup {w.key}
                                           ELSE y.missed
    BY <1>2
  <2>2. y.cell \in Cells
    BY DEF CtxTypeOK, Update
  <2>3. merged[y.cell] \subseteq y.read \cup y.missed \cup excused[y.cell]
    BY DEF PendingCovered
  <2>4. CASE y.cell = w.cell
    BY <1>4, <2>1, <2>2, <2>3, <2>4
  <2>5. CASE y.cell # w.cell
    BY <1>4, <2>1, <2>2, <2>3, <2>5
  <2> QED
    BY <2>4, <2>5
<1>7. UpdatesKeptUnlessOvertaken'
  BY <1>4, <1>5 DEF UpdatesKeptUnlessOvertaken
<1> QED
  BY <1>3, <1>6, <1>7

LEMMA WriteFailsKeeps ==
  ASSUME CtxInv, NEW w \in pending, WriteFails(w)
  PROVE  CtxInv'
BY DEF CtxInv, CtxTypeOK, PendingCovered, UpdatesKeptUnlessOvertaken, WriteFails

LEMMA ReplaceKeeps ==
  ASSUME CtxInv, NEW a \in Agents, Replace(a)
  PROVE  CtxInv'
<1> USE DEF CtxInv
<1>1. a \in Cells
  BY DEF Cells
<1>2. CtxTypeOK'
  BY <1>1 DEF Replace, CtxTypeOK
<1>3. merged' = merged /\ pending' = pending
  BY DEF Replace
<1>4. \A c \in Cells : \/ content'[c] = content[c] /\ excused'[c] = excused[c]
                       \/ excused'[c] = merged[c]
  BY <1>1 DEF Replace, CtxTypeOK
<1>5. \A w \in pending : w.cell \in Cells
  BY DEF CtxTypeOK, Update
<1>6. PendingCovered'
  BY <1>3, <1>4, <1>5 DEF PendingCovered
<1>7. UpdatesKeptUnlessOvertaken'
  BY <1>3, <1>4 DEF UpdatesKeptUnlessOvertaken
<1> QED
  BY <1>2, <1>6, <1>7

LEMMA QuietKeeps == CtxInv /\ UNCHANGED ctxvars => CtxInv'
BY DEF CtxInv, CtxTypeOK, PendingCovered, UpdatesKeptUnlessOvertaken, ctxvars

-----------------------------------------------------------------------------
(* What the steps of a kernel do to the set of verifications               *)

LEMMA GotoOK ==
  ASSUME VerifyingOK, NEW v \in verifying, NEW w \in Verification, w.by = v.by, Goto(v, w)
  PROVE  VerifyingOK'
BY DEF VerifyingOK, Goto

LEMMA RefuseOK ==
  ASSUME VerifyingOK, NEW v \in verifying, Refuse(v)
  PROVE  VerifyingOK'
BY DEF VerifyingOK, Refuse

LEMMA AnswerOK ==
  ASSUME VerifyingOK, NEW v \in verifying, answers \in [Flows -> Nat], Answer(v)
  PROVE  VerifyingOK' /\ answers' \in [Flows -> Nat]
<1>1. VerifyingOK'
  BY DEF VerifyingOK, Answer
<1>2. v.pci.flow \in Flows
  BY DEF VerifyingOK, Verification, PCI
<1>3. answers' \in [Flows -> Nat]
  BY <1>2 DEF Answer
<1> QED
  BY <1>1, <1>3

LEMMA StageOK ==
  ASSUME NEW v \in Verification
  PROVE  /\ \A s \in {"contract", "recheck", "validate", "append", "add"} :
              [v EXCEPT !.at = s] \in Verification /\ [v EXCEPT !.at = s].by = v.by
         /\ \A b, c, d \in BOOLEAN :
              LET w == [v EXCEPT !.at = "contract", !.ctxMatches = b, !.ctxHeld = c,
                                 !.conHeld = d]
              IN  w \in Verification /\ w.by = v.by
BY DEF Verification

LEMMA EntryOK ==
  ASSUME NEW v \in Verification
  PROVE  EntryOf(v) \in Entry
BY DEF Verification, Entry, EntryOf

LEMMA AfterSessionOK ==
  ASSUME VerifyingOK, NEW f \in Flows, NEW S, verifying' = AfterSession(f, S)
  PROVE  VerifyingOK'
<1>1. ASSUME NEW x \in verifying'
      PROVE  \E v \in verifying :
               /\ x = [v EXCEPT !.ctxHeld = @ \/ (v.pci.flow = f /\ v.pci.context = S)]
               /\ x \in Verification /\ x.by = v.by
  <2>1. PICK v \in verifying :
          x = [v EXCEPT !.ctxHeld = @ \/ (v.pci.flow = f /\ v.pci.context = S)]
    BY DEF AfterSession
  <2>2. v \in Verification
    BY DEF VerifyingOK
  <2> DEFINE b == v.ctxHeld \/ (v.pci.flow = f /\ v.pci.context = S)
  <2>3. b \in BOOLEAN /\ x = [v EXCEPT !.ctxHeld = b]
    BY <2>1, <2>2 DEF Verification
  <2> HIDE DEF b
  <2>4. x \in Verification /\ x.by = v.by
    BY <2>2, <2>3 DEF Verification
  <2> QED
    BY <2>1, <2>4
<1>2. verifying' \subseteq Verification
  BY <1>1
<1>3. ASSUME NEW x \in verifying', NEW y \in verifying', x.by = y.by
      PROVE  x = y
  <2>1. PICK v \in verifying :
          /\ x = [v EXCEPT !.ctxHeld = @ \/ (v.pci.flow = f /\ v.pci.context = S)]
          /\ x.by = v.by
    BY <1>1
  <2>2. PICK w \in verifying :
          /\ y = [w EXCEPT !.ctxHeld = @ \/ (w.pci.flow = f /\ w.pci.context = S)]
          /\ y.by = w.by
    BY <1>1
  <2>3. v = w
    BY <1>3, <2>1, <2>2 DEF VerifyingOK
  <2> QED
    BY <2>1, <2>2, <2>3
<1> QED
  BY <1>2, <1>3 DEF VerifyingOK

LEMMA AfterContractOK ==
  ASSUME VerifyingOK, NEW a \in Agents, NEW n, verifying' = AfterContract(a, n)
  PROVE  VerifyingOK'
<1> DEFINE After(v) ==
      IF AgentOf[v.pci.flow] = a
      THEN [v EXCEPT !.conHeld = @ \/ v.pci.contract = n,
                     !.rewritten = @ \/ v.at \in Between]
      ELSE v
<1>1. ASSUME NEW v \in verifying
      PROVE  After(v) \in Verification /\ After(v).by = v.by
  <2>1. v \in Verification
    BY DEF VerifyingOK
  <2> DEFINE b == v.conHeld \/ v.pci.contract = n
             c == v.rewritten \/ v.at \in Between
  <2>2. b \in BOOLEAN /\ c \in BOOLEAN
    BY <2>1 DEF Verification
  <2>3. After(v) = IF AgentOf[v.pci.flow] = a
                   THEN [v EXCEPT !.conHeld = b, !.rewritten = c] ELSE v
    BY <2>1 DEF Verification
  <2> HIDE DEF b, c, After
  <2>4. [v EXCEPT !.conHeld = b, !.rewritten = c] \in Verification
    BY <2>1, <2>2 DEF Verification
  <2>5. [v EXCEPT !.conHeld = b, !.rewritten = c].by = v.by
    BY <2>1 DEF Verification
  <2> QED
    BY <2>1, <2>3, <2>4, <2>5
<1>2. verifying' = {After(v) : v \in verifying}
  BY DEF AfterContract
<1> HIDE DEF After
<1>3. verifying' \subseteq Verification
  BY <1>1, <1>2
<1>4. ASSUME NEW x \in verifying', NEW y \in verifying', x.by = y.by
      PROVE  x = y
  <2>1. PICK v \in verifying : x = After(v) /\ x.by = v.by
    BY <1>1, <1>2
  <2>2. PICK w \in verifying : y = After(w) /\ y.by = w.by
    BY <1>1, <1>2
  <2>3. v = w
    BY <1>4, <2>1, <2>2 DEF VerifyingOK
  <2> QED
    BY <2>1, <2>2, <2>3
<1> QED
  BY <1>3, <1>4 DEF VerifyingOK

-----------------------------------------------------------------------------
(* Type correctness *)

(* What TypeOK says of the variables that are neither the context store's  *)
(* nor the verifications.                                                  *)
OtherTypes ==
    /\ contract \in [Agents -> Contracts \cup {NoContract}]
    /\ registrations \in 0 .. MaxRegistrations
    /\ stored \in BOOLEAN
    /\ ledger \in Seq(Entry)
    /\ intents \in [Flows -> 0 .. MaxIntents]
    /\ answers \in [Flows -> Nat]
    /\ raced \in [Flows -> Nat]

LEMMA TypeSplit == TypeOK <=> CtxTypeOK /\ VerifyingOK /\ OtherTypes
BY DEF TypeOK, VerifyingOK, OtherTypes

Inv == CtxInv /\ VerifyingOK /\ OtherTypes

LEMMA EmitOK ==
  ASSUME Inv, NEW k \in Kernels, NEW f \in Flows, NEW n \in Amounts, NEW s \in BOOLEAN,
         Emit(k, f, n, s)
  PROVE  Inv'
<1> DEFINE p == [flow |-> f, amount |-> n, context |-> content[f],
                 contract |-> contract[AgentOf[f]], sound |-> s]
           new == [by |-> k, at |-> "emitted", ctxMatches |-> FALSE, pci |-> p,
                   ctxHeld |-> FALSE, conHeld |-> FALSE, rewritten |-> FALSE]
<1>1. CtxInv'
  BY QuietKeeps DEF Inv, Emit, quiet
<1>2. p \in PCI
  BY AgentOfAssumption DEF Inv, CtxInv, CtxTypeOK, OtherTypes, PCI, Cells
<1>3. verifying' = verifying \cup {new}
  BY DEF Emit
<1> HIDE DEF p
<1>4. new \in Verification /\ new.by = k
  BY <1>2 DEF Verification
<1> HIDE DEF new
<1>5. VerifyingOK'
  BY <1>3, <1>4 DEF Inv, VerifyingOK, Emit, Free
<1>6. intents' \in [Flows -> 0 .. MaxIntents]
  <2>1. MaxIntents \in Nat /\ intents[f] \in 0 .. MaxIntents
    BY IntentsAssumption DEF Inv, OtherTypes
  <2>2. intents[f] + 1 \in 0 .. MaxIntents
    BY <2>1 DEF Emit
  <2> QED
    BY <2>2 DEF Emit, Inv, OtherTypes
<1>7. OtherTypes'
  BY <1>6 DEF Emit, quiet, Inv, OtherTypes
<1> QED
  BY <1>1, <1>5, <1>7 DEF Inv

LEMMA KernelStepOK ==
  ASSUME Inv, NEW v \in verifying, KernelStep(v)
  PROVE  Inv'
<1> USE DEF Inv
<1>1. v \in Verification /\ v.pci.flow \in Flows
  BY DEF VerifyingOK, Verification, PCI
<1>2. CtxInv'
  <2>1. UNCHANGED ctxvars
    BY DEF KernelStep, HashContext, HashContract, Recheck, Validate, AppendRow,
         AppendSqlite, AppendPostgres,
           AppendFails, AppendUnstored, ScanMemory, AddMemory, quiet
  <2> QED
    BY <2>1, QuietKeeps
<1>3. \A s \in {"contract", "recheck", "validate", "append", "add"} :
        Goto(v, [v EXCEPT !.at = s]) => VerifyingOK'
  BY <1>1, StageOK, GotoOK
<1>4. Refuse(v) => VerifyingOK'
  BY RefuseOK
<1>5. Answer(v) => VerifyingOK' /\ answers' \in [Flows -> Nat]
  BY AnswerOK DEF OtherTypes
<1>6. Append(ledger, EntryOf(v)) \in Seq(Entry)
  BY <1>1, EntryOK DEF OtherTypes
<1>7. VerifyingOK' /\ OtherTypes'
  <2>1. CASE HashContext(v)
    <3> DEFINE now == content[v.pci.flow] = v.pci.context
               same == Current(v) = v.pci.contract
               matches == now /\ v.pci.context # {}
               w == [v EXCEPT !.at = "contract", !.ctxMatches = matches, !.ctxHeld = now,
                              !.conHeld = same]
    <3>1. w \in Verification /\ w.by = v.by
      <4>1. now \in BOOLEAN /\ same \in BOOLEAN /\ matches \in BOOLEAN
        OBVIOUS
      <4> HIDE DEF now, same, matches
      <4> QED
        BY <1>1, <4>1, StageOK
    <3>2. Goto(v, w)
      BY <2>1 DEF HashContext
    <3> HIDE DEF w
    <3>3. VerifyingOK'
      BY <3>1, <3>2, GotoOK
    <3> QED
      BY <2>1, <3>3 DEF HashContext, quiet, OtherTypes
  <2>2. CASE HashContract(v)
    BY <2>2, <1>3, <1>4 DEF HashContract, quiet, OtherTypes
  <2>3. CASE Recheck(v)
    BY <2>3, <1>3, <1>4 DEF Recheck, quiet, OtherTypes
  <2>4. CASE Validate(v)
    BY <2>4, <1>3, <1>4 DEF Validate, quiet, OtherTypes
  <2>5. CASE backend # "memory" /\ AppendRow(v)
    BY <2>5, <1>4, <1>5, <1>6 DEF AppendRow, InsertOrIgnore, quiet, OtherTypes
  <2>6. CASE AppendFails(v)
    BY <2>6, <1>4 DEF AppendFails, quiet, OtherTypes
  <2>7. CASE AppendUnstored(v)
    BY <2>7, <1>5, <1>6 DEF AppendUnstored, quiet, OtherTypes
  <2>8. CASE ScanMemory(v)
    <3>1. raced' \in [Flows -> Nat]
      BY <2>8, <1>1 DEF ScanMemory, OtherTypes
    <3> QED
      BY <2>8, <3>1, <1>3, <1>5 DEF ScanMemory, quiet, OtherTypes
  <2>9. CASE AddMemory(v)
    BY <2>9, <1>5, <1>6 DEF AddMemory, quiet, OtherTypes
  <2> QED
    BY <2>1, <2>2, <2>3, <2>4, <2>5, <2>6, <2>7, <2>8, <2>9 DEF KernelStep, AppendSqlite, AppendPostgres
<1> QED
  BY <1>2, <1>7

LEMMA EnvironmentOK == Inv /\ Environment => Inv'
<1> SUFFICES ASSUME Inv, Environment PROVE Inv'
  OBVIOUS
<1> USE DEF Inv
<1>1. ASSUME NEW u \in Updaters, Begin(u)
      PROVE  Inv'
  BY <1>1, ReadCellKeeps DEF Begin, VerifyingOK, OtherTypes
<1>2. ASSUME NEW w \in pending, UpdateSession(w)
      PROVE  Inv'
  <2>1. CtxInv'
    BY <1>2, WriteCellKeeps DEF UpdateSession
  <2>2. VerifyingOK'
    BY <1>2, AfterSessionOK DEF UpdateSession
  <2> QED
    BY <1>2, <2>1, <2>2 DEF UpdateSession, OtherTypes
<1>3. ASSUME NEW w \in pending, UpdateState(w)
      PROVE  Inv'
  <2>1. CtxInv'
    BY <1>3, WriteCellKeeps DEF UpdateState
  <2> QED
    BY <1>3, <2>1 DEF UpdateState, VerifyingOK, OtherTypes
<1>4. ASSUME NEW w \in pending, Fail(w)
      PROVE  Inv'
  <2>1. CtxInv'
    BY <1>4, WriteFailsKeeps DEF Fail
  <2> QED
    BY <1>4, <2>1 DEF Fail, VerifyingOK, OtherTypes
<1>5. ASSUME NEW a \in Agents, NEW n \in Contracts \cup {NoContract}, Register(a, n)
      PROVE  Inv'
  <2>1. CtxInv'
    BY <1>5, ReplaceKeeps DEF Register
  <2>2. VerifyingOK'
    BY <1>5, AfterContractOK DEF Register
  <2>3. registrations' \in 0 .. MaxRegistrations
    BY <1>5, IntentsAssumption DEF Register, OtherTypes
  <2>4. contract' \in [Agents -> Contracts \cup {NoContract}]
    BY <1>5 DEF Register, OtherTypes
  <2> QED
    BY <1>5, <2>1, <2>2, <2>3, <2>4 DEF Register, OtherTypes
<1> QED
  BY <1>1, <1>2, <1>3, <1>4, <1>5 DEF Environment

LEMMA InvInit == Init => Inv
<1> SUFFICES ASSUME Init PROVE Inv
  OBVIOUS
<1>1. CtxInv
  BY UpdatesAssumption DEF Init, CtxInit, CtxInv, CtxTypeOK, PendingCovered,
                           UpdatesKeptUnlessOvertaken
<1>2. 0 \in 0 .. MaxIntents /\ 0 \in 0 .. MaxRegistrations
  BY IntentsAssumption
<1>3. ledger \in Seq(Entry)
  BY DEF Init
<1> QED
  BY <1>1, <1>2, <1>3 DEF Init, Inv, VerifyingOK, OtherTypes

LEMMA InvNext == Inv /\ [Next]_vars => Inv'
<1> SUFFICES ASSUME Inv, [Next]_vars PROVE Inv'
  OBVIOUS
<1>1. CASE Environment
  BY <1>1, EnvironmentOK
<1>2. CASE \E k \in Kernels, f \in Flows, n \in Amounts, s \in BOOLEAN : Emit(k, f, n, s)
  BY <1>2, EmitOK
<1>3. CASE \E v \in verifying : KernelStep(v)
  BY <1>3, KernelStepOK
<1>4. CASE UNCHANGED vars
  BY <1>4, QuietKeeps DEF vars, Inv, VerifyingOK, OtherTypes
<1> QED
  BY <1>1, <1>2, <1>3, <1>4 DEF Next

(* Type correctness of the context store, the registry's contracts, the    *)
(* verifications under way and the ledger.                                 *)
THEOREM TypeCorrect == Spec => []TypeOK
<1>1. Inv => TypeOK
  BY TypeSplit DEF Inv, CtxInv
<1> QED
  BY <1>1, InvInit, InvNext, PTL DEF Spec

(* Whatever was merged into a session or a state is there, unless an       *)
(* overlapping update overwrote it or a registration wiped it.             *)
THEOREM UpdatesKept == Spec => []UpdatesKeptUnlessOvertaken
<1>1. Inv => UpdatesKeptUnlessOvertaken
  BY DEF Inv, CtxInv
<1> QED
  BY <1>1, InvInit, InvNext, PTL DEF Spec

-----------------------------------------------------------------------------
(* The ledger *)

IInv ==
    /\ Inv
    /\ AllEstablished
    /\ EvidenceInForce
    /\ CertifiedAmount

(* Other verifications are left as they are by a step that moves one.      *)
LEMMA OthersEstablished ==
  ASSUME AllEstablished, NEW v \in verifying, NEW w, UNCHANGED contract,
         Goto(v, w) \/ Refuse(v) \/ Answer(v),
         Goto(v, w) => Established(w)
  PROVE  AllEstablished'
BY DEF AllEstablished, Established, Current, Goto, Refuse, Answer

(* An entry is appended for a verification that has reached its end.       *)
LEMMA AppendKeeps ==
  ASSUME IInv, NEW v \in verifying, v.at \in {"append", "add"},
         ledger' = Append(ledger, EntryOf(v)) \/ ledger' = ledger
  PROVE  EvidenceInForce' /\ CertifiedAmount'
<1>1. CASE ledger' = ledger
  BY <1>1 DEF IInv, EvidenceInForce, CertifiedAmount
<1>2. CASE ledger' = Append(ledger, EntryOf(v))
  <2>1. /\ EntryOf(v).pci = v.pci /\ EntryOf(v).ctxHeld = v.ctxHeld
        /\ EntryOf(v).conHeld = v.conHeld /\ EntryOf(v).rewritten = v.rewritten
    BY DEF EntryOf
  <2>2. /\ v.pci.sound /\ v.ctxHeld /\ v.conHeld
        /\ Permits(v.pci.contract, v.pci.amount) \/ v.rewritten
    BY DEF IInv, AllEstablished, Established
  <2>3. ASSUME NEW i \in DOMAIN ledger'
        PROVE  ledger'[i] = EntryOf(v) \/ (i \in DOMAIN ledger /\ ledger'[i] = ledger[i])
    <3>1. ledger \in Seq(Entry)
      BY DEF IInv, Inv, OtherTypes
    <3> HIDE DEF EntryOf
    <3> QED
      BY <1>2, <2>3, <3>1
  <2> QED
    BY <2>1, <2>2, <2>3 DEF IInv, EvidenceInForce, CertifiedAmount
<1> QED
  BY <1>1, <1>2

LEMMA KernelStepLedger ==
  ASSUME IInv, NEW v \in verifying, KernelStep(v)
  PROVE  AllEstablished' /\ EvidenceInForce' /\ CertifiedAmount'
<1>1. v \in Verification /\ Established(v)
  BY DEF IInv, Inv, VerifyingOK, AllEstablished
<1>2. UNCHANGED contract
  BY DEF KernelStep, HashContext, HashContract, Recheck, Validate, AppendRow,
         AppendSqlite, AppendPostgres,
         AppendFails, AppendUnstored, ScanMemory, AddMemory, quiet
<1>3. AllEstablished
  BY DEF IInv
<1>4. \A s : [v EXCEPT !.at = s].pci = v.pci /\ [v EXCEPT !.at = s].at = s
             /\ [v EXCEPT !.at = s].ctxHeld = v.ctxHeld
             /\ [v EXCEPT !.at = s].conHeld = v.conHeld
             /\ [v EXCEPT !.at = s].rewritten = v.rewritten
  BY <1>1 DEF Verification
<1>5. (ledger' = ledger) => EvidenceInForce' /\ CertifiedAmount'
  BY DEF IInv, EvidenceInForce, CertifiedAmount
<1>6. Refuse(v) \/ Answer(v) => AllEstablished'
  BY <1>2, <1>3 DEF AllEstablished, Established, Current, Refuse, Answer
<1>7. CASE HashContext(v)
  <2> DEFINE w == [v EXCEPT !.at = "contract",
                            !.ctxMatches = content[v.pci.flow] = v.pci.context
                                             /\ v.pci.context # {},
                            !.ctxHeld = content[v.pci.flow] = v.pci.context,
                            !.conHeld = Current(v) = v.pci.contract]
  <2>1. /\ w.at = "contract" /\ w.pci = v.pci
        /\ w.ctxMatches => w.ctxHeld
        /\ w.conHeld <=> Current(v) = v.pci.contract
    BY <1>1 DEF Verification
  <2>2. Goto(v, w) /\ ledger' = ledger
    BY <1>7 DEF HashContext
  <2> HIDE DEF w
  <2>3. Established(w)
    BY <2>1 DEF Established, Current, Between
  <2> QED
    BY <1>2, <1>3, <1>5, <2>2, <2>3, OthersEstablished
<1>8. CASE HashContract(v)
  <2> DEFINE w == [v EXCEPT !.at = "recheck"]
  <2>1. ledger' = ledger
    BY <1>8 DEF HashContract
  <2>2. CASE EvidenceValid(v)
    <3>1. v.at = "contract" /\ Goto(v, w)
      BY <1>8, <2>2 DEF HashContract
    <3>2. v.pci.sound /\ v.ctxHeld /\ v.conHeld /\ v.pci.contract = Current(v)
      BY <1>1, <2>2, <3>1 DEF EvidenceValid, Established
    <3>3. /\ w.pci = v.pci /\ w.at = "recheck" /\ w.ctxHeld = v.ctxHeld
          /\ w.conHeld = v.conHeld
      BY <1>4
    <3> HIDE DEF w
    <3>4. Established(w)
      BY <3>2, <3>3 DEF Established, Current
    <3> QED
      BY <1>2, <1>3, <1>5, <2>1, <3>1, <3>4, OthersEstablished
  <2>3. CASE ~EvidenceValid(v)
    BY <1>5, <1>6, <1>8, <2>1, <2>3 DEF HashContract
  <2> QED
    BY <2>2, <2>3
<1>9. CASE Recheck(v)
  <2> DEFINE w == [v EXCEPT !.at = "validate"]
  <2>1. ledger' = ledger /\ v.at = "recheck" /\ (Refuse(v) \/ Goto(v, w))
    BY <1>9 DEF Recheck
  <2>2. /\ w.pci = v.pci /\ w.at = "validate" /\ w.ctxHeld = v.ctxHeld
        /\ w.conHeld = v.conHeld /\ w.rewritten = v.rewritten
    BY <1>4
  <2> HIDE DEF w
  <2>3. Established(w)
    BY <1>1, <2>1, <2>2 DEF Established, Current, Between
  <2> QED
    BY <1>2, <1>3, <1>5, <2>1, <2>3, OthersEstablished
<1>10. CASE Validate(v)
  <2> DEFINE w == [v EXCEPT !.at = "append"]
  <2>1. ledger' = ledger /\ v.at = "validate"
    BY <1>10 DEF Validate
  <2>2. Refuse(v) \/ (Goto(v, w) /\ Permits(Current(v), v.pci.amount))
    BY <1>10 DEF Validate, Allowed
  <2>3. /\ w.pci = v.pci /\ w.at = "append" /\ w.ctxHeld = v.ctxHeld
        /\ w.conHeld = v.conHeld /\ w.rewritten = v.rewritten
    BY <1>4
  <2> HIDE DEF w
  <2>4. Permits(Current(v), v.pci.amount) => Established(w)
    BY <1>1, <2>1, <2>3 DEF Established, Between
  <2> QED
    BY <1>2, <1>3, <1>5, <1>6, <2>1, <2>2, <2>4, OthersEstablished
<1>11. CASE backend # "memory" /\ AppendRow(v)
  BY <1>6, <1>11, AppendKeeps DEF AppendRow, InsertOrIgnore
<1>12. CASE AppendFails(v)
  BY <1>5, <1>6, <1>12 DEF AppendFails
<1>13. CASE AppendUnstored(v)
  BY <1>6, <1>13, AppendKeeps DEF AppendUnstored
<1>14. CASE ScanMemory(v)
  <2> DEFINE w == [v EXCEPT !.at = "add"]
  <2>1. ledger' = ledger /\ v.at = "append" /\ (Answer(v) \/ Goto(v, w))
    BY <1>14 DEF ScanMemory
  <2>2. /\ w.pci = v.pci /\ w.at = "add" /\ w.ctxHeld = v.ctxHeld
        /\ w.conHeld = v.conHeld /\ w.rewritten = v.rewritten
    BY <1>4
  <2> HIDE DEF w
  <2>3. Established(w)
    BY <1>1, <2>1, <2>2 DEF Established, Between
  <2> QED
    BY <1>2, <1>3, <1>5, <2>1, <2>3, OthersEstablished
<1>15. CASE AddMemory(v)
  BY <1>6, <1>15, AppendKeeps DEF AddMemory
<1> QED
  BY <1>7, <1>8, <1>9, <1>10, <1>11, <1>12, <1>13, <1>14, <1>15 DEF KernelStep, AppendSqlite, AppendPostgres

LEMMA EnvironmentLedger == IInv /\ Environment => AllEstablished'
<1> SUFFICES ASSUME IInv, Environment PROVE AllEstablished'
  OBVIOUS
<1>1. CASE UNCHANGED <<contract, verifying>>
  BY <1>1 DEF IInv, AllEstablished, Established, Current
<1>2. ASSUME NEW w \in pending, UpdateSession(w)
      PROVE  AllEstablished'
  <2> SUFFICES ASSUME NEW x \in verifying'
               PROVE  Established(x)'
    BY DEF AllEstablished
  <2>1. PICK v \in verifying :
          x = [v EXCEPT !.ctxHeld = @ \/ (v.pci.flow = w.cell /\ v.pci.context = Merging(w))]
    BY <1>2 DEF UpdateSession, AfterSession
  <2>2. v \in Verification /\ Established(v)
    BY DEF IInv, Inv, VerifyingOK, AllEstablished
  <2>3. /\ x.pci = v.pci /\ x.at = v.at /\ x.ctxMatches = v.ctxMatches
        /\ x.conHeld = v.conHeld /\ x.rewritten = v.rewritten
        /\ v.ctxHeld => x.ctxHeld
    BY <2>1, <2>2 DEF Verification
  <2>4. contract' = contract
    BY <1>2 DEF UpdateSession
  <2> QED
    BY <2>2, <2>3, <2>4 DEF Established, Current
<1>3. ASSUME NEW a \in Agents, NEW n \in Contracts \cup {NoContract}, Register(a, n)
      PROVE  AllEstablished'
  <2> SUFFICES ASSUME NEW x \in verifying'
               PROVE  Established(x)'
    BY DEF AllEstablished
  <2>1. PICK v \in verifying :
          x = IF AgentOf[v.pci.flow] = a
              THEN [v EXCEPT !.conHeld = @ \/ v.pci.contract = n,
                             !.rewritten = @ \/ v.at \in Between]
              ELSE v
    BY <1>3 DEF Register, AfterContract
  <2>2. v \in Verification /\ Established(v)
    BY DEF IInv, Inv, VerifyingOK, AllEstablished
  <2>3. \A b \in Agents : contract'[b] = IF b = a THEN n ELSE contract[b]
    BY <1>3 DEF Register, IInv, Inv, OtherTypes
  <2>4. AgentOf[v.pci.flow] \in Agents
    BY <2>2, AgentOfAssumption DEF Verification, PCI
  <2>5. CASE AgentOf[v.pci.flow] # a
    BY <2>1, <2>2, <2>3, <2>4, <2>5 DEF Established, Current
  <2>6. CASE AgentOf[v.pci.flow] = a
    <3>1. /\ x.pci = v.pci /\ x.at = v.at /\ x.ctxMatches = v.ctxMatches
          /\ x.ctxHeld = v.ctxHeld
          /\ v.conHeld => x.conHeld
          /\ v.pci.contract = n => x.conHeld
          /\ v.rewritten => x.rewritten
          /\ v.at \in Between => x.rewritten
      BY <2>1, <2>2, <2>6 DEF Verification
    <3>2. contract'[AgentOf[v.pci.flow]] = n
      BY <2>3, <2>4, <2>6
    <3> QED
      BY <2>2, <3>1, <3>2 DEF Established, Current
  <2> QED
    BY <2>5, <2>6
<1> QED
  BY <1>1, <1>2, <1>3 DEF Environment, Begin, UpdateState, Fail

LEMMA EmitLedger ==
  ASSUME IInv, NEW k \in Kernels, NEW f \in Flows, NEW n \in Amounts, NEW s \in BOOLEAN,
         Emit(k, f, n, s)
  PROVE  AllEstablished'
BY DEF IInv, AllEstablished, Established, Between, Current, Emit, quiet

LEMMA IInvNext == IInv /\ [Next]_vars => IInv'
<1> SUFFICES ASSUME IInv, [Next]_vars PROVE IInv'
  OBVIOUS
<1>1. Inv'
  BY InvNext DEF IInv
<1>2. (ledger' = ledger) => EvidenceInForce' /\ CertifiedAmount'
  BY DEF IInv, EvidenceInForce, CertifiedAmount
<1>3. CASE Environment
  <2>1. ledger' = ledger
    BY <1>3 DEF Environment, Begin, UpdateSession, UpdateState, Fail, Register
  <2> QED
    BY <1>1, <1>2, <1>3, <2>1, EnvironmentLedger DEF IInv
<1>4. CASE \E k \in Kernels, f \in Flows, n \in Amounts, s \in BOOLEAN : Emit(k, f, n, s)
  <2>1. ledger' = ledger
    BY <1>4 DEF Emit
  <2> QED
    BY <1>1, <1>2, <1>4, <2>1, EmitLedger DEF IInv
<1>5. CASE \E v \in verifying : KernelStep(v)
  BY <1>1, <1>5, KernelStepLedger DEF IInv
<1>6. CASE UNCHANGED vars
  BY <1>1, <1>2, <1>6 DEF vars, IInv, AllEstablished, Established, Current
<1> QED
  BY <1>3, <1>4, <1>5, <1>6 DEF Next

LEMMA IInvInit == Init => IInv
BY InvInit DEF Init, IInv, AllEstablished, EvidenceInForce, CertifiedAmount

(* Every entry's evidence is sound and was in force while it was verified. *)
THEOREM EvidenceHolds == Spec => []EvidenceInForce
<1>1. IInv => EvidenceInForce
  BY DEF IInv
<1> QED
  BY <1>1, IInvInit, IInvNext, PTL DEF Spec

(* Every entry's contract permits its amount, unless the contract was      *)
(* written anew within its verification.                                   *)
THEOREM AmountsCertified == Spec => []CertifiedAmount
<1>1. IInv => CertifiedAmount
  BY DEF IInv
<1> QED
  BY <1>1, IInvInit, IInvNext, PTL DEF Spec

(* History is not rewritten: no step removes, changes or reorders entries. *)
AppendOnly ==
    [][/\ Len(ledger) <= Len(ledger')
       /\ \A i \in DOMAIN ledger : ledger'[i] = ledger[i]]_vars

(* No step removes, changes or reorders entries of the ledger.             *)
THEOREM NothingRewritten == Spec => AppendOnly
<1>1. ASSUME Inv, [Next]_vars
      PROVE  /\ Len(ledger) <= Len(ledger')
             /\ \A i \in DOMAIN ledger : ledger'[i] = ledger[i]
  <2>1. ledger \in Seq(Entry)
    BY <1>1 DEF Inv, OtherTypes
  <2>2. ledger' = ledger \/ \E e : ledger' = Append(ledger, e)
    BY <1>1 DEF Next, Environment, Begin, UpdateSession, UpdateState, Fail, Register, Emit,
         KernelStep, HashContext, HashContract, Recheck, Validate, AppendRow,
         AppendSqlite, AppendPostgres,
         InsertOrIgnore, AppendFails, AppendUnstored, ScanMemory, AddMemory, vars
  <2>3. CASE ledger' = ledger
    BY <2>1, <2>3
  <2>4. ASSUME NEW e, ledger' = Append(ledger, e)
        PROVE  /\ Len(ledger) <= Len(ledger')
               /\ \A i \in DOMAIN ledger : ledger'[i] = ledger[i]
    BY <2>1, <2>4
  <2> QED
    BY <2>2, <2>3, <2>4
<1> QED
  BY <1>1, InvInit, InvNext, PTL DEF Spec, AppendOnly

-----------------------------------------------------------------------------
(* One entry for each flow                                                 *)

(* The kernels between the two halves of an append in memory.              *)
AddingBy(f) ==
    {k \in Kernels : \E v \in verifying : v.by = k /\ v.at = "add" /\ v.pci.flow = f}

CountedFor(f) ==
    /\ IsFiniteSet(AddingBy(f))
    /\ answers[f] > 0 => Entries(f) # {}
    /\ stored => Cardinality(Entries(f)) + Cardinality(AddingBy(f)) <= 1 + raced[f]
    /\ ~stored => Cardinality(Entries(f)) = answers[f]

AddOnlyInMemory == \A v \in verifying : v.at = "add" => stored /\ backend = "memory"

CInv ==
    /\ Inv
    /\ AddOnlyInMemory
    /\ \A f \in Flows : CountedFor(f)

LEMMA EntriesFinite ==
  ASSUME Inv, NEW f \in Flows
  PROVE  IsFiniteSet(Entries(f)) /\ Cardinality(Entries(f)) \in Nat
<1>1. IsFiniteSet(1 .. Len(ledger))
  BY FS_Interval DEF Inv, OtherTypes
<1>2. Entries(f) \subseteq 1 .. Len(ledger)
  BY DEF Entries, Inv, OtherTypes
<1> QED
  BY <1>1, <1>2, FS_Subset, FS_CardinalityType

LEMMA EntriesAppend ==
  ASSUME Inv, NEW v \in verifying, ledger' = Append(ledger, EntryOf(v)), NEW f \in Flows
  PROVE  /\ v.pci.flow # f => Entries(f)' = Entries(f)
         /\ v.pci.flow = f => /\ Entries(f)' # {}
                              /\ Cardinality(Entries(f)') = Cardinality(Entries(f)) + 1
<1> DEFINE n == Len(ledger) + 1
<1>1. ledger \in Seq(Entry) /\ EntryOf(v).pci.flow = v.pci.flow
  BY DEF Inv, OtherTypes, EntryOf
<1> HIDE DEF EntryOf
<1>2. DOMAIN ledger = 1 .. Len(ledger) /\ DOMAIN ledger' = 1 .. n /\ n \in Nat
  BY <1>1
<1>3. ledger'[n].pci.flow = v.pci.flow /\ \A i \in DOMAIN ledger : ledger'[i] = ledger[i]
  BY <1>1
<1>4. DOMAIN ledger' = DOMAIN ledger \cup {n} /\ n \notin DOMAIN ledger
  BY <1>1, <1>2
<1> HIDE DEF n
<1>5. CASE v.pci.flow # f
  BY <1>3, <1>4, <1>5 DEF Entries
<1>6. CASE v.pci.flow = f
  <2>1. Entries(f)' = Entries(f) \cup {n} /\ n \notin Entries(f)
    BY <1>3, <1>4, <1>6 DEF Entries
  <2>2. Cardinality(Entries(f) \cup {n}) = Cardinality(Entries(f)) + 1
    BY <2>1, EntriesFinite, FS_AddElement
  <2> QED
    BY <1>6, <2>1, <2>2
<1> QED
  BY <1>5, <1>6

(* A step that leaves the ledger, its counts and who is adding alone.      *)
LEMMA CountedKept ==
  ASSUME CInv, UNCHANGED <<ledger, answers, raced, stored>>,
         NEW f \in Flows, AddingBy(f)' = AddingBy(f)
  PROVE  CountedFor(f)'
BY DEF CInv, CountedFor, Entries

LEMMA EnvironmentCounted == CInv /\ Environment => CInv'
<1> SUFFICES ASSUME CInv, Environment PROVE CInv'
  OBVIOUS
<1>1. Inv'
  BY EnvironmentOK DEF CInv
<1>2. UNCHANGED <<ledger, answers, raced, stored>> /\ backend' = backend
  BY DEF Environment, Begin, ReadCell, UpdateSession, UpdateState, WriteCell, Fail,
         WriteFails, Register, Replace
<1>3. \/ verifying' = verifying
      \/ \E f \in Flows : \E S : verifying' = AfterSession(f, S)
      \/ \E a, n : verifying' = AfterContract(a, n)
  BY DEF Environment, Begin, UpdateSession, UpdateState, Fail, Register
<1> DEFINE SameStages ==
          /\ \A x \in verifying' : \E v \in verifying :
                 x.by = v.by /\ x.at = v.at /\ x.pci = v.pci
          /\ \A v \in verifying : \E x \in verifying' :
                 x.by = v.by /\ x.at = v.at /\ x.pci = v.pci
<1>4. SameStages
  <2>1. verifying \subseteq Verification
    BY DEF CInv, Inv, VerifyingOK
  <2>2. CASE verifying' = verifying
    BY <2>2
  <2>3. ASSUME NEW f \in Flows, NEW S, verifying' = AfterSession(f, S)
        PROVE  SameStages
    <3> DEFINE After(v) == [v EXCEPT !.ctxHeld = @ \/ (v.pci.flow = f /\ v.pci.context = S)]
    <3>1. verifying' = {After(v) : v \in verifying}
      BY <2>3 DEF AfterSession
    <3>2. \A v \in verifying :
            After(v).by = v.by /\ After(v).at = v.at /\ After(v).pci = v.pci
      BY <2>1 DEF Verification
    <3> HIDE DEF After
    <3> QED
      BY <3>1, <3>2
  <2>4. ASSUME NEW a, NEW n, verifying' = AfterContract(a, n)
        PROVE  SameStages
    <3> DEFINE After(v) ==
          IF AgentOf[v.pci.flow] = a
          THEN [v EXCEPT !.conHeld = @ \/ v.pci.contract = n,
                         !.rewritten = @ \/ v.at \in Between]
          ELSE v
    <3>1. verifying' = {After(v) : v \in verifying}
      BY <2>4 DEF AfterContract
    <3>2. \A v \in verifying :
            After(v).by = v.by /\ After(v).at = v.at /\ After(v).pci = v.pci
      BY <2>1 DEF Verification
    <3> HIDE DEF After
    <3> QED
      BY <3>1, <3>2
  <2> QED
    BY <1>3, <2>2, <2>3, <2>4
<1>5. ASSUME NEW f \in Flows
      PROVE  CountedFor(f)'
  <2>1. AddingBy(f)' = AddingBy(f)
    BY <1>4 DEF AddingBy
  <2> QED
    BY <1>2, <2>1, CountedKept
<1>6. AddOnlyInMemory'
  BY <1>2, <1>4 DEF CInv, AddOnlyInMemory
<1> QED
  BY <1>1, <1>5, <1>6 DEF CInv

LEMMA EmitCounted ==
  ASSUME CInv, NEW k \in Kernels, NEW f \in Flows, NEW n \in Amounts, NEW s \in BOOLEAN,
         Emit(k, f, n, s)
  PROVE  CInv'
<1>1. Inv'
  BY EmitOK DEF CInv
<1>2. \E new : verifying' = verifying \cup {new} /\ new.at = "emitted"
  <2> DEFINE new ==
        [by |-> k, at |-> "emitted", ctxMatches |-> FALSE,
         pci |-> [flow |-> f, amount |-> n, context |-> content[f],
                  contract |-> contract[AgentOf[f]], sound |-> s],
         ctxHeld |-> FALSE, conHeld |-> FALSE, rewritten |-> FALSE]
  <2>1. verifying' = verifying \cup {new}
    BY DEF Emit
  <2>2. new.at = "emitted"
    OBVIOUS
  <2> HIDE DEF new
  <2> QED
    BY <2>1, <2>2
<1>3. UNCHANGED <<ledger, answers, raced, stored>> /\ backend' = backend
  BY DEF Emit, quiet, ctxvars
<1>4. ASSUME NEW g \in Flows
      PROVE  CountedFor(g)'
  <2>1. AddingBy(g)' = AddingBy(g)
    BY <1>2 DEF AddingBy
  <2> QED
    BY <1>3, <2>1, CountedKept
<1>5. AddOnlyInMemory'
  BY <1>2, <1>3 DEF CInv, AddOnlyInMemory
<1> QED
  BY <1>1, <1>4, <1>5 DEF CInv

LEMMA KernelStepCounted ==
  ASSUME CInv, NEW v \in verifying, KernelStep(v)
  PROVE  CInv'
<1> DEFINE f == v.pci.flow
<1>1. Inv /\ AddOnlyInMemory /\ (\A g \in Flows : CountedFor(g))
  BY DEF CInv
<1>2. Inv'
  BY <1>1, KernelStepOK
<1>3. v \in Verification /\ f \in Flows /\ v.by \in Kernels
  BY <1>1 DEF Inv, VerifyingOK, Verification, PCI
<1>4. \A w \in verifying : w.by = v.by => w = v
  BY <1>1 DEF Inv, VerifyingOK
<1>5. backend' = backend /\ stored' = stored
  BY DEF KernelStep, HashContext, HashContract, Recheck, Validate, AppendRow,
         AppendSqlite, AppendPostgres,
         AppendFails, AppendUnstored, ScanMemory, AddMemory, quiet, ctxvars
<1>6. \A g \in Flows : /\ Cardinality(Entries(g)) \in Nat /\ answers[g] \in Nat
                       /\ raced[g] \in Nat
  BY <1>1, EntriesFinite DEF Inv, OtherTypes
<1>7. \A g \in Flows : /\ IsFiniteSet(AddingBy(g)) /\ Cardinality(AddingBy(g)) \in Nat
  BY <1>1, FS_CardinalityType DEF CountedFor
<1>8. ASSUME v.at # "add", Refuse(v) \/ Answer(v)
      PROVE  AddOnlyInMemory' /\ \A g \in Flows : AddingBy(g)' = AddingBy(g)
  <2>1. verifying' = verifying \ {v}
    BY <1>8 DEF Refuse, Answer
  <2> QED
    BY <1>1, <1>5, <1>8, <2>1 DEF AddOnlyInMemory, AddingBy
<1>9. ASSUME v.at # "add", NEW w, w.at # "add", Goto(v, w)
      PROVE  AddOnlyInMemory' /\ \A g \in Flows : AddingBy(g)' = AddingBy(g)
  BY <1>1, <1>5, <1>9 DEF AddOnlyInMemory, AddingBy, Goto
<1>10. CASE HashContext(v) \/ HashContract(v) \/ Recheck(v) \/ Validate(v) \/ AppendFails(v)
  <2>1. UNCHANGED <<ledger, answers, raced, stored>> /\ v.at # "add"
    BY <1>10 DEF HashContext, HashContract, Recheck, Validate, AppendFails, quiet
  <2>2. Refuse(v) \/ \E w : w.at # "add" /\ Goto(v, w)
    <3>1. \A s : [v EXCEPT !.at = s].at = s
      BY <1>3 DEF Verification
    <3>2. CASE HashContext(v)
      <4> DEFINE w == [v EXCEPT !.at = "contract",
                                !.ctxMatches = content[v.pci.flow] = v.pci.context
                                                 /\ v.pci.context # {},
                                !.ctxHeld = content[v.pci.flow] = v.pci.context,
                                !.conHeld = Current(v) = v.pci.contract]
      <4>1. w.at = "contract"
        BY <1>3 DEF Verification
      <4>2. Goto(v, w)
        BY <3>2 DEF HashContext
      <4> HIDE DEF w
      <4> QED
        BY <4>1, <4>2
    <3>3. CASE HashContract(v)
      BY <3>1, <3>3 DEF HashContract
    <3>4. CASE Recheck(v)
      BY <3>1, <3>4 DEF Recheck
    <3>5. CASE Validate(v)
      BY <3>1, <3>5 DEF Validate
    <3>6. CASE AppendFails(v)
      BY <3>6 DEF AppendFails
    <3> QED
      BY <1>10, <3>2, <3>3, <3>4, <3>5, <3>6
  <2>3. AddOnlyInMemory' /\ \A g \in Flows : AddingBy(g)' = AddingBy(g)
    BY <1>8, <1>9, <2>1, <2>2
  <2> QED
    BY <1>2, <2>1, <2>3, CountedKept DEF CInv
<1>11. CASE backend # "memory" /\ AppendRow(v)
  <2>1. v.at = "append" /\ stored /\ backend # "memory" /\ raced' = raced
    BY <1>11 DEF AppendRow
  <2>2. AddOnlyInMemory' /\ \A g \in Flows : AddingBy(g)' = AddingBy(g)
    BY <1>8, <1>11, <2>1 DEF AppendRow
  <2>3. \A g \in Flows : AddingBy(g) = {}
    BY <1>1, <2>1 DEF AddOnlyInMemory, AddingBy
  <2>4. \A g \in Flows : g # f => answers'[g] = answers[g]
    BY <1>1, <1>11 DEF AppendRow, Answer, Inv, OtherTypes
  <2>5. CASE OnFile(f)
    <3>1. ledger' = ledger
      BY <1>11, <2>5 DEF AppendRow, InsertOrIgnore
    <3>2. Entries(f) # {}
      BY <2>5 DEF OnFile, Entries
    <3>3. \A g \in Flows : CountedFor(g)'
      BY <1>1, <1>5, <2>1, <2>2, <2>4, <3>1, <3>2 DEF CountedFor, Entries
    <3> QED
      BY <1>2, <2>2, <3>3 DEF CInv
  <2>6. CASE ~OnFile(f)
    <3>1. ledger' = Append(ledger, EntryOf(v))
      BY <1>11, <2>6 DEF AppendRow, InsertOrIgnore
    <3>2. Entries(f) = {} /\ Cardinality(Entries(f)) = 0
      BY <2>6, FS_EmptySet DEF OnFile, Entries
    <3>3. Cardinality(AddingBy(f)) = 0
      BY <1>3, <2>3, FS_EmptySet
    <3>4. CountedFor(f)'
      <4>1. Entries(f)' # {} /\ Cardinality(Entries(f)') = Cardinality(Entries(f)) + 1
        BY <1>1, <1>3, <3>1, EntriesAppend
      <4>2. Cardinality(Entries(f)') + Cardinality(AddingBy(f)') <= 1 + raced'[f]
        BY <1>3, <1>6, <2>1, <2>2, <3>2, <3>3, <4>1
      <4> QED
        BY <1>3, <1>5, <1>7, <2>1, <2>2, <4>1, <4>2 DEF CountedFor
    <3>5. ASSUME NEW g \in Flows, g # f
          PROVE  CountedFor(g)'
      <4>1. Entries(g)' = Entries(g)
        BY <1>1, <3>1, <3>5, EntriesAppend
      <4> QED
        BY <1>1, <1>5, <2>1, <2>2, <2>4, <3>5, <4>1 DEF CountedFor
    <3> QED
      BY <1>2, <2>2, <3>4, <3>5 DEF CInv
  <2> QED
    BY <2>5, <2>6
<1>12. CASE AppendUnstored(v)
  <2>1. v.at = "append" /\ ~stored /\ raced' = raced /\ ledger' = Append(ledger, EntryOf(v))
    BY <1>12 DEF AppendUnstored
  <2>2. AddOnlyInMemory' /\ \A g \in Flows : AddingBy(g)' = AddingBy(g)
    BY <1>8, <1>12, <2>1 DEF AppendUnstored
  <2>3. \A g \in Flows : answers'[g] = IF g = f THEN answers[g] + 1 ELSE answers[g]
    BY <1>1, <1>3, <1>12 DEF AppendUnstored, Answer, Inv, OtherTypes
  <2>4. ASSUME NEW g \in Flows
        PROVE  CountedFor(g)'
    <3>1. CASE g = f
      <4>1. Entries(f)' # {} /\ Cardinality(Entries(f)') = Cardinality(Entries(f)) + 1
        BY <1>1, <1>3, <2>1, EntriesAppend
      <4>2. Cardinality(Entries(f)) = answers[f]
        BY <1>1, <1>3, <2>1 DEF CountedFor
      <4>3. Cardinality(Entries(f)') = answers'[f]
        BY <1>3, <2>3, <4>1, <4>2
      <4> QED
        BY <1>3, <1>5, <1>7, <2>1, <2>2, <3>1, <4>1, <4>3 DEF CountedFor
    <3>2. CASE g # f
      <4>1. Entries(g)' = Entries(g)
        BY <1>1, <2>1, <3>2, EntriesAppend
      <4> QED
        BY <1>1, <1>5, <2>1, <2>2, <2>3, <3>2, <4>1 DEF CountedFor
    <3> QED
      BY <3>1, <3>2
  <2> QED
    BY <1>2, <2>2, <2>4 DEF CInv
<1>13. CASE ScanMemory(v)
  <2>1. v.at = "append" /\ stored /\ backend = "memory" /\ ledger' = ledger
    BY <1>13 DEF ScanMemory
  <2>2. CASE OnFile(f)
    <3>1. Answer(v) /\ raced' = raced
      BY <1>13, <2>2 DEF ScanMemory, AlreadyBound
    <3>2. AddOnlyInMemory' /\ \A g \in Flows : AddingBy(g)' = AddingBy(g)
      BY <1>8, <2>1, <3>1
    <3>3. \A g \in Flows : g # f => answers'[g] = answers[g]
      BY <1>1, <3>1 DEF Answer, Inv, OtherTypes
    <3>4. Entries(f) # {}
      BY <2>2 DEF OnFile, Entries
    <3>5. \A g \in Flows : CountedFor(g)'
      BY <1>1, <1>5, <2>1, <3>1, <3>2, <3>3, <3>4 DEF CountedFor, Entries
    <3> QED
      BY <1>2, <3>2, <3>5 DEF CInv
  <2>3. CASE ~OnFile(f)
    <3> DEFINE w == [v EXCEPT !.at = "add"]
    <3>1. w.at = "add" /\ w.by = v.by /\ w.pci = v.pci
      BY <1>3 DEF Verification
    <3>2. /\ Goto(v, w) /\ answers' = answers
          /\ raced' = [raced EXCEPT ![f] = IF Adding(f) THEN @ + 1 ELSE @]
      BY <1>13, <2>3 DEF ScanMemory, AlreadyBound
    <3> HIDE DEF w
    <3>3. AddOnlyInMemory'
      BY <1>1, <1>5, <2>1, <3>2 DEF AddOnlyInMemory, Goto
    <3>4. AddingBy(f)' = AddingBy(f) \cup {v.by} /\ v.by \notin AddingBy(f)
      BY <1>3, <1>4, <2>1, <3>1, <3>2 DEF AddingBy, Goto
    <3>5. /\ IsFiniteSet(AddingBy(f) \cup {v.by})
          /\ Cardinality(AddingBy(f) \cup {v.by}) = Cardinality(AddingBy(f)) + 1
      BY <1>3, <1>7, <3>4, FS_AddElement
    <3>6. Entries(f) = {} /\ Cardinality(Entries(f)) = 0 /\ Entries(f)' = Entries(f)
      BY <2>1, <2>3, FS_EmptySet DEF OnFile, Entries
    <3>7. raced'[f] = IF Adding(f) THEN raced[f] + 1 ELSE raced[f]
      BY <1>1, <1>3, <3>2 DEF Inv, OtherTypes
    <3>8. ~Adding(f) => AddingBy(f) = {} /\ Cardinality(AddingBy(f)) = 0
      BY FS_EmptySet DEF Adding, AddingBy
    <3>9. Cardinality(AddingBy(f)) <= 1 + raced[f]
      BY <1>1, <1>3, <1>6, <1>7, <2>1, <3>6 DEF CountedFor
    <3>10. Cardinality(Entries(f)') + Cardinality(AddingBy(f)') <= 1 + raced'[f]
      <4>1. Cardinality(Entries(f)') = 0
              /\ Cardinality(AddingBy(f)') = Cardinality(AddingBy(f)) + 1
        BY <3>4, <3>5, <3>6
      <4>2. Cardinality(AddingBy(f)) \in Nat /\ raced[f] \in Nat
        BY <1>3, <1>6, <1>7
      <4> QED
        BY <3>7, <3>8, <3>9, <4>1, <4>2
    <3>11. CountedFor(f)'
      <4>1. IsFiniteSet(AddingBy(f)')
        BY <3>4, <3>5
      <4>2. answers'[f] > 0 => Entries(f)' # {}
        BY <1>1, <1>3, <3>2, <3>6 DEF CountedFor
      <4> QED
        BY <1>5, <2>1, <3>10, <4>1, <4>2 DEF CountedFor
    <3>12. ASSUME NEW g \in Flows, g # f
           PROVE  CountedFor(g)'
      <4>1. AddingBy(g)' = AddingBy(g)
        BY <2>1, <3>1, <3>2, <3>12 DEF AddingBy, Goto
      <4>2. raced'[g] = raced[g] /\ Entries(g)' = Entries(g)
        BY <1>1, <2>1, <3>2, <3>12 DEF Inv, OtherTypes, Entries
      <4> QED
        BY <1>1, <1>5, <3>2, <4>1, <4>2 DEF CountedFor
    <3> QED
      BY <1>2, <3>3, <3>11, <3>12 DEF CInv
  <2> QED
    BY <2>2, <2>3
<1>14. CASE AddMemory(v)
  <2>1. v.at = "add" /\ raced' = raced /\ ledger' = Append(ledger, EntryOf(v)) /\ Answer(v)
    BY <1>14 DEF AddMemory
  <2>2. stored
    BY <1>1, <2>1 DEF AddOnlyInMemory
  <2>3. AddOnlyInMemory'
    BY <1>1, <1>5, <2>1 DEF AddOnlyInMemory, Answer
  <2>4. AddingBy(f)' = AddingBy(f) \ {v.by} /\ v.by \in AddingBy(f)
    BY <1>3, <1>4, <2>1 DEF AddingBy, Answer
  <2>5. /\ IsFiniteSet(AddingBy(f) \ {v.by})
        /\ Cardinality(AddingBy(f) \ {v.by}) = Cardinality(AddingBy(f)) - 1
    BY <1>3, <1>7, <2>4, FS_RemoveElement
  <2>6. CountedFor(f)'
    <3>1. Entries(f)' # {} /\ Cardinality(Entries(f)') = Cardinality(Entries(f)) + 1
      BY <1>1, <1>3, <2>1, EntriesAppend
    <3>2. Cardinality(Entries(f)) + Cardinality(AddingBy(f)) <= 1 + raced[f]
      BY <1>1, <1>3, <2>2 DEF CountedFor
    <3>3. /\ Cardinality(Entries(f)) \in Nat /\ Cardinality(AddingBy(f)) \in Nat
          /\ raced[f] \in Nat /\ Cardinality(AddingBy(f)') = Cardinality(AddingBy(f)) - 1
      BY <1>3, <1>6, <1>7, <2>4, <2>5
    <3>4. Cardinality(Entries(f)') + Cardinality(AddingBy(f)') <= 1 + raced'[f]
      BY <2>1, <3>1, <3>2, <3>3
    <3> QED
      BY <1>5, <2>2, <2>4, <2>5, <3>1, <3>4 DEF CountedFor
  <2>7. ASSUME NEW g \in Flows, g # f
        PROVE  CountedFor(g)'
    <3>1. Entries(g)' = Entries(g)
      BY <1>1, <2>1, <2>7, EntriesAppend
    <3>2. AddingBy(g)' = AddingBy(g)
      BY <2>1, <2>7 DEF AddingBy, Answer
    <3>3. answers'[g] = answers[g]
      BY <1>1, <2>1, <2>7 DEF Answer, Inv, OtherTypes
    <3> QED
      BY <1>1, <1>5, <2>1, <2>7, <3>1, <3>2, <3>3 DEF CountedFor
  <2> QED
    BY <1>2, <2>3, <2>6, <2>7 DEF CInv
<1> QED
  BY <1>10, <1>11, <1>12, <1>13, <1>14 DEF KernelStep, AppendSqlite, AppendPostgres

LEMMA CInvInit == Init => CInv
<1> SUFFICES ASSUME Init PROVE CInv
  OBVIOUS
<1>1. ASSUME NEW f \in Flows
      PROVE  CountedFor(f)
  <2>1. AddingBy(f) = {}
    BY DEF Init, AddingBy
  <2>2. Entries(f) = {}
    <3>1. ledger = <<>> /\ DOMAIN ledger = {}
      BY DEF Init
    <3> QED
      BY <3>1 DEF Entries
  <2>3. answers[f] = 0 /\ raced[f] = 0
    BY DEF Init
  <2>4. IsFiniteSet({}) /\ Cardinality({}) = 0
    BY FS_EmptySet
  <2> QED
    BY <2>1, <2>2, <2>3, <2>4 DEF CountedFor
<1>2. AddOnlyInMemory
  BY DEF Init, AddOnlyInMemory
<1> QED
  BY <1>1, <1>2, InvInit DEF CInv

LEMMA CInvNext == CInv /\ [Next]_vars => CInv'
<1> SUFFICES ASSUME CInv, [Next]_vars PROVE CInv'
  OBVIOUS
<1>1. CASE UNCHANGED vars
  <2>1. Inv'
    BY <1>1, InvNext DEF CInv
  <2>2. UNCHANGED <<ledger, answers, raced, stored, verifying, backend>>
    BY <1>1 DEF vars, ctxvars
  <2>3. \A f \in Flows : AddingBy(f)' = AddingBy(f)
    BY <2>2 DEF AddingBy
  <2> QED
    BY <2>1, <2>2, <2>3, CountedKept DEF CInv, AddOnlyInMemory
<1> QED
  BY <1>1, EnvironmentCounted, EmitCounted, KernelStepCounted DEF Next

(* A flow told it is bound has an entry, and only one unless appends in    *)
(* memory raced; without a storage there is one for each answer.           *)
THEOREM OneEntryEach == Spec => []OneEntryPerBoundFlow
<1>1. CInv => OneEntryPerBoundFlow
  <2> SUFFICES ASSUME CInv, NEW f \in Flows
               PROVE  /\ answers[f] > 0 => Entries(f) # {}
                      /\ IF stored THEN Cardinality(Entries(f)) <= 1 + raced[f]
                                   ELSE Cardinality(Entries(f)) = answers[f]
    BY DEF OneEntryPerBoundFlow
  <2>1. CountedFor(f) /\ Inv
    BY DEF CInv
  <2>2. Cardinality(Entries(f)) \in Nat /\ raced[f] \in Nat
    BY <2>1, EntriesFinite DEF Inv, OtherTypes
  <2>3. Cardinality(AddingBy(f)) \in Nat
    BY <2>1, FS_CardinalityType DEF CountedFor
  <2> QED
    BY <2>1, <2>2, <2>3 DEF CountedFor
<1> QED
  BY <1>1, CInvInit, CInvNext, PTL DEF Spec

(* In a database the unique flow of decision_ledger leaves no race: a flow *)
(* has one entry at most.                                                  *)
DatabaseBindsOnce ==
    stored /\ backend # "memory" => \A f \in Flows : Cardinality(Entries(f)) <= 1

(* Only a scan of the memory ledger counts a race.                         *)
NoRaceInDatabase == backend # "memory" => \A f \in Flows : raced[f] = 0

LEMMA NextNoRaceInDatabase ==
    ASSUME Inv, NoRaceInDatabase, [Next]_vars
    PROVE  NoRaceInDatabase'
<1>1. backend' = backend
  BY DEF Next, Environment, Begin, ReadCell, UpdateSession, UpdateState, WriteCell, Fail,
     WriteFails, Register, Replace, Emit, KernelStep, HashContext, HashContract, Recheck,
     Validate, AppendRow, AppendSqlite, AppendPostgres, AppendFails, AppendUnstored,
     ScanMemory, AddMemory, quiet, vars, ctxvars
<1>2. raced' = raced \/ backend = "memory"
  BY DEF Next, Environment, Begin, UpdateSession, UpdateState, Fail,
     Register, Emit, KernelStep, HashContext, HashContract, Recheck,
     Validate, AppendRow, AppendSqlite, AppendPostgres, AppendFails, AppendUnstored,
     ScanMemory, AddMemory, vars
<1> QED
  BY <1>1, <1>2 DEF NoRaceInDatabase

(* A database binds no flow twice, whatever the kernels' verifications     *)
(* overlap with; the memory ledger can.                                    *)
THEOREM OneEntryInDatabase == Spec => []DatabaseBindsOnce
<1>1. Init => NoRaceInDatabase
  BY DEF Init, NoRaceInDatabase
<1>2. Inv /\ NoRaceInDatabase /\ [Next]_vars => NoRaceInDatabase'
  BY NextNoRaceInDatabase
<1>3. OneEntryPerBoundFlow /\ NoRaceInDatabase => DatabaseBindsOnce
  <2> SUFFICES ASSUME OneEntryPerBoundFlow, NoRaceInDatabase, stored, backend # "memory",
                      NEW f \in Flows
               PROVE  Cardinality(Entries(f)) <= 1
    BY DEF DatabaseBindsOnce
  <2>1. raced[f] = 0 /\ Cardinality(Entries(f)) <= 1 + raced[f]
    BY DEF OneEntryPerBoundFlow, NoRaceInDatabase
  <2> QED
    BY <2>1
<1> QED
  BY <1>1, <1>2, <1>3, InvInit, InvNext, OneEntryEach, PTL DEF Spec

-----------------------------------------------------------------------------
(* The ledger implements BindingLog.                                       *)

Told == {f \in Flows : answers[f] > 0}

(* The log binds a flow just when a row of it is on file.                  *)
LEMMA BindsOnFile ==
    ASSUME IInv, NEW f \in Flows
    PROVE  Binding!Binds(f) <=> OnFile(f)
<1>1. ASSUME NEW i \in DOMAIN ledger
      PROVE  ledger[i] \in Certified[f] <=> ledger[i].pci.flow = f
  <2>1. ledger[i] \in Entry
    BY DEF IInv, Inv, OtherTypes
  <2> QED
    BY <2>1 DEF Certified, IInv, EvidenceInForce, CertifiedAmount
<1> QED
  BY <1>1 DEF Binding!Binds, OnFile

(* A verification at its end makes an entry that binds its flow.           *)
LEMMA EntryCertified ==
    ASSUME IInv, NEW v \in verifying, v.at \in {"append", "add"}
    PROVE  v.pci.flow \in Flows /\ EntryOf(v) \in Certified[v.pci.flow]
<1>1. v \in Verification /\ Established(v)
  BY DEF IInv, Inv, VerifyingOK, AllEstablished
<1>2. v.pci \in PCI /\ v.pci.flow \in Flows
  BY <1>1 DEF Verification, PCI
<1>3. /\ EntryOf(v) \in Entry
      /\ EntryOf(v).pci = v.pci /\ EntryOf(v).ctxHeld = v.ctxHeld
      /\ EntryOf(v).conHeld = v.conHeld /\ EntryOf(v).rewritten = v.rewritten
  BY <1>1, <1>2 DEF EntryOf, Entry, Verification
<1>4. /\ v.pci.sound /\ v.ctxHeld /\ v.conHeld
      /\ Permits(v.pci.contract, v.pci.amount) \/ v.rewritten
  BY <1>1 DEF Established
<1> HIDE DEF EntryOf, Entry
<1> QED
  BY <1>2, <1>3, <1>4 DEF Certified

(* Adding a verified entry, answered or not, is a step of the log's.       *)
LEMMA AppendBinds ==
    ASSUME IInv, NEW v \in verifying, v.at \in {"append", "add"},
           ledger' = Append(ledger, EntryOf(v)),
           stored /\ backend # "memory" => ~OnFile(v.pci.flow),
           UNCHANGED <<stored, backend>>,
           Answer(v) \/ answers' = answers
    PROVE  Binding!LogNext
<1> DEFINE f == v.pci.flow
<1>1. f \in Flows /\ EntryOf(v) \in Certified[f]
  BY EntryCertified
<1>2. ledger \in Seq(Entry) /\ answers \in [Flows -> Nat]
  BY DEF IInv, Inv, OtherTypes
<1>3. ledger' # ledger
  BY <1>2
<1>4. Told' \in {Told, Told \cup {f}}
  BY <1>1, <1>2 DEF Told, Answer
<1>5. Binding!Bind(f)
  BY <1>1, <1>3, <1>4, BindsOnFile DEF Binding!Bind, Told
<1> QED
  BY <1>1, <1>5 DEF Binding!LogNext

(* Answering a flow that is on file is a step of the log's.                *)
LEMMA AnswerConfirms ==
    ASSUME IInv, NEW v \in verifying, OnFile(v.pci.flow), Answer(v),
           UNCHANGED <<stored, backend, ledger>>
    PROVE  Binding!LogNext
<1> DEFINE f == v.pci.flow
<1>1. f \in Flows
  BY DEF IInv, Inv, VerifyingOK, Verification, PCI
<1>2. Told' = Told \cup {f}
  BY <1>1 DEF Told, Answer, IInv, Inv, OtherTypes
<1>3. Binding!Confirm(f)
  BY <1>1, <1>2, BindsOnFile DEF Binding!Confirm, Told
<1> QED
  BY <1>1, <1>3 DEF Binding!LogNext

LEMMA LogQuiet ==
    ASSUME UNCHANGED <<stored, backend, ledger, answers>>
    PROVE  UNCHANGED Binding!logvars
  BY DEF Binding!logvars

LEMMA KernelStepLog ==
    ASSUME IInv, AddOnlyInMemory, NEW v \in verifying, KernelStep(v)
    PROVE  Binding!LogNext \/ UNCHANGED Binding!logvars
<1>1. UNCHANGED <<stored, backend>>
  BY DEF KernelStep, HashContext, HashContract, Recheck, Validate, AppendRow,
     AppendSqlite, AppendPostgres, AppendFails, AppendUnstored, ScanMemory, AddMemory,
     quiet, ctxvars
<1>2. CASE HashContext(v) \/ HashContract(v) \/ Recheck(v) \/ Validate(v) \/ AppendFails(v)
  BY <1>1, <1>2, LogQuiet DEF HashContext, HashContract, Recheck, Validate, AppendFails
<1>3. CASE backend # "memory" /\ AppendRow(v)
  <2>1. v.at = "append" /\ (Answer(v) \/ answers' = answers)
    BY <1>3 DEF AppendRow
  <2>2. CASE OnFile(v.pci.flow)
    <3>1. ledger' = ledger
      BY <1>3, <2>2 DEF AppendRow, InsertOrIgnore
    <3> QED
      BY <1>1, <2>1, <2>2, <3>1, AnswerConfirms, LogQuiet
  <2>3. CASE ~OnFile(v.pci.flow)
    <3>1. ledger' = Append(ledger, EntryOf(v))
      BY <1>3, <2>3 DEF AppendRow, InsertOrIgnore
    <3> QED
      BY <1>1, <2>1, <2>3, <3>1, AppendBinds
  <2> QED
    BY <2>2, <2>3
<1>4. CASE AppendUnstored(v)
  BY <1>1, <1>4, AppendBinds DEF AppendUnstored
<1>5. CASE ScanMemory(v)
  BY <1>1, <1>5, AnswerConfirms, LogQuiet DEF ScanMemory, AlreadyBound
<1>6. CASE AddMemory(v)
  BY <1>1, <1>6, AppendBinds DEF AddMemory, AddOnlyInMemory
<1> QED
  BY <1>2, <1>3, <1>4, <1>5, <1>6 DEF KernelStep, AppendSqlite, AppendPostgres

LEMMA InitLog == Init => Binding!LogInit
<1> SUFFICES ASSUME Init
             PROVE  Binding!LogInit
  OBVIOUS
<1>1. Told = {}
  BY DEF Init, Told
<1> QED
  BY <1>1 DEF Init, Binding!LogInit, Told

LEMMA NextLog ==
    ASSUME IInv, AddOnlyInMemory, [Next]_vars
    PROVE  [Binding!LogNext]_(Binding!logvars)
<1>1. CASE Environment
  <2>1. UNCHANGED <<stored, backend, ledger, answers>>
    BY <1>1 DEF Environment, Begin, ReadCell, UpdateSession, UpdateState, WriteCell, Fail,
       WriteFails, Register, Replace
  <2> QED
    BY <2>1, LogQuiet
<1>2. CASE \E k \in Kernels, f \in Flows, n \in Amounts, s \in BOOLEAN : Emit(k, f, n, s)
  <2>1. UNCHANGED <<stored, backend, ledger, answers>>
    BY <1>2 DEF Emit, quiet, ctxvars
  <2> QED
    BY <2>1, LogQuiet
<1>3. CASE UNCHANGED vars
  BY <1>3, LogQuiet DEF vars, ctxvars
<1> QED
  BY <1>1, <1>2, <1>3, KernelStepLog DEF Next

(* The decision ledger, verified and written by kernels that overlap with  *)
(* one another and with updates of what they verify, is a BindingLog.      *)
THEOREM Refinement == Spec => ImplementsBindingLog
<1>1. CInv => AddOnlyInMemory
  BY DEF CInv
<1>2. IInv /\ AddOnlyInMemory /\ [Next]_vars => [Binding!LogNext]_(Binding!logvars)
  BY NextLog
<1> QED
  BY <1>1, <1>2, InitLog, IInvInit, IInvNext, CInvInit, CInvNext, PTL
     DEF Spec, ImplementsBindingLog, Binding!LogSpec
=============================================================================
