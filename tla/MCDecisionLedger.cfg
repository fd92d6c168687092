SPECIFICATION Spec
CONSTANTS
    a1 = a1
    f1 = f1
    k1 = k1
    k2 = k2
    u1 = u1
    u2 = u2
    v1 = v1
    v2 = v2
    Flows = {f1}
    Agents = {a1}
    AgentOf <- OneAgent
    Keys = {k1, k2}
    Updaters = {u1, u2}
    Backends = {"memory", "sqlite", "postgres"}
    MaxUpdates = 2
    Kernels = {v1, v2}
    Contracts = {1, 2}
    Amounts = {2}
    MaxIntents = 2
    MaxRegistrations = 2
SYMMETRY Symmetry
INVARIANTS
    TypeOK
    UpdatesKeptUnlessOvertaken
    EvidenceInForce
    CertifiedAmount
    OneEntryPerBoundFlow
PROPERTY ImplementsBindingLog
CHECK_DEADLOCK FALSE
