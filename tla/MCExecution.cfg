SPECIFICATION Spec
CONSTANTS
    Callers = {c1, c2}
    Compensators = {p1, p2}
    Flows = {f1}
    Steps = 2
    Backends = {"memory", "sqlite"}
    MaxAttempts = 3
    MaxCalls = 2
    MaxCrashes = 1
SYMMETRY Symmetry
INVARIANTS
    TypeOK
    RunOnceUnlessExcused
    CompensatedOnceUnlessExcused
    FailureOnFile
CHECK_DEADLOCK FALSE
