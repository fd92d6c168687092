SPECIFICATION Spec
CONSTANTS
    Agents = {a1, a2}
    Flows = {f1, f2}
    Callers = {c1, c2}
    Backends = {"memory", "sqlite", "postgres"}
    Budget = 1
    Window = 1
    MaxRequests = 3
    MaxClock = 2
SYMMETRY NameSymmetry
INVARIANTS
    TypeOK
    OverspendBounded
    RequestsPaid
PROPERTY DecisionsFinal
CHECK_DEADLOCK FALSE
