SPECIFICATION Spec
CONSTANTS
    Agents = {a1}
    Flows = {f1, f2}
    Callers = {c1}
    Backends = {"sqlite"}
    Budget = 1
    Window = 1
    MaxRequests = 2
    MaxClock = 0
INVARIANT BudgetHolds
CHECK_DEADLOCK FALSE
