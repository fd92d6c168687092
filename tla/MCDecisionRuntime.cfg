SPECIFICATION FairSpec
CONSTANTS
    a1 = a1
    f1 = f1
    Agents = {a1}
    Flows = {f1}
    AgentOf <- OneFlow
    Limits = {1}
    Unlimited = 2
    Amounts = {1, 2}
    MaxRetries = 2
    MaxChanges = 3
    MaxCrashes = 1
    MaxClock = 1
INVARIANTS
    TypeOK
    CountBounded
    BudgetPerCrash
    AuditTrail
    ExhaustedOnlyAfterBudget
    TerminalFlowsCleared
    RestrictedNeverAccepted
PROPERTIES
    AcceptedWithinContract
    FlowsEnd
CHECK_DEADLOCK FALSE
