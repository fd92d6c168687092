SPECIFICATION Spec
CONSTANTS
    Agents = {a1}
    Limits = {1, 2}
    Unlimited = 3
    Contracts <- MCContracts
    Operators = {o1, o2}
    MaxHandshakes = 2
    MaxAmendments = 1
    MaxClock = 1
PROPERTY OnlyOperatorsReinstate
CHECK_DEADLOCK FALSE
