SPECIFICATION Spec
CONSTANTS
    Agents = {a1}
    Limits = {1, 2}
    Unlimited = 3
    Contracts <- MCContracts
    Operators = {o1, o2}
    MaxHandshakes = 1
    MaxAmendments = 2
    MaxClock = 1
SYMMETRY OperatorSymmetry
INVARIANTS
    TypeOK
    RowCurrentUnlessTorn
    EnvelopeUnlessTorn
PROPERTY ImplementsDirectory
CHECK_DEADLOCK FALSE
