SPECIFICATION Spec
CONSTANTS
    Flows = {f1, f2, f3}
    Resources <- MCResources
    Capacity <- MCCapacity
    Requests <- MCRequests
    Backends = {"memory", "sqlite", "postgres"}
SYMMETRY Symmetry
INVARIANTS
    TypeOK
    NoOversellUnlessRaced
    SoleHolder
    TableWithinCapacity
PROPERTY ImplementsReservationBook
