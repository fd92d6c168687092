SPECIFICATION Spec
CONSTANTS
    Flows = {f1, f2, f3}
    Resources <- MCResources
    Capacity <- MCCapacity
    Requests <- MCRequests
    Backends = {"sqlite"}
SYMMETRY Symmetry
INVARIANT NoOvercommit
