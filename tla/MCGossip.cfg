SPECIFICATION Spec
CONSTANTS
    Nodes = {n1, n2, n3}
    MaxLog = 4
    Scores = {1}
    MaxTraces = 3
    Capacity = 2
    MutatingCallers = FALSE
    Importable = {}
SYMMETRY NodeSymmetry
INVARIANTS
    TypeOK
    NothingLost
    CapabilityIsCurrent
    SameTracesSameRoots
    ReplayAccepted
PROPERTIES
    RedeliveryIsIdempotent
