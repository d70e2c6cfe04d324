SPECIFICATION ProgressSpec
CONSTANTS
    n1 = n1
    n2 = n2
    n3 = n3
    Nodes = {n1, n2}
    MaxLog = 2
    Scores = {1}
    MaxTraces = 1
    Capacity = 1
    MutatingCallers = TRUE
    Importable <- SiblingEntries
    Readers = {n1, n2}
    MaxEntries = 2
    BatchSize = 2
    MaxPolls = 2
    RetryLimits = {0, 1, 5}
    Delays = {0, 3, 100}
    Jitters <- AnyJitter
    HeaderDelays = {0, 70}
INVARIANTS
    ActiveIsPreferred
    ClientInv
PROPERTIES
    VetoPropagates
    ImplementsContract
    EveryEntryArrives
    RequestsEndUnlessStalled
CHECK_DEADLOCK FALSE
