SPECIFICATION Spec
CONSTANTS
    Nodes = {n1, n2, n3}
    MaxLog = 2
    Scores = {1}
    MaxTraces = 1
    Capacity = 1
    MutatingCallers = FALSE
    Importable = {}
INVARIANTS
    VetoWins
