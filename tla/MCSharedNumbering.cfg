SPECIFICATION NodeSpec
CONSTANTS
    Nodes = {n1, n2}
    MaxLog = 3
    Scores = {1}
    MaxTraces = 2
    Capacity = 2
    MutatingCallers = FALSE
    Importable = {}
    Keys = {"key"}
    Rank <- SomeRank
    StaleAfter = 1
    Deployments = {"bound"}
    MaxRestarts = 0
INVARIANTS
    NothingLost
