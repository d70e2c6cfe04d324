SPECIFICATION NodeSpec
CONSTANTS
    Nodes = {n1, n2}
    MaxLog = 3
    Scores = {1}
    MaxTraces = 3
    Capacity = 2
    MutatingCallers = FALSE
    Importable = {}
    Keys = {"key"}
    Rank <- SomeRank
    StaleAfter = 1
    Deployments = {"bound", "stigmergies", "orchestrators"}
    MaxRestarts = 2
INVARIANTS
    TableIsCurrent
    SplitOwnersAreOutOfTouch
    SteadySendersLoseNothing
    SameTracesSameRoots
