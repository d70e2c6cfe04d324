SPECIFICATION MemoryRunSpec
CONSTANTS
    a = a
    b = b
    c = c
    m1 = m1
    m2 = m2
    good = good
    poor = poor
    none = none
    Items = {a, b, c}
    Capacity = 3
    NoItem = none
    MaxSeen = 6
    Memories = {m1, m2}
    TraceIds = {a, b, c}
    RingCapacity = 2
    MaxRecorded = 3
    MaxMishaps = 2
    Contents = {good, poor}
    Confident = {good}
    EtchCapacity = 2
    MaxApplied = 4
    MaxUpsets = 3
    SignalFloor = "elevated"
    MaxEvents = 3
    MaxPendingSignals = 2
    MaxObserved = 6
    Claims = {m1, m2}
    NoReceipt = none
    MaxClaims = 7
    Films = {m1, m2}
    Lengths = {1, 2, 3}
    MaxClips = 5
    Complex = {6}
    Offers <- Offered
    Picks = {0, 4}
    MaxActions <- Most
    MaxLevel = 1
    TraceCapacity = 2
    Colours = {1, 2}
    Views <- SomeViews
    FirstViews <- StartView
    ActionOrder <- LeftRight
    NoCell = 0
    Unknown = none
    MinAdvances = 1
    MinObservations = 1
    MoveThreshold = 1
    ChangeThreshold = 2
    MaxPlanDepth = 2
    GoalDepth = 3
    MinDrifts = 1
    MaxLevels = 1
    MaxMoves = 3
    Selectors = {1}
    Elements = {good}
    Amounts = {2}
    MaxSamples = 2
    WindowMs = 2
    RecentMs = 1
    PollMs = 2
    PreviewMs = 1
    GoodThreshold = 2
    PoorThreshold = 4
    TopN = 1
    MaxClock = 3
    MaxShifts = 3
    MaxMounts = 1
    MaxChanges = 1
SYMMETRY MemorySymmetry
INVARIANTS
    TraceMemoryInv
    EtchStoreInv
    SentinelInv
    SessionInv
    FilmInv
    AgentInv
    PanelInv
PROPERTIES
    ImplementsLog
CHECK_DEADLOCK FALSE
