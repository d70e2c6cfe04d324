SPECIFICATION EngineSpec
CONSTANTS
    c1 = c1
    c2 = c2
    Stages = {c1, c2}
    PersistenceThreshold = 2
    MaxWork = 3
    KernelOps <- TwoKernels
    Loads = {c1, c2}
    Runs = {c1, c2}
    SinkCapacity = 1
    MaxSessions = 3
    MaxRuns = 3
    Calls = {c1, c2}
    MaxCalls = 3
    Steppers = {c1, c2}
    StateDim = 2
    MaxSteps = 2
    MaxResets = 1
    Tasks = {c1, c2}
    Knobs = {"homeostasis", "noveltyPressure"}
    MirroredKnobs = {"homeostasis"}
    MaxLevel = 2
    MetaTuneInterval = 2
    MaxMetaDepth = 2
    MaxTasks = 7
    Actions <- TwoActions
    MctsBudget = 11
    MaxDepth = 3
    Measurements = {1, 3}
    Setpoints = {1, 2}
    NaN = NaN
    Infinity = Infinity
    MinusInfinity = MinusInfinity
    Kp = 1
    Ki = 2
    Kd = 1
    OutputMin <- Minus4
    OutputMax = 4
    SettleTolerance = 0
    SettleWindow = 2
    MaxTicks = 5
    MaxMoves = 1
    FallbackOrder <- Order
    Flagship = "grok"
    Subjects = {"research", "code", "review"}
    Likeness <- Like
    Urgent = {"research", "review"}
    MaxDispatches = 3
    LegLoops = {c1, c2}
    PromptOf <- ThreeLegs
    Rewrites = {"research"}
    MaxAsked = 6
    ModeOrder <- TwoModes
    MaxSeeds = 3
    Weights = {1, 3}
    GroundingThreshold = 2
    ReviewFloor = 1
    Confidences = {0, 1, 3}
    PruneBelow = 1
    SeedConfidence = 1
    SwitchBelow = 2
    ConfidenceThreshold = 3
    SwitchAfter = 0
    MaxIterations = 2
    MinAlternatives = 2
    ModeCount = 2
    Estimates = {20, 32, 70, 90}
    SproutConfidence = 50
    PruneThreshold = 30
    BranchBelow = 60
    Thresholds = {20, 90}
    MaxBranches = 2
    DeepestLevel = 2
    MaxRoots = 2
    MaxBuilds = 2
    HeldOut = 2
    Treatments = 1
    Controls = 1
    Judges = 2
    Marks = {1, 3}
    Floors = {67}
    Deltas = {0, 33}
    Directions = {"treatment-greater"}
    NoVerdict = none
    MaxProtocolMoves = 1
    Tensors = {"x", "y"}
    Offers <- SomeOffers
    HostCapacity = 3
    MaxMerges = 2
SYMMETRY EngineSymmetry
INVARIANTS
    HardeningInv
    AccelerationInv
    ProteomeInv
    TunerInv
    PlannerInv
    ControlInv
    VerdictInv
    AdapterInv
    OrganelleInv
    ThoughtInv
CHECK_DEADLOCK FALSE
