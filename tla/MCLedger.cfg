SPECIFICATION LedgerRunSpec
CONSTANTS
    t1 = t1
    t2 = t2
    r1 = r1
    r2 = r2
    e1 = e1
    e2 = e2
    w1 = w1
    w2 = w2
    stopper = stopper
    operator = operator
    direct = direct
    Focuses = {"memory", "redis", "client"}
    Tenants = {t1, t2}
    Requests = {r1, r2}
    TenantOf <- TwoTenants
    Runs = {w1, w2}
    Stopper = stopper
    Operator = operator
    Direct = direct
    Callers <- AllCallers
    Lossy = TRUE
    MaxLeaves = 3
    MaxRetries = 2
    MaxManual = 1
    Etches = {e1, e2}
    Forwarders = {e1, e2}
    Loops = {w1, w2}
    RetryOperator = operator
    RedisMaxRetries = 2
    BatchSize = 2
    MaxEvents = 3
    Payloads = {e1, e2}
    Posts = {w1, w2}
    Replayer = operator
    MaxPosted = 2
    MaxReplays = 2
SYMMETRY LedgerSymmetry
INVARIANTS
    ReceiptsStayProofs
    ReceiptValidUntilNextEtch
    ParentIsEarlier
    ForwarderInv
    RemoteWaysInv
CHECK_DEADLOCK FALSE
