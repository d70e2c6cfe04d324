SPECIFICATION RedisForwarderSpec
CONSTANTS
    Etches = {e1}
    Forwarders = {f1, f2}
    Loops = {w1, w2}
    RetryOperator = operator
    RedisMaxRetries = 2
    BatchSize = 2
    MaxEvents = 3
INVARIANTS
    AtLeastOnce
CHECK_DEADLOCK FALSE
