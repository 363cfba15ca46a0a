SPECIFICATION FairSpec
CONSTANTS
    Jobs <- TwoJobs
    Registered <- JobOne
    Workers = {w1, w2}
    MaxAttempts = 3
    BaseBackoff = 2
    MaxBackoff = 3
    LockDuration = 2
    HandlersMayOverrun = FALSE
    Horizon = 1
    MaxFaults = 1
    MaxRetries = 1
INVARIANTS
    TableSound
    ClaimExclusive
    FailureReported
PROPERTIES
    ImplementsContract
    JobsSettle
