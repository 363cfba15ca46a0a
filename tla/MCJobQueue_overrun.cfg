SPECIFICATION FairSpec
CONSTANTS
    Jobs <- TwoJobs
    Registered <- TwoJobs
    Workers = {w1, w2}
    MaxAttempts = 2
    BaseBackoff = 1
    MaxBackoff = 2
    LockDuration = 1
    HandlersMayOverrun = TRUE
    Horizon = 1
    MaxFaults = 0
    MaxRetries = 0
INVARIANTS
    DoneMeansDelivered
PROPERTIES
    QueueDrains
