SPECIFICATION FairSpec
CONSTANTS
    Jobs <- OneJob
    Registered <- OneJob
    Workers = {w1, w2}
    MaxAttempts = 2
    BaseBackoff = 1
    MaxBackoff = 2
    LockDuration = 1
    HandlersMayOverrun = FALSE
    Horizon = 1
    MaxFaults = 1
    MaxRetries = 0
PROPERTY
    EveryFailureReported
