SPECIFICATION FairSpec
CONSTANTS
    Deliveries = {d1}
    Workers = {w1, w2, w3}
    NoOne = NoOne
    RetryMaxAttempts = 2
    LeaseTime = 2
    MaxDelay = 1
    MaxTotal = 6
    WorkerConcurrency = 1
    WorkerBatchSize = 1
    AttemptDeadline = 1
    Stall = 0
    Unstorable = {}
    MaxFaults = 2
    MaxRetries = 1
INVARIANTS
    CopiesPerLoss
    GapsPerRetry
PROPERTIES
    ImplementsAtomicClaim
    EventuallySettled
    ImplementsPromise
