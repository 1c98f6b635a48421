SPECIFICATION Spec
CONSTANTS
    Deliveries = {d1}
    Workers = {w1, w2, w3}
    NoOne = NoOne
    RetryMaxAttempts = 2
    LeaseTime = 2
    MaxDelay = 1
    MaxTotal = 4
    WorkerConcurrency = 2
    WorkerBatchSize = 1
    AttemptDeadline = 1
    Stall = 0
    Unstorable = {}
    MaxFaults = 2
    MaxRetries = 1
INVARIANTS
    PoisonedDeliveryStops
