SPECIFICATION Spec
CONSTANTS
    Deliveries = {d1}
    Workers = {w1}
    NoOne = NoOne
    RetryMaxAttempts = 2
    LeaseTime = 2
    MaxDelay = 1
    MaxTotal = 2
    WorkerConcurrency = 1
    WorkerBatchSize = 1
    AttemptDeadline = 1
    Stall = 0
    Unstorable = {d1}
    MaxFaults = 0
    MaxRetries = 0
PROPERTIES
    SuccessStopsTheTrain
