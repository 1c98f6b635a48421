SPECIFICATION Spec
CONSTANTS
    Deliveries = {d1, d2, d3}
    Workers = {w1, w2}
    NoOne = NoOne
    RetryMaxAttempts = 1
    LeaseTime = 2
    MaxDelay = 1
    MaxTotal = 2
    WorkerConcurrency = 2
    WorkerBatchSize = 2
    AttemptDeadline = 1
    Stall = 0
    Unstorable = {d3}
    MaxFaults = 0
    MaxRetries = 1
SYMMETRY Symmetry
INVARIANTS
    TypeOK
    NoConcurrentSend
    BudgetJournalled
    BudgetHonoured
    SlotsRespected
