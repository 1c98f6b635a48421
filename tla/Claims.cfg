SPECIFICATION FairSpec
CONSTANTS
    a1 = a1
    a2 = a2
    a3 = a3
    b1 = b1
    busy = busy
    quiet = quiet
    Rows = {a1, a2, b1}
    Origins = {busy, quiet}
    Origin <- OriginOfRows
    Workers = {w1, w2}
    NoOne = NoOne
    WorkerConcurrency = 3
    WorkerBatchSize = 2
    Multiplier = 1
    MaxPerOrigin = 1
    MaxDisturbances = 1
INVARIANTS
    CapPerBatch
PROPERTIES
    ImplementsAtomicClaim
    EventuallyClaimed
