SPECIFICATION Spec
CONSTANTS
    a1 = a1
    a2 = a2
    a3 = a3
    b1 = b1
    busy = busy
    quiet = quiet
    Rows = {a1, a2, a3, b1}
    Origins = {busy, quiet}
    Origin <- OriginOfRows
    Workers = {w1, w2}
    NoOne = NoOne
    WorkerConcurrency = 2
    WorkerBatchSize = 2
    Multiplier = 2
    MaxPerOrigin = 1
    MaxDisturbances = 0
SYMMETRY Symmetry
PROPERTIES
    IdleOnlyWithoutWork
