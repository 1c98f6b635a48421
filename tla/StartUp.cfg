SPECIFICATION FairSpec
CONSTANTS
    Procs = {p1, p2, p3}
    NoProc = NoProc
    NumFiles = 2
    CommandTimeout = 2
    StatementTime = 1
    MaxCrashes = 2
INVARIANTS
    NoStartBreaks
    SchemaIsRecorded
    ServesOnFullSchema
PROPERTIES
    EveryoneServes
