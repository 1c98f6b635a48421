SPECIFICATION Spec
CONSTANTS
    Procs = {p1, p2}
    NoProc = NoProc
    NumFiles = 1
    CommandTimeout = 2
    StatementTime = 1
    MaxCrashes = 0
PROPERTIES
    TheRestWait
