SPECIFICATION FairSpec
CONSTANTS
    Calls = {c1, c2, c3}
    NoCall = NoCall
    Keys = {k1}
    Urls = {u1, u2}
    PoolSize = 2
    MaxRecipients = 1
    MaxListed = 2
    MaxFailures = 2
INVARIANTS
    TypeOK
    AcceptedIsStored
PROPERTIES
    ImplementsAtomicIntake
    EveryCallEnds
