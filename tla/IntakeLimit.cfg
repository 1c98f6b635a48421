SPECIFICATION Spec
CONSTANTS
    Calls = {c1, c2}
    NoCall = NoCall
    Keys = {k1}
    Urls = {u1, u2}
    PoolSize = 2
    MaxRecipients = 1
    MaxListed = 1
    MaxFailures = 0
INVARIANTS
    LeadWithinLimit
