SPECIFICATION Spec
CONSTANTS
    Deliveries = {d1, d2}
    Workers = {w1}
    NoOne = NoOne
    RetryMaxAttempts = 1
    LeaseTime = 1
    MaxDelay = 1
    MaxTotal = 1
    l1 = l1
    l2 = l2
    Leads = {l1, l2}
    LeadOf <- LeadOfDeliveries
    StaleAfter = 1
    MaxReportTime = 1
    MaxRetries = 1
SYMMETRY Symmetry
INVARIANTS
    StatusConsistent
    CutoffShared
    NobodyOverlooked
    StatsAddUp
