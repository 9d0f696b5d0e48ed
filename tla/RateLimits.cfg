CONSTANTS
    r1 = r1
    r2 = r2
    k1 = k1
    k2 = k2
    None = None
    Requests <- McRequests
    Keys <- McKeys
    Limit = 2
    MaxBuckets = 2
    MaxClock = 1
    MaxRequests = 4
    MaxFaults = 1
SPECIFICATION FairSpec
INVARIANTS
    AllowanceExact
PROPERTIES
    RequestsDecided
CHECK_DEADLOCK FALSE
