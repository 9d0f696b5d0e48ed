CONSTANTS
    MaxAttempts = 1
    MaxCalls = 3
    MaxLosses = 2
SPECIFICATION FairSpec
INVARIANTS
    ClosedIsQuiet
    ConnectedIsSynchronized
    RetriesBounded
PROPERTIES
    ConnectSettles
CHECK_DEADLOCK FALSE
