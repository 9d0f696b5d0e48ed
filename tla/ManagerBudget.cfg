\* Two sockets share a budget that two events exhaust; the sends that a
\* cancelled broadcaster loses have left that budget.
CONSTANTS
    Sockets = {a, b}
    RoomOf <- OneRoom
    SubjectOf <- OwnSubjects
    SizeOf <- Sizes
    MaxConnections = 2
    MaxPerRoom = 2
    MaxPendingEvents = 2
    MaxPendingBytes = 3
    MaxTotalBytes = 3
    MaxEvents = 2
    MaxCancels = 0
SPECIFICATION Spec
SYMMETRY SocketSymmetry
INVARIANTS
    BudgetExact
    LimitsHold
\* Every socket registers once and the broadcasts are bounded, so the
\* instance comes to rest.
CHECK_DEADLOCK FALSE
