\* One socket and four events: the handshake queue, its overflow and its end,
\* and one broadcaster that is cancelled.
CONSTANTS
    Sockets = {a}
    RoomOf <- OneRoom
    SubjectOf <- OwnSubjects
    SizeOf <- Sizes
    MaxConnections = 2
    MaxPerRoom = 1
    MaxPendingEvents = 2
    MaxPendingBytes = 3
    MaxTotalBytes = 3
    MaxEvents = 4
    MaxCancels = 1
SPECIFICATION FairSpec
INVARIANTS
    HandshakeOrder
    NothingDropped
    CloseIsLast
PROPERTIES
    DetachedIsClosed
    HandshakeSettles
CHECK_DEADLOCK FALSE
