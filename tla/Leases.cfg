\* Two connections of two processes want the one place of a room.
CONSTANTS
    c1 = c1
    c2 = c2
    r1 = r1
    r2 = r2
    i1 = i1
    i2 = i2
    Conns = {c1, c2}
    Rooms = {r1, r2}
    Placements <- OneOrTwoRooms
    Instances = {i1, i2}
    InstOf <- Homes
    MaxConnections = 1
    MaxPerRoom = 1
    SweepLimit = 1
    MaxFaults = 1
    MaxInputs = 1
    MaxLateStarts = 1
SPECIFICATION FairSpec
INVARIANTS
    TypeOK
    CapsHold
    LeavesOnce
    TypingStops
PROPERTIES
    AbandonedIsReclaimed
CHECK_DEADLOCK FALSE
