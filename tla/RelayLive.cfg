\* One process, one socket, two faults, with archives and a ban.
CONSTANTS
    Procs = {p1}
    Instances = {i1}
    InstanceOf <- SharedId
    Conns = {c1}
    Shapes <- RevocationShapes
    BatchSize = 2
    MaxPending = 1
    MaxSeq = 2
    MaxFaults = 2
SPECIFICATION FairSpec
INVARIANTS
    RevokedOnlyWhileBehind
PROPERTIES
    NoStaleRevocation
    DeliveredOrClosed
    RelayRecovers
CHECK_DEADLOCK FALSE
