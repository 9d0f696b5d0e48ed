\* Two processes configured with one instance id, one socket, two faults.
CONSTANTS
    Procs = {p1, p2}
    Instances = {i1}
    InstanceOf <- SharedId
    Conns = {c1}
    Shapes <- MessageShapes
    BatchSize = 2
    MaxPending = 1
    MaxSeq = 2
    MaxFaults = 2
SPECIFICATION Spec
INVARIANTS
    TypeOK
    SingleOwner
    NoGapWhileOwned
    InOrderOnce
    FencedServesNobody
PROPERTIES
    AdvanceOnlyAfterDispatch
CHECK_DEADLOCK FALSE
