CONSTANTS
    Procs = {p1}
    Instances = {i1}
    InstanceOf <- SharedId
    Conns = {c1}
    Shapes <- MessageShapes
    BatchSize = 2
    MaxPending = 2
    MaxSeq = 3
    MaxFaults = 1
SPECIFICATION Spec
INVARIANTS NoSilentGap
CHECK_DEADLOCK FALSE
