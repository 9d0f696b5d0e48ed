\* Two rooms and two members; any three requests, two of them at a time.
CONSTANTS
    r1 = r1
    r2 = r2
    a = a
    b = b
    k = k
    e = e
    null = null
    Rooms = {r1, r2}
    Members = {a, b}
    Texts = {"old", "new"}
    Keys = {k}
    Emojis = {e}
    None = null
    Requests <- AllRequests
    Initial <- Databases
    MaxIds = 5
    MaxRooms = 2
    MaxPerRoom = 2
    MaxStored = 3
    MaxCursors = 1
    MaxEmojis = 1
    Backends = {"sqlite", "postgres"}
    Procs = {p, q}
    MaxServed = 3
SPECIFICATION Spec
SYMMETRY ProcSymmetry
INVARIANTS
    StoreSound
    Converges
    ErasedFromLog
    NoWaitCycle
PROPERTIES
    Atomic
\* The requests are bounded, so the instance comes to rest.
CHECK_DEADLOCK FALSE
