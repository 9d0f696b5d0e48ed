\* One SQLite process, with operator replays.
CONSTANTS
    Leased = FALSE
    Workers = {w}
    IdOf <- OwnIds
    Messages = {m, n}
    Selected = {"content", "tombstone", "moderation"}
    MaxDeliveries = 2
    MaxAttempts = 2
    MaxIds = 4
    MaxReplays = 1
    MaxFaults = 1
SPECIFICATION Spec
SYMMETRY Symmetry
INVARIANTS
    TypeOK
    ErasedEverywhere
    WithinCapacity
PROPERTIES
    PromiseKept
\* Deliveries, replays and faults are bounded, so the instance comes to rest.
CHECK_DEADLOCK FALSE
