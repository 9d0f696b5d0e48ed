\* PostgreSQL: a row is replayed between the two statements of a scrub.
CONSTANTS
    Leased = TRUE
    Workers = {w}
    IdOf <- OwnIds
    Messages = {m}
    Selected = {"content", "tombstone", "moderation"}
    MaxDeliveries = 2
    MaxAttempts = 1
    MaxIds = 2
    MaxReplays = 1
    MaxFaults = 0
SPECIFICATION Spec
INVARIANTS
    ErasedEverywhere
\* Deliveries, replays and faults are bounded, so the instance comes to rest.
CHECK_DEADLOCK FALSE
