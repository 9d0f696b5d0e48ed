\* Three PostgreSQL processes, of which two share a worker id, one delivery, a
\* replay and a fault.
CONSTANTS
    Leased = TRUE
    Workers = {u, v, w}
    IdOf <- SharedIds
    Messages = {m}
    Selected = {"content", "tombstone", "moderation"}
    MaxDeliveries = 1
    MaxAttempts = 2
    MaxIds = 1
    MaxReplays = 1
    MaxFaults = 1
SPECIFICATION FairSpec
INVARIANTS
    FailsOnlyWhenExhausted
    ClaimsAreFresh
PROPERTIES
    PendingSettles
CHECK_DEADLOCK FALSE
