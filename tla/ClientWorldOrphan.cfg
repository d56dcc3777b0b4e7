\* A request that a failed attempt puts back after its player has left.
SPECIFICATION Spec
CONSTANTS
    Object = {b1}
    NoObject = NoObject
    Squad = {}
    Body = {b1}
    Player = {1, 2}
    Id = {1}
    FirstLocalId = 10
    LastServerId = 1
    LastPlayer = 2
    EventBound = 3
    MaxRetries = 2
    MaxHijacks = 1
    InboxBound = 2
    QueueBound = 1
    ZoneBound = 0
INVARIANT
    NoOrphanedRequests
