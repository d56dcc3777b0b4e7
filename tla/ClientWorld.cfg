\* One character of mine beside another player's two: entities are announced, announced
\* again by a zone load, removed, shown by either consumer of the queue or given up, over
\* one session with two of these events or two with one, over any number of connections
\* that are closed, lost or dialled anew, and over any number of reloads.
SPECIFICATION FairSpec
CONSTANTS
    Object = {s1, b1, b2}
    NoObject = NoObject
    Squad = {s1}
    Body = {b1, b2}
    Player = {1, 2, 3}
    Id = {1, 2, 10}
    FirstLocalId = 10
    LastServerId = 2
    LastPlayer = 3
    EventBound = 4
    MaxRetries = 2
    MaxHijacks = 1
    InboxBound = 2
    QueueBound = 1
    ZoneBound = 1
INVARIANTS
    TypeOK
    IndexIsSound
    LinkedMeansIndexed
    NoStaleRemotes
    OwnKeepTheirObject
    OwnIdsAreMine
PROPERTIES
    UsesRegistry
    WaitingEnds
