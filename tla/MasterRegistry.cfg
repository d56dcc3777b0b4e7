\* Two servers, one of them behind a router, two slots and two faults.
SPECIFICATION FairSpec
CONSTANTS
    s1 = s1
    s2 = s2
    Servers = {s1, s2}
    Outdated = {}
    RegisterKey <- MCRegisterKey
    HeartbeatKey <- MCHeartbeatKey
    Slots = {p1, p2}
    NoSlot = NoSlot
    Delay = 2
    DropAfter = 1
    PruneAfter = 3
    MaxFaults = 2
INVARIANTS
    TypeOK
    EntriesAreHeld
    ConnectedMeansListed
PROPERTIES
    ListedAgain
