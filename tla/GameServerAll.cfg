\* Three peers compete for two player slots over restarts; ids run past the slots.
SPECIFICATION FairSpec
CONSTANTS
    Peers = {p1, p2, p3}
    MaxPlayers = 2
    EntityLimit = 1
    Positions = {"ok", "nan"}
    LastPlayerId = 3
    LastEntityId = 2
INVARIANTS
    TypeOK
    SessionsMatch
    HostIsConnected
    CapacityHolds
    NoGhosts
    IdsFresh
PROPERTIES
    HostKeepsRole
    OwnerIsStable
    KickedPlayerLeaves
    ImplementsAuthority
