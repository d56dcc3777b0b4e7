\* Expected violation: a newcomer inherits a saved owner id.
SPECIFICATION Spec
CONSTANTS
    Peers = {p1, p2, p3}
    MaxPlayers = 2
    EntityLimit = 1
    Positions = {"ok"}
    LastPlayerId = 3
    LastEntityId = 3
INVARIANT
    RestoredAreOrphans
