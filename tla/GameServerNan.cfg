\* Expected violation: one coordinate that is not a number, and the ids start again.
SPECIFICATION Spec
CONSTANTS
    Peers = {p1, p2}
    MaxPlayers = 1
    EntityLimit = 2
    Positions = {"ok", "nan"}
    LastPlayerId = 2
    LastEntityId = 2
INVARIANT
    RestoredIdsStayTaken
