\* Two players with one character each.
SPECIFICATION Spec
CONSTANTS
    p1 = p1
    p2 = p2
    e1 = e1
    e2 = e2
    Clients = {p1, p2}
    Entities = {e1, e2}
    Owner <- MCOwner
    RingRoom = 2
    TickCap = 1
    ChannelBound = 1
    MaxSources = 2
INVARIANTS
    TypeOK
    DeathIsVerdict
    EchoDoesNotGrow
    DeathArrives
\* Events may get lost, and the sources are bounded: then nothing is left to do.
CHECK_DEADLOCK FALSE
