\* Two workers, as Initialize starts them; the client connects and resets at will.
\* Shutdown ends the program.
SPECIFICATION FairSpec
CONSTANTS
    Workers = {w1, w2}
    ReadEntities = ReadEntities
    Interpolate = Interpolate
    Works = {ReadEntities, Interpolate}
    NoWork = NoWork
    MaxLateWork = 2
INVARIANTS
    TypeOK
    CounterCountsWork
    WritersStayOnWriteBuffer
    OneWriterPerVector
    NoTaskIsForgotten
PROPERTIES
    PostedWorkIsDone
CHECK_DEADLOCK FALSE
