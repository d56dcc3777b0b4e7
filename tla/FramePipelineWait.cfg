\* Two workers, as Initialize starts them; the client connects and resets at will: does every wait end?
\* Shutdown ends the program.
SPECIFICATION FairSpec
CONSTANTS
    Workers = {w1, w2}
    ReadEntities = ReadEntities
    Interpolate = Interpolate
    Works = {ReadEntities, Interpolate}
    NoWork = NoWork
    MaxLateWork = 2
PROPERTIES
    WaitReturns
CHECK_DEADLOCK FALSE
