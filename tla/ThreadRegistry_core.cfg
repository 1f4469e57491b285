SPECIFICATION Spec
CONSTANTS
    Main = main
    Workers = {w1, w2}
    External = {e1}
    Daemons = {w1}
    Throwing = {w2}
    Droppable = {w2}
    LateAttach = TRUE
    Asserts = FALSE
    MaxSuspendDepth = 2
    null = null
INVARIANTS
    TypeOK
    WorldStopped
    SuspendedHoldsNoLock
    RegisteredWhileRunning
    NoneLeftSuspended
    AddFindsNoneStopped
    NoFault
