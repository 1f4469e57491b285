SPECIFICATION FairSpec
CONSTANTS
    Main = main
    Workers = {w1}
    External = {}
    Daemons = {}
    Throwing = {}
    Droppable = {}
    LateAttach = TRUE
    Asserts = TRUE
    MaxSuspendDepth = 1
    null = null
INVARIANTS
    JoinAllComplete
    NoFault
PROPERTIES
    SuspendAllReturns
    JoinAllReturns
