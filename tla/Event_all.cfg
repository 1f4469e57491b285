SPECIFICATION FairSpec
CONSTANTS
    Waiters = {w1, w2}
    Durations = {1, 4}
    Fractions = 2
    TickMod = 4
    BootTick = 0
    Wraps = FALSE
    Collects = TRUE
INVARIANTS
    TypeOK
    TimeoutHonest
    TrueMeansSignalled
PROPERTIES
    TimedWaitReturns
    SignalReleases
