SPECIFICATION FairSpec
CONSTANTS
    Tasks = {t1, t2}
    Joiners = {j1, j2}
    MayFail = TRUE
    SizeMod = 4
    null = null
INVARIANTS
    TypeOK
    UndisturbedJoin
    SlotPerTask
PROPERTIES
    TaskEnds
