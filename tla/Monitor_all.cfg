SPECIFICATION FairSpec
CONSTANTS
    Threads = {t1, t2}
    Objs = {o1, o2}
    Mons = {m1, m2, m3, m4}
    Recursive = TRUE
    MaxNest = 2
    null = null
INVARIANTS
    MutualExclusion
    NoFault
    RefsExact
    HeapExact
PROPERTIES
    EnterReturns
