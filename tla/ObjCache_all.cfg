SPECIFICATION Spec
CONSTANTS
    Procs = {p1, p2}
    Hashes = {h1, h2}
    Inodes = {i1, i2, i3, i4, i5, i6}
    Modes = {"copy", "hardlink", "symlink"}
    MaxRuns = 4
    ObjSize = 10
    SizeLimit = 10
    Percent = 75
    DiskFree = {1000, 9999}
    MaxUlong = 9999
    none = none
INVARIANTS
    TypeOK
    OutputsIntact
    EntriesIntact
    FailsOnlyUnderPrune
    PruneEffective
SYMMETRY CacheSymmetry
VIEW CacheView
CHECK_DEADLOCK FALSE
