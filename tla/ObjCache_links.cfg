SPECIFICATION Spec
CONSTANTS
    Procs = {p1, p2}
    Hashes = {h1, h2}
    Inodes = {i1, i2, i3, i4, i5, i6}
    Modes = {"hardlink"}
    MaxRuns = 3
    ObjSize = 10
    SizeLimit = 10
    Percent = 75
    DiskFree = {1000}
    MaxUlong = 9999
    none = none
INVARIANT EntriesCorrect
VIEW CacheView
CHECK_DEADLOCK FALSE
