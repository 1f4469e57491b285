SPECIFICATION Spec
CONSTANTS
    Tasks = {t1, t2, t3}
    Joiners = {j1}
    MayFail = FALSE
    SizeMod = 4
    null = null
SYMMETRY TaskSymmetry
INVARIANTS
    JoinWaitsForEnd
