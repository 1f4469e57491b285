SPECIFICATION FairSpec
CONSTANTS
    Threads = {t1, t2, t3, t4}
    WriterTimeouts = FALSE
INVARIANTS
    CountsExact
    NoLostWakeup
PROPERTIES
    ImplementsRWLock
    PreferenceHonoured
