SPECIFICATION FairSpec
CONSTANTS
    Threads = {t1, t2, t3}
    WriterTimeouts = TRUE
PROPERTIES
    QueuedReadersAlerted
