SPECIFICATION FairSpec
CONSTANTS
    Msgs <- Four
    Size <- FourSizes
    Compressors = {c1, c2}
    Limits = {2, 3}
    QueueSize = 2
    MaxIdle = 1
    FlushEnabled = TRUE
INVARIANTS
    ExactlyOnce
    NothingEmptySent
PROPERTIES
    BatchFlushed
CHECK_DEADLOCK FALSE
