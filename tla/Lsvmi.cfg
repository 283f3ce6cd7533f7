CONSTANTS
    NoEndpoint = NoEndpoint
    m1 = m1
    m2 = m2
    m3 = m3
    Workers = {w1, w2}
    Msgs <- ThreeMsgs
    Size <- OneEmpty
    Compressors = {c1, c2}
    Limits = {2}
    QueueSize = 1
    MaxIdle = 1
    FlushEnabled = FALSE
    Endpoints = {e1}
    Threshold = 1
    RotateInterval <- NoRotation
    ErrorResetInterval = 0
    SendTimeout = 1
    PollInterval = 1
SPECIFICATION FairSpec
INVARIANTS
    NoPanic
    NothingLeftBehind
PROPERTIES
    CallersAsAssumed
    ExitsAfterSignal
