SPECIFICATION FairSpec
CONSTANTS
    NoEndpoint = NoEndpoint
    Endpoints = {e1, e2}
    Senders = {s1}
    Threshold = 2
    RotateInterval <- Never
    ErrorResetInterval = 0
    SendTimeout = 1
    PollInterval = 1
    Orderly = TRUE
PROPERTIES
    SendBufferReturns
CHECK_DEADLOCK FALSE
