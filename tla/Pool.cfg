SPECIFICATION FairSpec
CONSTANTS
    NoEndpoint = NoEndpoint
    Endpoints = {e1, e2}
    Senders = {s1, s2}
    Threshold = 2
    RotateInterval = 1
    ErrorResetInterval = 1
    SendTimeout = 1
    PollInterval = 1
    Orderly = TRUE
INVARIANTS
    NoEndpointLost
PROPERTIES
    ShutdownCompletes
    EveryEndpointGetsItsTurn
CHECK_DEADLOCK FALSE
