SPECIFICATION FairSpec
CONSTANTS
    Users = {u1, u2}
    Requests = {1, 3, 4}
    MinC = 2
    ReplenishValue = 3
    MaxParams = {0, 1, 4}
    MaxPeriods = 3
INVARIANTS
    RateLimited
    NoSleepWithCredit
PROPERTIES
    CreditGranted
CHECK_DEADLOCK FALSE
