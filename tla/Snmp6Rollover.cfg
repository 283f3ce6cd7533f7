SPECIFICATION Spec
CONSTANTS
    Nil = Nil
    FullMetricsFactor = 2
    Wrap = 16
    Wrap32 = 4
    Layouts <- OneLayout
    Vars <- Counters
    Uint32 = {"InMsgs"}
    CounterOf <- OneCycleCounter
INVARIANTS
    RolloverCompensated
CHECK_DEADLOCK FALSE
