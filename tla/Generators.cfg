CONSTANTS
    Nil = Nil
    FullMetricsFactor = 2
    Wrap = 2
SPECIFICATION Spec
INVARIANTS
    TypeOK
    FullCycleKept
    LastSentIsCurrent
    GoneIsCleared
    OneLabel
    NoPanic
CHECK_DEADLOCK FALSE
