CONSTANTS
    Nil = Nil
    FullMetricsFactor = 2
    Wrap = 2
SPECIFICATION Spec
CHECK_DEADLOCK FALSE
INVARIANTS
    TypeOK
    CacheKept
    OwnParser
    DeltasAddUp
    OneCategory
    FullCycleKept
    ListShared
    StatsExact
