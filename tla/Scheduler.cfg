SPECIFICATION Spec
CONSTANTS
    a = a
    b = b
    NoTask = NoTask
    w1 = w1
    w2 = w2
    Tasks = {a, b}
    Workers = {w1, w2}
    Interval <- FastAndSlow
    Granularity = 1
    TaskQLen = 1
    TodoQLen = 1
    MaxSkew = 2
    MaxTime = 4
INVARIANTS
    TypeOK
    OnePlace
    TimerTracksTop
PROPERTIES
    ContractKept
    DeadlinesAdvance
SYMMETRY WorkerSymmetry
CHECK_DEADLOCK FALSE
