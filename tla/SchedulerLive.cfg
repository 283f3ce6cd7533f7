SPECIFICATION FairSpec
CONSTANTS
    a = a
    b = b
    NoTask = NoTask
    w1 = w1
    w2 = w2
    Tasks = {a, b}
    Workers = {w1}
    Interval <- FastAndSlow
    Granularity = 1
    TaskQLen = 2
    TodoQLen = 2
    MaxSkew = 0
    MaxTime = 4
INVARIANTS
PROPERTIES
    DueTasksRun
    ShutdownCompletes
CHECK_DEADLOCK FALSE
