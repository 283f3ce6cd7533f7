CONSTANTS
    Nil = Nil
    PidReuse = FALSE
    Pids = {p1, p2}
    Nodes = {n1, n2, n3}
SPECIFICATION Spec
CHECK_DEADLOCK FALSE
INVARIANT OutdatedRemoved
