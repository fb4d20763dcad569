SPECIFICATION Spec
CONSTANTS
    Threads = {t1, t2, t3}
    NoThread = NoThread
    MAX_RECURSION = 1
    SPIN_COUNT = 0
    MaxCalls = 3
    MaxAsks = 0
SYMMETRY Symmetry
CHECK_DEADLOCK FALSE
INVARIANT
    ExitsMatchEntries
