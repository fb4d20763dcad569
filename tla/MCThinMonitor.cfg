SPECIFICATION FairSpec
CONSTANTS
    Threads = {t1, t2}
    NoThread = NoThread
    MAX_RECURSION = 1
    SPIN_COUNT = 1
    MaxCalls = 4
    MaxAsks = 1
CHECK_DEADLOCK FALSE
INVARIANTS
    TypeOK
    MutualExclusion
    OwnerLosesNothing
    ExitsMatchEntries
PROPERTIES
    UsesSafeRegion
    EntryEnds
