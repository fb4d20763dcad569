SPECIFICATION FairSpec
CONSTANTS
    t1 = t1
    t2 = t2
    t3 = t3
    a = a
    b = b
    NoThread = NoThread
    NoClass = NoClass
    Threads = {t1, t2, t3}
    Classes = {a, b}
    Worlds <- SmallWorlds
CHECK_DEADLOCK FALSE
INVARIANTS
    InitializedOnce
    SuperFirst
PROPERTIES
    InitializedOnReturn
    StateMovesForward
    InitializationEnds
