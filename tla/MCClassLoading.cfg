SPECIFICATION FairSpec
CONSTANTS
    t1 = t1
    t2 = t2
    t3 = t3
    a = a
    b = b
    c = c
    NoThread = NoThread
    NoName = NoName
    NoEntry = NoEntry
    Threads = {t1, t2, t3}
    Names = {a, b, c}
    Scenarios <- AllScenarios
CHECK_DEADLOCK FALSE
INVARIANTS
    DefinedOnce
    WaiterKeepsEntry
    NoFalseError
    LoadedOnReturn
PROPERTIES
    LoadEnds
