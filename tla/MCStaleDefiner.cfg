SPECIFICATION Spec
CONSTANTS
    t1 = t1
    t2 = t2
    t3 = t3
    a = a
    b = b
    c = c
    NoThread = NoThread
    NoName = NoName
    NoEntry = NoEntry
    Threads = {t1, t2, t3}
    Names = {a, b, c}
    Scenarios <- SuperclassMissing
CHECK_DEADLOCK FALSE
INVARIANTS
    WaiterRegistered
