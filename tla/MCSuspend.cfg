SPECIFICATION FairSpec
CONSTANTS
    t1 = t1
    t2 = t2
    t3 = t3
    NoThread = NoThread
    Java = Java
    Threads = {t1, t2}
    Unreservers = {t1, t2}
    Inspectors = {}
    Collectors = {t1}
    JavaSuspenders = {t1, t2}
    MaxDisable = 2
    MaxBuffer = 1
INVARIANTS
    CountsAgree
    SuspensionsOwned
    NoLostResume
    IInv
PROPERTIES
    ImplementsSafeRegion
    UnreserveReturns
    ResumedThreadRuns
    SuspendAllReturns
CHECK_DEADLOCK FALSE
