SPECIFICATION FairSpec
CONSTANTS
    t1 = t1
    t2 = t2
    t3 = t3
    Threads = {t1, t2, t3}
    Targets = {t1}
    Objects = {m}
    NoThread = NoThread
    NoMonitor = NoMonitor
    Scenarios <- AllScenarios
    MaxRecursion = 1
    MaxInterrupters = 1
    MaxCalls = 3
    RequestModulus = 4
CHECK_DEADLOCK FALSE
INVARIANTS
    OwnerHoldsMutex
    NotificationsBounded
    RequestAgrees
PROPERTIES
    InterruptEndsWait
    UnparkEndsPark
    StopEndsWait
