SPECIFICATION Spec
CONSTANTS
    t1 = t1
    t2 = t2
    t3 = t3
    NoThread = NoThread
    Java = Java
    Threads = {t1, t2}
    Unreservers = {t2}
    Inspectors = {t1}
    Collectors = {}
    JavaSuspenders = {}
    MaxDisable = 1
    MaxBuffer = 1
INVARIANTS
    SuspendOtherSucceeds
CHECK_DEADLOCK FALSE
