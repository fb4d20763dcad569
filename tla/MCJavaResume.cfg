SPECIFICATION FairSpec
CONSTANTS
    t1 = t1
    t2 = t2
    t3 = t3
    NoThread = NoThread
    Java = Java
    Threads = {t1, t2}
    Unreservers = {}
    Inspectors = {}
    Collectors = {}
    JavaSuspenders = {t1, t2}
    MaxDisable = 1
    MaxBuffer = 1
PROPERTIES
    JavaResumeReturns
CHECK_DEADLOCK FALSE
