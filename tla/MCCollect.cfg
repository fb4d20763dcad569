SPECIFICATION Spec
CONSTANTS
    t1 = t1
    t2 = t2
    t3 = t3
    NoThread = NoThread
    Java = Java
    Threads = {t1, t2, t3}
    Unreservers = {}
    Inspectors = {t1}
    Collectors = {t1, t2}
    JavaSuspenders = {}
    MaxDisable = 1
    MaxBuffer = 1
INVARIANTS
    StoppedStaysSafe
    SuspendedClearAtEnd
    StopTheWorld
