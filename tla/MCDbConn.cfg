SPECIFICATION Spec
CONSTANTS
    t1 = t1
    t2 = t2
    Nobody = Nobody
    Threads = {t1, t2}
    Calls <- CodeCalls
    Method <- CodeMethod
INVARIANT NoSelfDeadlock
CHECK_DEADLOCK FALSE
