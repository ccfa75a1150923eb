CONSTANTS
    t1 = t1
    t2 = t2
    m1 = m1
    m2 = m2
    r1 = r1
    NoThread = NoThread
    Threads <- MCThreads
    ThreadOrder <- MCThreadOrder
    Mutexes <- MCMutexes
    Resources <- MCResources
    Modes = {"S", "X"}
    InfoMayFail = TRUE
    GdbErrorPoints = {}

SPECIFICATION Spec

INVARIANT PassNeverCrashes
