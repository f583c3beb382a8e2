\* Three threads of one process that is restarted when it dies: the service
\* lock is shared, neither lock is kept, an orphaned claim is resolved.
SPECIFICATION RetrySpec
CONSTANTS
    None = None
    w1 = w1  w2 = w2  w3 = w3  s1 = s1  s2 = s2
    r1 = r1
    Workers = {w1, w2, w3}
    Stores = {s1}
    StoreOf <- MCThreeThreads
    Runs = {r1}
    EphemeralRuns = {r1}
    Ops = {"o1"}
    LegacyOps = {}
    FileIds = {f1}
    MaxDone = 1
    MaxUsed = 2
PROPERTIES
    DecisionsKept
    LocksReleased
    OrphanResolved
