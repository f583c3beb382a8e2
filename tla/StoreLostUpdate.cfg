\* Two processes: a projection writes back an old budget.
SPECIFICATION Spec
CONSTANTS
    None = None
    w1 = w1  w2 = w2  w3 = w3  s1 = s1  s2 = s2
    r1 = r1
    Workers = {w1, w2}
    Stores = {s1, s2}
    StoreOf <- MCTwoProcesses
    Runs = {r1}
    EphemeralRuns = {}
    Ops = {"o1", "o2"}
    LegacyOps = {}
    FileIds = {f1, f2}
    MaxDone = 1
    MaxUsed = 1
PROPERTIES
    NothingRefunded
