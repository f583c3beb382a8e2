\* Two processes on one storage directory, a run left unfinished by an older version, an ephemeral run.
SPECIFICATION Spec
CONSTANTS
    None = None
    w1 = w1  w2 = w2  w3 = w3  s1 = s1  s2 = s2
    r1 = r1
    Workers = {w1, w2}
    Stores = {s1, s2}
    StoreOf <- MCTwoProcesses
    Runs = {r1, r2}
    EphemeralRuns = {r2}
    Ops = {"o1", "o2"}
    LegacyOps <- MCLegacy
    FileIds = {f1, f2}
    MaxDone = 1
    MaxUsed = 1
SYMMETRY MCSymmetry
INVARIANTS
    TypeOK
    OwnedClaim
    SoleClaim
    SnapshotCurrent
PROPERTIES
    LedgerSpec
