SPECIFICATION RecordsSpec
CONSTANTS
    r1 = r1
    r2 = r2
    k1 = k1
    e1 = e1
    Runs = {r1, r2}
    Keys = {k1}
    Contents = {"whole", "bare"}
    SpansIn <- MCSpansIn
    ProviderOf <- MCProviderOf
    SourceTTL = 2
    RunTTL = 2
    Horizon = 2
    MaxRecords = 2
    d1 = d1
    d2 = d2
    Root = root
    Relatives = {d1, d2}
    LineageTTL = 1
    LineageHorizon = 1
    MaxRelated = 2
    MaxEntries = 2
    MaxStock = 3
    LyDatasets <- MCLyDatasets
    LyDated = {"third readings"}
    LyProposal = "proposals"
    LyRows = 2
    LyLimit = 1
    LyIds = {"i1", "i2"}
    Bills = {"b1"}
    Statutes = {"s1"}
    Materials = {"m1"}
SYMMETRY Symmetry
\* The clocks are bounded, and a run may be left alone.
CHECK_DEADLOCK FALSE
INVARIANTS
    RecordsTypeOK
    NothingOrphaned
    LookupIsWhole
    ContractBuilds
    AbsenceIsEarned
PROPERTIES
    RevalidationIsOfExpired
    ReceiptsAreCurrent
    ReversalIsOfficial
    ReplayIsCurrent
    UsableIsPromoted
