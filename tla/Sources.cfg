SPECIFICATION SourcesSpec
CONSTANTS
    j1 = j1
    j2 = j2
    Candidates = {j1, j2}
    N = 2
    MaxListed = 2
    MaxVerifications = 3
    d1 = d1
    d2 = d2
    d3 = d3
    Docs = {d1, d2, d3}
    PartOf <- MCPartOf
    CaseOf <- MCCaseOf
    KindOf <- MCKindOf
    PageSize = 2
    Limit = 2
    Requests = 5
    a1 = a1
    Articles = {a1}
    Texts = {"old", "new"}
    Shows <- MCShows
    LawTTL = 1
    MaxTime = 2
    k1 = k1
    k2 = k2
    k3 = k3
    ListPagesOf <- MCListPagesOf
    v1 = v1
    v2 = v2
    v3 = v3
    Pii = {"id"}
    Versions = {v1, v2, v3}
    LengthOf <- MCLengthOf
    PageChars = 2
    MaxOffset = 1
    MaxPages = 3
    MaxRetries = 1
    MaxResults = 1
    HistoryDocs = {"h1", "h2"}
    Checked <- MCChecked
    MaxClaims = 2
    MaxValidations = 2
    RecordOf <- MCRecordOf
    NameOf <- MCNameOf
    Passages <- MCPassages
    PlanIssues <- MCPlanIssues
    Drafts <- MCDrafts
    Analyses <- MCAnalyses
    Fixtures = {"l"}
    External <- MCExternal
SYMMETRY Symmetry
\* A counter-authority search ends when its obligation is completed.
CHECK_DEADLOCK FALSE
INVARIANTS
    SourcesTypeOK
    LookupsBounded
    NoFalseMiss
    CompleteMeansVerified
    FoundIsAsked
    CauseIsKept
    CompleteSearch
    NothingPrivateLeaves
    FulltextIsWhole
    PresentedIsBound
    AcceptedIsBacked
PROPERTIES
    ProgressKept
    LawEvidenceIsCurrent
    CourtMissIsExplained
    RetainedIsGrounded
