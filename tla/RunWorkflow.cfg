SPECIFICATION Spec
CONSTANTS
    s1 = s1
    s2 = s2
    Sources = {s1, s2}
    Profiles <- AllProfiles
    Proposals <- SomeProposals
    Failures <- FewFailures
SYMMETRY Symmetry
INVARIANTS
    TypeOK
    AnswersAreBacked
    UnqualifiedHasNoGap
    ReadyMeansDone
    RetryHasWork
    HybridIsScreened
PROPERTY
    BudgetStops
