SPECIFICATION Spec
CONSTANTS
    s1 = s1
    s2 = s2
    Sources = {s1}
    Profiles <- JudgmentsOnly
    Proposals <- SomeProposals
    Failures <- Outage
INVARIANT
    SettledCodesStay
