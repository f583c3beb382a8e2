--------------------------- MODULE MCResearchRun ---------------------------
(***************************************************************************)
(* Instances of ResearchRun for TLC.                                       *)
(***************************************************************************)
EXTENDS ResearchRun, TLC

CONSTANTS s1, s2

Run(steps, byClient) == [plan |-> steps, assisted |-> byClient]

\* Runs that create_run plans: laws and judgments from official sources with
\* their counter-authority, judgments alone with external recall, an earlier
\* version of the law and of the constitution, a plan that a client proposes.
Official == Run(<<"query", "law", "recall", "verify", "counter",
                  "sufficiency">>, FALSE)
Judgments == Run(<<"query", "privacy", "recall", "verify", "sufficiency">>, FALSE)
Dated == Run(<<"query", "law", "constitutional", "time", "sufficiency">>, FALSE)
Assisted == Run(<<"query", "law", "sufficiency">>, TRUE)

AllProfiles == {Official, Judgments, Dated, Assisted}
OfficialOnly == {Official}
JudgmentsOnly == {Judgments}
SomeProposals == {{}, {"recall", "verify"}}

\* Outages everywhere; for laws and constitutional decisions also a failure
\* that no retry lifts.
FewFailures == [k \in Kinds |->
    CASE k = "law" -> {Unavailable, ParseError}
      [] k = "constitutional" -> {Unavailable, NotFound}
      [] OTHER -> {Unavailable}]
Outage == [k \in Kinds |-> {Unavailable}]

Symmetry == Permutations(Sources)
=============================================================================
