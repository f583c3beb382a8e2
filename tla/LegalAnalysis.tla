---------------------------- MODULE LegalAnalysis ----------------------------
(***************************************************************************)
(* The validation of a structured legal analysis against the evidence of   *)
(* its run: validate_legal_analysis of verification/legal_analysis.py and  *)
(* of research/service.py, with the contracts of an analysis and of a      *)
(* legal context.  An analysis is proposed by the client; nothing in it is *)
(* trusted.  It is validated over the sources and passages of              *)
(* AnswerValidation, whose terms end between the calls.                    *)
(*                                                                         *)
(* Claims, elements, burdens, issues and defenses are the items of a       *)
(* branch.  The service knows no facts of its own, so that every fact      *)
(* referred to is one it does not own.  What an accepted relation does to  *)
(* the coverage of the run is in ResearchRun.                              *)
(***************************************************************************)
EXTENDS AnswerValidation

CONSTANTS
  Analyses,  \* the analyses a client proposes
  Fixtures,  \* sources the bundled provider of legal contexts knows
  External   \* what another such provider says of the sources

VARIABLES
  accepted,  \* the analysis the last call has not blocked, and its contexts
  relations  \* the relations to counter-authority with a receipt

analysisVars == <<accepted, relations>>

\* What a judgment is to an issue.
Relations == {"supporting", "opposing", "distinguishing", "unrelated", "uncertain"}

-----------------------------------------------------------------------------
(* Legal contexts: of each source its time, authority and validity.        *)

Contexts ==
  {c \in [temporal : {"applicable", "not_yet_effective", "expired_or_repealed",
                      "historical_version_unavailable", "indeterminate"},
          authority : {"binding", "persuasive", "limited", "superseded", "unknown"},
          validity : {"valid", "invalid", "repealed", "suspended", "conflicting", "unknown"},
          complete : BOOLEAN] :
     c.complete => /\ c.temporal \notin {"historical_version_unavailable", "indeterminate"}
                   /\ "unknown" \notin {c.authority, c.validity}}

ASSUME LegalAnalysisAssumption ==
  /\ Fixtures \subseteq RunSources
  /\ \A context \in External :
       DOMAIN context \subseteq RunSources /\ \A s \in DOMAIN context : context[s] \in Contexts
  /\ \A a \in Analyses : \A r \in a.counter.relations : r.relation \in Relations

Unresolved == [temporal |-> "indeterminate", authority |-> "unknown", validity |-> "unknown", complete |-> FALSE]

AuthorityOf == [law |-> "binding", constitutional |-> "binding", judgment |-> "persuasive"]

\* The bundled provider knows the fixtures alone, and asks for no term.
Bundled ==
  [s \in RunSources |->
     IF s \in Fixtures /\ standing[s] # "refused"
     THEN [temporal |-> "applicable", authority |-> AuthorityOf[RecordOf[s].material],
           validity |-> "valid", complete |-> TRUE]
     ELSE Unresolved]

-----------------------------------------------------------------------------
(* The contract of an analysis.                                            *)

KindsIn(branch) ==
  IF branch.profile = "civil_substantive" THEN {"claim", "element", "burden", "defense"}
  ELSE {"issue", "burden", "defense"}

\* The item another one is about: a burden is about an element or an issue,
\* an element or a defense about a claim or, of other profiles, an issue.
HostOf(branch, kind) ==
  IF branch.profile # "civil_substantive" THEN "issue" ELSE IF kind = "burden" THEN "element" ELSE "claim"

OfKind(branch, kind) == {i \in branch.items : i.kind = kind}

WellFormedBranch(b) ==
  /\ \A i \in b.items : i.kind \in KindsIn(b)
  /\ \A i, k \in b.items : i.kind = k.kind /\ i.id = k.id => i = k
  /\ \A i, k \in OfKind(b, "burden") : i.about = k.about => i = k
  /\ \A i \in b.items : i.kind \in {"element", "burden", "defense"} =>
       \E k \in OfKind(b, HostOf(b, i.kind)) : k.id = i.about
  /\ IF b.profile = "civil_substantive"
     THEN /\ OfKind(b, "claim") # {}
          /\ \A c \in OfKind(b, "claim") : \E e \in OfKind(b, "element") : e.about = c.id
     ELSE OfKind(b, "issue") # {}

\* Otherwise the request is refused.
WellFormed(a) ==
  /\ \A b \in a.branches : WellFormedBranch(b)
  /\ \A b, c \in a.branches : b.profile = c.profile => b = c
  /\ \A b, c \in a.branches : b # c => \A kind \in {"issue", "defense"} :
       {i.id : i \in OfKind(b, kind)} \cap {i.id : i \in OfKind(c, kind)} = {}
  /\ a.counter.status = "found" => a.counter.sources # {}
  /\ a.counter.relations # {} => a.counter.status = "found"
  /\ \A r \in a.counter.relations : r.source \in a.counter.sources /\ r.evidence # {}
  /\ \A r, q \in a.counter.relations : r.issue = q.issue /\ r.source = q.source => r = q

\* What a complete branch of a profile has to cover.
CoreDimensions ==
  [civil_procedure |-> {"jurisdiction", "party_capacity", "standing", "claim_subject", "procedural_prerequisite"},
   criminal_substantive |-> {"offense_elements", "unlawfulness", "culpability"},
   criminal_procedure |->
     {"proceeding_stage", "prosecution_prerequisite", "evidence_admissibility", "burden_and_standard"},
   administrative |->
     {"action_classification", "authority_basis", "competence", "procedure", "substantive_legality",
      "discretion_and_purpose", "remedy_type", "standing", "prior_proceeding", "filing_period", "remedy_interest"},
   constitutional_review |->
     {"protected_right", "interference", "legal_reservation", "legitimate_aim", "proportionality"}]

\* The dimensions that, if open, call for a constraint on what is answered.
Constrained ==
  [civil_procedure |-> {"jurisdiction", "standing", "procedural_prerequisite", "appeal"},
   criminal_substantive |-> CoreDimensions.criminal_substantive \cup {"intent_or_negligence"},
   criminal_procedure |->
     {"proceeding_stage", "prosecution_prerequisite", "evidence_admissibility", "coercive_measure"},
   administrative |-> CoreDimensions.administrative \cup {"form", "proportionality", "legitimate_expectation"},
   constitutional_review |-> {"review_admissibility", "protected_right", "proportionality", "judgment_effect"}]

-----------------------------------------------------------------------------
(* What blocks an analysis.                                                *)

ItemsOf(a) == UNION {b.items : b \in a.branches}

Determinate(i) == i.kind \in {"element", "issue", "defense"} /\ i.status \in {"met", "not_met"}

NeedsSource(branch, i) ==
  i.kind \in {"claim", "burden", "issue"} \/ branch.profile # "civil_substantive" \/ Determinate(i)

\* A variant that asks for no term.
EligibleWithoutTerm(id) == \E e \in PassageOf(id) : e.usable /\ standing[e.of] # "refused"

EligibleId(id) == \E e \in PassageOf(id) : MaySupport(e)

ItemBlockers(b, i) ==
  UNION {
    IF NeedsSource(b, i) /\ i.sources = {} THEN {"NORMATIVE_SOURCE_REQUIRED"} ELSE {},
    IF i.kind = "element" /\ ~\E k \in OfKind(b, "burden") : k.about = i.id
    THEN {"ELEMENT_BURDEN_RECORD_REQUIRED"} ELSE {},
    IF ~Determinate(i) THEN {}
    ELSE IF i.facts \cup i.evidence = {} THEN {"DETERMINATE_ANALYSIS_FACT_OR_EVIDENCE_REQUIRED"}
    ELSE IF \E id \in i.evidence : EligibleId(id) THEN {}
    ELSE {"DETERMINATE_ANALYSIS_SUPPORT_NOT_ESTABLISHED"}}

BranchBlockers(b) ==
  (UNION {ItemBlockers(b, i) : i \in b.items})
  \cup (IF /\ b.profile # "civil_substantive" /\ b.scope = "complete"
           /\ ~(CoreDimensions[b.profile] \subseteq {i.dimension : i \in OfKind(b, "issue")})
        THEN {"DOMAIN_PROFILE_CORE_DIMENSION_MISSING"} ELSE {})

\* The text of a record has the hash it was stored with.
RelationBlockers(r) ==
  UNION {
    IF r.source \in RunSources /\ RecordOf[r.source].material # "judgment"
    THEN {"COUNTER_AUTHORITY_RELATION_SOURCE_NOT_JUDGMENT"} ELSE {},
    IF \E e \in UNION {PassageOf(id) : id \in r.evidence} : e.of # r.source
    THEN {"COUNTER_AUTHORITY_RELATION_EVIDENCE_SOURCE_MISMATCH"} ELSE {},
    IF \E e \in UNION {PassageOf(id) : id \in r.evidence} : ~e.usable
    THEN {"COUNTER_AUTHORITY_RELATION_EVIDENCE_INELIGIBLE"} ELSE {}}

SourceBlockers(s) ==
  IF s \notin RunSources THEN {"ANALYSIS_SOURCE_NOT_SERVER_OWNED"}
  ELSE UNION {IF standing[s] = "ended" THEN {"ANALYSIS_SOURCE_STALE"} ELSE {},
              IF standing[s] = "refused" THEN {"ANALYSIS_SOURCE_NOT_EVIDENCE_ELIGIBLE"} ELSE {}}

EvidenceBlockers(id) ==
  IF PassageOf(id) = {} THEN {"ANALYSIS_EVIDENCE_NOT_SERVER_OWNED"}
  ELSE IF EligibleId(id) THEN {} ELSE {"ANALYSIS_EVIDENCE_NOT_ELIGIBLE"}

\* The sources one item rests on: each in force, and one of them binding.
NormativeBlockers(sources, context) ==
  LET known == sources \cap DOMAIN context IN
  UNION {
    IF sources = known THEN {} ELSE {"LEGAL_CONTEXT_NOT_VERIFIED"},
    IF \A s \in known : context[s].complete THEN {} ELSE {"LEGAL_CONTEXT_INCOMPLETE"},
    IF \A s \in known : context[s].temporal = "applicable" THEN {} ELSE {"LEGAL_TIME_NOT_APPLICABLE"},
    IF \A s \in known : context[s].validity = "valid" THEN {} ELSE {"LEGAL_VALIDITY_NOT_CONFIRMED"},
    IF \E s \in known : context[s].authority \in {"superseded", "unknown"}
    THEN {"NORMATIVE_AUTHORITY_UNUSABLE"} ELSE {},
    IF sources = {} \/ \E s \in known : context[s].authority = "binding" THEN {}
    ELSE {"NORMATIVE_AUTHORITY_NOT_BINDING"}}

SourcesOf(a) ==
  (UNION {i.sources : i \in ItemsOf(a)}) \cup (UNION {b.posture.sources : b \in a.branches})
  \cup a.counter.sources \cup a.posture.sources

EvidenceOf(a) ==
  (UNION {i.evidence : i \in ItemsOf(a)}) \cup (UNION {f.evidence : f \in a.facts}) \cup {x.id : x \in a.assessed}
  \cup (UNION {r.evidence : r \in a.counter.relations})

FactsOf(a) ==
  (UNION {i.facts : i \in ItemsOf(a)}) \cup {f.id : f \in a.facts} \cup (UNION {x.facts : x \in a.assessed})
  \cup a.posture.facts \cup (UNION {b.posture.facts : b \in a.branches})

Blockers(a, context) ==
  (UNION {BranchBlockers(b) : b \in a.branches})
  \cup (UNION {RelationBlockers(r) : r \in a.counter.relations})
  \cup (UNION {SourceBlockers(s) : s \in SourcesOf(a)})
  \cup (UNION {EvidenceBlockers(id) : id \in EvidenceOf(a)})
  \cup (UNION {NormativeBlockers(i.sources, context) : i \in ItemsOf(a)})
  \cup (IF FactsOf(a) = {} THEN {} ELSE {"ANALYSIS_FACT_NOT_SERVER_OWNED"})

-----------------------------------------------------------------------------
(* What qualifies it.                                                      *)

Open(i) == i.status \in {"uncertain", "disputed"}

\* Of other profiles, what is open and is not declared as a constraint.
Undeclared(b) ==
  IF b.profile = "civil_substantive" THEN {}
  ELSE ({"BURDEN" : i \in {k \in OfKind(b, "burden") : Open(k)}}
        \cup ({i.dimension : i \in {k \in OfKind(b, "issue") : Open(k)}} \cap Constrained[b.profile]))
       \ b.constraints

UndeclaredPosture(b) == b.posture.stage = "unknown" /\ "PROCEDURE" \notin b.constraints

Qualifications(a) ==
  UNION {
    IF \A b \in a.branches : b.scope = "complete" THEN {} ELSE {"DOMAIN_ANALYSIS_SCOPE_LIMITED"},
    IF \E i \in ItemsOf(a) : Open(i) THEN {"ITEM_UNRESOLVED"} ELSE {},
    IF \E b \in a.branches : Undeclared(b) # {} \/ UndeclaredPosture(b)
    THEN {"DOMAIN_REFUSAL_CONSTRAINT_NOT_DECLARED"} ELSE {},
    CASE a.counter.status = "found" -> {}
      [] a.counter.status = "not_found_in_scope" -> {"COUNTER_AUTHORITY_ABSENCE_NOT_ESTABLISHED"}
      [] OTHER -> {"COUNTER_AUTHORITY_COVERAGE_INCOMPLETE"},
    IF "unknown" \in {a.posture.stage} \cup {b.posture.stage : b \in a.branches}
    THEN {"PROCEDURAL_POSTURE_UNRESOLVED"} ELSE {}}

Decision(a, context) ==
  IF Blockers(a, context) # {} THEN "blocked"
  ELSE IF Qualifications(a) # {} THEN "qualified" ELSE "validated"

-----------------------------------------------------------------------------

ValidateLegalAnalysis(a, context) ==
  /\ WellFormed(a)
  /\ IF Decision(a, context) = "blocked" THEN accepted' = {} /\ UNCHANGED relations
     ELSE /\ accepted' = {[analysis |-> a, context |-> context, decision |-> Decision(a, context)]}
          /\ relations' = relations \cup a.counter.relations
  /\ UNCHANGED answerVars

AnalysisInit == AnswerInit /\ accepted = {} /\ relations = {}

\* The validation of drafts, which changes none of this, is left out.
AnalysisNext ==
  \/ \E a \in Analyses, context \in External \cup {Bundled} : ValidateLegalAnalysis(a, context)
  \/ \E s \in RunSources, to \in {"eligible", "ended"} :
       SourceMoves(s, to) /\ accepted' = {} /\ UNCHANGED relations

AnalysisSpec == AnalysisInit /\ [][AnalysisNext]_<<answerVars, analysisVars>>

-----------------------------------------------------------------------------
(* Properties                                                              *)

AnalysisTypeOK ==
  /\ AnswerTypeOK
  /\ \A x \in accepted : x.analysis \in Analyses /\ x.decision \in {"qualified", "validated"}
  /\ \A r \in relations : r.relation \in Relations

\* An analysis that is not blocked draws nothing from outside the run: each of
\* its conclusions rests on a binding source in force and on a passage that
\* may support a claim now; whatever it cites is current and eligible, so that
\* the term of a source that ends between two calls ends its use; no relation
\* ever has a receipt but of a judgment of the run and by its own passages;
\* and one called complete and validated leaves no core question open.
AcceptedIsBacked ==
  /\ \A x \in accepted :
       /\ \A i \in ItemsOf(x.analysis) : Determinate(i) =>
            /\ \E s \in i.sources : /\ standing[s] = "eligible" /\ x.context[s].authority = "binding"
                                    /\ x.context[s].validity = "valid"
            /\ \E id \in i.evidence : \E e \in PassageOf(id) : e.usable /\ standing[e.of] = "eligible"
       /\ \A s \in SourcesOf(x.analysis) : s \in RunSources /\ standing[s] = "eligible"
       /\ \A id \in EvidenceOf(x.analysis) : \E e \in PassageOf(id) : standing[e.of] = "eligible"
       /\ x.decision = "validated" => \A b \in x.analysis.branches :
            b.profile \in DOMAIN CoreDimensions => \A d \in CoreDimensions[b.profile] :
              \E i \in OfKind(b, "issue") : i.dimension = d /\ ~Open(i)
  /\ \A r \in relations :
       /\ r.source \in RunSources /\ RecordOf[r.source].material = "judgment" /\ standing[r.source] # "refused"
       /\ \A id \in r.evidence : \E e \in PassageOf(id) : e.of = r.source

=============================================================================
