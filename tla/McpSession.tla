----------------------------- MODULE McpSession -----------------------------
(***************************************************************************)
(* A session of the MCP server (mcp_server/server.py): the handshake, the  *)
(* tool profile, the recorded run of an external client with the citations *)
(* and claims it submits, and the service the server-owned tools use.      *)
(*                                                                         *)
(* The server answers one message at a time.  A message that is refused -- *)
(* malformed, before the handshake, an unknown method or tool, a tool of   *)
(* another profile -- changes nothing and is not an action; nor is a tool  *)
(* that only answers.  Of a run's trace only the action is modelled, not   *)
(* the calls and claims it lists.  What the server-owned tools do is in    *)
(* ResearchRun, SourceMaterials, JudgmentLineage and PublicLaw.            *)
(***************************************************************************)
EXTENDS ClaimSupport, FiniteSets

CONSTANTS
  Checked,        \* the claims a client submits, each with its segments
  MaxClaims,      \* bound on the claims of a check
  MaxValidations  \* bound on the different outcomes of a run's citations

ASSUME McpSessionAssumption ==
  /\ Checked \subseteq [claim : Claims, segments : Seq(Segments)]
  /\ {MaxClaims, MaxValidations} \subseteq Nat

VARIABLES
  profile,    \* the tool profile
  resolving,  \* identifier-backed verified cache is switched on
  handshake,  \* of the protocol: "new", "initialized", "ready"
  service,    \* the research service: "none", "open"
  recorded,   \* the run being recorded
  trace       \* the action in the trace last returned

sessionVars == <<profile, resolving, handshake, service, recorded, trace>>

-----------------------------------------------------------------------------
(* The tool catalog and the profiles.                                      *)

ServerOwned ==
  {"review_legal_draft", "complete_legal_research", "get_legal_research_capabilities",
   "research_legal_question", "execute_legal_research", "submit_legal_research_plan",
   "continue_legal_research", "get_legal_research_state", "get_legal_research_finalization",
   "lookup_legal_source", "inspect_judgment_lineage", "lookup_legislative_history",
   "validate_legal_analysis", "validate_legal_answer", "purge_research_storage"}

LegacyCompatibility ==
  {"begin_agentic_run", "finalize_agentic_run", "get_claim_grounding_policy", "extract_answer_claims",
   "check_claim_support", "get_trust_model", "validate_citation"}

SyntheticDemo ==
  {"agentic_legal_research", "legal_search", "run_agentic_demo", "build_validation_report",
   "exact_law_lookup", "exact_judgment_lookup", "exact_constitutional_lookup"}

ToolNames ==
  [verified |-> ServerOwned, compatibility |-> ServerOwned \cup LegacyCompatibility,
   demo |-> ServerOwned \cup LegacyCompatibility \cup SyntheticDemo]

Available(tool) == tool \in ToolNames[profile]

\* The call of a tool that is carried out.
Called(tool) ==
  /\ handshake = "ready" /\ Available(tool)
  /\ UNCHANGED <<profile, resolving, handshake>>

-----------------------------------------------------------------------------
(* The handshake.                                                          *)

Initialize ==
  /\ handshake' = IF handshake = "ready" THEN "ready" ELSE "initialized"
  /\ UNCHANGED <<profile, resolving, service, recorded, trace>>

\* Without a request before, the notification is dropped.
Initialized ==
  /\ handshake = "initialized" /\ handshake' = "ready"
  /\ UNCHANGED <<profile, resolving, service, recorded, trace>>

-----------------------------------------------------------------------------
(* Citations.                                                              *)

\* What a client says of a citation.  The identifier is one of the archive's
\* or not, the hash that of the archive's record or another.
Declared ==
  [tier : {"official", "verified_cache", "staging", "external_semantic_recall", "synthetic", "unknown"},
   url : BOOLEAN, identifier : {"none", "known", "unknown"}, hash : {"none", "right", "wrong"},
   verified : BOOLEAN, material : {"judgment", "law", "constitutional", "none"}]

\* The server's own resolution of the identifier.
Resolution(c, on) ==
  IF ~on \/ c.tier # "verified_cache" \/ c.identifier = "none" \/ c.url THEN "not_attempted"
  ELSE IF c.identifier = "unknown" THEN "unresolved"
  ELSE IF c.hash = "right" THEN "hash_match" ELSE "hash_mismatch"

\* A verified cache is final with a hash, a time, and an official URL or, for
\* a judgment, an identifier the server has resolved.
CacheIsFinal(c, on) ==
  /\ c.hash # "none" /\ c.verified
  /\ c.url \/ (on /\ c.material = "judgment" /\ Resolution(c, on) = "hash_match")

CitationUse(c, on) ==
  CASE c.tier = "official" -> "allow_final"
    [] c.tier = "verified_cache" -> IF CacheIsFinal(c, on) THEN "allow_final" ELSE "reject"
    [] c.tier \in {"staging", "external_semantic_recall"} -> "allow_candidate_only"
    [] c.tier = "synthetic" -> "demo_only"
    [] OTHER -> "reject"

Outcome(use, resolution) ==
  [use |-> use, resolution |-> resolution,
   status |-> IF use \in {"allow_final", "demo_only"} THEN "exists" ELSE "unverifiable"]

\* A variant that takes the client's word.
ValidatedAsDeclared(c, on) == Outcome(CitationUse(c, on), Resolution(c, on))

\* validate_citation for a client: a final use needs the server's resolution.
Validated(c, on) ==
  Outcome(IF CitationUse(c, on) = "allow_final" /\ Resolution(c, on) # "hash_match"
          THEN "reject" ELSE CitationUse(c, on),
          Resolution(c, on))

Validations == [on \in BOOLEAN |-> {Validated(c, on) : c \in Declared}]

-----------------------------------------------------------------------------
(* The recorded run.                                                       *)

NoRun == [open |-> FALSE]

BeginAgenticRun ==
  /\ Called("begin_agentic_run")
  /\ ~recorded.open
  /\ recorded' = [open |-> TRUE, validations |-> {}, checked |-> FALSE, claims |-> {}]
  /\ UNCHANGED <<service, trace>>

\* The outcome of a citation is recorded if a run is open.
ValidateCitation ==
  /\ Called("validate_citation") /\ recorded.open
  /\ \E v \in Validations[resolving] :
       /\ Cardinality(recorded.validations \cup {v}) <= MaxValidations
       /\ recorded' = [recorded EXCEPT !.validations = @ \cup {v}]
  /\ UNCHANGED <<service, trace>>

Submissions == UNION {kSubset(n, Checked) : n \in 0..MaxClaims}

\* A check replaces the one before it.
CheckClaimSupport ==
  /\ Called("check_claim_support") /\ recorded.open
  /\ \E claims \in Submissions :
       recorded' = [recorded EXCEPT !.checked = TRUE, !.claims = claims]
  /\ UNCHANGED <<service, trace>>

Statuses == {SupportStatus(i.claim, i.segments, FALSE) : i \in recorded.claims}

\* No citation leaves the laws without coverage, any leaves none low.
LowCoverage == IF recorded.validations = {} THEN {"LAWS_COVERAGE_LOW"} ELSE {}

Unchecked ==
  IF ~recorded.checked /\ \E v \in recorded.validations : v.use = "allow_final"
  THEN {"CLAIM_SUPPORT_NOT_CHECKED"} ELSE {}

TraceAction == GateAction(recorded.validations, LowCoverage, SupportReasons(Statuses) \cup Unchecked)

\* The client's answer is kept in the trace if the action is "answer".  A
\* finalization of another run is refused.
FinalizeAgenticRun ==
  /\ Called("finalize_agentic_run") /\ recorded.open
  /\ trace' = TraceAction
  /\ recorded' = NoRun
  /\ UNCHANGED service

-----------------------------------------------------------------------------
(* The synthetic demonstrations.                                           *)

\* The validation of the server's own fixtures and of candidates.
Trusted(tier, complete) ==
  Outcome(CitationUse([tier |-> tier, url |-> TRUE, identifier |-> "none",
                       hash |-> IF complete THEN "right" ELSE "none", verified |-> complete,
                       material |-> "none"], FALSE), "not_attempted")

Scenario(tiers, low, statuses) ==
  [citations |-> {Trusted(t, FALSE) : t \in tiers}, low |-> low, statuses |-> statuses]

\* Under the first name of those that stand for the same.
Scenarios ==
  [pass_official_source |-> Scenario({"official"}, {}, {"supported"}),
   fail_candidate_only |-> Scenario({"external_semantic_recall"}, {}, {}),
   fail_synthetic_only |-> Scenario({"synthetic"}, {}, {}),
   fail_verified_cache_incomplete |-> Scenario({"verified_cache"}, {}, {}),
   fail_no_final_citation |-> Scenario({}, {}, {}),
   fail_low_coverage |-> Scenario({"official"}, {"LAWS_COVERAGE_LOW"}, {}),
   human_review_required_claim_support |-> Scenario({"official"}, {}, {"unchecked"}),
   fail_party_argument_as_court_view |-> Scenario({"official"}, {}, {"role_error"}),
   fail_overstated_case_specific_rule |-> Scenario({"official"}, {}, {"overstated"}),
   fail_unsupported_paraphrase |-> Scenario({"official"}, {}, {"unsupported"})]

\* build_validation_report runs the same.
RunAgenticDemo(name) ==
  /\ Called("run_agentic_demo")
  /\ trace' = GateAction(Scenarios[name].citations, Scenarios[name].low,
                         SupportReasons(Scenarios[name].statuses))
  /\ UNCHANGED <<service, recorded>>

\* The legacy gate says of no answer that it is safe, whatever its citations.
LegacySummary(citations) ==
  [final |-> \E c \in citations : c.use = "allow_final",
   rejected |-> \E c \in citations : c.use = "reject",
   unverifiable |-> \E c \in citations : c.status = "unverifiable",
   safe |-> FALSE]

LegacyAction(citations) ==
  LET s == LegacySummary(citations) IN
  IF s.safe /\ s.final /\ ~s.rejected /\ ~s.unverifiable THEN "answer" ELSE "refuse"

AgenticLegalResearch ==
  /\ Called("agentic_legal_research")
  /\ trace' = LegacyAction({Validated([tier |-> "synthetic", url |-> FALSE, identifier |-> "none",
                                       hash |-> "none", verified |-> FALSE, material |-> "none"], FALSE)})
  /\ UNCHANGED <<service, recorded>>

-----------------------------------------------------------------------------
(* The service.                                                            *)

\* Its first use opens the store.
UseService(tool) ==
  /\ Called(tool)
  /\ tool \in ServerOwned \ {"get_legal_research_capabilities", "lookup_legislative_history"}
  /\ service' = "open"
  /\ UNCHANGED <<recorded, trace>>

\* After the storage is purged the next request opens a new one.
PurgeResearchStorage ==
  /\ Called("purge_research_storage")
  /\ service' = "none"
  /\ UNCHANGED <<recorded, trace>>

-----------------------------------------------------------------------------

SessionInit ==
  /\ profile \in DOMAIN ToolNames /\ resolving \in BOOLEAN
  /\ handshake = "new" /\ service = "none" /\ recorded = NoRun /\ trace = "none"

SessionNext ==
  \/ Initialize \/ Initialized
  \/ BeginAgenticRun \/ ValidateCitation \/ CheckClaimSupport \/ FinalizeAgenticRun
  \/ \E name \in DOMAIN Scenarios : RunAgenticDemo(name)
  \/ AgenticLegalResearch
  \/ \E tool \in ServerOwned : UseService(tool)
  \/ PurgeResearchStorage

SessionSpec == SessionInit /\ [][SessionNext]_sessionVars

-----------------------------------------------------------------------------
(* Properties                                                              *)

SessionTypeOK ==
  /\ profile \in DOMAIN ToolNames /\ resolving \in BOOLEAN
  /\ handshake \in {"new", "initialized", "ready"} /\ service \in {"none", "open"}
  /\ trace \in {"none", "answer", "human_review_required", "refuse"}
  /\ recorded.open => /\ recorded.claims \subseteq Checked
                      /\ Cardinality(recorded.validations) <= MaxValidations
                      /\ recorded.claims # {} => recorded.checked

\* A segment that supports a claim as it stands.
Grounds(s, claim) ==
  /\ claim.references = {} \/ s.citation \in claim.references
  /\ s.role \in RolesFor(claim.type) /\ s.fault = "none" /\ s.overlap >= 50

\* An answer is kept in the trace of a recorded run only if the server has
\* itself resolved every citation of the run, whatever the client declared of
\* tier, address, hash and time, and if every claim last checked is grounded
\* in one of its segments, in the section that can support it.
RetainedIsGrounded ==
  [][recorded.open /\ ~recorded'.open /\ trace' = "answer" =>
       /\ recorded.checked /\ recorded.validations # {}
       /\ \A v \in recorded.validations : v.resolution = "hash_match"
       /\ \A i \in recorded.claims :
            \E k \in DOMAIN i.segments : Grounds(i.segments[k], i.claim)]_sessionVars
=============================================================================
