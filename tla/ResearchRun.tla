---------------------------- MODULE ResearchRun ----------------------------
(***************************************************************************)
(* One managed research run (research/service.py, contracts/research.py,   *)
(* contracts/finalization.py, research/snapshot_receipts.py), driven by    *)
(* the outcomes of the provider executor (research/provider_executor.py).  *)
(*                                                                         *)
(* A run works through its obligations in order, one per continue_run.  An *)
(* outcome with a transient failure leaves the obligation pending, to be   *)
(* retried under a new operation id; everything else completes it and      *)
(* leaves its mark in the coverage buckets.  From the buckets the server   *)
(* derives how sufficient the research is, and from that and the snapshot  *)
(* receipts whether an answer may be shown.                                *)
(*                                                                         *)
(* ManagedStore shows that the operations of a run exclude one another and *)
(* work on the stored run, so each is one action here; an operation that   *)
(* ends half way is an action of its own.                                  *)
(*                                                                         *)
(* A member of Sources is one source record with eligible evidence.  Every *)
(* fetch of a document makes a new record (its id hashes the time of the   *)
(* fetch), so a record that has expired stays expired and stays linked to  *)
(* the run.  error_reason_codes and timeout_reason_codes are one bucket: a *)
(* time-out is a retryable error.  The provider scopes of the coverage     *)
(* receipt are left out: a provider that only failed has left a code in a  *)
(* bucket.  Codes that are treated alike are represented by one of them.   *)
(***************************************************************************)
EXTENDS Naturals, Sequences, FiniteSets

CONSTANTS
    Profiles,   \* [plan, assisted]: the obligations create_run may plan, in
                \* order, without the plan review and the final validation;
                \* and whether a client proposes the research plan
    Proposals,  \* sets of kinds that a registered plan can require
    Sources,    \* bounds the source records a run can obtain
    Failures    \* Failures[k]: codes the calls of an obligation can fail with

Kinds == {"query", "privacy", "law", "recall", "verify", "constitutional",
          "counter", "time", "sufficiency"}

ASSUME ProfilesAssumption ==
    /\ Profiles \subseteq [plan : Seq(Kinds), assisted : BOOLEAN]
    /\ \A p \in Profiles : p.plan # <<>>
\* The privacy screen is planned once, before any recall, and never last.
ASSUME ScreenAssumption ==
    \A p \in Profiles : \A i, j \in 1..Len(p.plan) : p.plan[i] = "privacy" =>
        /\ i < Len(p.plan)
        /\ p.plan[j] = "privacy" => j = i
        /\ p.plan[j] = "recall" => i < j
ASSUME ProposalsAssumption == Proposals \subseteq SUBSET Kinds
ASSUME FailuresAssumption == Failures \in [Kinds -> SUBSET STRING]

-----------------------------------------------------------------------------
(***************************************************************************)
(* Reason codes                                                            *)
(***************************************************************************)
Unavailable == "OFFICIAL_SOURCE_UNAVAILABLE"
NotFound == "OFFICIAL_NOT_FOUND"
ParseError == "OFFICIAL_PARSE_ERROR"
SourceBlocked == "OFFICIAL_SOURCE_BLOCKED"
TlrUnavailable == "TLR_UNAVAILABLE"
Degraded == "SEMANTIC_RECALL_DEGRADED"
PrivacyBlocked == "PRIVACY_EXTERNAL_QUERY_BLOCKED"
NoEvidence == "NO_ELIGIBLE_EVIDENCE"
KeywordOnly == "LAW_KEYWORD_RESULTS_REQUIRE_EXACT_LOOKUP"
CandidateOnly == "CLIENT_AUTHORITY_LOCATORS_CANDIDATE_ONLY"
RecallIncomplete == "JUDGMENT_RECALL_INCOMPLETE"
LawIncomplete == "LAW_OFFICIAL_VERIFICATION_INCOMPLETE"
VerifyIncomplete == "JUDGMENT_OFFICIAL_VERIFICATION_INCOMPLETE"
ConstitutionalIncomplete == "CONSTITUTIONAL_OFFICIAL_VERIFICATION_INCOMPLETE"
Lineage == "NO_UPPER_HISTORY_DOES_NOT_ESTABLISH_FINALITY"
Historical == "HISTORICAL_LAW_VERSION_UNSUPPORTED"
Unclassified == "COUNTER_AUTHORITY_RELATION_UNCLASSIFIED"
CounterPartial == "COUNTER_AUTHORITY_PARTIAL"
CounterRetry == "COUNTER_AUTHORITY_RETRY_REQUIRED"
CounterBlocked == "COUNTER_AUTHORITY_BLOCKED"

\* _is_retryable_outcome_code, _is_retryable_derived_code.
Transient == {Unavailable, TlrUnavailable, CounterRetry}
DerivedTransient ==
    Transient \cup {Degraded, RecallIncomplete, LawIncomplete, VerifyIncomplete,
                    ConstitutionalIncomplete}

\* _outcome_reason_codes: the codes that go to the error bucket.
Errors == {Unavailable, ParseError, SourceBlocked, PrivacyBlocked, NoEvidence,
           CounterRetry, CounterBlocked}

VARIABLES
    plan,       \* the obligations, in order
    assisted,   \* discovery_mode is client_assisted
    registered, \* a client's plan is registered
    state,      \* ResearchState
    pos,        \* the first pending obligation of the plan
    retry,      \* codes the next attempt at it clears from the coverage
    cov,        \* the coverage receipt
    mode,       \* effective_mode
    privacy,    \* privacy_status
    degraded,   \* semantic_recall_degraded
    incomplete, \* judgment_recall_incomplete
    candidates, \* which candidates of judgments the store holds: a "resolvable",
                \* an "unresolved" one; "external" when the external search has
                \* brought any, whose source records are linked to the run
    settled,    \* codes reported by the attempts that completed an obligation
                \* (for SettledCodesStay; no counterpart in the code)
    exhausted,  \* exhausted_reason is set
    stored,     \* source records linked to the run
    stale,      \* those whose expires_at has passed
    receipt,    \* the records the snapshot receipts cover
    answer,     \* stored result of the last answer that was safe to present,
                \* with its posture and qualification; {} if there is none
    reply       \* what the last call presented to its caller

orderVars == <<plan, assisted, registered>>
progressVars == <<pos, retry, settled>>
recallVars == <<mode, privacy, degraded, incomplete, candidates>>
materialVars == <<stored, stale, receipt>>
vars == <<plan, assisted, registered, state, pos, retry, cov, mode, privacy,
          degraded, incomplete, candidates, settled, exhausted, stored, stale,
          receipt, answer, reply>>

-----------------------------------------------------------------------------
(***************************************************************************)
(* Sufficiency and posture                                                 *)
(***************************************************************************)
\* _run_with_eligible_refs: the projection every gate works on.
Eligible == stored \ stale

Required(k) == \E i \in 1..Len(plan) : plan[i] = k
WorkflowComplete == pos > Len(plan) /\ (assisted => registered)

\* The coverage flag each obligation must have set.
FlagOf == [k \in Kinds |->
    CASE k = "law" -> "law"
      [] k \in {"recall", "verify"} -> "judgment"
      [] k = "constitutional" -> "constitutional"
      [] k = "counter" -> "counter"
      [] k = "time" -> "time"
      [] OTHER -> "none"]
Flags == {"law", "judgment", "constitutional", "counter", "time"}
Unchecked == {k \in Kinds : Required(k) /\ FlagOf[k] \in Flags \ cov.checked}

NoCodes == cov.limits = {} /\ cov.partial = {} /\ cov.errors = {}

\* Variant: expired records leave nothing behind.
CoverageCompleteStale ==
    /\ WorkflowComplete
    /\ Eligible # {}
    /\ Unchecked = {}
    /\ NoCodes
    /\ "external" \notin candidates
    /\ ~degraded /\ ~incomplete
\* _refresh_sufficiency.  A record that has expired, or one of an external
\* candidate, leaves a limitation behind in the projection.
CoverageComplete ==
    /\ WorkflowComplete
    /\ Eligible # {} /\ stale = {} /\ "external" \notin candidates
    /\ Unchecked = {}
    /\ NoCodes
    /\ ~degraded /\ ~incomplete
AbsenceClaimAllowed ==
    CoverageComplete /\ "counter" \in cov.checked /\ cov.scoped

\* evaluate_research_sufficiency, on the eligible evidence.
HardIncomplete ==
    \/ Required("verify") /\ incomplete
    \/ Required("time")
          /\ Historical \in cov.limits \cup cov.partial \cup cov.errors
Sufficiency ==
    IF cov.errors \cap Transient # {} THEN "retry_required"
    ELSE IF \/ ~WorkflowComplete
            \/ Eligible = {}
            \/ cov.errors # {}
            \/ Unchecked \ {"counter"} # {}
            \/ HardIncomplete
         THEN "insufficient"
    ELSE IF CoverageComplete THEN "sufficient"
    ELSE "qualified"

\* check_run_snapshot_receipts: a receipt binds the exact eligible records.
\* No receipt at all passes as a legacy run.
ReceiptsMatch == receipt = {} \/ receipt = Eligible

\* build_finalization_contract.
CounterGate == Required("counter") =>
    "counter" \in cov.checked /\ cov.counterComplete
Posture ==
    IF Sufficiency \in {"retry_required", "insufficient"} \/ ~ReceiptsMatch
    THEN "refusal_only"
    ELSE IF Sufficiency = "sufficient" /\ CounterGate /\ receipt # {}
    THEN "ordinary"
    ELSE "conditional"

\* required_qualification: what distinguishes one conditional posture from another.
Qualification ==
    [uncovered |-> ~CoverageComplete, counter |-> ~CounterGate,
     unchecked |-> Unchecked, legacy |-> receipt = {}]

-----------------------------------------------------------------------------
(***************************************************************************)
(* Continuing a run                                                        *)
(***************************************************************************)
HybridRequested == Required("privacy")

\* create_run.
Init ==
    /\ \E p \in Profiles : plan = p.plan /\ assisted = p.assisted
    /\ registered = FALSE
    /\ state = "planning"
    /\ pos = 1 /\ retry = {} /\ settled = {}
    /\ cov = [limits |-> {}, partial |-> {}, errors |-> {}, checked |-> {},
              status |-> "not_searched", counterComplete |-> FALSE,
              scoped |-> FALSE]
    /\ mode = IF HybridRequested THEN "hybrid" ELSE "official"
    /\ privacy = IF HybridRequested THEN "uncertain" ELSE "not_required"
    /\ degraded = FALSE /\ incomplete = FALSE /\ candidates = {}
    /\ exhausted = FALSE
    /\ stored = {} /\ stale = {} /\ receipt = {}
    /\ answer = {} /\ reply = {}

\* Variant: the plan review is skipped.
PendingUnreviewed == pos <= Len(plan)
Pending == pos <= Len(plan) /\ (assisted => registered)

\* A fetch or a cache hit returns records that have not expired.
Obtained(got) ==
    got \subseteq Sources \ stale /\ stored' = stored \cup got
\* _sync_snapshot_receipts.
SyncReceipts == receipt' = stored' \ stale'
\* The request digest of a stored answer binds materials, receipts and coverage.
KeepAnswer ==
    answer' = IF stored' = stored /\ receipt' = receipt /\ cov' = cov
              THEN answer ELSE {}

\* What an executor handler reports: the coverage it has updated, the codes
\* for the other two buckets, those that call for a retry (after
\* _filter_optional_tlr_retry_codes) and its diagnostics; and the recall mode.
Report(covered, partial, errors, again) ==
    [cov |-> covered, partial |-> partial, errors |-> errors, retry |-> again,
     marks |-> {}, mode |-> mode, degraded |-> degraded]
Nothing == Report(cov, {}, {}, {})

\* Variant: the error codes of a pending attempt are never cleared.
SettleKeepingErrors(out) ==
    LET done == out.retry = {}
        restored == done /\ Degraded \in retry
    IN
    /\ pos' = IF done THEN pos + 1 ELSE pos
    /\ retry' = IF done THEN {} ELSE out.retry \cup out.marks
    /\ settled' = IF done THEN settled \cup out.partial \cup out.errors ELSE settled
    /\ cov' = [out.cov EXCEPT !.limits = @ \ retry,
                              !.partial = (@ \ retry) \cup out.partial,
                              !.errors = @ \cup out.errors]
    /\ degraded' = (out.degraded /\ ~restored)
    /\ mode' = out.mode
    /\ state' = IF done /\ pos = Len(plan) THEN "ready"
                ELSE IF state = "planning" THEN "researching"
                ELSE state
\* continue_run from the outcome to the saved run.  Codes of a pending
\* attempt are cleared by the next one, before its own codes are merged.
Settle(out) ==
    LET fresh == (out.cov.limits \ cov.limits) \cap DerivedTransient
        degrading == IF degraded THEN {} ELSE out.partial \cap {Degraded}
        again == IF out.retry = {} THEN {} ELSE out.retry \cup fresh \cup degrading
        done == again = {}
        restored == done /\ Degraded \in retry
    IN
    /\ pos' = IF done THEN pos + 1 ELSE pos
    /\ retry' = IF done THEN {} ELSE again \cup out.marks
    /\ settled' = IF done THEN settled \cup out.partial \cup out.errors ELSE settled
    /\ cov' = [out.cov EXCEPT !.limits = @ \ retry,
                              !.partial = (@ \ retry) \cup out.partial,
                              !.errors = (@ \ retry) \cup out.errors]
    /\ degraded' = (out.degraded /\ ~restored)
    /\ mode' = IF restored /\ HybridRequested /\ privacy = "safe"
               THEN "hybrid" ELSE out.mode
    /\ state' = IF done /\ pos = Len(plan) THEN "ready"
                ELSE IF done /\ plan[pos] = "verify" THEN "verifying"
                ELSE IF state = "planning" THEN "researching"
                ELSE state

Attempt(k, got, out) ==
    /\ Pending /\ plan[pos] = k
    /\ ~exhausted
    /\ Obtained(got)
    /\ Settle(out)
    /\ UNCHANGED <<orderVars, exhausted, stale>>
    /\ SyncReceipts
    /\ KeepAnswer
    /\ reply' = {}

Understand ==
    /\ Attempt("query", {}, Nothing)
    /\ UNCHANGED <<privacy, incomplete, candidates>>

PrivacySafe ==
    /\ Attempt("privacy", {}, Nothing)
    /\ privacy' = "safe"
    /\ UNCHANGED <<incomplete, candidates>>
\* Variant: the mode is kept.
PrivacyRefusedHybrid ==
    /\ Attempt("privacy", {}, Report(cov, {}, {PrivacyBlocked}, {}))
    /\ privacy' = "blocked"
    /\ UNCHANGED <<incomplete, candidates>>
PrivacyRefused ==
    /\ Attempt("privacy", {},
          [cov |-> cov, partial |-> {}, errors |-> {PrivacyBlocked}, retry |-> {},
           marks |-> {}, mode |-> "official", degraded |-> TRUE])
    /\ privacy' = "blocked"
    /\ UNCHANGED <<incomplete, candidates>>

\* Laws and constitutional decisions.  Without an exact identifier only a
\* keyword search is made, whose hits are no evidence.
Exactly(k, gap) ==
    \E got \in SUBSET Sources, failed \in SUBSET Failures[k] :
        /\ got \cup failed # {}
        /\ Attempt(k, got,
              Report(IF got = {}
                     THEN [cov EXCEPT !.checked = @ \ {FlagOf[k]},
                                      !.limits = @ \cup {gap}]
                     ELSE [cov EXCEPT !.checked = @ \cup {FlagOf[k]}],
                     failed \ Errors, failed \cap Errors, failed \cap Transient))
ByKeyword(k) ==
    \E failed \in {{}} \cup {{f} : f \in Failures[k]} :
        Attempt(k, {},
            Report([cov EXCEPT !.checked = @ \ {FlagOf[k]},
                               !.limits = @ \cup {KeywordOnly}],
                   {KeywordOnly} \cup (failed \ Errors),
                   failed \cap Errors, failed \cap Transient))
Laws ==
    /\ Exactly("law", LawIncomplete) \/ ByKeyword("law")
    /\ UNCHANGED <<privacy, incomplete, candidates>>
Constitutional ==
    /\ \/ Exactly("constitutional", ConstitutionalIncomplete)
       \/ ByKeyword("constitutional")
    /\ UNCHANGED <<privacy, incomplete, candidates>>

\* Official and external search for judgment candidates.  One usable
\* candidate completes the recall: failures then only limit it.
RecallOutcome(official, external, usable) ==
    LET failed == {official, external} \ {"found", "none"}
        lost == external = TlrUnavailable
    IN
    [cov |-> cov,
     partial |-> (IF usable THEN failed ELSE failed \ Errors)
                 \cup (IF lost THEN {Degraded} ELSE {}),
     errors |-> IF usable THEN {} ELSE failed \cap Errors,
     retry |-> IF usable THEN {}
               ELSE (failed \cap Transient) \ {TlrUnavailable},
     marks |-> {},
     mode |-> IF lost THEN "official" ELSE mode,
     degraded |-> degraded \/ lost]
Identities == {"resolvable", "unresolved"}
JudgmentRecall ==
    /\ ~assisted
    /\ \E official \in {"found", "none"} \cup Failures["recall"],
          external \in IF mode = "hybrid"
                       THEN {"found", "none", TlrUnavailable} ELSE {"none"},
          found \in SUBSET Identities :
          /\ (found = {}) <=> ("found" \notin {official, external})
          /\ Attempt("recall", {},
                     RecallOutcome(official, external, "resolvable" \in found))
          /\ incomplete' = ("resolvable" \notin found)
          /\ candidates' = candidates \cup found
                \cup (IF external = "found" THEN {"external"} ELSE {})
    /\ UNCHANGED privacy
\* The locators of a registered plan become candidates without a search.
PlannedRecall ==
    /\ assisted
    /\ Attempt("recall", {}, Report(cov, {CandidateOnly}, {}, {}))
    /\ incomplete' = FALSE
    /\ candidates' \in (SUBSET Identities) \ {{}}
    /\ UNCHANGED privacy

NothingToVerify ==
    /\ "resolvable" \notin candidates
    /\ Attempt("verify", {},
          Report([cov EXCEPT !.checked = @ \ {"judgment"},
                             !.limits = @ \cup {RecallIncomplete}],
                 {RecallIncomplete}, {}, {}))
    /\ incomplete' = TRUE
    /\ UNCHANGED <<privacy, candidates>>
\* One verified judgment turns the failures of the others into limitations;
\* a candidate that cannot be resolved is one.
VerifyJudgment ==
    /\ "resolvable" \in candidates
    /\ \E got \in SUBSET Sources, failed \in SUBSET Failures["verify"] :
          LET gap == IF failed = {} /\ "unresolved" \notin candidates THEN {}
                     ELSE {VerifyIncomplete}
          IN
          /\ got \cup failed # {}
          /\ Attempt("verify", got,
                Report([cov EXCEPT !.checked = @ \cup {"judgment"},
                                   !.limits = @ \cup gap],
                       gap \cup (IF got = {} THEN failed \ Errors ELSE failed),
                       IF got = {} THEN failed \cap Errors ELSE {},
                       failed \cap Transient))
          /\ incomplete' = (got = {})
    /\ UNCHANGED <<privacy, candidates>>

\* _counter_authority reports the status of the bounded search and its reason
\* codes.  A query without hits also reports the code its provider call
\* carries, if any ("missed"); next to a partial bucket that is not empty
\* anyway it is left out.
CounterOutcome(status, checked, complete, codes, reported) ==
    [cov |-> [limits |-> cov.limits \cup codes, partial |-> cov.partial,
              errors |-> cov.errors,
              checked |-> IF checked THEN cov.checked \cup {"counter"}
                          ELSE cov.checked \ {"counter"},
              status |-> status, counterComplete |-> complete, scoped |-> TRUE],
     partial |-> reported \ Errors, errors |-> reported \cap Errors,
     retry |-> reported \cap Transient, marks |-> codes,
     mode |-> mode, degraded |-> degraded]
CounterMiss ==
    \E missed \in {{}, {NotFound}} :
        Attempt("counter", {},
            CounterOutcome("not_found_in_scope", TRUE, TRUE, {}, missed))
CounterFound ==
    \E got \in SUBSET Sources, failed \in SUBSET Failures["counter"],
       missed \in {{}, {NotFound}} :
        /\ got \cup stored # {}
        /\ Attempt("counter", got,
              CounterOutcome("partial", FALSE, failed = {},
                             failed \cup {Unclassified, CounterPartial},
                             failed \cup missed \cup {CounterPartial}))
CounterUnverified ==
    \E failed \in SUBSET Failures["counter"] :
        Attempt("counter", {},
            CounterOutcome("partial", FALSE, FALSE, failed \cup {CounterPartial},
                           failed \cup {CounterPartial}))
CounterFailed ==
    \E failed \in SUBSET Failures["counter"] :
        /\ failed # {}
        /\ Attempt("counter", {},
              CounterOutcome("retry_required", FALSE, FALSE,
                             failed \cup {CounterRetry}, failed \cup {CounterRetry}))
CounterRefused ==
    \E failed \in SUBSET Failures["counter"] :
        Attempt("counter", {},
            CounterOutcome("blocked", FALSE, FALSE, failed \cup {SourceBlocked},
                           failed \cup {SourceBlocked, CounterBlocked}))
CounterAuthority ==
    /\ \/ CounterMiss \/ CounterFound \/ CounterUnverified
       \/ CounterFailed \/ CounterRefused
    /\ UNCHANGED <<privacy, incomplete, candidates>>

TimeContext ==
    /\ Attempt("time", {},
          Report([cov EXCEPT !.checked = @ \cup {"time"},
                             !.limits = @ \cup {Historical}],
                 {Historical}, {}, {}))
    /\ UNCHANGED <<privacy, incomplete, candidates>>

EvidenceSufficiency ==
    /\ Attempt("sufficiency", {},
          Report(cov, {}, IF stored = {} THEN {NoEvidence} ELSE {}, {}))
    /\ UNCHANGED <<privacy, incomplete, candidates>>

\* An attempt ends without an outcome: what it has stored stays, the receipts
\* are not renewed, the obligation is still pending.
CutShort(got) ==
    /\ Pending
    /\ Obtained(got)
    /\ exhausted => got = {}
    /\ state' = IF state = "planning" THEN "researching" ELSE state
    /\ UNCHANGED receipt
    /\ UNCHANGED <<orderVars, progressVars, cov, recallVars, stale>>
    /\ KeepAnswer
    /\ reply' = {}
BudgetSpent ==
    /\ \E got \in SUBSET Sources : CutShort(got)
    /\ exhausted' = TRUE
AttemptLost ==
    /\ ~exhausted
    /\ \E got \in SUBSET Sources : CutShort(got)
    /\ UNCHANGED exhausted

-----------------------------------------------------------------------------
(***************************************************************************)
(* The other operations of a run                                           *)
(***************************************************************************)
\* register_research_plan, _merge_plan_obligations: what the plan adds goes
\* before the last obligation.
RegisterPlan ==
    /\ assisted /\ ~registered /\ state = "planning"
    /\ \E proposed \in Proposals :
          LET Added(k) == IF k \in proposed /\ ~Required(k) THEN <<k>> ELSE <<>>
          IN plan' = SubSeq(plan, 1, Len(plan) - 1) \o Added("recall")
                     \o Added("verify") \o Added("constitutional")
                     \o Added("counter") \o Added("time") \o <<plan[Len(plan)]>>
    /\ registered' = TRUE
    /\ reply' = {}
    /\ UNCHANGED <<assisted, state, progressVars, cov, recallVars, exhausted,
                   materialVars, answer>>

\* Variant: an exhausted budget does not stop it.
LookupUnbudgeted ==
    /\ \E got \in {{}} \cup {{s} : s \in Sources} : Obtained(got)
    /\ exhausted' \in {exhausted, TRUE}
    /\ UNCHANGED <<orderVars, state, progressVars, cov, recallVars, stale>>
    /\ SyncReceipts
    /\ KeepAnswer
    /\ reply' = {}
\* An exact lookup.  It renews the receipts, also when the budget stops it.
Lookup ==
    /\ \E got \in {{}} \cup {{s} : s \in Sources} :
          /\ exhausted => got = {}
          /\ Obtained(got)
    /\ exhausted' \in {exhausted, TRUE}
    /\ UNCHANGED <<orderVars, state, progressVars, cov, recallVars, stale>>
    /\ SyncReceipts
    /\ KeepAnswer
    /\ reply' = {}
\* The process ends after the source is stored and before the receipts are.
LookupLost ==
    /\ ~exhausted
    /\ \E s \in Sources : Obtained({s})
    /\ UNCHANGED receipt
    /\ UNCHANGED <<orderVars, state, progressVars, cov, recallVars, exhausted, stale>>
    /\ KeepAnswer
    /\ reply' = {}

\* inspect_judgment_lineage always leaves a limitation.
InspectLineage ==
    /\ \E got \in SUBSET Sources :
          /\ exhausted => got = {}
          /\ Obtained(got)
    /\ exhausted' \in {exhausted, TRUE}
    /\ cov' = [cov EXCEPT !.limits = @ \cup {Lineage}]
    /\ UNCHANGED <<orderVars, state, progressVars, recallVars, stale>>
    /\ SyncReceipts
    /\ KeepAnswer
    /\ reply' = {}

\* validate_legal_analysis accepts an analysis that classifies a verified
\* judgment as opposing.
ClassifyOpposing ==
    LET classified == {Unclassified, CounterPartial} IN
    /\ state = "ready"
    /\ Eligible # {}
    /\ cov' = [cov EXCEPT !.checked = @ \cup {"counter"},
                          !.status = "found_verified",
                          !.limits = @ \ classified,
                          !.partial = @ \ classified]
    /\ settled' = settled \ classified
    /\ UNCHANGED <<orderVars, state, pos, retry, recallVars, exhausted, materialVars>>
    /\ KeepAnswer
    /\ reply' = {}

Expire(s) ==
    /\ s \in Eligible
    /\ stale' = stale \cup {s}
    /\ reply' = {}
    /\ UNCHANGED <<orderVars, state, progressVars, cov, recallVars, exhausted,
                   stored, receipt, answer>>

-----------------------------------------------------------------------------
(***************************************************************************)
(* Final validation                                                        *)
(***************************************************************************)
\* validate_answer, when the gate refuses.  Only a refusal that no retry can
\* lift ends the run.
ValidateRefused ==
    /\ Posture = "refusal_only"
    /\ state' = IF Sufficiency # "retry_required" /\ state = "ready"
                THEN "blocked" ELSE state
    /\ reply' = {}
    /\ UNCHANGED <<orderVars, progressVars, cov, recallVars, exhausted,
                   materialVars, answer>>

\* Variants: expired sources, or any source at all, may be cited.
DecisionOnStored(cites, supported) ==
    IF ~supported \/ ~(cites \subseteq stored) \/ Historical \in cov.limits
    THEN "blocked"
    ELSE IF degraded \/ incomplete \/ cov.limits # {} \/ Posture = "conditional"
    THEN "qualified"
    ELSE "validated"
DecisionUncited(cites, supported) ==
    IF ~supported \/ Historical \in cov.limits THEN "blocked"
    ELSE IF degraded \/ incomplete \/ cov.limits # {} \/ Posture = "conditional"
    THEN "qualified"
    ELSE "validated"
\* ... and when it does not.  "supported" stands for the checks of the answer
\* text against the cited evidence.
Decision(cites, supported) ==
    IF ~supported \/ ~(cites \subseteq Eligible) \/ Historical \in cov.limits
    THEN "blocked"
    ELSE IF degraded \/ incomplete \/ cov.limits # {} \/ Posture = "conditional"
    THEN "qualified"
    ELSE "validated"
Validate(cites, supported) ==
    LET decision == Decision(cites, supported)
        safe == decision # "blocked"
    IN
    /\ Posture # "refusal_only"
    /\ state \in {"ready", "validated", "qualified", "blocked"}
    /\ state' = decision
    /\ reply' = IF safe THEN {[cites |-> cites, decision |-> decision]} ELSE {}
    /\ answer' = IF safe
                 THEN {[cites |-> cites, decision |-> decision,
                        posture |-> Posture, qualification |-> Qualification]}
                 ELSE answer
    /\ UNCHANGED <<orderVars, progressVars, cov, recallVars, exhausted, materialVars>>

\* The same operation id again: the stored result, if the gate has not moved.
Replay ==
    /\ \E a \in answer :
          /\ Posture # "refusal_only"
          /\ a.posture = Posture
          /\ a.qualification = Qualification
          /\ reply' = {[cites |-> a.cites, decision |-> a.decision]}
    /\ UNCHANGED <<orderVars, state, progressVars, cov, recallVars, exhausted,
                   materialVars, answer>>

Next ==
    \/ Understand \/ PrivacySafe \/ PrivacyRefused \/ Laws \/ Constitutional
    \/ JudgmentRecall \/ PlannedRecall \/ NothingToVerify \/ VerifyJudgment
    \/ CounterAuthority \/ TimeContext \/ EvidenceSufficiency
    \/ BudgetSpent \/ AttemptLost
    \/ RegisterPlan \/ Lookup \/ LookupLost \/ InspectLineage \/ ClassifyOpposing
    \/ \E s \in Sources : Expire(s)
    \/ ValidateRefused \/ Replay
    \/ \E cites \in (SUBSET Sources) \ {{}}, supported \in BOOLEAN :
          Validate(cites, supported)

Spec == Init /\ [][Next]_vars

-----------------------------------------------------------------------------
(***************************************************************************)
(* Properties                                                              *)
(***************************************************************************)
States == {"planning", "researching", "verifying", "ready", "validated",
           "qualified", "blocked"}
Codes == SUBSET ({Unavailable, NotFound, ParseError, SourceBlocked,
                  TlrUnavailable, Degraded, PrivacyBlocked, NoEvidence,
                  KeywordOnly, CandidateOnly, RecallIncomplete, LawIncomplete,
                  VerifyIncomplete, ConstitutionalIncomplete, Lineage,
                  Historical, Unclassified, CounterPartial, CounterRetry,
                  CounterBlocked} \cup UNION {Failures[k] : k \in Kinds})
Coverage == [limits : Codes, partial : Codes, errors : Codes,
             checked : SUBSET Flags,
             status : {"not_searched", "not_found_in_scope", "found_verified",
                       "partial", "retry_required", "blocked"},
             counterComplete : BOOLEAN, scoped : BOOLEAN]

\* The run keeps well-formed values; a receipt and an answer name records the
\* run has stored (ResearchRun, CoverageState and the store's tables).
TypeOK ==
    /\ plan \in Seq(Kinds) /\ assisted \in BOOLEAN /\ registered \in BOOLEAN
    /\ state \in States
    /\ pos \in 1..(Len(plan) + 1)
    /\ retry \in Codes /\ settled \in Codes /\ cov \in Coverage
    /\ mode \in {"hybrid", "official"}
    /\ privacy \in {"not_required", "uncertain", "safe", "blocked"}
    /\ degraded \in BOOLEAN /\ incomplete \in BOOLEAN
    /\ candidates \in SUBSET (Identities \cup {"external"})
    /\ exhausted \in BOOLEAN
    /\ stored \subseteq Sources
    /\ stale \subseteq stored /\ receipt \subseteq stored
    /\ \A r \in answer \cup reply : r.cites \subseteq stored

\* An answer handed to a caller, by the call that validated it or by a replay
\* of that call, rests on a finished research and, once snapshot receipts
\* exist, only on records that have not expired (validate_answer).
AnswersAreBacked ==
    \A r \in reply :
        /\ WorkflowComplete
        /\ receipt # {} => r.cites \subseteq Eligible

\* An answer without qualification is handed out only while nothing at all is
\* missing: no code in any bucket, no record that has expired or is only a
\* candidate of the external search, no degraded recall and receipts for
\* exactly the records at hand (validate_answer and its replay check against
\* build_finalization_contract).
UnqualifiedHasNoGap ==
    \A r \in reply : r.decision = "validated" =>
        /\ NoCodes /\ Unchecked = {}
        /\ stale = {} /\ receipt = stored /\ "external" \notin candidates
        /\ ~degraded /\ ~incomplete

\* A run in a drafting or final state has no pending obligation.  The model
\* validator of ResearchRun relies on it: it sets workflow_complete from the
\* state alone, and evaluate_research_sufficiency from the obligations.
ReadyMeansDone ==
    state \in {"ready", "validated", "qualified", "blocked"} <=> WorkflowComplete

\* "Retry" is never a dead end: while the posture asks for a retry there is an
\* obligation to continue, although completed obligations are not run again
\* (continue_run, evaluate_research_sufficiency).
RetryHasWork == Sufficiency = "retry_required" => pos <= Len(plan)

\* External recall runs only after the privacy screen has passed, and a mode
\* restored after a degraded recall never bypasses a refusal (continue_run).
HybridIsScreened ==
    mode = "hybrid" /\ pos <= Len(plan) /\ plan[pos] = "recall"
    => privacy = "safe"

\* An exhausted budget is final: no obligation completes and nothing more is
\* fetched by any operation of the run (BudgetScope).
BudgetStops ==
    [][exhausted => exhausted' /\ pos' = pos /\ stored' = stored]_vars

\* A code reported by an attempt that completed an obligation stays in the
\* coverage, and so in what an answer discloses, whatever the attempts at
\* later obligations retry and clear (continue_run, clear_codes).
SettledCodesStay == settled \subseteq cov.limits \cup cov.partial \cup cov.errors

\* The absence of opposing authority may not be claimed after an opposing
\* judgment was verified (CounterAuthorityResult.validate_absence_boundary).
AbsenceNeedsNoOpposition ==
    cov.status = "found_verified" => ~AbsenceClaimAllowed

\* A clean scoped miss of the counter-authority search completes the
\* obligation without leaving a gap (_outcome_reason_codes).
CleanMissIsNoGap ==
    [][cov.status # "not_found_in_scope" /\ cov'.status = "not_found_in_scope"
       => cov'.partial \subseteq cov.partial /\ cov'.errors \subseteq cov.errors]_vars

\* A refused external query degrades the run to official_only; the official
\* evidence it obtains stays usable, with a qualification.
PrivacyRefusalIsSoft ==
    /\ WorkflowComplete /\ cov.errors = {PrivacyBlocked}
    /\ Eligible # {} /\ ReceiptsMatch
    /\ Unchecked \ {"counter"} = {} /\ ~HardIncomplete
    => Posture = "conditional"

=============================================================================
