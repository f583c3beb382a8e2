-------------------------- MODULE SubmissionProofs --------------------------
(***************************************************************************)
(* Proofs about what a client submits to the server -- citations and       *)
(* claims of a recorded run (McpSession), drafts (AnswerValidation),       *)
(* analyses (LegalAnalysis) -- for any submissions, passages and bounds.   *)
(*                                                                         *)
(* All three rest on the grading of claims: a claim is called supported    *)
(* only over a segment that can ground it (SupportedIsGrounded), which     *)
(* needs that among the segments it is compared with there is a best one   *)
(* (GreatestExists, from the least number principle) and that their        *)
(* overlaps are percentages (OverlapBounds, a fact about cardinalities).   *)
(*                                                                         *)
(* A recorded run keeps what the server itself resolved (RunOK), so that   *)
(* the gate at its end decides over that (AnswerIsGrounded).  A draft is   *)
(* presented if each of its claims is supported and each of its clauses is *)
(* covered by a binding (SafeIsHeld).  An analysis is complete if nothing  *)
(* blocks it: NothingBlocks reads the list of blockers the other way round *)
(* (UnblockedIsBacked), and sources that were refused stay refused, so the *)
(* relations the run keeps rest on what was eligible (MoveSafe).           *)
(*                                                                         *)
(* At the end the modules of MCSources, whose instance TLC explores as one *)
(* run, are shown to be separate in it (SourcesAreSeparate).               *)
(***************************************************************************)
EXTENDS MCSources, CounterAuthorityProofs, JudgmentProviderProofs, LawAndRecallProofs,
        FiniteSetTheorems, SequenceTheorems, WellFoundedInduction, TLAPS

-----------------------------------------------------------------------------
(* The grading of claims.                                                  *)

\* The least of some numbers.
LEMMA LeastIsMin ==
  ASSUME NEW S \in SUBSET Nat, S # {}
  PROVE  Min(S) \in S /\ \A x \in S : Min(S) <= x
  <1> DEFINE R == OpToRel(<, Nat)
  <1>1. IsWellFoundedOn(R, Nat)
    BY NatLessThanWellFounded
  <1> HIDE DEF R
  <1>2. PICK x \in S : \A y \in S : ~(<<y, x>> \in R)
    BY <1>1, WFMin
  <1>3. \A y \in S : ~(y < x)
    BY <1>2 DEF R, OpToRel
  <1>4. \E z \in S : \A y \in S : z <= y
    BY <1>3
  <1>5. QED
    BY <1>4 DEF Min

\* Among the segments with overlaps in percent there is one of the greatest.
LEMMA GreatestExists ==
  ASSUME NEW segments, NEW bound \in SUBSET Nat, bound # {},
         \A i \in bound : segments[i].overlap \in Overlaps
  PROVE  \E i \in bound : \A j \in bound : segments[j].overlap <= segments[i].overlap
  <1> DEFINE Gap(i) == 100 - segments[i].overlap
             G == {Gap(i) : i \in bound}
  <1>1. \A i \in bound : segments[i].overlap \in 0..100
    BY DEF Overlaps
  <1>2. \A i \in bound : Gap(i) \in Nat /\ segments[i].overlap = 100 - Gap(i)
    BY <1>1
  <1> HIDE DEF Gap
  <1>3. G \in SUBSET Nat /\ G # {}
    BY <1>2
  <1>4. PICK i \in bound : Min(G) = Gap(i)
    BY <1>3, LeastIsMin
  <1>5. \A j \in bound : Gap(i) <= Gap(j)
    BY <1>3, <1>4, LeastIsMin
  <1>6. QED
    BY <1>2, <1>5

\* The segment that decides is one of those the claim is compared with.
LEMMA BestIsBound ==
  ASSUME NEW claim, NEW segments, DOMAIN segments \subseteq Nat,
         \A i \in DOMAIN segments : segments[i].overlap \in Overlaps,
         BoundTo(claim, segments) # {}
  PROVE  \E i \in BoundTo(claim, segments) : Best(claim, segments) = segments[i]
  <1> DEFINE bound == BoundTo(claim, segments)
             greatest == {i \in bound : \A j \in bound : segments[j].overlap <= segments[i].overlap}
             compatible == {i \in greatest : segments[i].role \in RolesFor(claim.type)}
             first == IF claim.references # {} /\ compatible # {} THEN compatible ELSE greatest
  <1>1. bound \subseteq DOMAIN segments
    BY DEF BoundTo
  <1>2. Best(claim, segments) = segments[Min(first)]
    BY Zenon DEF Best
  <1> HIDE DEF bound
  <1>3. bound \in SUBSET Nat /\ bound # {} /\ \A i \in bound : segments[i].overlap \in Overlaps
    BY <1>1 DEF bound
  <1>4. greatest # {}
    BY <1>3, GreatestExists
  <1>5. first \in SUBSET Nat /\ first # {} /\ first \subseteq bound
    BY <1>3, <1>4
  <1>6. Min(first) \in bound
    BY <1>5, LeastIsMin
  <1>7. QED
    BY <1>2, <1>6 DEF bound

LEMMA StrengthOfHalf ==
  ASSUME NEW n \in Overlaps, Strength(n) = "supported"
  PROVE  n >= 50
  BY DEF Strength, Overlaps

\* A claim called supported is grounded in one of its segments.
LEMMA SupportedIsGrounded ==
  ASSUME NEW claim, NEW segments, NEW explicit \in BOOLEAN, DOMAIN segments \subseteq Nat,
         \A i \in DOMAIN segments : segments[i].overlap \in Overlaps,
         \A i \in DOMAIN segments : segments[i].fault \in Faults \cup {"none"},
         SupportStatus(claim, segments, explicit) = "supported"
  PROVE  /\ \E i \in DOMAIN segments : Grounds(segments[i], claim)
         /\ ~(explicit /\ claim.core /\ claim.references = {})
  <1> DEFINE best == Best(claim, segments)
             Named == explicit /\ claim.core /\ claim.references = {}
             Graded ==
               IF best.role \notin RolesFor(claim.type) THEN "role_error"
               ELSE IF best.fault # "none" THEN FaultStatus[best.fault]
               ELSE IF claim.type = "case_specific_application" /\ claim.general THEN "overstated"
               ELSE IF Strength(best.overlap) = "supported" /\ claim.references # {}
                       /\ Conflicting(claim, best, segments) THEN "needs_review"
               ELSE Strength(best.overlap)
  <1>1. SupportStatus(claim, segments, explicit) =
          CASE Named -> "unchecked"
            [] BoundTo(claim, segments) = {} -> "unchecked"
            [] OTHER -> Graded
    BY Zenon DEF SupportStatus
  <1> HIDE DEF best, Graded
  <1>2. ~Named /\ BoundTo(claim, segments) # {} /\ Graded = "supported"
    BY <1>1
  <1>3. PICK i \in BoundTo(claim, segments) : best = segments[i]
    BY <1>2, BestIsBound DEF best
  <1>4. i \in DOMAIN segments /\ (claim.references = {} \/ best.citation \in claim.references)
    BY <1>3 DEF BoundTo
  <1>5. best.overlap \in Overlaps /\ best.fault \in Faults \cup {"none"}
    BY <1>3, <1>4
  <1>6. \A f \in Faults : FaultStatus[f] # "supported"
    BY DEF Faults, FaultStatus
  <1>7. best.role \in RolesFor(claim.type)
    BY <1>2 DEF Graded
  <1>8. best.fault = "none"
    BY <1>2, <1>5, <1>6, <1>7 DEF Graded
  <1>9. Strength(best.overlap) = "supported"
    BY <1>2, <1>7, <1>8 DEF Graded
  <1>10. best.overlap >= 50
    BY <1>5, <1>9, StrengthOfHalf
  <1>11. QED
    BY <1>2, <1>3, <1>4, <1>7, <1>8, <1>10 DEF Grounds

-----------------------------------------------------------------------------
(* The recorded run of a session.                                          *)

RunFields == {"open", "validations", "checked", "claims"}

\* What is recorded comes from the server's own validation.
RunOK ==
  recorded = NoRun \/
    /\ DOMAIN recorded = RunFields
    /\ recorded.open = TRUE /\ recorded.checked \in BOOLEAN
    /\ recorded.claims \subseteq Checked
    /\ \A v \in recorded.validations : \E on \in BOOLEAN : v \in Validations[on]

SessionInv == SessionTypeOK /\ RunOK

LEMMA GateValues ==
  ASSUME NEW citations, NEW low, NEW reasons
  PROVE  GateAction(citations, low, reasons) \in {"answer", "human_review_required", "refuse"}
  BY DEF GateAction

\* The gate recommends an answer only without a reason against it.
LEMMA GateAnswers ==
  ASSUME NEW citations, NEW low, NEW reasons, GateAction(citations, low, reasons) = "answer"
  PROVE  /\ reasons = {}
         /\ \E c \in citations : c.use = "allow_final"
         /\ \A c \in citations : c.use \notin {"reject", "demo_only"} /\ c.status # "unverifiable"
  <1>1. CitationReasons(citations, low) \cup reasons = {}
    BY DEF GateAction
  <1>2. /\ (IF \E c \in citations : c.use = "allow_final" THEN {} ELSE {"NO_FINAL_CITATION"}) = {}
        /\ (IF \E c \in citations : c.use \in {"reject", "demo_only"} THEN {"REJECTED_CITATION"} ELSE {}) = {}
        /\ (IF \E c \in citations : c.status = "unverifiable" THEN {"UNVERIFIABLE_CITATION"} ELSE {}) = {}
    BY <1>1 DEF CitationReasons
  <1>3. QED
    BY <1>1, <1>2

\* A validation that passes the gate rests on the server's own resolution.
LEMMA FinalIsResolved ==
  ASSUME NEW on \in BOOLEAN, NEW v \in Validations[on],
         v.use \notin {"reject", "demo_only"}, v.status # "unverifiable"
  PROVE  v.resolution = "hash_match"
  <1>1. Validations[on] = {Validated(c, on) : c \in Declared}
    BY Zenon DEF Validations
  <1>2. PICK c \in Declared : v = Validated(c, on)
    BY <1>1
  <1> DEFINE use == IF CitationUse(c, on) = "allow_final" /\ Resolution(c, on) # "hash_match"
                    THEN "reject" ELSE CitationUse(c, on)
  <1>3. v = Outcome(use, Resolution(c, on))
    BY <1>2, Zenon DEF Validated
  <1> HIDE DEF use
  <1>4. /\ v.use = use /\ v.resolution = Resolution(c, on)
        /\ v.status = IF use \in {"allow_final", "demo_only"} THEN "exists" ELSE "unverifiable"
    BY <1>3 DEF Outcome
  <1>5. use = "allow_final"
    BY <1>4
  <1>6. QED
    BY <1>4, <1>5 DEF use

LEMMA SupportedOnly ==
  ASSUME NEW statuses, SupportReasons(statuses) = {}
  PROVE  statuses \subseteq {"supported"}
  BY DEF SupportReasons

\* A run the trace of which keeps the answer.
LEMMA AnswerIsGrounded ==
  ASSUME RunOK, recorded.open, TraceAction = "answer"
  PROVE  /\ recorded.checked /\ recorded.validations # {}
         /\ \A v \in recorded.validations : v.resolution = "hash_match"
         /\ \A i \in recorded.claims :
              \E k \in DOMAIN i.segments : Grounds(i.segments[k], i.claim)
  <1>1. /\ recorded.checked \in BOOLEAN /\ recorded.claims \subseteq Checked
        /\ \A v \in recorded.validations : \E on \in BOOLEAN : v \in Validations[on]
    BY DEF RunOK, NoRun
  <1>2. /\ SupportReasons(Statuses) \cup Unchecked = {}
        /\ \E v \in recorded.validations : v.use = "allow_final"
        /\ \A v \in recorded.validations : v.use \notin {"reject", "demo_only"} /\ v.status # "unverifiable"
    BY GateAnswers, Zenon DEF TraceAction
  <1>3. recorded.checked
    BY <1>2 DEF Unchecked
  <1>4. \A v \in recorded.validations : v.resolution = "hash_match"
    BY <1>1, <1>2, FinalIsResolved
  <1>5. ASSUME NEW i \in recorded.claims
        PROVE  \E k \in DOMAIN i.segments : Grounds(i.segments[k], i.claim)
    <2>1. i \in [claim : Claims, segments : Seq(Segments)]
      BY <1>1, McpSessionAssumption
    <2>2. i.segments \in Seq(Segments)
      BY <2>1
    <2>3. /\ DOMAIN i.segments \subseteq Nat
          /\ \A k \in DOMAIN i.segments : i.segments[k] \in Segments
      BY <2>2
    <2>4. \A s \in Segments : s.overlap \in Overlaps /\ s.fault \in Faults \cup {"none"}
      BY DEF Segments
    <2>5. SupportStatus(i.claim, i.segments, FALSE) \in Statuses
      BY DEF Statuses
    <2>6. SupportStatus(i.claim, i.segments, FALSE) = "supported"
      BY <1>2, <2>5, SupportedOnly
    <2>7. QED
      BY <2>3, <2>4, <2>6, SupportedIsGrounded
  <1>6. QED
    BY <1>2, <1>3, <1>4, <1>5

LEMMA InitSession == SessionInit => SessionInv
  BY DEF SessionInit, SessionInv, SessionTypeOK, RunOK, NoRun

LEMMA BeginRunSafe == SessionInv /\ BeginAgenticRun => SessionInv'
  <1> SUFFICES ASSUME SessionInv, BeginAgenticRun PROVE SessionInv'
    OBVIOUS
  <1>1. /\ recorded' = [open |-> TRUE, validations |-> {}, checked |-> FALSE, claims |-> {}]
        /\ UNCHANGED <<profile, resolving, handshake, service, trace>>
    BY DEF BeginAgenticRun, Called
  <1>2. RunOK'
    BY <1>1 DEF RunOK, RunFields
  <1>3. Cardinality({}) = 0 /\ MaxValidations \in Nat
    BY FS_EmptySet, McpSessionAssumption
  <1>4. QED
    BY <1>1, <1>2, <1>3 DEF SessionInv, SessionTypeOK

LEMMA ValidateSafe == SessionInv /\ ValidateCitation => SessionInv'
  <1> SUFFICES ASSUME SessionInv, ValidateCitation PROVE SessionInv'
    OBVIOUS
  <1>1. PICK v \in Validations[resolving] :
          /\ Cardinality(recorded.validations \cup {v}) <= MaxValidations
          /\ recorded' = [recorded EXCEPT !.validations = recorded.validations \cup {v}]
    BY Zenon DEF ValidateCitation
  <1>2. recorded.open /\ UNCHANGED <<profile, resolving, handshake, service, trace>>
    BY DEF ValidateCitation, Called
  <1>3. DOMAIN recorded = RunFields /\ recorded.open = TRUE
    BY <1>2 DEF SessionInv, RunOK, NoRun
  <1>4. /\ DOMAIN recorded' = RunFields /\ recorded'.open = TRUE
        /\ recorded'.validations = recorded.validations \cup {v}
        /\ recorded'.checked = recorded.checked /\ recorded'.claims = recorded.claims
    BY <1>1, <1>3 DEF RunFields
  <1>5. resolving \in BOOLEAN
    BY DEF SessionInv, SessionTypeOK
  <1>6. /\ recorded.checked \in BOOLEAN /\ recorded.claims \subseteq Checked
        /\ \A w \in recorded.validations : \E on \in BOOLEAN : w \in Validations[on]
    BY <1>2 DEF SessionInv, RunOK, NoRun
  <1>7. RunOK'
    BY <1>4, <1>5, <1>6 DEF RunOK
  <1>8. QED
    BY <1>1, <1>2, <1>4, <1>7 DEF SessionInv, SessionTypeOK

LEMMA CheckSafe == SessionInv /\ CheckClaimSupport => SessionInv'
  <1> SUFFICES ASSUME SessionInv, CheckClaimSupport PROVE SessionInv'
    OBVIOUS
  <1>1. PICK claims \in Submissions :
          recorded' = [recorded EXCEPT !.checked = TRUE, !.claims = claims]
    BY Zenon DEF CheckClaimSupport
  <1>2. recorded.open /\ UNCHANGED <<profile, resolving, handshake, service, trace>>
    BY DEF CheckClaimSupport, Called
  <1>3. claims \subseteq Checked
    BY DEF Submissions, kSubset
  <1>4. DOMAIN recorded = RunFields /\ recorded.open = TRUE
    BY <1>2 DEF SessionInv, RunOK, NoRun
  <1>5. /\ DOMAIN recorded' = RunFields /\ recorded'.open = TRUE
        /\ recorded'.checked = TRUE /\ recorded'.claims = claims
        /\ recorded'.validations = recorded.validations
    BY <1>1, <1>4 DEF RunFields
  <1>6. \A w \in recorded.validations : \E on \in BOOLEAN : w \in Validations[on]
    BY <1>2 DEF SessionInv, RunOK, NoRun
  <1>7. RunOK'
    BY <1>3, <1>5, <1>6 DEF RunOK
  <1>8. Cardinality(recorded.validations) <= MaxValidations
    BY <1>2 DEF SessionInv, SessionTypeOK
  <1>9. QED
    BY <1>2, <1>3, <1>5, <1>7, <1>8 DEF SessionInv, SessionTypeOK

LEMMA StepSession == SessionInv /\ [SessionNext]_sessionVars => SessionInv'
  <1> SUFFICES ASSUME SessionInv, [SessionNext]_sessionVars PROVE SessionInv'
    OBVIOUS
  <1> DEFINE Values == {"none", "answer", "human_review_required", "refuse"}
  <1>1. \/ BeginAgenticRun \/ ValidateCitation \/ CheckClaimSupport
        \/ /\ profile' = profile /\ resolving' = resolving
           /\ handshake' \in {"new", "initialized", "ready"} /\ service' \in {"none", "open"}
           /\ recorded' = recorded \/ recorded' = NoRun
           /\ trace' \in Values
    <2>1. \A citations : LegacyAction(citations) \in Values
      BY DEF LegacyAction
    <2>2. TraceAction \in Values
      BY GateValues, Zenon DEF TraceAction
    <2>3. trace \in Values /\ handshake \in {"new", "initialized", "ready"} /\ service \in {"none", "open"}
      BY DEF SessionInv, SessionTypeOK
    <2>4. CASE Initialize \/ Initialized
      BY <2>3, <2>4 DEF Initialize, Initialized
    <2>5. CASE FinalizeAgenticRun
      BY <2>2, <2>3, <2>5 DEF FinalizeAgenticRun, Called
    <2>6. ASSUME NEW name \in DOMAIN Scenarios, RunAgenticDemo(name)
          PROVE  trace' \in Values /\ recorded' = recorded
                 /\ UNCHANGED <<profile, resolving, handshake, service>>
      BY <2>6, GateValues, Zenon DEF RunAgenticDemo, Called
    <2>7. CASE AgenticLegalResearch
      BY <2>1, <2>3, <2>7, Zenon DEF AgenticLegalResearch, Called
    <2>8. ASSUME NEW tool, UseService(tool) \/ PurgeResearchStorage
          PROVE  service' \in {"none", "open"} /\ UNCHANGED <<profile, resolving, handshake, recorded, trace>>
      BY <2>8 DEF UseService, PurgeResearchStorage, Called
    <2>9. CASE UNCHANGED sessionVars
      BY <2>3, <2>9 DEF sessionVars
    <2>10. QED
      BY <2>3, <2>4, <2>5, <2>6, <2>7, <2>8, <2>9 DEF SessionNext
  <1>2. CASE /\ profile' = profile /\ resolving' = resolving
             /\ handshake' \in {"new", "initialized", "ready"} /\ service' \in {"none", "open"}
             /\ recorded' = recorded \/ recorded' = NoRun
             /\ trace' \in Values
    <2>1. RunOK'
      BY <1>2 DEF SessionInv, RunOK
    <2>2. QED
      BY <1>2, <2>1 DEF SessionInv, SessionTypeOK, NoRun
  <1>3. QED
    BY <1>1, <1>2, BeginRunSafe, ValidateSafe, CheckSafe

LEMMA SessionInvariance == SessionSpec => []SessionInv
  <1>1. QED
    BY InitSession, StepSession, PTL DEF SessionSpec

\* Every reachable state of a session is well typed: a run has no claims
\* without a check, and no more kinds of citations than are bounded.
THEOREM SessionTypes == SessionSpec => []SessionTypeOK
  <1>1. QED
    BY SessionInvariance, PTL DEF SessionInv

\* Whatever a client records, in any order, an answer is kept in the trace
\* only over citations the server has itself resolved, and claims grounded in
\* a segment of the section that can support them.
THEOREM RetainedAreGrounded == SessionSpec => RetainedIsGrounded
  <1> DEFINE Grounded ==
        recorded.open /\ ~recorded'.open /\ trace' = "answer" =>
          /\ recorded.checked /\ recorded.validations # {}
          /\ \A v \in recorded.validations : v.resolution = "hash_match"
          /\ \A i \in recorded.claims :
               \E k \in DOMAIN i.segments : Grounds(i.segments[k], i.claim)
  <1>1. SessionInv /\ [SessionNext]_sessionVars => [Grounded]_sessionVars
    <2> SUFFICES ASSUME SessionInv, SessionNext, recorded.open, ~recorded'.open, trace' = "answer"
                 PROVE  Grounded
      OBVIOUS
    <2>1. CASE FinalizeAgenticRun
      <3>1. TraceAction = "answer"
        BY <2>1 DEF FinalizeAgenticRun
      <3>2. QED
        BY <3>1, AnswerIsGrounded DEF SessionInv
    <2>2. CASE BeginAgenticRun
      BY <2>2 DEF BeginAgenticRun
    <2>3. CASE ValidateCitation \/ CheckClaimSupport
      <3>1. DOMAIN recorded = RunFields /\ recorded.open = TRUE
        BY DEF SessionInv, RunOK, NoRun
      <3>2. CASE ValidateCitation
        <4>1. PICK v \in Validations[resolving] :
                recorded' = [recorded EXCEPT !.validations = recorded.validations \cup {v}]
          BY <3>2, Zenon DEF ValidateCitation
        <4>2. QED
          BY <3>1, <4>1 DEF RunFields
      <3>3. CASE CheckClaimSupport
        BY <3>1, <3>3 DEF CheckClaimSupport, RunFields
      <3>4. QED
        BY <2>3, <3>2, <3>3
    <2>4. CASE recorded' = recorded
      BY <2>4
    <2>5. QED
      BY <2>1, <2>2, <2>3, <2>4
      DEF SessionNext, Initialize, Initialized, RunAgenticDemo, AgenticLegalResearch, UseService, PurgeResearchStorage
  <1>2. QED
    BY <1>1, SessionInvariance, PTL DEF SessionSpec, RetainedIsGrounded

-----------------------------------------------------------------------------
(* The drafts.                                                             *)

LEMMA WordsAreFinite ==
  ASSUME NEW text \in Seq(STRING)
  PROVE  IsFiniteSet(WordsOf(text))
  <1> DEFINE n == Len(text)
             all == {text[i] : i \in 1..n}
             f == [i \in 1..n |-> text[i]]
  <1>1. n \in Nat /\ DOMAIN text = 1..n
    OBVIOUS
  <1>2. f \in Surjection(1..n, all)
    BY DEF Surjection
  <1>3. IsFiniteSet(1..n)
    BY <1>1, FS_Interval
  <1>4. IsFiniteSet(all)
    BY <1>2, <1>3, FS_Surjection
  <1>5. WordsOf(text) \in SUBSET all
    BY <1>1 DEF WordsOf
  <1>6. QED
    BY <1>4, <1>5, FS_Subset

LEMMA PercentBounds ==
  ASSUME NEW m \in Nat, NEW n \in Nat, m <= n, n # 0
  PROVE  (100 * m) \div n \in 0..100
  OBVIOUS

\* The words in common are a percentage of the claim's.
LEMMA OverlapBounds ==
  ASSUME NEW text \in Seq(STRING), NEW says
  PROVE  OverlapOf(text, says) \in Overlaps
  <1> DEFINE mine == WordsOf(text)
             both == WordsOf(text) \cap WordsOf(says)
  <1>1. IsFiniteSet(mine)
    BY WordsAreFinite
  <1>2. both \in SUBSET mine
    OBVIOUS
  <1> HIDE DEF mine, both
  <1>3. /\ Cardinality(mine) \in Nat /\ Cardinality(both) \in Nat /\ Cardinality(both) <= Cardinality(mine)
        /\ Cardinality(mine) = 0 <=> mine = {}
    BY <1>1, <1>2, FS_Subset, FS_CardinalityType, FS_EmptySet
  <1>4. OverlapOf(text, says) = IF mine = {} THEN 0 ELSE (100 * Cardinality(both)) \div Cardinality(mine)
    BY Zenon DEF OverlapOf, mine, both
  <1>5. CASE mine = {}
    BY <1>4, <1>5 DEF Overlaps
  <1>6. CASE mine # {}
    <2>1. (100 * Cardinality(both)) \div Cardinality(mine) \in 0..100
      BY <1>3, <1>6, PercentBounds
    <2>2. QED
      BY <1>4, <1>6, <2>1 DEF Overlaps
  <1>7. QED
    BY <1>5, <1>6

LEMMA FaultsOf ==
  ASSUME NEW text, NEW says
  PROVE  FaultOf(text, says) \in Faults \cup {"none"}
  BY DEF FaultOf, Faults

LEMMA PassageFields ==
  ASSUME NEW i \in DOMAIN Passages
  PROVE  /\ i \in Nat
         /\ Passages[i].id \in Citations
         /\ Passages[i] \in PassageOf(Passages[i].id)
  <1> DEFINE R == [id : Citations, of : RunSources, section : STRING, usable : BOOLEAN, says : Seq(STRING)]
  <1>1. Passages \in Seq(R)
    BY AnswerAssumption
  <1>6. \A e \in R : e.id \in Citations
    OBVIOUS
  <1> HIDE DEF R
  <1>2. i \in Nat /\ Passages[i] \in R
    BY <1>1
  <1>3. i \in {k \in DOMAIN Passages : Passages[k].id = Passages[i].id}
    OBVIOUS
  <1>4. Passages[i] \in PassageOf(Passages[i].id)
    BY <1>3 DEF PassageOf
  <1>5. QED
    BY <1>2, <1>4, <1>6

LEMMA SegmentFields ==
  ASSUME NEW text, NEW e
  PROVE  /\ SegmentFor(text, e).citation = e.id
         /\ SegmentFor(text, e).role = RoleOf[e.section]
         /\ SegmentFor(text, e).overlap = OverlapOf(text, e.says)
         /\ SegmentFor(text, e).fault = FaultOf(text, e.says)
  <1> DEFINE says == IF "not" \in WordsOf(e.says) THEN "negated" ELSE "plain"
  <1>1. SegmentFor(text, e) =
          [citation |-> e.id, role |-> RoleOf[e.section], overlap |-> OverlapOf(text, e.says),
           fault |-> FaultOf(text, e.says), statement |-> StatementOf(e), wording |-> says]
    BY Zenon DEF SegmentFor
  <1> HIDE DEF says
  <1>2. QED
    BY <1>1

\* A claim found supported, of the passages that may be used.
LEMMA SupportedIsBacked ==
  ASSUME NEW text \in Seq(STRING), NEW claim,
         SupportStatus(claim, SegmentsFor(text), TRUE) = "supported"
  PROVE  /\ \E i \in DOMAIN Passages :
              /\ Backs(Passages[i], claim.type, text)
              /\ claim.references = {} \/ Passages[i].id \in claim.references
         /\ ~(claim.core /\ claim.references = {})
  <1> DEFINE segments == SegmentsFor(text)
  <1>1. DOMAIN segments = UsablePassages
    BY DEF SegmentsFor
  <1>2. \A i \in UsablePassages : segments[i] = SegmentFor(text, Passages[i])
    BY DEF SegmentsFor
  <1> HIDE DEF segments
  <1>3. UsablePassages \subseteq DOMAIN Passages /\ UsablePassages \subseteq Nat
    BY PassageFields DEF UsablePassages
  <1>4. \A i \in UsablePassages :
          /\ segments[i].citation = Passages[i].id /\ segments[i].role = RoleOf[Passages[i].section]
          /\ segments[i].overlap = OverlapOf(text, Passages[i].says)
          /\ segments[i].fault = FaultOf(text, Passages[i].says)
    BY <1>2, SegmentFields
  <1>5. \A i \in DOMAIN segments : segments[i].overlap \in Overlaps /\ segments[i].fault \in Faults \cup {"none"}
    BY <1>1, <1>4, OverlapBounds, FaultsOf
  <1>6. SupportStatus(claim, segments, TRUE) = "supported"
    BY DEF segments
  <1>7. /\ \E i \in DOMAIN segments : Grounds(segments[i], claim)
        /\ ~(TRUE /\ claim.core /\ claim.references = {})
    BY <1>1, <1>3, <1>5, <1>6, SupportedIsGrounded
  <1>8. PICK i \in UsablePassages : Grounds(segments[i], claim)
    BY <1>1, <1>7
  <1>9. MaySupport(Passages[i])
    BY DEF UsablePassages
  <1>10. QED
    BY <1>3, <1>4, <1>7, <1>8, <1>9 DEF Grounds, Backs

LEMMA ClaimFields ==
  ASSUME NEW text, NEW type, NEW references, NEW core
  PROVE  LET c == ClaimOn(text, type, references, core)
         IN c.text = text /\ c.claim.type = type /\ c.claim.references = references /\ c.claim.core = core
  BY DEF ClaimOn

\* A claim of the draft that is found supported.
LEMMA ClaimIsBacked ==
  ASSUME NEW text \in Seq(STRING), NEW type, NEW references, NEW core,
         StatusOf(ClaimOn(text, type, references, core)) = "supported"
  PROVE  /\ \E i \in DOMAIN Passages :
              Backs(Passages[i], type, text) /\ (references = {} \/ Passages[i].id \in references)
         /\ ~(core /\ references = {})
  <1> DEFINE c == ClaimOn(text, type, references, core)
  <1>1. c.text = text /\ c.claim.type = type /\ c.claim.references = references /\ c.claim.core = core
    BY ClaimFields
  <1>2. SupportStatus(c.claim, SegmentsFor(c.text), TRUE) = "supported"
    BY Zenon DEF StatusOf
  <1> HIDE DEF c
  <1>3. QED
    BY <1>1, <1>2, SupportedIsBacked

\* What holds of a draft that is presented.
SaysNoMore(d) ==
  /\ d.bindings # {} => \A c \in Clauses(d.text) :
       \/ c[1]..c[2] \subseteq Annotated(d)
       \/ \E b \in d.bindings :
            /\ \E i \in Places(d.text, b.text) :
                 (c[1]..c[2]) \ Annotated(d) \subseteq i..(i + Len(b.text) - 1)
            /\ \E e \in UNION {PassageOf(id) : id \in b.evidence} : Backs(e, TypeOfBinding[b.type], b.text)
  /\ d.bindings = {} => \A p \in Sentences(d.text) :
       LET says == SubSeq(d.text, p[1], p[2])
       IN \E i \in DOMAIN Passages : Backs(Passages[i], TypeGuess(says), says)
  /\ \A b \in d.bindings : \A o \in b.cites :
       \E e \in PassageOf(o.evidence) : e.id \in b.evidence /\ Names(d.text[o.at], e.of)
  /\ planned => \A i \in DOMAIN PlanIssues : PlanIssues[i] => i \in IssuesBound(d)

\* Each binding of a safe draft is backed by one of its own passages.
LEMMA BindingsAreBacked ==
  ASSUME NEW d \in Drafts, Safe(d), NEW b \in d.bindings
  PROVE  \E e \in UNION {PassageOf(id) : id \in b.evidence} : Backs(e, TypeOfBinding[b.type], b.text)
  <1> DEFINE c == ClaimOn(b.text, TypeOfBinding[b.type], b.evidence, b.core)
  <1>1. c \in ClaimsOf(d)
    BY DEF ClaimsOf
  <1>2. StatusOf(c) = "supported"
    BY <1>1, Zenon DEF Safe
  <1>3. b.text \in Seq(STRING) /\ b.evidence # {}
    BY AnswerAssumption
  <1>4. PICK i \in DOMAIN Passages :
          Backs(Passages[i], TypeOfBinding[b.type], b.text) /\ Passages[i].id \in b.evidence
    BY <1>2, <1>3, ClaimIsBacked
  <1>5. QED
    BY <1>4, PassageFields

\* Nothing in a safe draft with bindings is said outside of one.
LEMMA NothingIsUnbound ==
  ASSUME NEW d \in Drafts, Safe(d), d.bindings # {}
  PROVE  Unbound(d) = {}
  <1> SUFFICES ASSUME NEW c \in Unbound(d) PROVE FALSE
    OBVIOUS
  <1> DEFINE says == SubSeq(d.text, c[1], c[2])
             x == ClaimOn(says, "unknown", {}, TRUE)
  <1>1. x \in ClaimsOf(d)
    BY DEF ClaimsOf
  <1>2. StatusOf(x) = "supported"
    BY <1>1, Zenon DEF Safe
  <1>3. x.claim.references = {} /\ x.claim.core = TRUE
    BY DEF ClaimOn
  <1> HIDE DEF x
  <1>4. SupportStatus(x.claim, SegmentsFor(x.text), TRUE) = "unchecked"
    BY <1>3 DEF SupportStatus
  <1>5. QED
    BY <1>2, <1>4 DEF StatusOf

\* A safe draft says nothing beyond its evidence.
LEMMA SafeIsHeld ==
  ASSUME NEW d \in Drafts, Safe(d)
  PROVE  SaysNoMore(d)
  <1>1. ASSUME d.bindings # {}, NEW c \in Clauses(d.text), ~(c[1]..c[2] \subseteq Annotated(d))
        PROVE  \E b \in d.bindings :
                 /\ \E i \in Places(d.text, b.text) :
                      (c[1]..c[2]) \ Annotated(d) \subseteq i..(i + Len(b.text) - 1)
                 /\ \E e \in UNION {PassageOf(id) : id \in b.evidence} : Backs(e, TypeOfBinding[b.type], b.text)
    <2> DEFINE said == (c[1]..c[2]) \ Annotated(d)
    <2>1. said # {}
      BY <1>1
    <2>2. c \notin Unbound(d)
      BY <1>1, NothingIsUnbound
    <2>3. \E p \in Bound(d) : said \subseteq p[1]..p[2]
      BY <2>1, <2>2 DEF Unbound
    <2>4. PICK p \in Bound(d) : said \subseteq p[1]..p[2]
      BY <2>3
    <2>5. PICK b \in d.bindings : p \in {<<i, i + Len(b.text) - 1>> : i \in Places(d.text, b.text)}
      BY <2>4 DEF Bound
    <2>6. PICK i \in Places(d.text, b.text) : p = <<i, i + Len(b.text) - 1>>
      BY <2>5
    <2>7. p[1] = i /\ p[2] = i + Len(b.text) - 1
      BY <2>6
    <2>8. said \subseteq i..(i + Len(b.text) - 1)
      BY <2>4, <2>7
    <2> HIDE DEF said
    <2>9. \E e \in UNION {PassageOf(id) : id \in b.evidence} : Backs(e, TypeOfBinding[b.type], b.text)
      BY BindingsAreBacked
    <2>10. QED
      BY <2>8, <2>9 DEF said
  <1>2. ASSUME d.bindings = {}, NEW p \in Sentences(d.text)
        PROVE  LET says == SubSeq(d.text, p[1], p[2])
               IN \E i \in DOMAIN Passages : Backs(Passages[i], TypeGuess(says), says)
    <2> DEFINE says == SubSeq(d.text, p[1], p[2])
               core == "must" \in WordsOf(says) \/ "also" \notin WordsOf(says)
               c == ClaimOn(says, TypeGuess(says), {}, core)
    <2>1. c \in Extracted(d.text)
      BY Zenon DEF Extracted
    <2>2. c \in ClaimsOf(d)
      BY <1>2, <2>1 DEF ClaimsOf
    <2>3. StatusOf(c) = "supported"
      BY <2>2, Zenon DEF Safe
    <2>4. d.text \in Seq(STRING)
      BY AnswerAssumption
    <2>5. p[1] \in DOMAIN d.text /\ p[2] \in DOMAIN d.text
      BY DEF Sentences, Parts
    <2>6. p[1] \in Int /\ p[2] \in Int /\ \A i \in p[1]..p[2] : d.text[i] \in STRING
      BY <2>4, <2>5
    <2>7. says \in Seq(STRING)
      BY <2>6, SubSeqProperties
    <2> HIDE DEF says, core
    <2>8. \E i \in DOMAIN Passages : Backs(Passages[i], TypeGuess(says), says)
      BY <2>3, <2>7, ClaimIsBacked
    <2>9. QED
      BY <2>8 DEF says
  <1>3. ASSUME NEW b \in d.bindings, NEW o \in b.cites
        PROVE  \E e \in PassageOf(o.evidence) : e.id \in b.evidence /\ Names(d.text[o.at], e.of)
    <2>1. EvidenceReasons(d) \cup IssueReasons(d) \cup OccurrenceReasons(d) = {}
      BY Zenon DEF Safe
    <2>2. OccurrenceReasons(d) = {}
      BY <2>1
    <2>3. \A x \in d.bindings : UNION {OccurrenceFaults(d, x, y) : y \in x.cites} = {}
      BY <2>2 DEF OccurrenceReasons
    <2>4. OccurrenceFaults(d, b, o) = {}
      BY <2>3
    <2> DEFINE named == \E e \in PassageOf(o.evidence) : Names(o.name, e.of)
               misnamed == IF named THEN {} ELSE {"CITATION_OCCURRENCE_SOURCE_MISMATCH"}
               misplaced ==
                 IF \/ \E i \in Places(d.text, b.text) : SentenceAt(d.text, i) = SentenceAt(d.text, o.at)
                    \/ Adjacent(d, b, o) THEN {}
                 ELSE {"CITATION_OCCURRENCE_OUTSIDE_BOUND_CLAUSE"}
    <2>5. OccurrenceFaults(d, b, o) =
            IF o.evidence \notin b.evidence THEN {"CITATION_OCCURRENCE_EVIDENCE_NOT_BOUND"}
            ELSE IF o.at \notin DOMAIN d.text \/ d.text[o.at] # o.name THEN {"CITATION_OCCURRENCE_TEXT_MISMATCH"}
            ELSE UNION {misnamed, misplaced}
      BY Zenon DEF OccurrenceFaults
    <2> HIDE DEF named, misnamed, misplaced
    <2>6. o.evidence \in b.evidence /\ d.text[o.at] = o.name /\ UNION {misnamed, misplaced} = {}
      BY <2>4, <2>5
    <2>7. named
      BY <2>6 DEF misnamed
    <2>8. PICK e \in PassageOf(o.evidence) : Names(o.name, e.of)
      BY <2>7 DEF named
    <2>9. e.id = o.evidence
      BY DEF PassageOf
    <2>10. QED
      BY <2>6, <2>8, <2>9
  <1>4. ASSUME planned, NEW i \in DOMAIN PlanIssues, PlanIssues[i]
        PROVE  i \in IssuesBound(d)
    <2>1. EvidenceReasons(d) \cup IssueReasons(d) \cup OccurrenceReasons(d) = {}
      BY Zenon DEF Safe
    <2>2. IssueReasons(d) = {}
      BY <2>1
    <2>3. (IF \A k \in DOMAIN PlanIssues : PlanIssues[k] => k \in IssuesBound(d) THEN {}
           ELSE {"CORE_RESEARCH_ISSUE_UNBOUND"}) = {}
      BY <1>4, <2>2 DEF IssueReasons
    <2>4. QED
      BY <1>4, <2>3
  <1>5. QED
    BY <1>1, <1>2, <1>3, <1>4 DEF SaysNoMore

AnswerInv == AnswerTypeOK /\ PresentedIsBound

LEMMA InitAnswer == AnswerInit => AnswerInv
  BY DEF AnswerInit, AnswerInv, AnswerTypeOK, PresentedIsBound

LEMMA StepAnswer == AnswerInv /\ [AnswerNext]_answerVars => AnswerInv'
  <1> SUFFICES ASSUME AnswerInv, [AnswerNext]_answerVars PROVE AnswerInv'
    OBVIOUS
  <1>1. AnswerTypeOK
    BY DEF AnswerInv
  <1>2. ASSUME NEW d \in Drafts, ValidateAnswer(d)
        PROVE  AnswerInv'
    <2>1. /\ standing' = standing /\ planned' = planned /\ reviewed' = {}
          /\ presented' = IF Safe(d) THEN {d} ELSE {}
      BY <1>2 DEF ValidateAnswer
    <2>2. Safe(d) => SaysNoMore(d)
      BY SafeIsHeld
    <2>3. \A x \in presented' : x = d /\ SaysNoMore(d)
      BY <2>1, <2>2
    <2>4. SaysNoMore(d) => SaysNoMore(d)'
      BY <2>1 DEF SaysNoMore, Backs, MaySupport, Annotated, OccurrenceReasons
    <2>5. PresentedIsBound'
      BY <2>3, <2>4 DEF PresentedIsBound, SaysNoMore
    <2>6. AnswerTypeOK'
      BY <1>1, <2>1 DEF AnswerTypeOK
    <2>7. QED
      BY <2>5, <2>6 DEF AnswerInv
  <1>3. ASSUME NEW d \in Drafts, ReviewDraft(d)
        PROVE  AnswerInv'
    <2>1. /\ standing' = standing /\ presented' = {}
          /\ \A b \in reviewed' : b \in d.bindings
      BY <1>3 DEF ReviewDraft
    <2>2. QED
      BY <1>1, <2>1 DEF AnswerInv, AnswerTypeOK, PresentedIsBound
  <1>4. ASSUME NEW s \in RunSources, NEW to \in {"eligible", "ended"}, SourceMoves(s, to)
        PROVE  AnswerInv'
    BY <1>1, <1>4 DEF SourceMoves, AnswerInv, AnswerTypeOK, PresentedIsBound
  <1>5. CASE UNCHANGED answerVars
    <2>1. standing' = standing /\ planned' = planned /\ presented' = presented /\ reviewed' = reviewed
      BY <1>5 DEF answerVars
    <2>2. \A d \in presented : SaysNoMore(d)
      BY DEF AnswerInv, PresentedIsBound, SaysNoMore
    <2>3. \A d : SaysNoMore(d) => SaysNoMore(d)'
      BY <2>1 DEF SaysNoMore, Backs, MaySupport, Annotated, OccurrenceReasons
    <2>4. PresentedIsBound'
      BY <2>1, <2>2, <2>3 DEF PresentedIsBound, SaysNoMore
    <2>5. AnswerTypeOK'
      BY <1>1, <2>1 DEF AnswerTypeOK
    <2>6. QED
      BY <2>4, <2>5 DEF AnswerInv
  <1>6. QED
    BY <1>2, <1>3, <1>4, <1>5 DEF AnswerNext

LEMMA AnswerInvariance == AnswerSpec => []AnswerInv
  <1>1. QED
    BY InitAnswer, StepAnswer, PTL DEF AnswerSpec

\* For any passages, plans and drafts, nothing in an answer found safe to
\* present goes beyond the evidence: its clauses stand each within one claim
\* that a passage bound to it backs (without bindings, its sentences of three
\* characters or more are backed by a passage), the names it cites are those
\* of bound passages, and each core issue of the plan is concluded.
THEOREM PresentedAreBound == AnswerSpec => []PresentedIsBound
  <1>1. QED
    BY AnswerInvariance, PTL DEF AnswerInv

-----------------------------------------------------------------------------
(* The analyses.                                                           *)

AnalysisInv == AnalysisTypeOK /\ AcceptedIsBacked

\* An analysis is blocked by any of its parts.
LEMMA NothingBlocks ==
  ASSUME NEW a, NEW context, Blockers(a, context) = {}
  PROVE  /\ \A b \in a.branches : BranchBlockers(b) = {}
         /\ \A r \in a.counter.relations : RelationBlockers(r) = {}
         /\ \A s \in SourcesOf(a) : SourceBlockers(s) = {}
         /\ \A id \in EvidenceOf(a) : EvidenceBlockers(id) = {}
         /\ \A i \in ItemsOf(a) : NormativeBlockers(i.sources, context) = {}
  <1> DEFINE ofBranches == UNION {BranchBlockers(b) : b \in a.branches}
             ofRelations == UNION {RelationBlockers(r) : r \in a.counter.relations}
             ofSources == UNION {SourceBlockers(s) : s \in SourcesOf(a)}
             ofEvidence == UNION {EvidenceBlockers(id) : id \in EvidenceOf(a)}
             ofItems == UNION {NormativeBlockers(i.sources, context) : i \in ItemsOf(a)}
             ofFacts == IF FactsOf(a) = {} THEN {} ELSE {"ANALYSIS_FACT_NOT_SERVER_OWNED"}
  <1>8. Blockers(a, context)
          = ofBranches \cup ofRelations \cup ofSources \cup ofEvidence \cup ofItems \cup ofFacts
    BY DEF Blockers
  <1> HIDE DEF ofBranches, ofRelations, ofSources, ofEvidence, ofItems, ofFacts
  <1>1. ofBranches = {} /\ ofRelations = {} /\ ofSources = {} /\ ofEvidence = {} /\ ofItems = {}
    BY <1>8
  <1>2. \A b \in a.branches : BranchBlockers(b) = {}
    BY <1>1 DEF ofBranches
  <1>3. \A r \in a.counter.relations : RelationBlockers(r) = {}
    BY <1>1 DEF ofRelations
  <1>4. \A s \in SourcesOf(a) : SourceBlockers(s) = {}
    BY <1>1 DEF ofSources
  <1>5. \A id \in EvidenceOf(a) : EvidenceBlockers(id) = {}
    BY <1>1 DEF ofEvidence
  <1>6. \A i \in ItemsOf(a) : NormativeBlockers(i.sources, context) = {}
    BY <1>1 DEF ofItems
  <1>7. QED
    BY <1>2, <1>3, <1>4, <1>5, <1>6

LEMMA SourcesAreEligible ==
  ASSUME AnswerTypeOK, NEW s, SourceBlockers(s) = {}
  PROVE  s \in RunSources /\ standing[s] = "eligible"
  <1>1. s \in RunSources
    BY DEF SourceBlockers
  <1>2. /\ (IF standing[s] = "ended" THEN {"ANALYSIS_SOURCE_STALE"} ELSE {}) = {}
        /\ (IF standing[s] = "refused" THEN {"ANALYSIS_SOURCE_NOT_EVIDENCE_ELIGIBLE"} ELSE {}) = {}
    BY <1>1 DEF SourceBlockers
  <1>3. standing[s] \in {"eligible", "ended", "refused"}
    BY <1>1 DEF AnswerTypeOK
  <1>4. QED
    BY <1>1, <1>2, <1>3

LEMMA EvidenceIsEligible ==
  ASSUME NEW id, EvidenceBlockers(id) = {}
  PROVE  \E e \in PassageOf(id) : MaySupport(e)
  BY DEF EvidenceBlockers, EligibleId

\* The sources an unblocked item rests on are in force, and one is binding.
LEMMA SourcesAreInForce ==
  ASSUME NEW sources, NEW context, NormativeBlockers(sources, context) = {}, sources # {}
  PROVE  \E s \in sources : context[s].authority = "binding" /\ context[s].validity = "valid"
  <1> DEFINE known == sources \cap DOMAIN context
  <1>1. /\ (IF \A s \in known : context[s].validity = "valid" THEN {} ELSE {"LEGAL_VALIDITY_NOT_CONFIRMED"}) = {}
        /\ (IF sources = {} \/ \E s \in known : context[s].authority = "binding" THEN {}
            ELSE {"NORMATIVE_AUTHORITY_NOT_BINDING"}) = {}
    BY DEF NormativeBlockers
  <1>2. (\A s \in known : context[s].validity = "valid") /\ \E s \in known : context[s].authority = "binding"
    BY <1>1
  <1>3. QED
    BY <1>2

\* A conclusion that is not blocked has a source, and a passage that may
\* support it.
LEMMA ConclusionsAreSupported ==
  ASSUME NEW b, NEW i, ItemBlockers(b, i) = {}, Determinate(i)
  PROVE  i.sources # {} /\ \E id \in i.evidence : EligibleId(id)
  <1>1. NeedsSource(b, i)
    BY DEF NeedsSource
  <1>2. (IF NeedsSource(b, i) /\ i.sources = {} THEN {"NORMATIVE_SOURCE_REQUIRED"} ELSE {}) = {}
    BY DEF ItemBlockers
  <1>3. (IF i.facts \cup i.evidence = {} THEN {"DETERMINATE_ANALYSIS_FACT_OR_EVIDENCE_REQUIRED"}
         ELSE IF \E id \in i.evidence : EligibleId(id) THEN {}
         ELSE {"DETERMINATE_ANALYSIS_SUPPORT_NOT_ESTABLISHED"}) = {}
    BY DEF ItemBlockers
  <1>4. QED
    BY <1>1, <1>2, <1>3

\* What is said of an analysis, and of a relation, that is accepted.
Backed(a, context) ==
  /\ \A i \in ItemsOf(a) : Determinate(i) =>
       /\ \E s \in i.sources : /\ standing[s] = "eligible" /\ context[s].authority = "binding"
                               /\ context[s].validity = "valid"
       /\ \E id \in i.evidence : \E e \in PassageOf(id) : e.usable /\ standing[e.of] = "eligible"
  /\ \A s \in SourcesOf(a) : s \in RunSources /\ standing[s] = "eligible"
  /\ \A id \in EvidenceOf(a) : \E e \in PassageOf(id) : standing[e.of] = "eligible"

Complete(a) ==
  \A b \in a.branches :
    b.profile \in DOMAIN CoreDimensions => \A d \in CoreDimensions[b.profile] :
      \E i \in OfKind(b, "issue") : i.dimension = d /\ ~Open(i)

Received(r) ==
  /\ r.source \in RunSources /\ RecordOf[r.source].material = "judgment" /\ standing[r.source] # "refused"
  /\ \A id \in r.evidence : \E e \in PassageOf(id) : e.of = r.source

LEMMA UnblockedIsBacked ==
  ASSUME AnswerTypeOK, NEW a, NEW context, Blockers(a, context) = {}
  PROVE  Backed(a, context)
  <1>1. \A s \in SourcesOf(a) : s \in RunSources /\ standing[s] = "eligible"
    BY NothingBlocks, SourcesAreEligible
  <1>2. \A id \in EvidenceOf(a) : \E e \in PassageOf(id) : standing[e.of] = "eligible"
    BY NothingBlocks, EvidenceIsEligible DEF MaySupport
  <1>3. ASSUME NEW i \in ItemsOf(a), Determinate(i)
        PROVE  /\ \E s \in i.sources : /\ standing[s] = "eligible" /\ context[s].authority = "binding"
                                       /\ context[s].validity = "valid"
               /\ \E id \in i.evidence : \E e \in PassageOf(id) : e.usable /\ standing[e.of] = "eligible"
    <2>1. PICK b \in a.branches : i \in b.items
      BY DEF ItemsOf
    <2>2. ItemBlockers(b, i) = {}
      BY <2>1, NothingBlocks DEF BranchBlockers
    <2>3. i.sources # {} /\ \E id \in i.evidence : EligibleId(id)
      BY <1>3, <2>2, ConclusionsAreSupported
    <2>4. PICK s \in i.sources : context[s].authority = "binding" /\ context[s].validity = "valid"
      BY <2>3, NothingBlocks, SourcesAreInForce
    <2>5. s \in SourcesOf(a)
      BY <2>4 DEF SourcesOf
    <2>6. QED
      BY <1>1, <2>3, <2>4, <2>5 DEF EligibleId, MaySupport
  <1>4. QED
    BY <1>1, <1>2, <1>3 DEF Backed

\* Without a blocker and a qualification, no core question is open.
LEMMA ValidatedIsComplete ==
  ASSUME NEW a, NEW context, Decision(a, context) = "validated"
  PROVE  Complete(a)
  <1>1. Blockers(a, context) = {} /\ Qualifications(a) = {}
    BY DEF Decision
  <1>2. /\ (IF \A b \in a.branches : b.scope = "complete" THEN {} ELSE {"DOMAIN_ANALYSIS_SCOPE_LIMITED"}) = {}
        /\ (IF \E i \in ItemsOf(a) : Open(i) THEN {"ITEM_UNRESOLVED"} ELSE {}) = {}
    BY <1>1 DEF Qualifications
  <1>3. (\A b \in a.branches : b.scope = "complete") /\ \A i \in ItemsOf(a) : ~Open(i)
    BY <1>2
  <1>4. ASSUME NEW b \in a.branches, b.profile \in DOMAIN CoreDimensions,
               NEW d \in CoreDimensions[b.profile]
        PROVE  \E i \in OfKind(b, "issue") : i.dimension = d /\ ~Open(i)
    <2>1. b.profile # "civil_substantive"
      BY <1>4 DEF CoreDimensions
    <2>2. BranchBlockers(b) = {}
      BY <1>1, NothingBlocks
    <2> DEFINE covered == CoreDimensions[b.profile] \subseteq {i.dimension : i \in OfKind(b, "issue")}
               missing == IF /\ b.profile # "civil_substantive" /\ b.scope = "complete" /\ ~covered
                          THEN {"DOMAIN_PROFILE_CORE_DIMENSION_MISSING"} ELSE {}
    <2>8. BranchBlockers(b) = (UNION {ItemBlockers(b, i) : i \in b.items}) \cup missing
      BY Zenon DEF BranchBlockers
    <2> HIDE DEF covered, missing
    <2>3. missing = {}
      BY <2>2, <2>8
    <2>7. covered
      BY <1>3, <2>1, <2>3 DEF missing
    <2>4. PICK i \in OfKind(b, "issue") : i.dimension = d
      BY <1>4, <2>7 DEF covered
    <2>5. i \in ItemsOf(a)
      BY <2>4 DEF OfKind, ItemsOf
    <2>6. QED
      BY <1>3, <2>4, <2>5
  <1>5. QED
    BY <1>4 DEF Complete

LEMMA RelationsAreOfTheRun ==
  ASSUME AnswerTypeOK, NEW a, NEW context, WellFormed(a), Blockers(a, context) = {},
         NEW r \in a.counter.relations
  PROVE  Received(r)
  <1>1. r.source \in a.counter.sources
    BY DEF WellFormed
  <1>2. r.source \in SourcesOf(a)
    <2>1. a.counter.sources \subseteq SourcesOf(a)
      BY DEF SourcesOf
    <2>2. QED
      BY <1>1, <2>1
  <1>3. r.source \in RunSources /\ standing[r.source] = "eligible"
    BY <1>2, NothingBlocks, SourcesAreEligible
  <1>4. RelationBlockers(r) = {}
    BY NothingBlocks
  <1>5. /\ (IF r.source \in RunSources /\ RecordOf[r.source].material # "judgment"
            THEN {"COUNTER_AUTHORITY_RELATION_SOURCE_NOT_JUDGMENT"} ELSE {}) = {}
        /\ (IF \E e \in UNION {PassageOf(id) : id \in r.evidence} : e.of # r.source
            THEN {"COUNTER_AUTHORITY_RELATION_EVIDENCE_SOURCE_MISMATCH"} ELSE {}) = {}
    BY <1>4 DEF RelationBlockers
  <1>6. RecordOf[r.source].material = "judgment"
    BY <1>3, <1>5
  <1>7. \A e \in UNION {PassageOf(id) : id \in r.evidence} : e.of = r.source
    BY <1>5
  <1>8. ASSUME NEW id \in r.evidence
        PROVE  \E e \in PassageOf(id) : e.of = r.source
    <2> DEFINE ofRelations == UNION {q.evidence : q \in a.counter.relations}
    <2>4. ofRelations \subseteq EvidenceOf(a)
      BY Zenon DEF EvidenceOf
    <2>1. id \in EvidenceOf(a)
      BY <2>4
    <2>2. PICK e \in PassageOf(id) : MaySupport(e)
      BY <2>1, NothingBlocks, EvidenceIsEligible
    <2>3. QED
      BY <1>7, <2>2
  <1>9. QED
    BY <1>3, <1>6, <1>8 DEF Received

LEMMA RelationsReceived ==
  ASSUME AcceptedIsBacked
  PROVE  \A r \in relations : Received(r)
  BY DEF AcceptedIsBacked, Received

LEMMA InitAnalysis == AnalysisInit => AnalysisInv
  BY DEF AnalysisInit, AnswerInit, AnalysisInv, AnalysisTypeOK, AnswerTypeOK, AcceptedIsBacked

LEMMA AnalysisSafe ==
  ASSUME AnalysisInv, NEW a \in Analyses, NEW context, ValidateLegalAnalysis(a, context)
  PROVE  AnalysisInv'
  <1>1. UNCHANGED answerVars /\ WellFormed(a)
    BY DEF ValidateLegalAnalysis
  <1>2. UNCHANGED <<standing, planned, presented, reviewed>>
    BY <1>1 DEF answerVars
  <1>3. AnswerTypeOK /\ AnswerTypeOK'
    BY <1>2 DEF AnalysisInv, AnalysisTypeOK, AnswerTypeOK
  <1>4. \A r \in relations : Received(r) /\ r.relation \in Relations
    BY RelationsReceived DEF AnalysisInv, AnalysisTypeOK
  <1>5. \A r : Received(r) => Received(r)'
    BY <1>2 DEF Received, PassageOf
  <1>6. CASE Decision(a, context) = "blocked"
    <2>1. accepted' = {} /\ relations' = relations
      BY <1>6 DEF ValidateLegalAnalysis
    <2>2. QED
      BY <1>3, <1>4, <1>5, <2>1 DEF AnalysisInv, AnalysisTypeOK, AcceptedIsBacked, Received
  <1>7. CASE Decision(a, context) # "blocked"
    <2>1. /\ accepted' = {[analysis |-> a, context |-> context, decision |-> Decision(a, context)]}
          /\ relations' = relations \cup a.counter.relations
      BY <1>7 DEF ValidateLegalAnalysis
    <2>2. Blockers(a, context) = {} /\ Decision(a, context) \in {"qualified", "validated"}
      BY <1>7 DEF Decision
    <2>3. Backed(a, context)
      BY <1>3, <2>2, UnblockedIsBacked
    <2>4. Backed(a, context)'
      BY <1>2, <2>3 DEF Backed, PassageOf
    <2>5. Decision(a, context) = "validated" => Complete(a)
      BY ValidatedIsComplete
    <2>6. \A r \in a.counter.relations : Received(r) /\ r.relation \in Relations
      BY <1>1, <1>3, <2>2, RelationsAreOfTheRun, LegalAnalysisAssumption
    <2> DEFINE x == [analysis |-> a, context |-> context, decision |-> Decision(a, context)]
    <2>7. x.analysis = a /\ x.context = context /\ x.decision = Decision(a, context)
      OBVIOUS
    <2>8. accepted' = {x}
      BY <2>1
    <2> HIDE DEF x
    <2>9. AnalysisTypeOK'
      BY <1>3, <1>4, <2>1, <2>2, <2>6, <2>7, <2>8 DEF AnalysisTypeOK
    <2>10. AcceptedIsBacked'
      BY <1>4, <1>5, <2>1, <2>4, <2>5, <2>6, <2>7, <2>8 DEF AcceptedIsBacked, Backed, Complete, Received
    <2>11. QED
      BY <2>9, <2>10 DEF AnalysisInv
  <1>8. QED
    BY <1>6, <1>7

\* The end of a term ends what was accepted, and no relation: a source that
\* is refused stays so, and no other becomes one.
LEMMA MoveSafe ==
  ASSUME AnalysisInv, NEW s \in RunSources, NEW to \in {"eligible", "ended"},
         SourceMoves(s, to), accepted' = {}, UNCHANGED relations
  PROVE  AnalysisInv'
  <1>1. /\ standing' = [standing EXCEPT ![s] = to] /\ presented' = {} /\ reviewed' = {}
        /\ standing \in [RunSources -> {"eligible", "ended", "refused"}]
    BY DEF SourceMoves, AnalysisInv, AnalysisTypeOK, AnswerTypeOK
  <1>2. AnalysisTypeOK'
    BY <1>1 DEF AnalysisInv, AnalysisTypeOK, AnswerTypeOK
  <1>3. \A r \in relations : Received(r)
    BY RelationsReceived DEF AnalysisInv
  <1>4. \A q \in RunSources : standing[q] # "refused" => standing'[q] # "refused"
    BY <1>1
  <1>5. AcceptedIsBacked'
    BY <1>3, <1>4 DEF AcceptedIsBacked, Received, PassageOf
  <1>6. QED
    BY <1>2, <1>5 DEF AnalysisInv

LEMMA StepAnalysis == AnalysisInv /\ [AnalysisNext]_<<answerVars, analysisVars>> => AnalysisInv'
  <1> SUFFICES ASSUME AnalysisInv, [AnalysisNext]_<<answerVars, analysisVars>> PROVE AnalysisInv'
    OBVIOUS
  <1>1. CASE \E a \in Analyses, context \in External \cup {Bundled} : ValidateLegalAnalysis(a, context)
    BY <1>1, AnalysisSafe
  <1>2. CASE \E s \in RunSources, to \in {"eligible", "ended"} :
               SourceMoves(s, to) /\ accepted' = {} /\ UNCHANGED relations
    BY <1>2, MoveSafe
  <1>3. CASE UNCHANGED <<answerVars, analysisVars>>
    <2>1. UNCHANGED <<standing, planned, presented, reviewed, accepted, relations>>
      BY <1>3 DEF answerVars, analysisVars
    <2>2. QED
      BY <2>1 DEF AnalysisInv, AnalysisTypeOK, AnswerTypeOK, AcceptedIsBacked, PassageOf
  <1>4. QED
    BY <1>1, <1>2, <1>3 DEF AnalysisNext

LEMMA AnalysisInvariance == AnalysisSpec => []AnalysisInv
  <1>1. QED
    BY InitAnalysis, StepAnalysis, PTL DEF AnalysisSpec

\* Every reachable state of the validation of analyses is well typed.
THEOREM AnalysisTypes == AnalysisSpec => []AnalysisTypeOK
  <1>1. QED
    BY AnalysisInvariance, PTL DEF AnalysisInv

\* Whatever analyses are proposed and whatever is said of their sources, one
\* that is accepted rests on sources of the run that are current and eligible
\* and in force, on passages that may support it now, and leaves no core
\* question open if it is called complete; a relation with a receipt is that
\* of a judgment of the run, by its own passages.
THEOREM AcceptedAreBacked == AnalysisSpec => []AcceptedIsBacked
  <1>1. QED
    BY AnalysisInvariance, PTL DEF AnalysisInv

-----------------------------------------------------------------------------
(* The modules about sources side by side.                                 *)

\* What an analysis or a draft leaves, by the subject of the behaviour.
SubmittedInv ==
  /\ subject # "drafts" => AnalysisInv
  /\ subject = "drafts" => AnswerInv /\ accepted = {} /\ relations = {}

LEMMA SubmittedSafe ==
  /\ SourcesInit => SubmittedInv
  /\ SubmittedInv /\ [SourcesNext]_<<subject, vars, siteVars, lawVars, courtVars, recallVars, sessionVars, draftVars>>
       => SubmittedInv'
  <1>1. SourcesInit => SubmittedInv
    BY InitAnalysis, InitAnswer DEF SourcesInit, SubmittedInv, AnalysisInit
  <1>2. ASSUME SubmittedInv,
               [SourcesNext]_<<subject, vars, siteVars, lawVars, courtVars, recallVars, sessionVars, draftVars>>
        PROVE  SubmittedInv'
    <2>1. subject' = subject
      BY <1>2 DEF SourcesNext
    <2>2. CASE subject = "drafts"
      <3>1. [AnswerNext]_answerVars /\ UNCHANGED analysisVars
        BY <1>2, <2>2 DEF SourcesNext, draftVars
      <3>2. QED
        BY <1>2, <2>1, <2>2, <3>1, StepAnswer DEF SubmittedInv, analysisVars
    <2>3. CASE subject # "drafts"
      <3>1. [AnalysisNext]_<<answerVars, analysisVars>>
        BY <1>2, <2>3 DEF SourcesNext, draftVars
      <3>2. QED
        BY <1>2, <2>1, <2>3, <3>1, StepAnalysis DEF SubmittedInv
    <2>4. QED
      BY <2>2, <2>3
  <1>3. QED
    BY <1>1, <1>2

\* A step of one module is none of the others: the disjoint union of their
\* behaviours that TLC explores behaves as the search, the providers and the
\* session each do, and what is proved of them holds of it.
THEOREM SourcesAreSeparate ==
  SourcesSpec => Spec /\ SiteSpec /\ LawSpec /\ CourtSpec /\ RecallSpec /\ SessionSpec
  <1> DEFINE all == <<subject, vars, siteVars, lawVars, courtVars, recallVars, sessionVars, draftVars>>
  <1>1. SourcesInit => Init /\ SiteInit /\ LawInit /\ CourtInit /\ RecallInit /\ SessionInit
    BY DEF SourcesInit
  <1>2. [SourcesNext]_all =>
          /\ [Next]_vars /\ [SiteNext]_siteVars /\ [LawNext]_lawVars /\ [CourtNext]_courtVars
          /\ [RecallNext]_recallVars /\ [SessionNext]_sessionVars
    BY Zenon DEF SourcesNext, counterVars
  <1>3. QED
    BY <1>1, <1>2, PTL DEF SourcesSpec, Spec, SiteSpec, LawSpec, CourtSpec, RecallSpec, SessionSpec

\* Every variable of these modules keeps its type.
THEOREM SourcesTypes == SourcesSpec => []SourcesTypeOK
  <1>1. SourcesSpec => []TypeOK /\ []SiteTypeOK /\ []LawTypeOK /\ []CourtTypeOK /\ []RecallTypeOK /\ []SessionTypeOK
    BY SourcesAreSeparate, CounterTypes, SiteTypeCorrect, LawTypeCorrect, CourtTypeCorrect, RecallTypeCorrect, SessionTypes
  <1>2. SourcesSpec => []SubmittedInv
    BY SubmittedSafe, PTL DEF SourcesSpec
  <1>3. SubmittedInv => AnalysisTypeOK
    BY DEF SubmittedInv, AnalysisInv, AnswerInv, AnalysisTypeOK
  <1>4. QED
    BY <1>1, <1>2, <1>3, PTL DEF SourcesTypeOK

=============================================================================
