---------------------------- MODULE ClaimSupport ----------------------------
(***************************************************************************)
(* The grading of an answer's claims against segments of legal text        *)
(* (verification/claim_support.py), and the trust gate over claims and     *)
(* citations (_trust_gate_trace of harness/orchestrator.py).  Operators    *)
(* only; McpSession uses them.                                             *)
(*                                                                         *)
(* The comparison of two texts is abstracted to its outcomes: how much of  *)
(* the claim the segment repeats, in percent, and the first fault found.   *)
(***************************************************************************)
EXTENDS Integers, Sequences, FiniteSetsExt

ClaimTypes ==
  {"statutory_rule", "court_view", "case_specific_application", "procedural_statement",
   "factual_summary", "risk_assessment", "recommendation", "unknown"}

SectionRoles ==
  {"court_holding", "court_reasoning", "party_argument", "facts", "procedure", "disposition",
   "statute_text", "constitutional_holding", "concurring_opinion", "dissenting_opinion", "unknown"}

\* Opposing polarity, other legal or numeric anchors, a qualifier whose scope
\* cannot be told, a qualifier left out.
Faults == {"polarity", "anchors", "scope", "qualifier"}

Overlaps == 0..100

Citations == {"c1", "c2", "c3", "c4"}

\* What a claim's comparison with a segment yields.  Segments of one statement
\* and different wording are the statement and its negation.
Segments ==
  [citation : Citations, role : SectionRoles, overlap : Overlaps, fault : Faults \cup {"none"},
   statement : Nat, wording : {"plain", "negated"}]

\* General: the claim says "always", "all", "necessarily".
Claims == [type : ClaimTypes, references : SUBSET Citations, core : BOOLEAN, general : BOOLEAN]

-----------------------------------------------------------------------------

OwnWords == {"court_holding", "court_reasoning", "disposition"}

\* The sections of a text that can support a claim of the type.
RolesFor(type) ==
  CASE type = "statutory_rule" -> {"statute_text"}
    [] type = "court_view" -> OwnWords \cup {"constitutional_holding"}
    [] type = "procedural_statement" -> OwnWords \cup {"procedure"}
    [] type = "factual_summary" -> {"facts"}
    [] type = "case_specific_application" -> OwnWords \cup {"facts"}
    [] OTHER -> SectionRoles \ {"party_argument", "concurring_opinion", "dissenting_opinion", "unknown"}

\* The segments a claim is compared with, by their positions: those it refers
\* to, or all.
BoundTo(claim, segments) ==
  {i \in DOMAIN segments : claim.references = {} \/ segments[i].citation \in claim.references}

\* The segment that decides: the first of the greatest overlap; a claim that
\* names its citations takes one of a compatible role before another.
Best(claim, segments) ==
  LET bound == BoundTo(claim, segments)
      greatest == {i \in bound : \A j \in bound : segments[j].overlap <= segments[i].overlap}
      compatible == {i \in greatest : segments[i].role \in RolesFor(claim.type)}
  IN segments[Min(IF claim.references # {} /\ compatible # {} THEN compatible ELSE greatest)]

\* Another segment of a compatible role states the opposite.
Conflicting(claim, best, segments) ==
  \E i \in BoundTo(claim, segments) :
    /\ segments[i].role \in RolesFor(claim.type)
    /\ segments[i].statement = best.statement /\ segments[i].wording # best.wording

FaultStatus ==
  [polarity |-> "contradicted", anchors |-> "unsupported", scope |-> "needs_review",
   qualifier |-> "overstated"]

Strength(overlap) ==
  IF overlap >= 50 THEN "supported" ELSE IF overlap >= 20 THEN "partially_supported" ELSE "unsupported"

\* Explicit: a core claim has to name its citations.
SupportStatus(claim, segments, explicit) ==
  LET best == Best(claim, segments)
  IN CASE explicit /\ claim.core /\ claim.references = {} -> "unchecked"
       [] BoundTo(claim, segments) = {} -> "unchecked"
       [] OTHER ->
          IF best.role \notin RolesFor(claim.type) THEN "role_error"
          ELSE IF best.fault # "none" THEN FaultStatus[best.fault]
          ELSE IF claim.type = "case_specific_application" /\ claim.general THEN "overstated"
          ELSE IF Strength(best.overlap) = "supported" /\ claim.references # {}
                  /\ Conflicting(claim, best, segments) THEN "needs_review"
          ELSE Strength(best.overlap)

-----------------------------------------------------------------------------
(* The trust gate.                                                         *)

\* The reasons the statuses of the claims give.
SupportReasons(statuses) ==
  {CASE s = "unsupported" -> "CLAIM_UNSUPPORTED"
     [] s = "overstated" -> "CLAIM_OVERSTATED"
     [] s = "contradicted" -> "CLAIM_CONTRADICTED"
     [] s = "role_error" -> "CLAIM_ROLE_ERROR"
     [] s = "unchecked" -> "CLAIM_SUPPORT_UNCHECKED"
     [] OTHER -> "CLAIM_SUPPORT_NEEDS_REVIEW" : s \in statuses \ {"supported"}}

ReviewReasons ==
  {"CLAIM_SUPPORT_NOT_CHECKED", "CLAIM_SUPPORT_UNCHECKED", "CLAIM_SUPPORT_NEEDS_REVIEW", "CLAIM_OVERSTATED"}

CriticalReasons ==
  {"REJECTED_CITATION", "UNVERIFIABLE_CITATION", "LAWS_COVERAGE_LOW", "JUDGMENTS_COVERAGE_LOW",
   "CLAIM_UNSUPPORTED", "CLAIM_CONTRADICTED", "CLAIM_ROLE_ERROR"}

\* Of the citations, by their use and status, and of the coverage.
CitationReasons(citations, low) ==
  UNION {IF \E c \in citations : c.use = "allow_final" THEN {} ELSE {"NO_FINAL_CITATION"},
         IF \E c \in citations : c.use \in {"reject", "demo_only"} THEN {"REJECTED_CITATION"} ELSE {},
         IF \E c \in citations : c.status = "unverifiable" THEN {"UNVERIFIABLE_CITATION"} ELSE {},
         low}

\* What the gate recommends.
GateAction(citations, low, reasons) ==
  LET all == CitationReasons(citations, low) \cup reasons IN
  IF all = {} THEN "answer"
  ELSE IF /\ "NO_FINAL_CITATION" \notin all
          /\ all \cap ReviewReasons # {}
          /\ all \cap CriticalReasons = {}
       THEN "human_review_required"
  ELSE "refuse"
=============================================================================
