-------------------------- MODULE AnswerValidation --------------------------
(***************************************************************************)
(* The validation of a drafted answer against the evidence of its run:     *)
(* validate_answer of research/service.py from the bindings on, and        *)
(* review_draft of research/draft_workspace.py.  The gates before it and   *)
(* what they allow are in ResearchRun.                                     *)
(*                                                                         *)
(* A text is a sequence of words and marks: "," and "." end a clause, "."  *)
(* also a sentence; "(", ")" and "see" are those around a citation.  What  *)
(* two texts have in common, and by which words they oppose or qualify     *)
(* each other, is computed from the words.                                 *)
(***************************************************************************)
EXTENDS ClaimSupport, FiniteSets

CONSTANTS
  RecordOf,   \* the sources of the run: material, names, identifier, content
  NameOf,     \* the readable names of judgments, in their parts
  Passages,   \* the passages of the sources, in the order they are listed
  PlanIssues, \* the issues of the run's plan; TRUE for those to be concluded
  Drafts      \* the drafts a client submits: texts and bindings

RunSources == DOMAIN RecordOf

ASSUME AnswerAssumption ==
  /\ Passages \in Seq([id : Citations, of : RunSources, section : STRING, usable : BOOLEAN,
                       says : Seq(STRING)])
  /\ \A i, k \in DOMAIN Passages : Passages[i].id = Passages[k].id => i = k
  /\ \A d \in Drafts : /\ d.text \in Seq(STRING)
                      /\ \A b \in d.bindings : b.text \in Seq(STRING) \ {<<>>} /\ b.evidence # {}

VARIABLES
  standing,   \* of each source: "eligible", "ended", "refused"
  planned,    \* a plan is registered
  presented,  \* the draft the last call has found safe to present
  reviewed    \* the bindings the last review calls support candidates

answerVars == <<standing, planned, presented, reviewed>>

-----------------------------------------------------------------------------
(* Texts.                                                                  *)

WordsOf(text) == {text[i] : i \in DOMAIN text} \ {",", ".", "(", ")"}

\* The parts of a text between the marks, by their first and last position.
Parts(text, marks) ==
  {p \in (DOMAIN text) \X (DOMAIN text) :
     /\ p[1] <= p[2] /\ \A i \in p[1]..p[2] : text[i] \notin marks
     /\ p[1] = 1 \/ text[p[1] - 1] \in marks
     /\ p[2] = Len(text) \/ text[p[2] + 1] \in marks}

Clauses(text) == Parts(text, {",", "."})

\* The sentence around a position, with its full stop.
SentenceAt(text, i) ==
  <<Max({0} \cup {k \in 1..(i - 1) : text[k] = "."}) + 1,
    Min({Len(text)} \cup {k \in i..Len(text) : text[k] = "."})>>

Places(text, phrase) ==
  {i \in DOMAIN text : i + Len(phrase) - 1 <= Len(text)
                       /\ SubSeq(text, i, i + Len(phrase) - 1) = phrase}

Trimmed(text) == IF text # <<>> /\ text[Len(text)] = "." THEN SubSeq(text, 1, Len(text) - 1) ELSE text

-----------------------------------------------------------------------------
(* A claim's comparison with a passage.                                    *)

\* In percent of the words of the claim.
OverlapOf(text, says) ==
  IF WordsOf(text) = {} THEN 0
  ELSE (100 * Cardinality(WordsOf(text) \cap WordsOf(says))) \div Cardinality(WordsOf(text))

Anchors == {"art.1", "art.2"}

Opposed(text, says) == ("not" \in WordsOf(text)) # ("not" \in WordsOf(says))

OtherAnchors(text, says) ==
  LET mine == WordsOf(text) \cap Anchors  theirs == WordsOf(says) \cap Anchors
  IN mine # {} /\ theirs # {} /\ ~(mine \subseteq theirs)

\* The sentences whose qualifiers bear on a claim; none if that is uncertain.
Scope(text, says) ==
  LET sentences == Parts(says, {"."})
      same == {p \in sentences : SubSeq(says, p[1], p[2]) = Trimmed(text)}
  IN IF Trimmed(text) = Trimmed(says) \/ Cardinality(sentences) <= 1 THEN sentences
     ELSE IF /\ Cardinality(same) = 1
             /\ \A p \in sentences \ same : "unless" \notin WordsOf(SubSeq(says, p[1], p[2]))
          THEN same
     ELSE {}

\* A clause with a qualifier is missing from the claim.
Omits(text, says) ==
  \E c \in Clauses(says) :
    LET clause == SubSeq(says, c[1], c[2])
    IN /\ "unless" \in WordsOf(clause) /\ Places(text, clause) = {}
       /\ \E p \in Scope(text, says) : p[1] <= c[1] /\ c[2] <= p[2]

\* The first fault in the order the code looks for them.
FaultOf(text, says) ==
  CASE Opposed(text, says) -> "polarity"
    [] ~Opposed(text, says) /\ OtherAnchors(text, says) -> "anchors"
    [] OTHER -> IF "unless" \notin WordsOf(says) THEN "none"
                ELSE IF Scope(text, says) = {} THEN "scope"
                ELSE IF Omits(text, says) THEN "qualifier" ELSE "none"

RoleOf ==
  [law_text |-> "statute_text", holding |-> "court_holding", court_holding |-> "court_holding",
   disposition |-> "disposition", court_reasoning |-> "court_reasoning",
   party_argument |-> "party_argument", facts |-> "facts", procedure |-> "procedure",
   concurring_opinion |-> "concurring_opinion", dissenting_opinion |-> "dissenting_opinion",
   mixed |-> "unknown", unknown |-> "unknown", other |-> "unknown"]

\* The first passage that states the same or the opposite.
StatementOf(e) ==
  LET plain(says) == SelectSeq(says, LAMBDA w : w # "not")
  IN Min({i \in DOMAIN Passages : plain(Passages[i].says) = plain(e.says)})

SegmentFor(text, e) ==
  [citation |-> e.id, role |-> RoleOf[e.section], overlap |-> OverlapOf(text, e.says),
   fault |-> FaultOf(text, e.says), statement |-> StatementOf(e),
   wording |-> IF "not" \in WordsOf(e.says) THEN "negated" ELSE "plain"]

\* A passage that may support a claim now.
MaySupport(e) == e.usable /\ standing[e.of] = "eligible"

UsablePassages == {i \in DOMAIN Passages : MaySupport(Passages[i])}

SegmentsFor(text) == [i \in UsablePassages |-> SegmentFor(text, Passages[i])]

-----------------------------------------------------------------------------
(* The names of judgments.                                                 *)

\* A name denotes a judgment with an identifier of that name, of which the
\* run holds one document; what the name says of system and kind is known.
Equivalent(name, s) ==
  LET r == RecordOf[s]
      same(n) == n \in DOMAIN NameOf /\ NameOf[n].case = NameOf[r.citation].case
      known(part) == {NameOf[n][part] : n \in {r.citation, r.title} \cap DOMAIN NameOf} \ {"none"}
      document(x) == <<RecordOf[x].identifier, RecordOf[x].content>>
  IN /\ r.material = "judgment" /\ r.citation \in DOMAIN NameOf
     /\ same(name) /\ r.identifiedBy = NameOf[r.citation].case
     /\ {document(x) : x \in {y \in RunSources : /\ RecordOf[y].material = "judgment"
                                                 /\ same(RecordOf[y].citation) \/ same(RecordOf[y].title)}}
          = {document(s)}
     /\ r.title \in DOMAIN NameOf => same(r.title)
     /\ Cardinality(known("system")) <= 1 /\ Cardinality(known("kind")) <= 1
     /\ r.system = "none" \/ known("system") \subseteq {r.system}
     /\ \A part \in {"system", "kind"} : NameOf[name][part] \in {"none"} \cup known(part)

Names(name, s) == name \in {RecordOf[s].citation, RecordOf[s].identifier} \/ Equivalent(name, s)

-----------------------------------------------------------------------------
(* The citations of a draft.  An occurrence says which passage is cited,   *)
(* where in the text, and by which name.                                   *)

\* The sentence is nothing but the citation and follows the bound claim.
Adjacent(d, b, o) ==
  LET s == SentenceAt(d.text, o.at)
      before == SentenceAt(d.text, s[1] - 1)
      cited == {x \in UNION {{c} \X c.cites : c \in d.bindings} : x[2].at = o.at}
  IN /\ s[1] > 1
     /\ Trimmed(SubSeq(d.text, s[1], s[2])) = <<"see", "(", o.name, ")">>
     /\ Trimmed(SubSeq(d.text, before[1], before[2])) = Trimmed(b.text)
     /\ Cardinality(Places(d.text, b.text)) = 1
     /\ {c \in d.bindings : Trimmed(c.text) = Trimmed(b.text)} = {b}
     /\ Cardinality(cited) = 1

PassageOf(id) == {Passages[i] : i \in {k \in DOMAIN Passages : Passages[k].id = id}}

OccurrenceFaults(d, b, o) ==
  IF o.evidence \notin b.evidence THEN {"CITATION_OCCURRENCE_EVIDENCE_NOT_BOUND"}
  ELSE IF o.at \notin DOMAIN d.text \/ d.text[o.at] # o.name THEN {"CITATION_OCCURRENCE_TEXT_MISMATCH"}
  ELSE UNION {
    IF \E e \in PassageOf(o.evidence) : Names(o.name, e.of) THEN {}
    ELSE {"CITATION_OCCURRENCE_SOURCE_MISMATCH"},
    IF \/ \E i \in Places(d.text, b.text) : SentenceAt(d.text, i) = SentenceAt(d.text, o.at)
       \/ Adjacent(d, b, o) THEN {}
    ELSE {"CITATION_OCCURRENCE_OUTSIDE_BOUND_CLAUSE"}}

OccurrenceReasons(d) ==
  UNION {UNION {OccurrenceFaults(d, b, o) : o \in b.cites} : b \in d.bindings}

\* The positions that are only citation, once every citation is verified.
Annotated(d) ==
  IF OccurrenceReasons(d) # {} THEN {}
  ELSE UNION {UNION {
    IF Adjacent(d, b, o) THEN SentenceAt(d.text, o.at)[1]..SentenceAt(d.text, o.at)[2]
    ELSE IF /\ {o.at - 1, o.at + 1} \subseteq DOMAIN d.text
            /\ d.text[o.at - 1] = "(" /\ d.text[o.at + 1] = ")" THEN (o.at - 1)..(o.at + 1)
    ELSE {} : o \in b.cites} : b \in d.bindings}

-----------------------------------------------------------------------------
(* The claims of a draft.                                                  *)

\* The positions of a text that repeat a bound claim, by their ends.
Bound(d) == UNION {{<<i, i + Len(b.text) - 1>> : i \in Places(d.text, b.text)} : b \in d.bindings}

\* A variant that lets several bindings cover a clause together.
UnboundByTiles(d) ==
  {c \in Clauses(d.text) : \E i \in (c[1]..c[2]) \ Annotated(d) :
     \A p \in Bound(d) : i \notin p[1]..p[2]}

\* The clauses that no single bound claim contains, citations apart.
Unbound(d) ==
  {c \in Clauses(d.text) :
     LET said == (c[1]..c[2]) \ Annotated(d)
     IN said # {} /\ ~\E p \in Bound(d) : said \subseteq p[1]..p[2]}

TypeOfBinding ==
  [law_rule |-> "statutory_rule", court_view |-> "court_view", disposition |-> "court_view",
   fact |-> "factual_summary", procedure |-> "procedural_statement", limitation |-> "risk_assessment"]

TypeGuess(text) ==
  LET w == WordsOf(text) IN
  CASE "must" \in w -> IF "court" \in w THEN "court_view" ELSE "statutory_rule"
    [] w \cap {"must", "here"} = {"here"} -> "case_specific_application"
    [] w \cap {"must", "here", "appeal"} = {"appeal"} -> "procedural_statement"
    [] OTHER -> "unknown"

ClaimOn(text, type, references, core) ==
  [claim |-> [type |-> type, references |-> references, core |-> core,
              general |-> "always" \in WordsOf(text)],
   text |-> text]

\* Fewer than three characters: two marks, or the one word of two characters.
Short(text) == text = <<"guilty">> \/ (WordsOf(text) = {} /\ Len(text) <= 2)

\* The sentences of a text that are long enough to be claims.
Sentences(text) == {p \in Parts(text, {"."}) : ~Short(SubSeq(text, p[1], p[2]))}

\* Without bindings, those sentences.
Extracted(text) ==
  LET sentence(p) == SubSeq(text, p[1], p[2])
      core(t) == "must" \in WordsOf(t) \/ "also" \notin WordsOf(t)
  IN {ClaimOn(sentence(p), TypeGuess(sentence(p)), {}, core(sentence(p))) : p \in Sentences(text)}

ClaimsOf(d) ==
  IF d.bindings = {} THEN Extracted(d.text)
  ELSE {ClaimOn(b.text, TypeOfBinding[b.type], b.evidence, b.core) : b \in d.bindings}
       \cup {ClaimOn(SubSeq(d.text, c[1], c[2]), "unknown", {}, TRUE) : c \in Unbound(d)}

StatusOf(c) == SupportStatus(c.claim, SegmentsFor(c.text), TRUE)

\* Otherwise the call fails: two bindings of one id, a claim not in the text.
WellBound(d) ==
  /\ \A b, c \in d.bindings : b.id = c.id => b = c
  /\ \A b \in d.bindings : Places(d.text, b.text) # {}

EvidenceReasons(d) ==
  {CASE PassageOf(id) = {} -> "CLAIM_EVIDENCE_NOT_FOUND"
     [] OTHER -> IF \E e \in PassageOf(id) : standing[e.of] = "ended" THEN "SOURCE_STALE"
                 ELSE IF \E e \in PassageOf(id) : standing[e.of] = "refused" THEN "SOURCE_NOT_EVIDENCE_ELIGIBLE"
                 ELSE "EVIDENCE_NOT_ELIGIBLE_FOR_CLAIM_SUPPORT" :
   id \in {i \in UNION {b.evidence : b \in d.bindings} : ~\E e \in PassageOf(i) : MaySupport(e)}}

IssuesBound(d) == UNION {b.issues : b \in d.bindings}

IssueReasons(d) ==
  IF ~planned THEN {}
  ELSE UNION {IF IssuesBound(d) \subseteq DOMAIN PlanIssues THEN {} ELSE {"CLAIM_BINDING_ISSUE_NOT_IN_PLAN"},
              IF \A i \in DOMAIN PlanIssues : PlanIssues[i] => i \in IssuesBound(d) THEN {}
              ELSE {"CORE_RESEARCH_ISSUE_UNBOUND"}}

\* The screen of the text that goes out.
Private(text) == WordsOf(text) \cap {"pii", "confidential"} # {}

\* validate_answer finds the draft safe to present.
Safe(d) ==
  /\ UsablePassages # {} /\ ~Private(d.text)
  /\ ClaimsOf(d) # {} /\ \A c \in ClaimsOf(d) : StatusOf(c) = "supported"
  /\ EvidenceReasons(d) \cup IssueReasons(d) \cup OccurrenceReasons(d) = {}

-----------------------------------------------------------------------------

ValidateAnswer(d) ==
  /\ WellBound(d)
  /\ presented' = IF Safe(d) THEN {d} ELSE {}
  /\ reviewed' = {}
  /\ UNCHANGED <<standing, planned>>

\* A draft with private data is not annotated.
ReviewDraft(d) ==
  /\ WellBound(d) /\ ~Private(d.text)
  /\ reviewed' = {b \in d.bindings :
                    StatusOf(ClaimOn(b.text, TypeOfBinding[b.type], b.evidence, b.core)) = "supported"}
  /\ presented' = {}
  /\ UNCHANGED <<standing, planned>>

\* The term of a source ends, or a new fetch renews it.
SourceMoves(s, to) ==
  /\ standing[s] # "refused" /\ standing' = [standing EXCEPT ![s] = to]
  /\ presented' = {} /\ reviewed' = {}
  /\ UNCHANGED planned

AnswerInit ==
  /\ standing \in [RunSources -> {"eligible", "refused"}] /\ planned \in BOOLEAN
  /\ presented = {} /\ reviewed = {}

AnswerNext ==
  \/ \E d \in Drafts : ValidateAnswer(d) \/ ReviewDraft(d)
  \/ \E s \in RunSources, to \in {"eligible", "ended"} : SourceMoves(s, to)

AnswerSpec == AnswerInit /\ [][AnswerNext]_answerVars

-----------------------------------------------------------------------------
(* Properties                                                              *)

AnswerTypeOK ==
  /\ standing \in [RunSources -> {"eligible", "ended", "refused"}]
  /\ \A d \in presented : d \in Drafts
  /\ \A b \in reviewed : \E d \in Drafts : b \in d.bindings
  /\ presented = {} \/ reviewed = {}

\* A passage of the run, usable now, that says what a claim of the type says.
Backs(e, type, text) ==
  /\ MaySupport(e) /\ RoleOf[e.section] \in RolesFor(type)
  /\ FaultOf(text, e.says) = "none" /\ OverlapOf(text, e.says) >= 50

\* Nothing in an answer found safe to present goes beyond the evidence: each
\* of its clauses, its verified citations apart, stands within one claim that
\* a passage bound to it backs, so that claims cannot be pieced together to a
\* new one; every name it cites is that of a passage its claim is bound to;
\* and each core issue of the plan is concluded.  Without bindings this goes
\* for each sentence of three characters or more: nothing grades the others.
PresentedIsBound ==
  \A d \in presented :
    /\ d.bindings # {} => \A c \in Clauses(d.text) :
         \/ c[1]..c[2] \subseteq Annotated(d)
         \/ \E b \in d.bindings :
              /\ \E i \in Places(d.text, b.text) :
                   (c[1]..c[2]) \ Annotated(d) \subseteq i..(i + Len(b.text) - 1)
              /\ \E e \in UNION {PassageOf(id) : id \in b.evidence} : Backs(e, TypeOfBinding[b.type], b.text)
    /\ d.bindings = {} => \A p \in Sentences(d.text) :
         LET says == SubSeq(d.text, p[1], p[2])
         IN \E i \in DOMAIN Passages : Backs(Passages[i], TypeGuess(says), says)
    /\ \A b \in d.bindings : \A o \in b.cites :
         \E e \in PassageOf(o.evidence) : e.id \in b.evidence /\ Names(d.text[o.at], e.of)
    /\ planned => \A i \in DOMAIN PlanIssues : PlanIssues[i] => i \in IssuesBound(d)

=============================================================================
