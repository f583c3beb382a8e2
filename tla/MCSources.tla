----------------------------- MODULE MCSources -----------------------------
(***************************************************************************)
(* Instances of the modules about sources for TLC, one of them at a time:  *)
(* the counter-authority search, the judgment provider, the laws, the      *)
(* Constitutional Court, the external recall provider, the session of the  *)
(* server with the claims a client submits, and the validation of drafts   *)
(* and of analyses.                                                        *)
(***************************************************************************)
EXTENDS CounterAuthority, JudgmentProvider, LawSources, TlrRecall, McpSession, LegalAnalysis,
        TLC

CONSTANTS j1, j2, d1, d2, d3, a1, k1, k2, k3, v1, v2, v3

Symmetry == Permutations({j1, j2})

\* d1 and d2 are a judgment and a ruling of one case and one day, which
\* share their five-part identifier.
MCPartOf == d1 :> "p" @@ d2 :> "p" @@ d3 :> "q"
MCCaseOf == d1 :> "c" @@ d2 :> "c" @@ d3 :> "e"
MCKindOf == d1 :> "judgment" @@ d2 :> "ruling" @@ d3 :> "judgment"

\* The new text of the article adds to the old one, and the page of a
\* repealed law goes on showing its last text.
MCShows ==
  [old |-> {"old"}, new |-> {"old", "new"}, repealed |-> {"new"}, none |-> {}, empty |-> {}]

MCListPagesOf == << <<{k1}, {k2}>>, <<{k3}>> >>

MCLengthOf == v1 :> 3 @@ v2 :> 3 @@ v3 :> 2

\* Passages of a judgment as claims read them, and claims about it.
Holding == [citation |-> "c1", role |-> "court_holding", overlap |-> 50, fault |-> "none",
            statement |-> 1, wording |-> "plain"]
Argument == [Holding EXCEPT !.role = "party_argument"]
Shown ==
  {<<>>, <<Argument, Holding>>, <<[Holding EXCEPT !.overlap = 49]>>,
   <<Holding, [Argument EXCEPT !.overlap = 60]>>, <<[Holding EXCEPT !.citation = "c2"]>>,
   <<Holding, [Holding EXCEPT !.wording = "negated"]>>, <<[Holding EXCEPT !.fault = "qualifier"]>>}
CourtView(cited) == [type |-> "court_view", references |-> cited, core |-> TRUE, general |-> FALSE]
MCChecked ==
  [claim : {CourtView({"c1"})}, segments : Shown]
  \cup {[claim |-> CourtView({}), segments |-> <<Argument, Holding>>],
        [claim |-> [CourtView({}) EXCEPT !.type = "case_specific_application", !.general = TRUE],
         segments |-> <<Holding>>]}

\* A judgment of the run under its full name, another of a name of its own,
\* and a law; what their passages say.
MCNameOf ==
  [full |-> [case |-> "n1", system |-> "civil", kind |-> "judgment"],
   short |-> [case |-> "n1", system |-> "none", kind |-> "none"],
   criminal |-> [case |-> "n1", system |-> "criminal", kind |-> "none"],
   other |-> [case |-> "n2", system |-> "none", kind |-> "none"]]
Judged(name) ==
  [material |-> "judgment", citation |-> name, title |-> "none", identifier |-> "id of " \o name,
   identifiedBy |-> MCNameOf[name].case, content |-> "text of " \o name, system |-> "civil"]
MCRecordOf ==
  [j |-> Judged("full"), o |-> Judged("other"), l |-> [Judged("full") EXCEPT !.material = "law", !.citation = "art.1"]]
Duty == <<"employer", "must", "pay", "damages">>
Passage(id, s, section, says) == [id |-> id, of |-> s, section |-> section, usable |-> TRUE, says |-> says]
MCPassages ==
  <<Passage("c1", "j", "court_holding", Duty),
    Passage("c2", "o", "party_argument", <<"employer", "may", "resign">>),
    Passage("c3", "l", "law_text", <<"employer", "must", "pay", "damages", ",", "unless", "absent", ".">>)>>
MCPlanIssues == "i1" :> TRUE @@ "i2" :> FALSE

\* Drafts on that duty: in one claim, with the citation in the sentence or
\* after it, by each name; in two claims; with a word more, a short one too,
\* of a private person, or of nothing bound; and without bindings, with a
\* short sentence and of nothing else.
Claim(id, text, evidence, cites) ==
  [id |-> id, text |-> text, type |-> "court_view", core |-> TRUE, evidence |-> {evidence},
   issues |-> {"i1"}, cites |-> cites]
CitedAt(at, name) == [evidence |-> "c1", at |-> at, name |-> name]
Draft(text, bindings) == [text |-> text, bindings |-> bindings]
Within(name) == Draft(Duty \o <<"(", name, ")", ".">>, {Claim("b1", Duty, "c1", {CitedAt(6, name)})})
After(name) == Draft(Duty \o <<".", "see", "(", name, ")", ".">>, {Claim("b1", Duty, "c1", {CitedAt(8, name)})})
MCDrafts ==
  {Within(n) : n \in DOMAIN MCNameOf} \cup {After(n) : n \in DOMAIN MCNameOf}
  \cup {Draft(Duty, {[Claim("b1", Duty, e, {}) EXCEPT !.issues = i, !.type = t]}) :
          e \in {"c1", "c2", "c3", "c4"}, i \in {{}, {"i1"}, {"i1", "i3"}}, t \in {"court_view", "law_rule"}}
  \cup {Draft(Duty, {Claim("b1", SubSeq(Duty, 1, 2), "c1", {}), Claim("b2", SubSeq(Duty, 3, 4), "c1", {})}),
        Draft(Duty \o <<",", "also", "costs">>, {Claim("b1", Duty, "c1", {})}),
        Draft(Duty \o <<".", "guilty", ".">>, {Claim("b1", Duty, "c1", {})}),
        Draft(Duty \o <<",", "pii">>, {Claim("b1", Duty, "c1", {})}),
        Draft(Duty, {}), Draft(<<"also", "employer", "damages", ".">>, {}), Draft(<<"also", "employer", "resign">>, {}),
        Draft(<<"also", "employer", "damages", ".", "guilty", ".">>, {}), Draft(<<"guilty", ".">>, {})}

\* Analyses: of a civil claim, and of a constitutional issue; as they should
\* be, and with one thing changed.
Item(kind, id, about, evidence, status) ==
  [kind |-> kind, id |-> id, about |-> about, dimension |-> about, sources |-> {"l"}, evidence |-> evidence,
   facts |-> {}, status |-> status]
Posture == [stage |-> "appeal", sources |-> {}, facts |-> {}]
Branch(name, items) ==
  [profile |-> name, scope |-> "complete", items |-> items, posture |-> Posture, constraints |-> {}]
Civil(element, others) ==
  Branch("civil_substantive", {Item("claim", "k1", "none", {}, "none"), element} \cup others)
Burden == Item("burden", "b1", "e1", {}, "settled")
Element == Item("element", "e1", "k1", {"c3"}, "met")
Elements ==
  {Element, [Element EXCEPT !.evidence = {"c1"}], [Element EXCEPT !.evidence = {"c1", "c4"}],
   [Element EXCEPT !.evidence = {}], [Element EXCEPT !.sources = {}], [Element EXCEPT !.sources = {"j"}],
   [Element EXCEPT !.sources = {"l", "o"}], [Element EXCEPT !.facts = {"f1"}],
   [Element EXCEPT !.status = "disputed", !.evidence = {}]}
Review(dimensions, status) ==
  Branch("constitutional_review", {Item("issue", d, d, {"c3"}, status) : d \in dimensions})
Proposed(branches) ==
  [branches |-> branches, facts |-> {}, assessed |-> {}, posture |-> Posture,
   counter |-> [status |-> "found", sources |-> {"l"}, relations |-> {}]]
Opposing(s, id) == [issue |-> "i1", relation |-> "opposing", source |-> s, evidence |-> {id}]
Base == Proposed({Civil(Element, {Burden})})
MCAnalyses ==
  {Proposed({Civil(e, {Burden})}) : e \in Elements} \cup {Proposed({Civil(Element, {})})}
  \cup {[Base EXCEPT !.counter.sources = {s}, !.counter.relations = {Opposing(s, id)}] :
          s \in {"j", "o", "l"}, id \in {"c1", "c2", "c3"}}
  \cup {[Base EXCEPT !.counter = [status |-> c, sources |-> {}, relations |-> {}]] :
          c \in {"found", "not_found_in_scope", "not_searched"}}
  \cup {Proposed({Review(ds, st)}) : st \in {"met", "uncertain"},
          ds \in {CoreDimensions.constitutional_review, {"protected_right"}}}
MCContext(s) ==
  [temporal |-> "applicable", authority |-> IF s = "j" THEN "persuasive" ELSE IF s = "o" THEN "superseded" ELSE "binding",
   validity |-> "valid", complete |-> TRUE]
MCExternal == {[s \in RunSources |-> MCContext(s)], [s \in {"j"} |-> [MCContext(s) EXCEPT !.authority = "binding"]]}

VARIABLE subject   \* the module whose behaviour this is

counterVars == vars
draftVars == <<answerVars, analysisVars>>

SourcesInit ==
  /\ subject \in {"counter", "judgments", "laws", "court", "recall", "session", "drafts", "analyses"}
  /\ Init /\ (subject # "counter" => \A j \in Candidates : material[j] = "none")
  /\ SiteInit /\ (subject # "judgments" => published = {} /\ ~portal)
  /\ LawInit /\ (subject # "laws" => \A a \in Articles : inForce[a] = "empty")
  /\ CourtInit /\ (subject # "court" => decided = {})
  /\ RecallInit /\ (subject # "recall" => held = v1)
  /\ SessionInit /\ (subject # "session" => profile = "verified" /\ ~resolving)
  /\ AnalysisInit /\ (subject # "drafts" => ~planned)
  /\ subject \notin {"drafts", "analyses"} => \A s \in RunSources : standing[s] = "eligible"

SourcesNext ==
  /\ UNCHANGED subject
  /\ \/ subject = "counter" /\ Next /\ UNCHANGED <<siteVars, lawVars, courtVars, recallVars, sessionVars, draftVars>>
     \/ subject = "judgments" /\ SiteNext /\ UNCHANGED <<counterVars, lawVars, courtVars, recallVars, sessionVars, draftVars>>
     \/ subject = "laws" /\ LawNext /\ UNCHANGED <<counterVars, siteVars, courtVars, recallVars, sessionVars, draftVars>>
     \/ subject = "court" /\ CourtNext /\ UNCHANGED <<counterVars, siteVars, lawVars, recallVars, sessionVars, draftVars>>
     \/ subject = "recall" /\ RecallNext /\ UNCHANGED <<counterVars, siteVars, lawVars, courtVars, sessionVars, draftVars>>
     \/ subject = "session" /\ SessionNext
        /\ UNCHANGED <<counterVars, siteVars, lawVars, courtVars, recallVars, draftVars>>
     \/ subject = "drafts" /\ AnswerNext
        /\ UNCHANGED <<counterVars, siteVars, lawVars, courtVars, recallVars, sessionVars, analysisVars>>
     \/ subject = "analyses" /\ AnalysisNext
        /\ UNCHANGED <<counterVars, siteVars, lawVars, courtVars, recallVars, sessionVars>>

SourcesSpec == SourcesInit /\ [][SourcesNext]_<<subject, vars, siteVars, lawVars, courtVars, recallVars,
                                           sessionVars, draftVars>>

\* Every variable of the modules has its type.
SourcesTypeOK ==
  /\ TypeOK /\ SiteTypeOK /\ LawTypeOK /\ CourtTypeOK /\ RecallTypeOK
  /\ SessionTypeOK /\ AnalysisTypeOK
=============================================================================
