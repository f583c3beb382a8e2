----------------------------- MODULE LawSources -----------------------------
(***************************************************************************)
(* The providers that keep what they have read in memory between calls:    *)
(* central laws (providers/official/laws.py), which downloads the Ministry *)
(* of Justice's dataset whole and checks an article against its web page,  *)
(* and the Constitutional Court (providers/official/constitutional.py),    *)
(* which builds an index of decisions from list pages.                     *)
(*                                                                         *)
(* Time passes and the sources change between any two steps of a call.     *)
(* A text is a model value: what an article said at one time or another.   *)
(***************************************************************************)
EXTENDS Integers, FiniteSets, Sequences

CONSTANTS
  Articles,     \* articles of the laws
  Texts,        \* texts an article may have
  Shows,        \* while an article says this, the texts that the web page of its
                \* law contains: its own and what that contains, the texts of other
                \* articles, and those of a law that was repealed
  LawTTL,       \* snapshot_ttl
  MaxTime,      \* bound on the clock
  ListPagesOf   \* the court's lists: each a sequence of sets of decisions

ASSUME LawSourcesAssumption ==
  /\ LawTTL \in Nat \ {0} /\ MaxTime \in Nat
  /\ "none" \notin Texts /\ "empty" \notin Texts
  /\ \A t \in Texts : t \in Shows[t]

\* There is a list, and each list has a first page.
ASSUME ListPagesAssumption ==
  /\ Len(ListPagesOf) \in Nat \ {0} /\ DOMAIN ListPagesOf = 1..Len(ListPagesOf)
  /\ \A l \in DOMAIN ListPagesOf :
       /\ Len(ListPagesOf[l]) \in Nat \ {0}
       /\ DOMAIN ListPagesOf[l] = 1..Len(ListPagesOf[l])

VARIABLES
  clock,
  inForce,    \* the text of each article on the ministry's web pages
  dataset,    \* the text of each article in the ministry's dataset
  shown,      \* when a download last showed a text of an article
  snapshot,   \* the dataset in memory
  lawCall, lawAnswer

lawVars == <<clock, inForce, dataset, shown, snapshot, lawCall, lawAnswer>>

\* An article that is missing, one without a text, one that was repealed.
LawTexts == Texts \cup {"none", "empty", "repealed"}

NoSnapshot == [fetched |-> -1, expires |-> -1]
NoLawCall == [step |-> "idle"]
NoLawAnswer == [status |-> "none", evidence |-> FALSE]

LawError(code) == [status |-> "error", code |-> code, evidence |-> FALSE]
LawMiss == [status |-> "not_found", evidence |-> FALSE]
LawFound(a, t, e, checked) ==
  [status |-> "found", article |-> a, text |-> t, evidence |-> e, checked |-> checked]

\* A snapshot is used from its download until its term ends.
Fresh(s, t) == s.fetched # -1 /\ s.fetched <= t /\ t < s.expires

AnswerLaw(a) == lawCall' = NoLawCall /\ lawAnswer' = a

SourcesSame == UNCHANGED <<clock, inForce, dataset>>

-----------------------------------------------------------------------------
(* Loading the dataset.                                                    *)

\* A snapshot past its term is dropped before the download that replaces it.
BeginLaw(purpose, a) ==
  /\ lawCall.step = "idle"
  /\ lawAnswer' = NoLawAnswer
  /\ IF Fresh(snapshot, clock)
     THEN /\ lawCall' = [step |-> "use", purpose |-> purpose, article |-> a]
          /\ UNCHANGED snapshot
     ELSE /\ lawCall' = [step |-> "download", purpose |-> purpose, article |-> a, began |-> clock]
          /\ snapshot' = NoSnapshot
  /\ SourcesSame /\ UNCHANGED shown

LookupArticle == \E a \in Articles : BeginLaw("lookup", a)
SearchLaws == BeginLaw("search", "none")
ResolveCitations == BeginLaw("resolve", "none")

\* resolve_citations reports a failed load as no citations.
LoadFailed(code) ==
  IF lawCall.purpose = "resolve"
  THEN AnswerLaw([status |-> "citations", of |-> {}, evidence |-> FALSE])
  ELSE AnswerLaw(LawError(code))

\* The term of a snapshot counts from the start of its download.
Installed(began, content) ==
  [fetched |-> began, expires |-> began + LawTTL, content |-> content]

Download ==
  /\ lawCall.step = "download"
  /\ \/ /\ \E code \in {"OFFICIAL_SOURCE_UNAVAILABLE", "OFFICIAL_PARSE_ERROR"} : LoadFailed(code)
        /\ UNCHANGED <<snapshot, shown>>
     \/ /\ shown' = [a \in Articles |-> [t \in Texts |-> IF dataset[a] = t THEN clock ELSE shown[a][t]]]
        /\ LET s == Installed(lawCall.began, dataset) IN
           IF Fresh(s, clock)
           THEN /\ snapshot' = s
                /\ lawCall' = [step |-> "use", purpose |-> lawCall.purpose, article |-> lawCall.article]
                /\ UNCHANGED lawAnswer
           ELSE LoadFailed("SOURCE_STALE") /\ UNCHANGED snapshot
  /\ SourcesSame

-----------------------------------------------------------------------------
(* Using it.                                                               *)

\* The snapshot may have passed its term since it was loaded.
UseArticle ==
  /\ lawCall.step = "use" /\ lawCall.purpose = "lookup"
  /\ IF ~Fresh(snapshot, clock) THEN AnswerLaw(LawError("SOURCE_STALE"))
     ELSE LET a == lawCall.article
              t == snapshot.content[a] IN
          CASE t = "none" -> AnswerLaw(LawMiss)
            [] t = "empty" -> AnswerLaw(LawError("OFFICIAL_PARSE_ERROR"))
            [] t = "repealed" -> AnswerLaw(LawFound(a, t, FALSE, FALSE))
            [] OTHER -> /\ lawCall' = [step |-> "page", article |-> a, text |-> t,
                                       expires |-> snapshot.expires]
                        /\ UNCHANGED lawAnswer
  /\ SourcesSame /\ UNCHANGED <<snapshot, shown>>

\* A search and a resolution follow their load at once, with no second look
\* at the clock.
UseCatalog ==
  /\ lawCall.step = "use" /\ lawCall.purpose # "lookup"
  /\ LET H == {a \in Articles : snapshot.content[a] # "none"} IN
     IF lawCall.purpose = "resolve"
     THEN AnswerLaw([status |-> "citations", of |-> H, evidence |-> FALSE])
     ELSE \E M \in SUBSET H :
            AnswerLaw([status |-> IF M = {} THEN "not_found" ELSE "hits", of |-> M, evidence |-> FALSE])
  /\ SourcesSame /\ UNCHANGED <<snapshot, shown>>

\* A variant that does not look at the clock after the page is read.
AfterPageUntimed(readable, onPage) ==
  IF readable /\ lawCall.text \notin Shows[onPage] THEN LawError("OFFICIAL_CONTENT_CONFLICT")
  ELSE LawFound(lawCall.article, lawCall.text, TRUE, readable)

\* The web page of the article's law.  One that cannot be read is a warning;
\* one that does not contain the text anywhere is a conflict.  Neither moves
\* the snapshot's term.
AfterPage(readable, onPage) ==
  IF ~ (clock < lawCall.expires) THEN LawError("SOURCE_STALE")
  ELSE IF readable /\ lawCall.text \notin Shows[onPage] THEN LawError("OFFICIAL_CONTENT_CONFLICT")
  ELSE LawFound(lawCall.article, lawCall.text, TRUE, readable)

CheckPage ==
  /\ lawCall.step = "page"
  /\ \E readable \in BOOLEAN : AnswerLaw(AfterPage(readable, inForce[lawCall.article]))
  /\ SourcesSame /\ UNCHANGED <<snapshot, shown>>

-----------------------------------------------------------------------------
(* The world.                                                              *)

Tick == clock < MaxTime /\ clock' = clock + 1
        /\ UNCHANGED <<inForce, dataset, shown, snapshot, lawCall, lawAnswer>>

Amend == /\ \E a \in Articles : \E t \in LawTexts : inForce' = [inForce EXCEPT ![a] = t]
         /\ UNCHANGED <<clock, dataset, shown, snapshot, lawCall, lawAnswer>>

PublishDataset == /\ dataset' = inForce
                  /\ UNCHANGED <<clock, inForce, shown, snapshot, lawCall, lawAnswer>>

LawInit ==
  /\ clock = 0
  /\ inForce \in [Articles -> LawTexts] /\ dataset = inForce
  /\ shown = [a \in Articles |-> [t \in Texts |-> -1]]
  /\ snapshot = NoSnapshot /\ lawCall = NoLawCall /\ lawAnswer = NoLawAnswer

LawNext ==
  \/ LookupArticle \/ SearchLaws \/ ResolveCitations
  \/ Download \/ UseArticle \/ UseCatalog \/ CheckPage
  \/ Tick \/ Amend \/ PublishDataset

LawSpec == LawInit /\ [][LawNext]_lawVars

-----------------------------------------------------------------------------
(* The Constitutional Court.                                               *)

VARIABLES
  decided,      \* decisions the court's site publishes
  courtIndex,   \* the index in memory
  courtCall, courtAnswer,
  courtBase,    \* what was published when its build began
  courtGap      \* and whether the build has missed a page

courtVars == <<decided, courtIndex, courtCall, courtAnswer, courtBase, courtGap>>

Decisions == UNION {UNION {ListPagesOf[l][p] : p \in DOMAIN ListPagesOf[l]} : l \in DOMAIN ListPagesOf}

NoCourtCall == [step |-> "idle"]
NoCourtAnswer == [status |-> "none"]

CourtError == [status |-> "error"]
CourtHits(H) == [status |-> IF H = {} THEN "not_found" ELSE "hits", of |-> H, complete |-> TRUE]
CourtMiss(d) == [status |-> "not_found", of |-> {d}, complete |-> TRUE]

AnswerCourt(a) == courtCall' = NoCourtCall /\ courtAnswer' = a

ToDetail(d) == courtCall' = [step |-> "detail", ask |-> d] /\ UNCHANGED courtAnswer

\* What an index that is in memory says of decision d.
FromIndex(ix, d) == IF d \in ix THEN ToDetail(d) ELSE AnswerCourt(CourtMiss(d))

BuildIndex(search, d) ==
  /\ courtCall' = [step |-> "index", search |-> search, ask |-> d, list |-> 1, page |-> 1]
  /\ courtAnswer' = NoCourtAnswer
  /\ courtBase' = decided /\ courtGap' = FALSE

BuildSame == UNCHANGED <<courtBase, courtGap>>

\* An index that holds anything is used as it is, for as long as it lives.
LookupDecision ==
  /\ courtCall.step = "idle"
  /\ \E d \in Decisions :
       IF courtIndex # {} THEN FromIndex(courtIndex, d) /\ BuildSame ELSE BuildIndex(FALSE, d)
  /\ UNCHANGED <<decided, courtIndex>>

SearchDecisions ==
  /\ courtCall.step = "idle"
  /\ IF courtIndex # {}
     THEN (\E H \in SUBSET courtIndex : AnswerCourt(CourtHits(H))) /\ BuildSame
     ELSE BuildIndex(TRUE, "none")
  /\ UNCHANGED <<decided, courtIndex>>

\* A variant that reads the first page of each list.
NextList(readable) == <<courtCall.list + 1, 1>>

\* The page after this one; a list is left at its first unreadable page.
NextPage(readable) ==
  IF readable /\ courtCall.page < Len(ListPagesOf[courtCall.list])
  THEN <<courtCall.list, courtCall.page + 1>>
  ELSE <<courtCall.list + 1, 1>>

AfterIndex(ix) ==
  IF ix = {} THEN AnswerCourt(CourtError)
  ELSE IF courtCall.search THEN \E H \in SUBSET ix : AnswerCourt(CourtHits(H))
  ELSE FromIndex(ix, courtCall.ask)

ReadListPage ==
  /\ courtCall.step = "index"
  /\ \E readable \in BOOLEAN :
       LET seen == IF readable THEN ListPagesOf[courtCall.list][courtCall.page] \cap decided ELSE {}
           ix == courtIndex \cup seen
           np == NextPage(readable) IN
       /\ courtIndex' = ix
       /\ courtGap' = (courtGap \/ ~readable)
       /\ IF np[1] <= Len(ListPagesOf)
          THEN /\ courtCall' = [courtCall EXCEPT !.list = np[1], !.page = np[2]]
               /\ UNCHANGED courtAnswer
          ELSE AfterIndex(ix)
  /\ UNCHANGED <<decided, courtBase>>

\* The decision's page: unreadable, of another decision, without its holding
\* or its reasons, or the decision.
ReadDecision ==
  /\ courtCall.step = "detail"
  /\ \/ AnswerCourt(CourtError)
     \/ /\ courtCall.ask \in decided
        /\ AnswerCourt([status |-> "found", of |-> {courtCall.ask}, complete |-> TRUE])
  /\ UNCHANGED <<decided, courtIndex, courtBase, courtGap>>

\* The deadline of a run cancels a call; what the index holds by then stays.
CancelCourt ==
  /\ courtCall.step # "idle"
  /\ courtCall' = NoCourtCall /\ courtAnswer' = NoCourtAnswer
  /\ courtGap' = (courtGap \/ courtCall.step = "index")
  /\ UNCHANGED <<decided, courtIndex, courtBase>>

Decide == /\ \E d \in Decisions \ decided : decided' = decided \cup {d}
          /\ UNCHANGED <<courtIndex, courtCall, courtAnswer, courtBase, courtGap>>

CourtInit ==
  /\ decided \in SUBSET Decisions /\ courtIndex = {}
  /\ courtCall = NoCourtCall /\ courtAnswer = NoCourtAnswer
  /\ courtBase = {} /\ courtGap = FALSE

CourtNext ==
  \/ LookupDecision \/ SearchDecisions \/ ReadListPage \/ ReadDecision \/ CancelCourt \/ Decide

CourtSpec == CourtInit /\ [][CourtNext]_courtVars

-----------------------------------------------------------------------------
(* Properties                                                              *)

LawTypeOK ==
  /\ clock \in 0..MaxTime
  /\ inForce \in [Articles -> LawTexts] /\ dataset \in [Articles -> LawTexts]
  /\ shown \in [Articles -> [Texts -> -1..MaxTime]]
  /\ snapshot.fetched \in -1..MaxTime
  /\ lawCall.step \in {"idle", "download", "use", "page"}
  /\ lawAnswer.status \in {"none", "error", "not_found", "found", "hits", "citations"}

CourtTypeOK ==
  /\ decided \cup courtBase \subseteq Decisions /\ courtGap \in BOOLEAN /\ courtIndex \subseteq Decisions
  /\ courtCall.step \in {"idle", "index", "detail"}
  /\ courtAnswer.status \in {"none", "error", "not_found", "found", "hits"}

\* An article handed out as evidence has the text a download of the dataset
\* showed less than the term ago, however the time passed between the steps
\* of the lookup; and when the web page of its law could be read, the page
\* contains that text then.  (It need not be all that the article says by
\* then, nor stand in that article: the code looks for it in the whole page.)
LawEvidenceIsCurrent ==
  [][lawAnswer' # lawAnswer /\ lawAnswer'.evidence =>
       LET a == lawAnswer'.article
           t == lawAnswer'.text IN
       /\ t \in Texts
       /\ shown[a][t] # -1 /\ clock - shown[a][t] < LawTTL
       /\ lawAnswer'.checked => t \in Shows[inForce[a]]]_lawVars

\* The court's provider says that a decision is not found, although it was
\* published before the index was built, only when the build has missed a
\* page of a list or was cancelled.
CourtMissIsExplained ==
  [][courtAnswer' # courtAnswer /\ courtAnswer'.status = "not_found" /\ ~courtGap' =>
       courtAnswer'.of \cap courtBase' = {}]_courtVars

=============================================================================
