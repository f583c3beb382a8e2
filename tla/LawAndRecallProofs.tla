------------------------- MODULE LawAndRecallProofs -------------------------
(***************************************************************************)
(* Proofs about LawSources and TlrRecall for any articles, texts and term, *)
(* any lists of decisions, any versions of a text and any page size.       *)
(***************************************************************************)
EXTENDS LawSources, TlrRecall, TLAPS

-----------------------------------------------------------------------------
(* Laws.  A snapshot's term counts from before its download, so that what  *)
(* it says was shown no earlier (SnapshotOK); a lookup carries the text    *)
(* and the end of the term to the page check (LookupOK).                   *)

ClockOK ==
  /\ clock \in Nat
  /\ inForce \in [Articles -> LawTexts] /\ dataset \in [Articles -> LawTexts]
  /\ shown \in [Articles -> [Texts -> Int]]
  /\ \A a \in Articles, t \in Texts : shown[a][t] <= clock

Holds(content, since) ==
  /\ content \in [Articles -> LawTexts]
  /\ \A a \in Articles : content[a] \in Texts => since <= shown[a][content[a]]

SnapshotOK ==
  snapshot.fetched # -1 =>
    /\ snapshot.fetched \in Nat /\ snapshot.expires = snapshot.fetched + LawTTL
    /\ Holds(snapshot.content, snapshot.fetched)

LookupOK ==
  /\ lawCall.step = "download" =>
       /\ lawCall.began \in Nat /\ lawCall.began <= clock
       /\ lawCall.purpose = "lookup" => lawCall.article \in Articles
  /\ lawCall.step = "use" => (lawCall.purpose = "lookup" => lawCall.article \in Articles)
  /\ lawCall.step = "page" =>
       /\ lawCall.article \in Articles /\ lawCall.text \in Texts /\ lawCall.expires \in Nat
       /\ 0 <= shown[lawCall.article][lawCall.text]
       /\ lawCall.expires <= shown[lawCall.article][lawCall.text] + LawTTL

LawInv == ClockOK /\ SnapshotOK /\ LookupOK

\* Evidence that is answered with is of a text shown within the term.
CurrentEvidence ==
  lawAnswer' # lawAnswer /\ lawAnswer'.evidence =>
    LET a == lawAnswer'.article
        t == lawAnswer'.text IN
    /\ t \in Texts
    /\ shown[a][t] # -1 /\ clock - shown[a][t] < LawTTL
    /\ lawAnswer'.checked => t \in Shows[inForce[a]]

LEMMA Term == LawTTL \in Nat /\ LawTTL > 0
  BY LawSourcesAssumption

LEMMA LawInitSafe == LawInit => LawInv
  BY LawSourcesAssumption
  DEF LawInit, LawInv, ClockOK, SnapshotOK, LookupOK, NoSnapshot, NoLawCall

\* Nothing is evidence but what the check of a page answers with.
LEMMA NoEvidence ==
  /\ ~NoLawAnswer.evidence /\ ~LawMiss.evidence
  /\ \A code : ~LawError(code).evidence
  /\ \A a, t : ~LawFound(a, t, FALSE, FALSE).evidence
  BY DEF NoLawAnswer, LawMiss, LawError, LawFound

LEMMA BeginLawSafe ==
  ASSUME LawInv, NEW purpose, NEW a, BeginLaw(purpose, a), purpose = "lookup" => a \in Articles
  PROVE  LawInv' /\ CurrentEvidence
  <1>1. lawAnswer' = NoLawAnswer /\ ~lawAnswer'.evidence
    BY NoEvidence DEF BeginLaw
  <1>2. ClockOK'
    BY DEF BeginLaw, SourcesSame, LawInv, ClockOK
  <1>3. SnapshotOK'
    BY DEF BeginLaw, SourcesSame, LawInv, SnapshotOK, Holds, NoSnapshot
  <1>4. LookupOK'
    BY DEF BeginLaw, SourcesSame, LawInv, ClockOK, LookupOK
  <1>5. QED
    BY <1>1, <1>2, <1>3, <1>4 DEF LawInv, CurrentEvidence

LEMMA LoadFailedSafe ==
  ASSUME NEW code, LoadFailed(code)
  PROVE  lawCall' = NoLawCall /\ ~lawAnswer'.evidence
  BY NoEvidence DEF LoadFailed, AnswerLaw

\* A call that ends leaves the lookup's part trivially true.
LEMMA IdleSafe == lawCall' = NoLawCall => LookupOK'
  BY DEF NoLawCall, LookupOK

LEMMA DownloadSafe ==
  ASSUME LawInv, Download
  PROVE  LawInv' /\ CurrentEvidence
  <1>1. CASE /\ \E code \in {"OFFICIAL_SOURCE_UNAVAILABLE", "OFFICIAL_PARSE_ERROR"} : LoadFailed(code)
             /\ UNCHANGED <<snapshot, shown>>
    <2>1. lawCall' = NoLawCall /\ ~lawAnswer'.evidence
      BY <1>1, LoadFailedSafe
    <2>2. ClockOK' /\ SnapshotOK'
      BY <1>1 DEF Download, SourcesSame, LawInv, ClockOK, SnapshotOK, Holds
    <2>3. QED
      BY <2>1, <2>2, IdleSafe DEF LawInv, CurrentEvidence
  <1>2. CASE /\ shown' = [a \in Articles |-> [t \in Texts |-> IF dataset[a] = t THEN clock ELSE shown[a][t]]]
             /\ LET s == Installed(lawCall.began, dataset) IN
                IF Fresh(s, clock)
                THEN /\ snapshot' = s
                     /\ lawCall' = [step |-> "use", purpose |-> lawCall.purpose, article |-> lawCall.article]
                     /\ UNCHANGED lawAnswer
                ELSE LoadFailed("SOURCE_STALE") /\ UNCHANGED snapshot
    <2>1. lawCall.step = "download" /\ SourcesSame
      BY DEF Download
    <2>2. /\ ClockOK'
          /\ \A a \in Articles, t \in Texts : shown[a][t] <= shown'[a][t]
          /\ \A a \in Articles : dataset[a] \in Texts => shown'[a][dataset[a]] = clock
      BY <1>2, <2>1 DEF SourcesSame, LawInv, ClockOK
    <2>3. CASE Fresh(Installed(lawCall.began, dataset), clock)
      <3>1. /\ snapshot' = Installed(lawCall.began, dataset)
            /\ lawCall' = [step |-> "use", purpose |-> lawCall.purpose, article |-> lawCall.article]
            /\ lawAnswer' = lawAnswer
        BY <1>2, <2>3
      <3>2. /\ snapshot'.fetched = lawCall.began /\ snapshot'.expires = lawCall.began + LawTTL
            /\ snapshot'.content = dataset
        BY <3>1 DEF Installed
      <3>3. SnapshotOK'
        BY <3>2, <2>1, <2>2 DEF SnapshotOK, Holds, LawInv, LookupOK, ClockOK
      <3>4. LookupOK'
        BY <3>1, <2>1 DEF LawInv, LookupOK
      <3>5. QED
        BY <2>2, <3>1, <3>3, <3>4 DEF LawInv, CurrentEvidence
    <2>4. CASE ~Fresh(Installed(lawCall.began, dataset), clock)
      <3>1. lawCall' = NoLawCall /\ ~lawAnswer'.evidence /\ snapshot' = snapshot
        BY <1>2, <2>4, LoadFailedSafe
      <3>2. SnapshotOK'
        <4>1. SUFFICES ASSUME snapshot.fetched # -1 PROVE SnapshotOK'
          BY <3>1 DEF SnapshotOK
        <4>2. /\ snapshot.fetched \in Nat /\ snapshot.expires = snapshot.fetched + LawTTL
              /\ Holds(snapshot.content, snapshot.fetched)
          BY <4>1 DEF LawInv, SnapshotOK
        <4>3. ASSUME NEW a \in Articles, snapshot.content[a] \in Texts
              PROVE  snapshot.fetched <= shown'[a][snapshot.content[a]]
          <5>1. shown[a][snapshot.content[a]] <= shown'[a][snapshot.content[a]]
            BY <2>2, <4>3
          <5>2. snapshot.fetched <= shown[a][snapshot.content[a]]
            BY <4>2, <4>3 DEF Holds
          <5>3. shown[a][snapshot.content[a]] \in Int /\ shown'[a][snapshot.content[a]] \in Int
            BY <2>2, <4>3 DEF LawInv, ClockOK
          <5>4. QED
            BY <5>1, <5>2, <5>3, <4>2
        <4>4. QED
          BY <3>1, <4>2, <4>3 DEF SnapshotOK, Holds
      <3>3. QED
        BY <2>2, <3>1, <3>2, IdleSafe DEF LawInv, CurrentEvidence
    <2>5. QED
      BY <2>3, <2>4
  <1>3. QED
    BY <1>1, <1>2 DEF Download

\* A step that only answers, and with no evidence, keeps everything.
LEMMA AnswerSafe ==
  ASSUME LawInv, lawCall' = NoLawCall, ~lawAnswer'.evidence, SourcesSame, UNCHANGED <<snapshot, shown>>
  PROVE  LawInv' /\ CurrentEvidence
  BY IdleSafe DEF LawInv, ClockOK, SnapshotOK, Holds, SourcesSame, CurrentEvidence

LEMMA UseArticleSafe ==
  ASSUME LawInv, UseArticle
  PROVE  LawInv' /\ CurrentEvidence
  <1> DEFINE a == lawCall.article
             t == snapshot.content[a]
  <1>1. /\ lawCall.step = "use" /\ lawCall.purpose = "lookup" /\ a \in Articles
        /\ SourcesSame /\ UNCHANGED <<snapshot, shown>>
    BY DEF UseArticle, LawInv, LookupOK
  <1>2. CASE ~Fresh(snapshot, clock)
    BY <1>1, <1>2, AnswerSafe, NoEvidence DEF UseArticle, AnswerLaw
  <1>3. CASE Fresh(snapshot, clock) /\ t \in {"none", "empty", "repealed"}
    BY <1>1, <1>3, AnswerSafe, NoEvidence DEF UseArticle, AnswerLaw
  <1>4. CASE Fresh(snapshot, clock) /\ t \notin {"none", "empty", "repealed"}
    <2>1. /\ lawCall' = [step |-> "page", article |-> a, text |-> t, expires |-> snapshot.expires]
          /\ lawAnswer' = lawAnswer
      BY <1>4, <1>1 DEF UseArticle
    <2>2. /\ snapshot.fetched \in Nat /\ snapshot.expires = snapshot.fetched + LawTTL
          /\ Holds(snapshot.content, snapshot.fetched)
      BY <1>4 DEF Fresh, LawInv, SnapshotOK
    <2>3. t \in Texts /\ snapshot.fetched <= shown[a][t] /\ shown[a][t] \in Int
      BY <1>1, <1>4, <2>2 DEF Holds, LawTexts, LawInv, ClockOK
    <2>4. ClockOK' /\ SnapshotOK'
      BY <1>1 DEF SourcesSame, LawInv, ClockOK, SnapshotOK, Holds
    <2>5. LookupOK'
      <3>1. /\ lawCall'.step = "page" /\ lawCall'.article = a /\ lawCall'.text = t
            /\ lawCall'.expires = snapshot.expires
        BY <2>1
      <3> HIDE DEF a, t
      <3>2. snapshot.expires \in Nat /\ snapshot.expires <= shown[a][t] + LawTTL /\ 0 <= shown[a][t]
        BY <2>2, <2>3, Term
      <3>3. QED
        BY <3>1, <3>2, <2>3, <1>1 DEF LookupOK
    <2>6. QED
      BY <2>1, <2>4, <2>5 DEF LawInv, CurrentEvidence
  <1>5. QED
    BY <1>2, <1>3, <1>4

LEMMA UseCatalogSafe ==
  ASSUME LawInv, UseCatalog
  PROVE  LawInv' /\ CurrentEvidence
  <1>1. lawCall' = NoLawCall /\ ~lawAnswer'.evidence /\ SourcesSame /\ UNCHANGED <<snapshot, shown>>
    BY DEF UseCatalog, AnswerLaw
  <1>2. QED
    BY <1>1, AnswerSafe

LEMMA CheckPageSafe ==
  ASSUME LawInv, CheckPage
  PROVE  LawInv' /\ CurrentEvidence
  <1> DEFINE a == lawCall.article
             t == lawCall.text
  <1>1. PICK readable \in BOOLEAN : AnswerLaw(AfterPage(readable, inForce[a]))
    BY DEF CheckPage
  <1>2. /\ lawCall.step = "page" /\ SourcesSame /\ UNCHANGED <<snapshot, shown>>
        /\ lawCall' = NoLawCall /\ lawAnswer' = AfterPage(readable, inForce[a])
    BY <1>1 DEF CheckPage, AnswerLaw
  <1>3. LawInv'
    BY <1>2, IdleSafe DEF LawInv, ClockOK, SnapshotOK, Holds, SourcesSame
  <1>4. CASE lawAnswer'.evidence
    <2>1. clock < lawCall.expires /\ (readable => t \in Shows[inForce[a]])
      BY <1>2, <1>4, NoEvidence DEF AfterPage
    <2>2. lawAnswer' = LawFound(a, t, TRUE, readable)
      BY <1>2, <2>1 DEF AfterPage
    <2>3. lawAnswer'.article = a /\ lawAnswer'.text = t /\ lawAnswer'.checked = readable
      BY <2>2 DEF LawFound
    <2>4. /\ a \in Articles /\ t \in Texts /\ lawCall.expires \in Nat
          /\ 0 <= shown[a][t] /\ lawCall.expires <= shown[a][t] + LawTTL
      BY <1>2 DEF LawInv, LookupOK
    <2>5. shown[a][t] \in Int /\ clock \in Nat
      BY <2>4 DEF LawInv, ClockOK
    <2>6. shown[a][t] # -1 /\ clock - shown[a][t] < LawTTL
      BY <2>1, <2>4, <2>5, Term
    <2>7. QED
      BY <1>3, <2>1, <2>3, <2>4, <2>6 DEF CurrentEvidence
  <1>5. CASE ~lawAnswer'.evidence
    BY <1>3, <1>5 DEF CurrentEvidence
  <1>6. QED
    BY <1>4, <1>5

\* The clock only moves forward, and the sources keep their types.
LEMMA WorldSafe ==
  ASSUME LawInv, Tick \/ Amend \/ PublishDataset
  PROVE  LawInv' /\ CurrentEvidence
  <1>1. UNCHANGED <<shown, snapshot, lawCall, lawAnswer>>
    BY DEF Tick, Amend, PublishDataset
  <1>2. clock' \in Nat /\ clock <= clock'
    BY DEF Tick, Amend, PublishDataset, LawInv, ClockOK
  <1>3. inForce' \in [Articles -> LawTexts] /\ dataset' \in [Articles -> LawTexts]
    BY DEF Tick, Amend, PublishDataset, LawInv, ClockOK
  <1>4. ClockOK'
    BY <1>1, <1>2, <1>3 DEF LawInv, ClockOK
  <1>5. SnapshotOK'
    BY <1>1 DEF LawInv, SnapshotOK, Holds
  <1>6. LookupOK'
    BY <1>1, <1>2 DEF LawInv, LookupOK, ClockOK
  <1>7. QED
    BY <1>1, <1>4, <1>5, <1>6 DEF LawInv, CurrentEvidence

LEMMA LawStepSafe == LawInv /\ [LawNext]_lawVars => LawInv' /\ CurrentEvidence
  <1> SUFFICES ASSUME LawInv, [LawNext]_lawVars PROVE LawInv' /\ CurrentEvidence
    OBVIOUS
  <1>1. CASE LookupArticle \/ SearchLaws \/ ResolveCitations
    BY <1>1, BeginLawSafe DEF LookupArticle, SearchLaws, ResolveCitations
  <1>2. CASE Download
    BY <1>2, DownloadSafe
  <1>3. CASE UseArticle
    BY <1>3, UseArticleSafe
  <1>4. CASE UseCatalog
    BY <1>4, UseCatalogSafe
  <1>5. CASE CheckPage
    BY <1>5, CheckPageSafe
  <1>6. CASE Tick \/ Amend \/ PublishDataset
    BY <1>6, WorldSafe
  <1>7. CASE UNCHANGED lawVars
    BY <1>7 DEF lawVars, LawInv, ClockOK, SnapshotOK, Holds, LookupOK, CurrentEvidence
  <1>8. QED
    BY <1>1, <1>2, <1>3, <1>4, <1>5, <1>6, <1>7 DEF LawNext

\* An article handed out as evidence has the text a download showed less than
\* the term ago, and one that the page of its law contains if that could be
\* read, whatever texts a page contains (LawSources!LawEvidenceIsCurrent).
THEOREM LawEvidenceStaysCurrent == LawSpec => LawEvidenceIsCurrent
  <1>1. LawSpec => [][CurrentEvidence]_lawVars
    BY LawInitSafe, LawStepSafe, PTL DEF LawSpec
  <1>2. QED
    BY <1>1 DEF LawEvidenceIsCurrent, CurrentEvidence

-----------------------------------------------------------------------------
(* The court.  While no page was missed, an index under construction has   *)
(* what the pages before the current one showed when it began, and a       *)
(* finished one has it all (IndexOK).                                      *)

\* The pages of the lists before page p of list l.
Before(l, p) ==
  {d \in Decisions :
     \E m \in DOMAIN ListPagesOf : \E q \in DOMAIN ListPagesOf[m] :
       (m < l \/ (m = l /\ q < p)) /\ d \in ListPagesOf[m][q]}

BuildOK ==
  courtCall.step = "index" =>
    /\ DOMAIN courtCall = {"step", "search", "ask", "list", "page"}
    /\ courtCall.list \in DOMAIN ListPagesOf
    /\ courtCall.page \in DOMAIN ListPagesOf[courtCall.list]
    /\ ~courtGap => courtBase \cap Before(courtCall.list, courtCall.page) \subseteq courtIndex

IndexOK ==
  courtCall.step # "index" /\ courtIndex # {} /\ ~courtGap => courtBase \subseteq courtIndex

CourtInv ==
  /\ decided \subseteq Decisions /\ courtBase \subseteq decided
  /\ BuildOK /\ IndexOK

\* A miss of what was there when the build began has a gap for its cause.
ExplainedMiss ==
  courtAnswer' # courtAnswer /\ courtAnswer'.status = "not_found" /\ ~courtGap' =>
    courtAnswer'.of \cap courtBase' = {}

LEMMA ListsHavePages ==
  /\ Len(ListPagesOf) \in Nat \ {0} /\ DOMAIN ListPagesOf = 1..Len(ListPagesOf)
  /\ \A l \in DOMAIN ListPagesOf :
       /\ Len(ListPagesOf[l]) \in Nat \ {0}
       /\ DOMAIN ListPagesOf[l] = 1..Len(ListPagesOf[l])
  BY ListPagesAssumption

LEMMA CourtInitSafe == CourtInit => CourtInv
  BY DEF CourtInit, CourtInv, BuildOK, IndexOK, NoCourtCall

LEMMA NothingBeforeFirst == Before(1, 1) = {}
  BY ListsHavePages DEF Before

\* What the answers say.
LEMMA CourtAnswers ==
  /\ CourtError.status = "error" /\ NoCourtAnswer.status = "none"
  /\ \A d : CourtMiss(d).of = {d}
  /\ \A H : CourtHits(H).status = "not_found" => CourtHits(H).of = {}
  BY DEF CourtError, NoCourtAnswer, CourtMiss, CourtHits

\* An index that has everything misses nothing that was there.
LEMMA FromIndexSafe ==
  ASSUME NEW ix, NEW d, FromIndex(ix, d), ~courtGap' => courtBase' \subseteq ix
  PROVE  courtCall'.step # "index" /\ ExplainedMiss
  <1>1. CASE d \in ix
    BY <1>1 DEF FromIndex, ToDetail, ExplainedMiss
  <1>2. CASE d \notin ix
    <2>1. courtCall' = NoCourtCall /\ courtAnswer' = CourtMiss(d)
      BY <1>2 DEF FromIndex, AnswerCourt
    <2>2. courtCall'.step # "index"
      BY <2>1 DEF NoCourtCall
    <2>3. QED
      BY <1>2, <2>1, <2>2, CourtAnswers DEF ExplainedMiss
  <1>3. QED
    BY <1>1, <1>2

LEMMA HitsSafe ==
  ASSUME NEW H, AnswerCourt(CourtHits(H))
  PROVE  courtCall'.step # "index" /\ ExplainedMiss
  <1>1. courtCall' = NoCourtCall /\ courtAnswer' = CourtHits(H)
    BY DEF AnswerCourt
  <1>2. courtCall'.step # "index"
    BY <1>1 DEF NoCourtCall
  <1>3. QED
    BY <1>1, <1>2, CourtAnswers DEF ExplainedMiss

LEMMA BuildIndexSafe ==
  ASSUME CourtInv, NEW search, NEW d, BuildIndex(search, d), UNCHANGED <<decided, courtIndex>>
  PROVE  CourtInv' /\ ExplainedMiss
  <1>1. /\ courtCall'.step = "index" /\ courtCall'.list = 1 /\ courtCall'.page = 1
        /\ DOMAIN courtCall' = {"step", "search", "ask", "list", "page"}
        /\ courtAnswer' = NoCourtAnswer /\ courtBase' = decided
    BY DEF BuildIndex
  <1>2. 1 \in DOMAIN ListPagesOf /\ 1 \in DOMAIN ListPagesOf[1]
    BY ListsHavePages
  <1>3. BuildOK'
    <2>1. courtBase' \cap Before(1, 1) \subseteq courtIndex'
      BY NothingBeforeFirst
    <2>2. QED
      BY <1>1, <1>2, <2>1 DEF BuildOK, Before
  <1>4. IndexOK'
    BY <1>1 DEF IndexOK
  <1>5. QED
    BY <1>1, <1>3, <1>4, CourtAnswers DEF CourtInv, ExplainedMiss

\* A call that uses a finished index leaves it and its build alone.
LEMMA UsedSafe ==
  ASSUME CourtInv, courtCall.step # "index", courtCall'.step # "index",
         UNCHANGED <<decided, courtIndex, courtBase, courtGap>>
  PROVE  CourtInv'
  BY DEF CourtInv, BuildOK, IndexOK

LEMMA LookupDecisionSafe ==
  ASSUME CourtInv, LookupDecision
  PROVE  CourtInv' /\ ExplainedMiss
  <1>1. PICK d \in Decisions :
          IF courtIndex # {} THEN FromIndex(courtIndex, d) /\ BuildSame ELSE BuildIndex(FALSE, d)
    BY DEF LookupDecision
  <1>2. courtCall.step = "idle" /\ UNCHANGED <<decided, courtIndex>>
    BY DEF LookupDecision
  <1>3. CASE courtIndex # {}
    <2>1. FromIndex(courtIndex, d) /\ UNCHANGED <<courtBase, courtGap>>
      BY <1>1, <1>3 DEF BuildSame
    <2>2. ~courtGap' => courtBase' \subseteq courtIndex
      BY <1>2, <1>3, <2>1 DEF CourtInv, IndexOK
    <2>3. QED
      BY <1>2, <2>1, <2>2, FromIndexSafe, UsedSafe
  <1>4. CASE courtIndex = {}
    BY <1>1, <1>2, <1>4, BuildIndexSafe
  <1>5. QED
    BY <1>3, <1>4

LEMMA SearchDecisionsSafe ==
  ASSUME CourtInv, SearchDecisions
  PROVE  CourtInv' /\ ExplainedMiss
  <1>1. courtCall.step = "idle" /\ UNCHANGED <<decided, courtIndex>>
    BY DEF SearchDecisions
  <1>2. CASE courtIndex # {}
    <2>1. PICK H \in SUBSET courtIndex : AnswerCourt(CourtHits(H))
      BY <1>2 DEF SearchDecisions
    <2>2. UNCHANGED <<courtBase, courtGap>>
      BY <1>2 DEF SearchDecisions, BuildSame
    <2>3. QED
      BY <1>1, <2>1, <2>2, HitsSafe, UsedSafe
  <1>3. CASE courtIndex = {}
    BY <1>1, <1>3, BuildIndexSafe DEF SearchDecisions
  <1>4. QED
    BY <1>2, <1>3

\* A list is followed by the next one only after its last page, unless one
\* was missed.
LEMMA PageAdded ==
  ASSUME NEW l \in DOMAIN ListPagesOf, NEW p \in DOMAIN ListPagesOf[l]
  PROVE  /\ p < Len(ListPagesOf[l]) =>
              /\ p + 1 \in DOMAIN ListPagesOf[l]
              /\ Before(l, p + 1) \subseteq Before(l, p) \cup ListPagesOf[l][p]
         /\ p = Len(ListPagesOf[l]) =>
              Before(l + 1, 1) \subseteq Before(l, p) \cup ListPagesOf[l][p]
         /\ l = Len(ListPagesOf) /\ p = Len(ListPagesOf[l]) =>
              Decisions \subseteq Before(l, p) \cup ListPagesOf[l][p]
         /\ l < Len(ListPagesOf) =>
              l + 1 \in DOMAIN ListPagesOf /\ 1 \in DOMAIN ListPagesOf[l + 1]
         /\ l \in Nat /\ l <= Len(ListPagesOf) /\ p \in Nat /\ p <= Len(ListPagesOf[l])
  <1>1. /\ l \in Nat /\ 1 <= l /\ l <= Len(ListPagesOf) /\ Len(ListPagesOf) \in Nat
        /\ p \in Nat /\ 1 <= p /\ p <= Len(ListPagesOf[l]) /\ Len(ListPagesOf[l]) \in Nat
    BY ListsHavePages
  <1>2. \A m \in DOMAIN ListPagesOf : m \in Nat /\ m <= Len(ListPagesOf)
    BY ListsHavePages
  <1>3. \A m \in DOMAIN ListPagesOf : \A q \in DOMAIN ListPagesOf[m] :
          q \in Nat /\ 1 <= q /\ q <= Len(ListPagesOf[m])
    BY ListsHavePages
  <1>4. p < Len(ListPagesOf[l]) =>
          /\ p + 1 \in DOMAIN ListPagesOf[l]
          /\ Before(l, p + 1) \subseteq Before(l, p) \cup ListPagesOf[l][p]
    <2>1. p < Len(ListPagesOf[l]) => p + 1 \in DOMAIN ListPagesOf[l]
      BY <1>1, ListsHavePages
    <2>2. ASSUME NEW d \in Before(l, p + 1)
          PROVE  d \in Before(l, p) \cup ListPagesOf[l][p]
      <3>1. PICK m \in DOMAIN ListPagesOf : \E q \in DOMAIN ListPagesOf[m] :
              (m < l \/ (m = l /\ q < p + 1)) /\ d \in ListPagesOf[m][q]
        BY DEF Before
      <3>2. PICK q \in DOMAIN ListPagesOf[m] :
              (m < l \/ (m = l /\ q < p + 1)) /\ d \in ListPagesOf[m][q]
        BY <3>1
      <3>3. m < l \/ (m = l /\ q < p) \/ (m = l /\ q = p)
        BY <1>1, <1>3, <3>2
      <3>4. QED
        BY <3>2, <3>3 DEF Before
    <2>3. QED
      BY <2>1, <2>2
  <1>5. p = Len(ListPagesOf[l]) =>
          Before(l + 1, 1) \subseteq Before(l, p) \cup ListPagesOf[l][p]
    <2>1. SUFFICES ASSUME p = Len(ListPagesOf[l]), NEW d \in Before(l + 1, 1)
                   PROVE  d \in Before(l, p) \cup ListPagesOf[l][p]
      OBVIOUS
    <2>2. PICK m \in DOMAIN ListPagesOf : \E q \in DOMAIN ListPagesOf[m] :
            (m < l + 1 \/ (m = l + 1 /\ q < 1)) /\ d \in ListPagesOf[m][q]
      BY DEF Before
    <2>3. PICK q \in DOMAIN ListPagesOf[m] :
            (m < l + 1 \/ (m = l + 1 /\ q < 1)) /\ d \in ListPagesOf[m][q]
      BY <2>2
    <2>4. m < l \/ (m = l /\ q < p) \/ (m = l /\ q = p)
      BY <1>1, <1>2, <1>3, <2>1, <2>3
    <2>5. QED
      BY <2>3, <2>4 DEF Before
  <1>6. l = Len(ListPagesOf) /\ p = Len(ListPagesOf[l]) =>
          Decisions \subseteq Before(l, p) \cup ListPagesOf[l][p]
    <2>1. SUFFICES ASSUME l = Len(ListPagesOf), p = Len(ListPagesOf[l]), NEW d \in Decisions
                   PROVE  d \in Before(l, p) \cup ListPagesOf[l][p]
      OBVIOUS
    <2>2. PICK m \in DOMAIN ListPagesOf : \E q \in DOMAIN ListPagesOf[m] : d \in ListPagesOf[m][q]
      BY DEF Decisions
    <2>3. PICK q \in DOMAIN ListPagesOf[m] : d \in ListPagesOf[m][q]
      BY <2>2
    <2>4. m < l \/ (m = l /\ q < p) \/ (m = l /\ q = p)
      BY <1>1, <1>2, <1>3, <2>1
    <2>5. QED
      BY <2>3, <2>4 DEF Before
  <1>7. l < Len(ListPagesOf) => l + 1 \in DOMAIN ListPagesOf /\ 1 \in DOMAIN ListPagesOf[l + 1]
    <2>1. l < Len(ListPagesOf) => l + 1 \in DOMAIN ListPagesOf
      BY <1>1, ListsHavePages
    <2>2. QED
      BY <2>1, ListsHavePages
  <1>8. QED
    BY <1>1, <1>4, <1>5, <1>6, <1>7

LEMMA ReadListPageSafe ==
  ASSUME CourtInv, ReadListPage
  PROVE  CourtInv' /\ ExplainedMiss
  <1> DEFINE l == courtCall.list
             p == courtCall.page
             page == ListPagesOf[l][p]
  <1>1. PICK readable \in BOOLEAN :
          LET seen == IF readable THEN page \cap decided ELSE {}
              ix == courtIndex \cup seen
              np == NextPage(readable) IN
          /\ courtIndex' = ix
          /\ courtGap' = (courtGap \/ ~readable)
          /\ IF np[1] <= Len(ListPagesOf)
             THEN /\ courtCall' = [courtCall EXCEPT !.list = np[1], !.page = np[2]]
                  /\ UNCHANGED courtAnswer
             ELSE AfterIndex(ix)
    BY DEF ReadListPage
  <1>2. courtCall.step = "index" /\ UNCHANGED <<decided, courtBase>>
    BY DEF ReadListPage
  <1>3. /\ l \in DOMAIN ListPagesOf /\ p \in DOMAIN ListPagesOf[l]
        /\ ~courtGap => courtBase \cap Before(l, p) \subseteq courtIndex
        /\ decided \subseteq Decisions /\ courtBase \subseteq decided
    BY <1>2 DEF CourtInv, BuildOK
  <1> DEFINE nl == NextPage(readable)[1]
             nq == NextPage(readable)[2]
  <1>4. ~courtGap' =>
          /\ readable /\ ~courtGap
          /\ courtBase \cap (Before(l, p) \cup page) \subseteq courtIndex'
    BY <1>1, <1>3
  <1>5. /\ readable /\ p < Len(ListPagesOf[l]) => nl = l /\ nq = p + 1
        /\ ~(readable /\ p < Len(ListPagesOf[l])) => nl = l + 1 /\ nq = 1
    BY DEF NextPage
  <1>6. CASE nl <= Len(ListPagesOf)
    <2>1. /\ courtCall' = [courtCall EXCEPT !.list = nl, !.page = nq]
          /\ courtAnswer' = courtAnswer
      BY <1>1, <1>6
    <2>2. nl \in DOMAIN ListPagesOf /\ nq \in DOMAIN ListPagesOf[nl]
      <3>1. CASE readable /\ p < Len(ListPagesOf[l])
        BY <3>1, <1>3, <1>5, PageAdded
      <3>2. CASE ~(readable /\ p < Len(ListPagesOf[l]))
        <4>1. nl = l + 1 /\ nq = 1
          BY <3>2, <1>5
        <4>2. l < Len(ListPagesOf)
          BY <4>1, <1>3, <1>6, PageAdded, ListsHavePages
        <4>3. QED
          BY <4>1, <4>2, <1>3, PageAdded
      <3>3. QED
        BY <3>1, <3>2
    <2>3. ASSUME ~courtGap' PROVE courtBase \cap Before(nl, nq) \subseteq courtIndex'
      <3>1. CASE p < Len(ListPagesOf[l])
        <4>1. Before(nl, nq) \subseteq Before(l, p) \cup page
          BY <3>1, <2>3, <1>3, <1>4, <1>5, PageAdded
        <4>2. QED
          BY <4>1, <2>3, <1>4
      <3>2. CASE ~(p < Len(ListPagesOf[l]))
        <4>1. p = Len(ListPagesOf[l])
          BY <3>2, <1>3, PageAdded, ListsHavePages
        <4>2. Before(nl, nq) \subseteq Before(l, p) \cup page
          BY <3>2, <4>1, <1>3, <1>5, PageAdded
        <4>3. QED
          BY <4>2, <2>3, <1>4
      <3>3. QED
        BY <3>1, <3>2
    <2>4. CourtInv'
      <3>1. courtBase' = courtBase /\ decided' = decided
        BY <1>2
      <3>2. DOMAIN courtCall = {"step", "search", "ask", "list", "page"}
        BY <1>2 DEF CourtInv, BuildOK
      <3> HIDE DEF nl, nq
      <3>3. /\ courtCall'.step = "index" /\ courtCall'.list = nl /\ courtCall'.page = nq
            /\ DOMAIN courtCall' = {"step", "search", "ask", "list", "page"}
        BY <2>1, <3>2, <1>2
      <3>4. BuildOK'
        <4>1. courtBase \cap Before(nl, nq) \subseteq courtIndex' \/ courtGap'
          BY <2>3
        <4>2. QED
          BY <3>1, <3>3, <2>2, <4>1 DEF BuildOK, Before
      <3>5. QED
        BY <3>1, <3>3, <3>4, <1>3 DEF CourtInv, IndexOK
    <2>5. QED
      BY <2>1, <2>4 DEF ExplainedMiss
  <1>7. CASE ~(nl <= Len(ListPagesOf))
    <2>1. AfterIndex(courtIndex')
      BY <1>1, <1>7
    <2>2. ASSUME ~courtGap' PROVE courtBase' \subseteq courtIndex'
      <3>1. l = Len(ListPagesOf) /\ p = Len(ListPagesOf[l])
        <4>1. /\ l \in Nat /\ l <= Len(ListPagesOf) /\ p \in Nat /\ p <= Len(ListPagesOf[l])
              /\ Len(ListPagesOf) \in Nat /\ Len(ListPagesOf[l]) \in Nat
          BY <1>3, PageAdded, ListsHavePages
        <4>2. readable
          BY <2>2, <1>4
        <4> HIDE DEF nl, nq, l, p
        <4>3. ~(p < Len(ListPagesOf[l]))
          BY <4>1, <4>2, <1>5, <1>7
        <4>4. nl = l + 1
          BY <4>3, <1>5
        <4>5. QED
          BY <4>1, <4>3, <4>4, <1>7
      <3>2. Decisions \subseteq Before(l, p) \cup page
        BY <3>1, <1>3, PageAdded
      <3>3. QED
        BY <3>2, <2>2, <1>2, <1>3, <1>4
    <2>3. courtCall'.step # "index" /\ ExplainedMiss
      <3>1. CASE courtIndex' = {}
        <4>1. courtCall' = NoCourtCall /\ courtAnswer' = CourtError
          BY <2>1, <3>1 DEF AfterIndex, AnswerCourt
        <4>2. courtCall'.step # "index"
          BY <4>1 DEF NoCourtCall
        <4>3. QED
          BY <4>1, <4>2, CourtAnswers DEF ExplainedMiss
      <3>2. CASE courtIndex' # {} /\ courtCall.search
        <4>1. PICK H \in SUBSET courtIndex' : AnswerCourt(CourtHits(H))
          BY <2>1, <3>2 DEF AfterIndex
        <4>2. QED
          BY <4>1, HitsSafe
      <3>3. CASE courtIndex' # {} /\ ~courtCall.search
        <4>1. FromIndex(courtIndex', courtCall.ask)
          BY <2>1, <3>3 DEF AfterIndex
        <4>2. QED
          BY <4>1, <2>2, FromIndexSafe
      <3>4. QED
        BY <3>1, <3>2, <3>3
    <2>4. CourtInv'
      BY <1>2, <1>3, <2>2, <2>3 DEF CourtInv, BuildOK, IndexOK
    <2>5. QED
      BY <2>3, <2>4
  <1>8. QED
    BY <1>6, <1>7

LEMMA ReadDecisionSafe ==
  ASSUME CourtInv, ReadDecision
  PROVE  CourtInv' /\ ExplainedMiss
  <1>1. /\ courtCall.step = "detail" /\ courtCall' = NoCourtCall
        /\ UNCHANGED <<decided, courtIndex, courtBase, courtGap>>
        /\ courtAnswer'.status # "not_found"
    BY CourtAnswers DEF ReadDecision, AnswerCourt
  <1>2. courtCall'.step # "index"
    BY <1>1 DEF NoCourtCall
  <1>3. QED
    BY <1>1, <1>2, UsedSafe DEF ExplainedMiss

LEMMA CancelCourtSafe ==
  ASSUME CourtInv, CancelCourt
  PROVE  CourtInv' /\ ExplainedMiss
  <1>1. /\ courtCall' = NoCourtCall /\ courtAnswer' = NoCourtAnswer
        /\ UNCHANGED <<decided, courtIndex, courtBase>>
        /\ courtGap' = (courtGap \/ courtCall.step = "index")
    BY DEF CancelCourt
  <1>2. courtCall'.step # "index"
    BY <1>1 DEF NoCourtCall
  <1>3. QED
    BY <1>1, <1>2, CourtAnswers DEF CourtInv, BuildOK, IndexOK, ExplainedMiss

LEMMA DecideSafe ==
  ASSUME CourtInv, Decide
  PROVE  CourtInv' /\ ExplainedMiss
  <1>1. UNCHANGED <<courtIndex, courtCall, courtAnswer, courtBase, courtGap>>
    BY DEF Decide
  <1>2. decided \subseteq decided' /\ decided' \subseteq Decisions
    BY DEF Decide, CourtInv
  <1>3. BuildOK' /\ IndexOK'
    BY <1>1 DEF CourtInv, BuildOK, IndexOK, Before
  <1>4. QED
    BY <1>1, <1>2, <1>3 DEF CourtInv, ExplainedMiss

LEMMA CourtStepSafe == CourtInv /\ [CourtNext]_courtVars => CourtInv' /\ ExplainedMiss
  <1> SUFFICES ASSUME CourtInv, [CourtNext]_courtVars PROVE CourtInv' /\ ExplainedMiss
    OBVIOUS
  <1>1. CASE UNCHANGED courtVars
    BY <1>1 DEF courtVars, CourtInv, BuildOK, IndexOK, ExplainedMiss
  <1>2. QED
    BY <1>1, LookupDecisionSafe, SearchDecisionsSafe, ReadListPageSafe, ReadDecisionSafe,
       CancelCourtSafe, DecideSafe DEF CourtNext

\* The court's provider misses a decision that was published before its
\* index was built only if the build missed a page or was cancelled
\* (LawSources!CourtMissIsExplained).
THEOREM CourtMissesAreExplained == CourtSpec => CourtMissIsExplained
  <1>1. CourtSpec => [][ExplainedMiss]_courtVars
    BY CourtInitSafe, CourtStepSafe, PTL DEF CourtSpec
  <1>2. QED
    BY <1>1 DEF CourtMissIsExplained, ExplainedMiss

-----------------------------------------------------------------------------
(* The external provider.  What a search will send is masked before its    *)
(* first attempt (OutOK).  The pages of a text follow one another from     *)
(* where its reading began, all of one length (ReadingOK).                 *)

AllSafe(T) == \A t \in T : ScreenStatus(t) = "safe"

OutOK == recall.step = "search" => AllSafe(recall.out)

\* Pages without a gap or an overlap from one offset to another.
Follow(pages, from, to) ==
  /\ from \in Nat /\ to \in Nat /\ from <= to
  /\ Len(pages) \in Nat /\ DOMAIN pages = 1..Len(pages)
  /\ \A i \in DOMAIN pages :
       /\ pages[i].at \in Nat /\ pages[i].chars \in Nat
       /\ from <= pages[i].at /\ pages[i].at + pages[i].chars <= to
  /\ \A i, j \in DOMAIN pages : i < j => pages[i].at + pages[i].chars <= pages[j].at
  /\ \A n \in Nat : from <= n /\ n < to =>
       \E i \in DOMAIN pages : pages[i].at <= n /\ n < pages[i].at + pages[i].chars

OfLength(pages, total) == \A i \in DOMAIN pages : LengthOf[pages[i].version] = total

PageFields == {"step", "from", "at", "left", "pages", "total"}

ReadingOK ==
  recall.step = "page" =>
    /\ DOMAIN recall = PageFields
    /\ Follow(recall.pages, recall.from, recall.at)
    /\ recall.total = -1 => recall.pages = <<>>
    /\ recall.total # -1 => OfLength(recall.pages, recall.total)

RecallInv ==
  /\ held \in Versions
  /\ AllSafe(sent) /\ OutOK /\ ReadingOK /\ FulltextIsWhole

LEMMA Bounds ==
  /\ LengthOf \in [Versions -> Nat] /\ PageChars \in Nat /\ MaxOffset \in Nat
  BY TlrRecallAssumption

\* An answer other than the record of a text claims no whole text.
LEMMA NotWhole ==
  ASSUME "whole" \notin DOMAIN recalled'
  PROVE  FulltextIsWhole'
  BY DEF FulltextIsWhole

LEMMA OtherAnswers ==
  /\ "whole" \notin DOMAIN NoRecalled
  /\ \A code : "whole" \notin DOMAIN RecallError(code)
  /\ "whole" \notin DOMAIN Unavailable /\ "whole" \notin DOMAIN SchemaChanged
  /\ \A st, n, trunc : "whole" \notin DOMAIN PublicLawResult(st, n, trunc)
  BY DEF NoRecalled, RecallError, Unavailable, SchemaChanged, PublicLawResult

LEMMA RecallInitSafe == RecallInit => RecallInv
  BY OtherAnswers
  DEF RecallInit, RecallInv, AllSafe, OutOK, ReadingOK, FulltextIsWhole, NoRecall, NoRecalled

\* A call that ends without a whole text.
LEMMA EndSafe ==
  ASSUME RecallInv, NEW a, "whole" \notin DOMAIN a, AnswerRecall(a), UNCHANGED held, AllSafe(sent')
  PROVE  RecallInv'
  <1>1. recall' = NoRecall /\ recalled' = a
    BY DEF AnswerRecall
  <1>2. recall'.step = "idle"
    BY <1>1 DEF NoRecall
  <1>3. OutOK' /\ ReadingOK'
    BY <1>2 DEF OutOK, ReadingOK
  <1>4. FulltextIsWhole'
    BY <1>1, NotWhole
  <1>5. QED
    BY <1>3, <1>4 DEF RecallInv, AllSafe

-----------------------------------------------------------------------------
(* What is sent.                                                           *)

\* What the screen lets pass is safe once masked.
LEMMA MaskedIsSafe ==
  ASSUME NEW t \in OutText, Allowed(t)
  PROVE  ScreenStatus(Masked(t)) = "safe"
  <1>1. ~t.hard /\ ~t.specific
    BY DEF Allowed, ScreenStatus, OutText
  <1>2. ~Masked(t).hard /\ ~Masked(t).specific /\ Masked(t).pii = {}
    BY <1>1 DEF Masked, OutText
  <1>3. QED
    BY <1>2 DEF ScreenStatus

LEMMA FilterIsSafe ==
  ASSUME NEW f \in OutText, AuthorityGoesOut(f)
  PROVE  ScreenStatus(f) = "safe"
  BY DEF AuthorityGoesOut, ScreenStatus, NoText

LEMMA StartSearchSafe ==
  ASSUME RecallInv, StartSearch
  PROVE  RecallInv'
  <1>1. PICK t \in OutText, limit \in 1..MaxResults :
          IF Allowed(t)
          THEN /\ recall' = [step |-> "search", kind |-> "judgments", out |-> {Masked(t)},
                             limit |-> limit, over |-> FALSE, attempt |-> 0]
               /\ recalled' = NoRecalled
          ELSE AnswerRecall(RecallError("PRIVACY_EXTERNAL_QUERY_BLOCKED"))
    BY DEF StartSearch
  <1>2. UNCHANGED <<sent, held>> /\ AllSafe(sent')
    BY DEF StartSearch, HeldSame, RecallInv, AllSafe
  <1>3. CASE Allowed(t)
    <2>1. recall'.step = "search" /\ recall'.out = {Masked(t)} /\ recalled' = NoRecalled
      BY <1>1, <1>3
    <2>2. OutOK' /\ ReadingOK'
      BY <1>3, <2>1, MaskedIsSafe DEF OutOK, AllSafe, ReadingOK
    <2>3. FulltextIsWhole'
      BY <2>1, NotWhole, OtherAnswers
    <2>4. QED
      BY <1>2, <2>2, <2>3 DEF RecallInv, AllSafe
  <1>4. CASE ~Allowed(t)
    BY <1>1, <1>2, <1>4, EndSafe, OtherAnswers
  <1>5. QED
    BY <1>3, <1>4

LEMMA StartAdministrativeSafe ==
  ASSUME RecallInv, StartAdministrative
  PROVE  RecallInv'
  <1>1. PICK t \in OutText, f \in OutText, limit \in 1..MaxResults, over \in BOOLEAN, supported \in BOOLEAN :
          IF supported /\ AuthorityGoesOut(f) /\ Allowed(t)
          THEN /\ recall' = [step |-> "search", kind |-> "interpretations", out |-> {Masked(t), f},
                             limit |-> limit, over |-> over, attempt |-> 0]
               /\ recalled' = NoRecalled
          ELSE AnswerRecall(PublicLawResult("blocked", 0, FALSE))
    BY DEF StartAdministrative
  <1>2. UNCHANGED <<sent, held>> /\ AllSafe(sent')
    BY DEF StartAdministrative, HeldSame, RecallInv, AllSafe
  <1>3. CASE supported /\ AuthorityGoesOut(f) /\ Allowed(t)
    <2>1. recall'.step = "search" /\ recall'.out = {Masked(t), f} /\ recalled' = NoRecalled
      BY <1>1, <1>3
    <2>2. OutOK' /\ ReadingOK'
      BY <1>3, <2>1, MaskedIsSafe, FilterIsSafe DEF OutOK, AllSafe, ReadingOK
    <2>3. FulltextIsWhole'
      BY <2>1, NotWhole, OtherAnswers
    <2>4. QED
      BY <1>2, <2>2, <2>3 DEF RecallInv, AllSafe
  <1>4. CASE ~(supported /\ AuthorityGoesOut(f) /\ Allowed(t))
    BY <1>1, <1>2, <1>4, EndSafe, OtherAnswers
  <1>5. QED
    BY <1>3, <1>4

LEMMA SearchRequestSafe ==
  ASSUME RecallInv, SearchRequest
  PROVE  RecallInv'
  <1>1. /\ recall.step = "search" /\ sent' = sent \cup recall.out /\ UNCHANGED held
    BY DEF SearchRequest, HeldSame
  <1>2. AllSafe(sent')
    BY <1>1 DEF RecallInv, OutOK, AllSafe
  <1>3. CASE /\ recall' = [recall EXCEPT !.attempt = @ + 1] /\ UNCHANGED recalled
    <2>1. recall'.step = "search" /\ recall'.out = recall.out
      BY <1>1, <1>3
    <2>2. OutOK' /\ ReadingOK'
      BY <1>1, <2>1 DEF RecallInv, OutOK, ReadingOK, AllSafe
    <2>3. FulltextIsWhole'
      BY <1>3 DEF RecallInv, FulltextIsWhole
    <2>4. QED
      BY <1>1, <1>2, <2>2, <2>3 DEF RecallInv, AllSafe
  <1>4. CASE \E r \in {"none", "malformed", "results"}, n \in 0..(MaxResults + 1) :
               AnswerRecall(SearchAnswer(r, n))
    <2>1. PICK r \in {"none", "malformed", "results"}, n \in 0..(MaxResults + 1) :
            AnswerRecall(SearchAnswer(r, n))
      BY <1>4
    <2>2. "whole" \notin DOMAIN SearchAnswer(r, n)
      BY OtherAnswers DEF SearchAnswer
    <2>3. QED
      BY <1>1, <1>2, <2>1, <2>2, EndSafe
  <1>5. QED
    BY <1>3, <1>4 DEF SearchRequest

-----------------------------------------------------------------------------
(* The text of a candidate.                                                *)

LEMMA NoPages ==
  ASSUME NEW from \in Nat
  PROVE  Follow(<<>>, from, from)
  BY DEF Follow

\* A page that begins where the others end makes them longer by itself.
LEMMA PageFollows ==
  ASSUME NEW pages, NEW from, NEW to, Follow(pages, from, to),
         NEW x, x.at = to, NEW chars \in Nat, x.chars = chars
  PROVE  Follow(Append(pages, x), from, to + chars)
  <1> DEFINE all == Append(pages, x)
             n == Len(pages)
  <1>1. n \in Nat /\ DOMAIN pages = 1..n /\ from \in Nat /\ to \in Nat /\ from <= to
    BY DEF Follow
  <1>2. /\ Len(all) = n + 1 /\ DOMAIN all = 1..(n + 1)
        /\ \A i \in 1..n : all[i] = pages[i]
        /\ all[n + 1] = x
    BY <1>1
  <1> HIDE DEF all
  <1>3. \A i \in DOMAIN all : i \in DOMAIN pages \/ i = n + 1
    BY <1>1, <1>2
  <1>4. \A i \in DOMAIN all :
          /\ all[i].at \in Nat /\ all[i].chars \in Nat
          /\ from <= all[i].at /\ all[i].at + all[i].chars <= to + chars
    <2>1. \A i \in DOMAIN pages :
            /\ pages[i].at \in Nat /\ pages[i].chars \in Nat
            /\ from <= pages[i].at /\ pages[i].at + pages[i].chars <= to
      BY DEF Follow
    <2>2. \A i \in DOMAIN pages : all[i] = pages[i]
      BY <1>1, <1>2
    <2> HIDE DEF n
    <2>3. QED
      BY <1>1, <1>2, <1>3, <2>1, <2>2
  <1>5. \A i, j \in DOMAIN all : i < j => all[i].at + all[i].chars <= all[j].at
    <2>1. SUFFICES ASSUME NEW i \in DOMAIN all, NEW j \in DOMAIN all, i < j
                   PROVE  all[i].at + all[i].chars <= all[j].at
      OBVIOUS
    <2>2. i \in DOMAIN pages
      BY <1>1, <1>2, <2>1
    <2>3. CASE j \in DOMAIN pages
      <3>1. all[i] = pages[i] /\ all[j] = pages[j]
        BY <1>1, <1>2, <2>2, <2>3
      <3>2. pages[i].at + pages[i].chars <= pages[j].at
        BY <2>1, <2>2, <2>3 DEF Follow
      <3>3. QED
        BY <3>1, <3>2
    <2>4. CASE j = n + 1
      <3>1. all[i] = pages[i] /\ all[j].at = to
        BY <1>1, <1>2, <2>2, <2>4
      <3>2. pages[i].at + pages[i].chars <= to
        BY <2>2 DEF Follow
      <3>3. QED
        BY <3>1, <3>2
    <2>5. QED
      BY <1>3, <2>3, <2>4
  <1>6. ASSUME NEW m \in Nat, from <= m, m < to + chars
        PROVE  \E i \in DOMAIN all : all[i].at <= m /\ m < all[i].at + all[i].chars
    <2>1. CASE m < to
      <3>1. PICK i \in DOMAIN pages : pages[i].at <= m /\ m < pages[i].at + pages[i].chars
        BY <1>6, <2>1 DEF Follow
      <3>2. i \in DOMAIN all /\ all[i] = pages[i]
        BY <1>1, <1>2
      <3>3. QED
        BY <3>1, <3>2
    <2>2. CASE ~(m < to)
      <3>1. n + 1 \in DOMAIN all /\ all[n + 1].at = to /\ all[n + 1].chars = chars
        BY <1>1, <1>2
      <3>2. to <= m
        BY <1>1, <1>6, <2>2
      <3>3. QED
        BY <1>6, <3>1, <3>2
    <2>3. QED
      BY <2>1, <2>2
  <1>7. /\ from \in Nat /\ to + chars \in Nat /\ from <= to + chars
        /\ Len(all) \in Nat /\ DOMAIN all = 1..Len(all)
    BY <1>1, <1>2
  <1>8. Follow(all, from, to + chars)
    BY <1>4, <1>5, <1>6, <1>7 DEF Follow
  <1>9. QED
    BY <1>8 DEF all

LEMMA LengthKept ==
  ASSUME NEW pages, Len(pages) \in Nat, DOMAIN pages = 1..Len(pages), NEW total,
         OfLength(pages, total), NEW x, LengthOf[x.version] = total
  PROVE  OfLength(Append(pages, x), total)
  <1> DEFINE all == Append(pages, x)
             n == Len(pages)
  <1>1. /\ DOMAIN all = 1..(n + 1)
        /\ \A i \in 1..n : all[i] = pages[i]
        /\ all[n + 1] = x
    OBVIOUS
  <1> HIDE DEF all
  <1>2. \A i \in DOMAIN all : (i \in DOMAIN pages /\ all[i] = pages[i]) \/ all[i] = x
    BY <1>1
  <1>3. OfLength(all, total)
    BY <1>2 DEF OfLength
  <1>4. QED
    BY <1>3 DEF all

\* Pages that follow one another from the first character to the last.
LEMMA WholeText ==
  ASSUME NEW ps, NEW total, Follow(ps, 0, total), OfLength(ps, total),
         recalled'.pages = ps, recalled'.total = total
  PROVE  FulltextIsWhole'
  <1> DEFINE Covers(i) == ps[i].at..(ps[i].at + ps[i].chars - 1)
  <1>1. /\ total \in Nat
        /\ \A i \in DOMAIN ps : ps[i].at \in Nat /\ ps[i].chars \in Nat /\ ps[i].at + ps[i].chars <= total
        /\ \A i, j \in DOMAIN ps : i < j => ps[i].at + ps[i].chars <= ps[j].at
        /\ \A i \in DOMAIN ps : i \in Nat
        /\ \A n \in Nat : n < total => \E i \in DOMAIN ps : ps[i].at <= n /\ n < ps[i].at + ps[i].chars
    BY DEF Follow
  <1>2. UNION {Covers(i) : i \in DOMAIN ps} = 0..(total - 1)
    <2>1. ASSUME NEW i \in DOMAIN ps, NEW n \in Covers(i)
          PROVE  n \in 0..(total - 1)
      BY <1>1
    <2>2. ASSUME NEW n \in 0..(total - 1)
          PROVE  \E i \in DOMAIN ps : n \in Covers(i)
      <3>1. n \in Nat /\ n < total
        BY <1>1
      <3>2. PICK i \in DOMAIN ps : ps[i].at <= n /\ n < ps[i].at + ps[i].chars
        BY <1>1, <3>1
      <3>3. n \in Covers(i)
        BY <1>1, <3>1, <3>2
      <3>4. QED
        BY <3>3
    <2> HIDE DEF Covers
    <2>3. QED
      BY <2>1, <2>2
  <1>3. ASSUME NEW i \in DOMAIN ps, NEW j \in DOMAIN ps, i # j
        PROVE  Covers(i) \cap Covers(j) = {}
    <2>1. i < j \/ j < i
      BY <1>1, <1>3
    <2>2. ps[i].at + ps[i].chars <= ps[j].at \/ ps[j].at + ps[j].chars <= ps[i].at
      BY <1>1, <2>1
    <2>3. QED
      BY <1>1, <2>2
  <1>4. QED
    BY <1>2, <1>3 DEF FulltextIsWhole, OfLength

LEMMA StartFulltextSafe ==
  ASSUME RecallInv, StartFulltext
  PROVE  RecallInv'
  <1>1. UNCHANGED <<sent, held>> /\ AllSafe(sent')
    BY DEF StartFulltext, HeldSame, RecallInv, AllSafe
  <1>2. CASE AnswerRecall(RecallError("INVALID_IDENTIFIER"))
    BY <1>1, <1>2, EndSafe, OtherAnswers
  <1>3. CASE \E from \in 0..MaxOffset, n \in 1..MaxPages :
               /\ recall' = [step |-> "page", from |-> from, at |-> from, left |-> n, pages |-> <<>>, total |-> -1]
               /\ recalled' = NoRecalled
    <2>1. PICK from \in 0..MaxOffset, n \in 1..MaxPages :
            /\ recall' = [step |-> "page", from |-> from, at |-> from, left |-> n, pages |-> <<>>, total |-> -1]
            /\ recalled' = NoRecalled
      BY <1>3
    <2>2. /\ recall'.step = "page" /\ recall'.from = from /\ recall'.at = from
          /\ recall'.pages = <<>> /\ recall'.total = -1 /\ DOMAIN recall' = PageFields
      BY <2>1 DEF PageFields
    <2>3. Follow(<<>>, from, from)
      BY NoPages, Bounds
    <2>4. ReadingOK' /\ OutOK'
      BY <2>2, <2>3 DEF ReadingOK, OutOK
    <2>5. FulltextIsWhole'
      BY <2>1, NotWhole, OtherAnswers
    <2>6. QED
      BY <1>1, <2>4, <2>5 DEF RecallInv, AllSafe
  <1>4. QED
    BY <1>2, <1>3 DEF StartFulltext

LEMMA FaultsSafe == \A a \in HandleFaults : "whole" \notin DOMAIN a
  BY OtherAnswers DEF HandleFaults

LEMMA ReadPageSafe ==
  ASSUME RecallInv, ReadPage
  PROVE  RecallInv'
  <1>1. recall.step = "page" /\ UNCHANGED <<sent, held>> /\ AllSafe(sent')
    BY DEF ReadPage, HeldSame, RecallInv, AllSafe
  <1>2. CASE \E a \in HandleFaults : AnswerRecall(a)
    BY <1>1, <1>2, EndSafe, FaultsSafe
  <1>3. ASSUME NEW p \in FulltextPages,
               LET pages == Append(recall.pages, [at |-> recall.at, chars |-> p.chars, version |-> held]) IN
               CASE ~PageFits(p) -> AnswerRecall(SchemaChanged)
                 [] PageFits(p) /\ p.truncated /\ recall.left > 1 ->
                      /\ recall' = [recall EXCEPT !.at = @ + p.chars, !.left = @ - 1,
                                                  !.pages = pages, !.total = p.total]
                      /\ UNCHANGED recalled
                 [] OTHER -> AnswerRecall(FulltextRecord(pages, p.total, p.truncated))
        PROVE  RecallInv'
    <2> DEFINE x == [at |-> recall.at, chars |-> p.chars, version |-> held]
               pages == Append(recall.pages, x)
    <2>1. /\ DOMAIN recall = PageFields
          /\ Follow(recall.pages, recall.from, recall.at)
          /\ recall.total = -1 => recall.pages = <<>>
          /\ recall.total # -1 => OfLength(recall.pages, recall.total)
      BY <1>1 DEF RecallInv, ReadingOK
    <2>2. p.chars \in Nat /\ p.total = LengthOf[held] /\ p.total \in Nat
      BY Bounds DEF FulltextPages, RecallInv
    <2>3. x.at = recall.at /\ x.chars = p.chars /\ x.version = held
      OBVIOUS
    <2> HIDE DEF x
    <2>4. Follow(pages, recall.from, recall.at + p.chars)
      BY <2>1, <2>2, <2>3, PageFollows
    <2>5. CASE ~PageFits(p)
      <3>1. AnswerRecall(SchemaChanged)
        BY <1>3, <2>5
      <3>2. QED
        BY <1>1, <3>1, EndSafe, OtherAnswers
    <2>6. ASSUME PageFits(p) PROVE OfLength(pages, p.total)
      <3>1. recall.total = -1 \/ recall.total = p.total
        BY <2>6 DEF PageFits
      <3>2. OfLength(recall.pages, p.total)
        BY <2>1, <2>2, <3>1 DEF OfLength
      <3>3. Len(recall.pages) \in Nat /\ DOMAIN recall.pages = 1..Len(recall.pages)
        BY <2>1 DEF Follow
      <3>4. QED
        BY <2>2, <2>3, <3>2, <3>3, LengthKept
    <2>7. CASE PageFits(p) /\ p.truncated /\ recall.left > 1
      <3>1. /\ recall' = [recall EXCEPT !.at = @ + p.chars, !.left = @ - 1,
                                         !.pages = pages, !.total = p.total]
            /\ recalled' = recalled
        BY <1>3, <2>7 DEF x
      <3> HIDE DEF pages
      <3>2. /\ recall'.step = "page" /\ recall'.from = recall.from
            /\ recall'.at = recall.at + p.chars /\ recall'.pages = pages /\ recall'.total = p.total
            /\ DOMAIN recall' = PageFields
        BY <1>1, <2>1, <3>1 DEF PageFields
      <3>3. ReadingOK' /\ OutOK'
        BY <3>2, <2>2, <2>4, <2>6, <2>7 DEF ReadingOK, OutOK, OfLength
      <3>4. FulltextIsWhole'
        BY <3>1 DEF RecallInv, FulltextIsWhole
      <3>5. QED
        BY <1>1, <3>3, <3>4 DEF RecallInv, AllSafe
    <2>8. CASE PageFits(p) /\ ~(p.truncated /\ recall.left > 1)
      <3>1. AnswerRecall(FulltextRecord(pages, p.total, p.truncated))
        BY <1>3, <2>8 DEF x
      <3> HIDE DEF pages
      <3>2. recall' = NoRecall /\ recalled' = FulltextRecord(pages, p.total, p.truncated)
        BY <3>1 DEF AnswerRecall
      <3>3. /\ recalled'.pages = pages /\ recalled'.total = p.total
            /\ recalled'.status = "found" => recall.from = 0 /\ ~p.truncated
        BY <3>2 DEF FulltextRecord
      <3>4. FulltextIsWhole'
        <4>1. CASE recalled'.status = "found"
          <5>1. recall.at + p.chars = p.total /\ recall.from = 0
            BY <3>3, <4>1, <2>8 DEF PageFits
          <5>2. Follow(pages, 0, p.total)
            BY <2>4, <5>1
          <5>3. QED
            BY <3>3, <5>2, <2>6, <2>8, WholeText
        <4>2. CASE recalled'.status # "found"
          BY <4>2 DEF FulltextIsWhole
        <4>3. QED
          BY <4>1, <4>2
      <3>5. recall'.step = "idle"
        BY <3>2 DEF NoRecall
      <3>6. QED
        BY <1>1, <3>4, <3>5 DEF RecallInv, AllSafe, OutOK, ReadingOK
    <2>9. QED
      BY <2>5, <2>7, <2>8
  <1>4. QED
    BY <1>2, <1>3 DEF ReadPage

-----------------------------------------------------------------------------
(* The case history, and the provider.                                     *)

LEMMA HistorySafe ==
  ASSUME RecallInv, StartHistory \/ ReadHistory
  PROVE  RecallInv'
  <1>1. UNCHANGED <<sent, held>> /\ AllSafe(sent')
    BY DEF StartHistory, ReadHistory, HeldSame, RecallInv, AllSafe
  <1>2. CASE recall' = [step |-> "history"] /\ recalled' = NoRecalled
    <2>1. recall'.step = "history"
      BY <1>2
    <2>2. FulltextIsWhole'
      BY <1>2, NotWhole, OtherAnswers
    <2>3. QED
      BY <1>1, <2>1, <2>2 DEF RecallInv, AllSafe, OutOK, ReadingOK
  <1>3. ASSUME NEW a, AnswerRecall(a), "whole" \notin DOMAIN a
        PROVE  RecallInv'
    BY <1>1, <1>3, EndSafe
  <1>4. "whole" \notin DOMAIN [status |-> "partial", entries |-> {}]
    OBVIOUS
  <1>5. \A entries : "whole" \notin DOMAIN HistoryAnswer(entries)
    BY OtherAnswers DEF HistoryAnswer
  <1>6. QED
    BY <1>2, <1>3, <1>4, <1>5, OtherAnswers, FaultsSafe DEF StartHistory, ReadHistory

LEMMA ProviderSafe ==
  ASSUME RecallInv, (\E v \in Versions : Replace(v)) \/ ExpireHandle \/ RenewHandle
  PROVE  RecallInv'
  <1>1. UNCHANGED <<recall, recalled, sent>>
    BY DEF Replace, ExpireHandle, RenewHandle
  <1>2. held' \in Versions
    BY DEF Replace, ExpireHandle, RenewHandle, RecallInv
  <1>3. QED
    BY <1>1, <1>2 DEF RecallInv, AllSafe, OutOK, ReadingOK, FulltextIsWhole

LEMMA RecallStepSafe == RecallInv /\ [RecallNext]_recallVars => RecallInv'
  <1> SUFFICES ASSUME RecallInv, [RecallNext]_recallVars PROVE RecallInv'
    OBVIOUS
  <1>1. CASE UNCHANGED recallVars
    BY <1>1 DEF recallVars, RecallInv, AllSafe, OutOK, ReadingOK, FulltextIsWhole
  <1>2. QED
    BY <1>1, StartSearchSafe, StartAdministrativeSafe, SearchRequestSafe, StartFulltextSafe,
       ReadPageSafe, HistorySafe, ProviderSafe DEF RecallNext

LEMMA RecallInvariance == RecallSpec => []RecallInv
  BY RecallInitSafe, RecallStepSafe, PTL DEF RecallSpec

\* Nothing leaves the process that the screen would stop or would mask, on
\* the first attempt of a search or on a retry (TlrRecall!NothingPrivateLeaves).
THEOREM NothingPrivateIsSent == RecallSpec => []NothingPrivateLeaves
  <1>1. RecallInv => NothingPrivateLeaves
    BY DEF RecallInv, AllSafe, NothingPrivateLeaves
  <1>2. QED
    BY <1>1, RecallInvariance, PTL

\* A text that is called whole has every character once, from versions of
\* one length, whatever the provider replaces between two pages
\* (TlrRecall!FulltextIsWhole).
THEOREM WholeTextsAreWhole == RecallSpec => []FulltextIsWhole
  <1>1. RecallInv => FulltextIsWhole
    BY DEF RecallInv
  <1>2. QED
    BY <1>1, RecallInvariance, PTL

-----------------------------------------------------------------------------
(* Types.  What a download installs was begun within the clock's bounds    *)
(* (LawTypes), the court's index holds decisions of its lists (CourtTypes) *)
(* and a search sends texts in the screen's terms (RecallTypes).           *)

LawTypes ==
  /\ LawTypeOK
  /\ lawCall.step = "download" => lawCall.began \in 0..MaxTime

LEMMA AnswerTypes ==
  /\ NoLawCall.step = "idle" /\ NoLawAnswer.status = "none" /\ LawMiss.status = "not_found"
  /\ \A code : LawError(code).status = "error"
  BY DEF NoLawCall, NoLawAnswer, LawMiss, LawError

LEMMA LoadFailedTypes ==
  ASSUME NEW code, LoadFailed(code)
  PROVE  lawCall'.step = "idle" /\ lawAnswer'.status \in {"citations", "error"}
  BY AnswerTypes DEF LoadFailed, AnswerLaw

LEMMA LawTypesStep == LawTypes /\ [LawNext]_lawVars => LawTypes'
  <1> SUFFICES ASSUME LawTypes, [LawNext]_lawVars PROVE LawTypes'
    OBVIOUS
  <1> USE LawSourcesAssumption
  <1>1. ASSUME NEW purpose, NEW a, BeginLaw(purpose, a)
        PROVE  LawTypes'
    BY <1>1, AnswerTypes DEF BeginLaw, SourcesSame, NoSnapshot, LawTypes, LawTypeOK
  <1>2. CASE Download
    <2>1. UNCHANGED <<clock, inForce, dataset>>
      BY <1>2 DEF Download, SourcesSame
    <2>2. CASE /\ \E code \in {"OFFICIAL_SOURCE_UNAVAILABLE", "OFFICIAL_PARSE_ERROR"} : LoadFailed(code)
               /\ UNCHANGED <<snapshot, shown>>
      <3>1. lawCall'.step = "idle" /\ lawAnswer'.status \in {"citations", "error"}
        BY <2>2, LoadFailedTypes
      <3>2. QED
        BY <2>1, <2>2, <3>1 DEF LawTypes, LawTypeOK
    <2>3. CASE /\ shown' = [a \in Articles |-> [t \in Texts |-> IF dataset[a] = t THEN clock ELSE shown[a][t]]]
               /\ LET s == Installed(lawCall.began, dataset) IN
                  IF Fresh(s, clock)
                  THEN /\ snapshot' = s
                       /\ lawCall' = [step |-> "use", purpose |-> lawCall.purpose, article |-> lawCall.article]
                       /\ UNCHANGED lawAnswer
                  ELSE LoadFailed("SOURCE_STALE") /\ UNCHANGED snapshot
      <3>1. shown' \in [Articles -> [Texts -> -1..MaxTime]]
        BY <2>3 DEF LawTypes, LawTypeOK
      <3>2. lawCall.began \in 0..MaxTime
        BY <1>2 DEF Download, LawTypes
      <3>3. Installed(lawCall.began, dataset).fetched = lawCall.began
        BY DEF Installed
      <3>4. CASE Fresh(Installed(lawCall.began, dataset), clock)
        <4>1. snapshot'.fetched \in 0..MaxTime /\ lawCall'.step = "use" /\ UNCHANGED lawAnswer
          BY <2>3, <3>2, <3>3, <3>4
        <4>2. QED
          BY <2>1, <3>1, <4>1 DEF LawTypes, LawTypeOK
      <3>5. CASE LoadFailed("SOURCE_STALE") /\ UNCHANGED snapshot
        <4>1. lawCall'.step = "idle" /\ lawAnswer'.status \in {"citations", "error"}
          BY <3>5, LoadFailedTypes
        <4>2. QED
          BY <2>1, <3>1, <3>5, <4>1 DEF LawTypes, LawTypeOK
      <3>6. QED
        BY <2>3, <3>4, <3>5
    <2>4. QED
      BY <1>2, <2>2, <2>3 DEF Download
  <1>3. CASE UseArticle
    <2>1. UNCHANGED <<clock, inForce, dataset, snapshot, shown>>
      BY <1>3 DEF UseArticle, SourcesSame
    <2>2. lawCall'.step \in {"idle", "page"} /\ lawAnswer'.status \in {"error", "not_found", "found", lawAnswer.status}
      BY <1>3 DEF UseArticle, AnswerLaw, NoLawCall, LawError, LawMiss, LawFound
    <2>3. QED
      BY <2>1, <2>2 DEF LawTypes, LawTypeOK
  <1>4. CASE UseCatalog
    <2>1. UNCHANGED <<clock, inForce, dataset, snapshot, shown>>
      BY <1>4 DEF UseCatalog, SourcesSame
    <2>2. lawCall'.step = "idle" /\ lawAnswer'.status \in {"citations", "not_found", "hits"}
      BY <1>4, AnswerTypes DEF UseCatalog, AnswerLaw
    <2>3. QED
      BY <2>1, <2>2 DEF LawTypes, LawTypeOK
  <1>5. CASE CheckPage
    <2>1. UNCHANGED <<clock, inForce, dataset, snapshot, shown>>
      BY <1>5 DEF CheckPage, SourcesSame
    <2>2. lawCall'.step = "idle" /\ lawAnswer'.status \in {"error", "found"}
      <3>1. PICK readable \in BOOLEAN : AnswerLaw(AfterPage(readable, inForce[lawCall.article]))
        BY <1>5 DEF CheckPage
      <3> DEFINE found == LawFound(lawCall.article, lawCall.text, TRUE, readable)
      <3>2. found.status = "found"
        BY DEF LawFound
      <3> HIDE DEF found
      <3>3. lawAnswer' \in {LawError("SOURCE_STALE"), LawError("OFFICIAL_CONTENT_CONFLICT"), found}
        BY <3>1, Zenon DEF AnswerLaw, AfterPage, found
      <3>4. lawCall'.step = "idle"
        BY <3>1 DEF AnswerLaw, NoLawCall
      <3>5. QED
        BY <3>2, <3>3, <3>4 DEF LawError
    <2>3. QED
      BY <2>1, <2>2 DEF LawTypes, LawTypeOK
  <1>6. CASE Tick \/ Amend \/ PublishDataset
    BY <1>6 DEF Tick, Amend, PublishDataset, LawTypes, LawTypeOK
  <1>7. CASE UNCHANGED lawVars
    BY <1>7 DEF lawVars, LawTypes, LawTypeOK
  <1>8. QED
    BY <1>1, <1>2, <1>3, <1>4, <1>5, <1>6, <1>7
    DEF LawNext, LookupArticle, SearchLaws, ResolveCitations

\* The clock, the texts and what is in memory stay within their bounds
\* whatever is looked up, downloaded and amended.
THEOREM LawTypeCorrect == LawSpec => []LawTypeOK
  <1>1. LawInit => LawTypes
    BY LawSourcesAssumption, AnswerTypes DEF LawInit, LawTypes, LawTypeOK, NoSnapshot
  <1>2. QED
    BY <1>1, LawTypesStep, PTL DEF LawSpec, LawTypes

\* What the index may hold is bounded by the lists it is read from.
CourtTypes == CourtTypeOK /\ CourtInv

LEMMA CourtTypesStep == CourtTypes /\ [CourtNext]_courtVars => CourtTypes'
  <1> SUFFICES ASSUME CourtTypes, [CourtNext]_courtVars PROVE CourtTypes'
    OBVIOUS
  <1>1. CourtInv'
    BY CourtStepSafe DEF CourtTypes
  <1>2. /\ NoCourtCall.step = "idle" /\ NoCourtAnswer.status = "none" /\ CourtError.status = "error"
        /\ \A H : CourtHits(H).status \in {"not_found", "hits"}
        /\ \A d : CourtMiss(d).status = "not_found"
    BY DEF NoCourtCall, NoCourtAnswer, CourtError, CourtHits, CourtMiss
  <1>3. ASSUME NEW ix, NEW d, FromIndex(ix, d)
        PROVE  courtCall'.step \in {"idle", "detail"} /\ courtAnswer'.status \in {"not_found", courtAnswer.status}
    BY <1>2, <1>3 DEF FromIndex, ToDetail, AnswerCourt
  <1>4. ASSUME NEW s, NEW d, BuildIndex(s, d)
        PROVE  courtCall'.step = "index" /\ courtAnswer'.status = "none" /\ courtGap' = FALSE
    BY <1>2, <1>4 DEF BuildIndex
  <1>5. CASE LookupDecision
    BY <1>1, <1>3, <1>4, <1>5 DEF LookupDecision, BuildSame, CourtTypes, CourtTypeOK, CourtInv
  <1>6. CASE SearchDecisions
    BY <1>1, <1>2, <1>4, <1>6 DEF SearchDecisions, AnswerCourt, BuildSame, CourtTypes, CourtTypeOK, CourtInv
  <1>7. CASE ReadListPage
    <2>1. courtIndex' \subseteq Decisions
      BY <1>7 DEF ReadListPage, CourtTypes, CourtTypeOK
    <2>2. courtGap' \in BOOLEAN
      BY <1>7, Zenon DEF ReadListPage
    <2>3. ASSUME NEW ix, AfterIndex(ix)
          PROVE  /\ courtCall'.step \in {"idle", "detail"}
                 /\ courtAnswer'.status \in {"error", "not_found", "hits", courtAnswer.status}
      BY <1>2, <1>3, <2>3 DEF AfterIndex, AnswerCourt
    <2>4. ASSUME NEW l, NEW p, courtCall' = [courtCall EXCEPT !.list = l, !.page = p]
          PROVE  courtCall'.step = "index"
      <3>1. courtCall.step = "index" /\ "step" \in DOMAIN courtCall
        BY <1>7 DEF ReadListPage, CourtTypes, CourtInv, BuildOK
      <3>2. QED
        BY <2>4, <3>1
    <2> DEFINE New == /\ courtCall'.step \in {"idle", "index", "detail"}
                      /\ courtAnswer'.status \in {"error", "not_found", "hits", courtAnswer.status}
    <2>5. New
      <3>1. ASSUME NEW l, NEW p, courtCall' = [courtCall EXCEPT !.list = l, !.page = p], UNCHANGED courtAnswer
            PROVE  New
        BY <2>4, <3>1
      <3>2. ASSUME NEW ix, AfterIndex(ix)
            PROVE  New
        BY <2>3, <3>2
      <3> HIDE DEF New
      <3>3. QED
        BY <1>7, <3>1, <3>2 DEF ReadListPage
    <2>6. QED
      BY <1>1, <2>1, <2>2, <2>5 DEF CourtTypes, CourtTypeOK, CourtInv
  <1>8. CASE ReadDecision
    BY <1>1, <1>2, <1>8 DEF ReadDecision, AnswerCourt, CourtTypes, CourtTypeOK, CourtInv
  <1>9. CASE CancelCourt
    <2>1. courtGap' \in BOOLEAN
      BY <1>9, Zenon DEF CancelCourt
    <2>2. QED
      BY <1>1, <1>2, <1>9, <2>1 DEF CancelCourt, CourtTypes, CourtTypeOK, CourtInv
  <1>10. CASE Decide
    BY <1>1, <1>10 DEF Decide, CourtTypes, CourtTypeOK, CourtInv
  <1>11. CASE UNCHANGED courtVars
    BY <1>1, <1>11 DEF courtVars, CourtTypes, CourtTypeOK, CourtInv
  <1>12. QED
    BY <1>5, <1>6, <1>7, <1>8, <1>9, <1>10, <1>11 DEF CourtNext

\* The court's index never holds what its lists do not name.
THEOREM CourtTypeCorrect == CourtSpec => []CourtTypeOK
  <1>1. CourtInit => CourtTypes
    <2>1. CourtInit => courtGap \in BOOLEAN
      BY Zenon DEF CourtInit
    <2>2. CourtInit => CourtTypeOK
      BY <2>1 DEF CourtInit, CourtTypeOK, NoCourtCall, NoCourtAnswer
    <2>3. QED
      BY <2>2, CourtInitSafe DEF CourtTypes
  <1>2. QED
    BY <1>1, CourtTypesStep, PTL DEF CourtSpec, CourtTypes

RecallTypes ==
  /\ RecallTypeOK
  /\ recall.step \in {"search", "page"} => "step" \in DOMAIN recall
  /\ recall.step = "search" => {"out", "kind"} \subseteq DOMAIN recall
  /\ recall.step = "search" => recall.out \subseteq OutText /\ recall.kind \in {"judgments", "interpretations"}

LEMMA MaskedType == \A t \in OutText : Masked(t) \in OutText
  BY DEF Masked, OutText

LEMMA FaultTypes == \A a \in HandleFaults : a.status \in {"error", "not_found"}
  BY DEF HandleFaults, Unavailable, RecallError

LEMMA RecallTypesStep == RecallTypes /\ [RecallNext]_recallVars => RecallTypes'
  <1> SUFFICES ASSUME RecallTypes, [RecallNext]_recallVars PROVE RecallTypes'
    OBVIOUS
  <1> DEFINE Statuses == {"none", "error", "found", "not_found", "partial", "blocked", "retry_required"}
  <1>1. ASSUME NEW a, AnswerRecall(a), a.status \in Statuses, sent' \subseteq OutText, HeldSame
        PROVE  RecallTypes'
    BY <1>1 DEF AnswerRecall, NoRecall, HeldSame, RecallTypes, RecallTypeOK
  <1>2. /\ \A c : RecallError(c).status = "error"
        /\ \A st, n : PublicLawResult(st, n, FALSE).status = st
        /\ Unavailable.status = "error" /\ SchemaChanged.status = "error"
        /\ NoRecalled.status = "none"
    BY DEF RecallError, PublicLawResult, Unavailable, SchemaChanged, NoRecalled
  <1>3. sent \subseteq OutText
    BY DEF RecallTypes, RecallTypeOK
  <1>4. ASSUME NEW out \in SUBSET OutText, NEW kind \in {"judgments", "interpretations"},
               NEW limit, NEW over, recalled' = NoRecalled, UNCHANGED sent, HeldSame,
               recall' = [step |-> "search", kind |-> kind, out |-> out, limit |-> limit,
                          over |-> over, attempt |-> 0]
        PROVE  RecallTypes'
    <2>1. /\ recall'.step = "search" /\ recall'.out = out /\ recall'.kind = kind
          /\ {"step", "out", "kind"} \subseteq DOMAIN recall'
      BY <1>4
    <2>2. QED
      BY <1>2, <1>3, <1>4, <2>1 DEF HeldSame, RecallTypes, RecallTypeOK
  <1>5. CASE StartSearch
    <2>1. sent' \subseteq OutText /\ UNCHANGED sent /\ HeldSame
      BY <1>3, <1>5 DEF StartSearch
    <2>2. PICK t \in OutText, limit \in 1..MaxResults :
            IF Allowed(t)
            THEN /\ recall' = [step |-> "search", kind |-> "judgments", out |-> {Masked(t)},
                               limit |-> limit, over |-> FALSE, attempt |-> 0]
                 /\ recalled' = NoRecalled
            ELSE AnswerRecall(RecallError("PRIVACY_EXTERNAL_QUERY_BLOCKED"))
      BY <1>5 DEF StartSearch
    <2>3. {Masked(t)} \in SUBSET OutText
      BY MaskedType
    <2>4. RecallError("PRIVACY_EXTERNAL_QUERY_BLOCKED").status \in Statuses
      BY <1>2
    <2> HIDE DEF Statuses
    <2>5. QED
      BY <1>1, <1>4, <2>1, <2>2, <2>3, <2>4
  <1>6. CASE StartAdministrative
    <2>1. sent' \subseteq OutText /\ UNCHANGED sent /\ HeldSame
      BY <1>3, <1>6 DEF StartAdministrative
    <2>2. PICK t \in OutText, f \in OutText, limit \in 1..MaxResults, over \in BOOLEAN :
            \/ /\ recall' = [step |-> "search", kind |-> "interpretations", out |-> {Masked(t), f},
                              limit |-> limit, over |-> over, attempt |-> 0]
               /\ recalled' = NoRecalled
            \/ AnswerRecall(PublicLawResult("blocked", 0, FALSE))
      BY <1>6 DEF StartAdministrative
    <2>3. {Masked(t), f} \in SUBSET OutText
      BY MaskedType
    <2>4. PublicLawResult("blocked", 0, FALSE).status \in Statuses
      BY <1>2
    <2> HIDE DEF Statuses
    <2>5. QED
      BY <1>1, <1>4, <2>1, <2>2, <2>3, <2>4
  <1>7. CASE SearchRequest
    <2>1. sent' \subseteq OutText /\ HeldSame
      BY <1>3, <1>7 DEF SearchRequest, RecallTypes
    <2>2. \A r, n : SearchAnswer(r, n).status \in Statuses
      BY DEF SearchAnswer, PublicLawResult, RecallError, Unavailable, SchemaChanged
    <2>3. CASE recall' = [recall EXCEPT !.attempt = @ + 1] /\ UNCHANGED recalled
      <3>1. recall.step = "search" /\ {"step", "out", "kind"} \subseteq DOMAIN recall
        BY <1>7 DEF SearchRequest, RecallTypes
      <3>2. /\ recall'.step = recall.step /\ recall'.out = recall.out /\ recall'.kind = recall.kind
            /\ DOMAIN recall' = DOMAIN recall
        BY <2>3, <3>1
      <3>3. QED
        BY <2>1, <2>3, <3>1, <3>2 DEF HeldSame, RecallTypes, RecallTypeOK
    <2>4. ASSUME NEW r, NEW n, AnswerRecall(SearchAnswer(r, n))
          PROVE  RecallTypes'
      BY <1>1, <2>1, <2>2, <2>4
    <2>5. QED
      BY <1>7, <2>3, <2>4 DEF SearchRequest
  <1>8. CASE StartFulltext
    <2>1. sent' \subseteq OutText /\ HeldSame
      BY <1>3, <1>8 DEF StartFulltext
    <2>2. CASE AnswerRecall(RecallError("INVALID_IDENTIFIER"))
      BY <1>1, <1>2, <2>1, <2>2
    <2>3. CASE recall'.step = "page" /\ "step" \in DOMAIN recall' /\ recalled' = NoRecalled
      BY <1>2, <2>1, <2>3 DEF HeldSame, RecallTypes, RecallTypeOK
    <2>4. QED
      BY <1>8, <2>2, <2>3 DEF StartFulltext
  <1>9. CASE ReadPage
    <2>1. sent' \subseteq OutText /\ HeldSame
      BY <1>3, <1>9 DEF ReadPage
    <2>2. \A p, n, b : FulltextRecord(p, n, b).status \in Statuses
      BY DEF FulltextRecord
    <2>3. ASSUME NEW l, NEW at, NEW p, NEW n, UNCHANGED recalled,
                 recall' = [recall EXCEPT !.at = at, !.left = l, !.pages = p, !.total = n]
          PROVE  RecallTypes'
      <3>1. recall.step = "page" /\ "step" \in DOMAIN recall
        BY <1>9 DEF ReadPage, RecallTypes
      <3>2. recall'.step = "page" /\ DOMAIN recall' = DOMAIN recall
        BY <2>3, <3>1
      <3>3. QED
        BY <2>1, <2>3, <3>1, <3>2 DEF HeldSame, RecallTypes, RecallTypeOK
    <2>4. ASSUME NEW a \in HandleFaults, AnswerRecall(a)
          PROVE  RecallTypes'
      BY <1>1, <2>1, <2>4, FaultTypes
    <2>5. ASSUME NEW p, NEW n, NEW b, AnswerRecall(FulltextRecord(p, n, b))
          PROVE  RecallTypes'
      BY <1>1, <2>1, <2>2, <2>5
    <2>6. CASE AnswerRecall(SchemaChanged)
      BY <1>1, <1>2, <2>1, <2>6
    <2>7. ASSUME NEW p, NEW pages,
                 CASE ~PageFits(p) -> AnswerRecall(SchemaChanged)
                   [] PageFits(p) /\ p.truncated /\ recall.left > 1 ->
                        /\ recall' = [recall EXCEPT !.at = @ + p.chars, !.left = @ - 1,
                                                    !.pages = pages, !.total = p.total]
                        /\ UNCHANGED recalled
                   [] OTHER -> AnswerRecall(FulltextRecord(pages, p.total, p.truncated))
          PROVE  RecallTypes'
      <3>1. CASE ~PageFits(p)
        BY <2>6, <2>7, <3>1, Zenon
      <3>2. CASE PageFits(p) /\ p.truncated /\ recall.left > 1
        BY <2>3, <2>7, <3>2
      <3>3. CASE PageFits(p) /\ ~(p.truncated /\ recall.left > 1)
        BY <2>5, <2>7, <3>3, Zenon
      <3>4. QED
        BY <3>1, <3>2, <3>3
    <2>8. QED
      BY <1>9, <2>4, <2>7, Zenon DEF ReadPage
  <1>10. CASE StartHistory
    BY <1>1, <1>2, <1>3, <1>10 DEF StartHistory, HeldSame, RecallTypes, RecallTypeOK
  <1>11. CASE ReadHistory
    <2>1. sent' \subseteq OutText /\ HeldSame
      BY <1>3, <1>11 DEF ReadHistory
    <2>2. \A entries : HistoryAnswer(entries).status \in Statuses
      BY <1>2 DEF HistoryAnswer
    <2>3. \A a \in HandleFaults \cup {SchemaChanged, [status |-> "partial", entries |-> {}]} : a.status \in Statuses
      BY <1>2, FaultTypes
    <2>4. ASSUME NEW a, AnswerRecall(a), a.status \in Statuses
          PROVE  RecallTypes'
      BY <1>1, <2>1, <2>4
    <2> HIDE DEF Statuses
    <2>5. QED
      BY <1>11, <2>2, <2>3, <2>4 DEF ReadHistory
  <1>12. CASE (\E v \in Versions : Replace(v)) \/ ExpireHandle \/ RenewHandle
    BY <1>12 DEF Replace, ExpireHandle, RenewHandle, RecallTypes, RecallTypeOK
  <1>13. CASE UNCHANGED recallVars
    BY <1>13 DEF recallVars, RecallTypes, RecallTypeOK
  <1>14. QED
    BY <1>5, <1>6, <1>7, <1>8, <1>9, <1>10, <1>11, <1>12, <1>13 DEF RecallNext

\* Calls of the external provider and their answers are of the kinds the
\* callers tell apart, and what leaves is a text the screen has looked at.
THEOREM RecallTypeCorrect == RecallSpec => []RecallTypeOK
  <1>1. RecallInit => RecallTypes
    BY DEF RecallInit, RecallTypes, RecallTypeOK, NoRecall, NoRecalled
  <1>2. QED
    BY <1>1, RecallTypesStep, PTL DEF RecallSpec, RecallTypes

=============================================================================
