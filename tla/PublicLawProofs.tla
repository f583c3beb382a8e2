--------------------------- MODULE PublicLawProofs ---------------------------
(***************************************************************************)
(* Proofs about PublicLaw for any datasets, limits, candidates, bills and  *)
(* sources.                                                                *)
(*                                                                         *)
(* What a validation says is decided long after the backend answered.  The *)
(* invariant carries the reasons along: an undated dataset that was passed *)
(* is among the incomplete ones (Covered), so what the Legislative Yuan    *)
(* returns for a history is not complete (RawHonest); a result found empty *)
(* in its scope was made of a clean answer, its sources were promoted, and *)
(* without metadata there is no result (OutcomeEarned); an accepted        *)
(* absence is that of the result (VerdictEarned).                          *)
(*                                                                         *)
(* At the end the three modules of MCRecords, whose instance TLC explores  *)
(* as one run, are shown to be separate in it (RecordsAreSeparate).        *)
(***************************************************************************)
EXTENDS MCRecords, RecordProofs, TLAPS

Steps == {"backend", "returned", "adapt", "resolve", "done"}
LyAsk == [step : Steps, of : {"ly"}, through : {"tool", "adapter"}, history : BOOLEAN,
          scope : Scopes, named : BOOLEAN, bill : Bills \cup {NoBill}, issuer : BOOLEAN]
OtherAsk == [step : Steps, of : {"deployer"}, through : {"adapter"}, issuer : BOOLEAN]
LyRun == [at : Nat \ {0}, left : Nat \cup {-1}, cands : SUBSET LyIds, seen : SUBSET LyIds,
          linked : SUBSET Bills, incomplete : SUBSET STRING, failed : SUBSET STRING,
          truncated : BOOLEAN, noted : BOOLEAN]
RawSet == [status : {"found", "not_found", "partial", "error", "raised", "foreign"},
           candidates : SUBSET LyIds, sources : SUBSET Sources, complete : BOOLEAN,
           truncated : BOOLEAN, noted : BOOLEAN]
AdaptedSet == [status : {"found", "not_found_in_scope", "partial", "retry_required", "blocked"},
               candidates : SUBSET LyIds, sources : SUBSET Sources, complete : BOOLEAN,
               absence : BOOLEAN, truncated : BOOLEAN]
VerdictSet == [decision : {"accepted", "qualified", "blocked"}, eligible : SUBSET Sources,
               law : SUBSET Sources, absence : BOOLEAN]

Forms ==
  /\ ask = NoAsk \/ ask \in LyAsk \cup OtherAsk
  /\ ly = NoLy \/ (ly \in LyRun /\ ask \in LyAsk /\ ask.history)
  /\ raw = NoRaw \/ raw \in RawSet
  /\ verdict = NoVerdict \/ verdict \in VerdictSet
  /\ receipt \in [own : BOOLEAN, current : BOOLEAN]

\* What is set at each step of a request.
Stages ==
  /\ ask.step = "idle" =>
        ly = NoLy /\ raw = NoRaw /\ outcome = NoOutcome /\ verdict = NoVerdict
  /\ ask.step = "backend" => raw = NoRaw /\ outcome = NoOutcome /\ verdict = NoVerdict
  /\ ask.step \in {"returned", "adapt"} =>
        raw \in RawSet /\ outcome = NoOutcome /\ verdict = NoVerdict
  /\ ask.step = "adapt" => promoted \in [raw.sources -> Fates]
  /\ ask.step \in {"adapt", "resolve"} => ask.through = "adapter"
  /\ ask.step = "resolve" => verdict = NoVerdict
  /\ ask.step \in {"backend", "returned", "adapt"} => ask.issuer

\* An undated dataset that was passed is an incomplete one.
Covered ==
  ly.at <= Len(LyDatasets) + 1
  /\ (ly \in LyRun => \A i \in 1..Len(LyDatasets) :
         LyDatasets[i] \notin LyDated /\ (i < ly.at \/ (i = ly.at /\ ly.left # -1))
            => LyDatasets[i] \in ly.incomplete)

\* The connector answers for itself, and never completely about a history.
RawHonest ==
  ask \in LyAsk /\ raw \in RawSet =>
     /\ raw.status \in {"found", "not_found", "partial", "error"}
     /\ ask.history => ~raw.complete

CleanRaw ==
  /\ raw \in RawSet
  /\ raw.status = "not_found" /\ raw.complete /\ raw.candidates = {} /\ raw.sources = {}
  /\ ~raw.noted /\ ~raw.truncated

\* What a result stands on.
OutcomeEarned ==
  ask.step \in {"resolve", "done"} =>
    \/ /\ ask.through = "tool" /\ ask.step = "done"
       /\ outcome.status \in {"found", "not_found", "partial", "error"}
    \/ /\ ask.through = "adapter"
       /\ outcome = Unbuilt \/ outcome \in AdaptedSet
       /\ outcome \in AdaptedSet => \A s \in outcome.sources : promoted[s] = "promoted"
       /\ outcome.status = "not_found_in_scope" => CleanRaw
       /\ ~ask.issuer => outcome.status = "blocked"

VerdictEarned ==
  verdict # NoVerdict =>
    /\ ask.step = "done" /\ ask.through = "adapter"
    /\ verdict.decision = "accepted" /\ verdict.absence => outcome.status = "not_found_in_scope"

PInv == Forms /\ Stages /\ Covered /\ RawHonest /\ OutcomeEarned /\ VerdictEarned

-----------------------------------------------------------------------------
LEMMA StepOf ==
  ASSUME NEW x \in Steps, ask \in LyAsk \cup OtherAsk
  PROVE  /\ [ask EXCEPT !.step = x] \in LyAsk \cup OtherAsk
         /\ [ask EXCEPT !.step = x].step = x
         /\ [ask EXCEPT !.step = x].through = ask.through
         /\ [ask EXCEPT !.step = x].of = ask.of
         /\ [ask EXCEPT !.step = x].issuer = ask.issuer
         /\ ask \in LyAsk => /\ [ask EXCEPT !.step = x] \in LyAsk
                             /\ [ask EXCEPT !.step = x].history = ask.history
         /\ ask \notin LyAsk => [ask EXCEPT !.step = x] \notin LyAsk
<1>1. CASE ask \in LyAsk
  BY <1>1 DEF LyAsk
<1>2. CASE ask \in OtherAsk
  <2>1. ask.of = "deployer" /\ [ask EXCEPT !.step = x].of = "deployer"
    BY <1>2 DEF OtherAsk
  <2>2. \A y \in LyAsk : y.of = "ly"
    BY DEF LyAsk
  <2>3. ask \notin LyAsk /\ [ask EXCEPT !.step = x] \notin LyAsk
    BY <2>1, <2>2
  <2> QED
    BY <1>2, <2>1, <2>3 DEF OtherAsk
<1> QED
  BY <1>1, <1>2

LEMMA InitPInv == PublicInit => PInv
<1> SUFFICES ASSUME PublicInit PROVE PInv
  OBVIOUS
<1>1. ask.step = "idle" /\ verdict = NoVerdict /\ raw.status = "none" /\ ly.at = 0
  BY DEF PublicInit, NoAsk, NoRaw, NoLy
<1>2. raw \notin RawSet /\ ly \notin LyRun /\ Len(LyDatasets) \in Nat
  BY <1>1, PublicLawAssumption DEF RawSet, LyRun
<1>3. Forms
  BY DEF PublicInit, Forms
<1>4. Stages
  BY <1>1 DEF Stages, PublicInit
<1>5. Covered /\ RawHonest /\ OutcomeEarned /\ VerdictEarned
  BY <1>1, <1>2 DEF Covered, RawHonest, OutcomeEarned, VerdictEarned
<1> QED
  BY <1>3, <1>4, <1>5 DEF PInv

\* A request is issued: nothing of the last one is left.
LEMMA IssueKeeps ==
  ASSUME PInv, LyRequest \/ OtherRequest
  PROVE  PInv'
<1>1. PICK request :
        /\ Issue(request)
        /\ request.issuer \in BOOLEAN /\ request.through \in {"tool", "adapter"}
        /\ request.through = "tool" => request.issuer
        /\ \A x \in Steps : LET k == [request EXCEPT !.step = x] IN
              /\ k \in LyAsk \cup OtherAsk /\ k.step = x /\ k.through = request.through
              /\ k.issuer = request.issuer
  <2>1. CASE LyRequest
    <3>1. PICK through \in {"tool", "adapter"}, history \in BOOLEAN, scope \in Scopes,
              named \in BOOLEAN, bill \in Bills \cup {NoBill}, issuer \in BOOLEAN :
            /\ through = "tool" => history /\ issuer
            /\ named \/ bill # NoBill
            /\ Issue([step |-> "idle", of |-> "ly", through |-> through, history |-> history,
                      scope |-> scope, named |-> named, bill |-> bill, issuer |-> issuer])
      BY <2>1, Zenon DEF LyRequest
    <3> DEFINE request == [step |-> "idle", of |-> "ly", through |-> through, history |-> history,
                           scope |-> scope, named |-> named, bill |-> bill, issuer |-> issuer]
    <3>2. request.issuer \in BOOLEAN /\ request.through \in {"tool", "adapter"}
          /\ (request.through = "tool" => request.issuer)
      BY <3>1
    <3>3. ASSUME NEW x \in Steps
          PROVE  /\ [request EXCEPT !.step = x] \in LyAsk
                 /\ [request EXCEPT !.step = x].step = x
                 /\ [request EXCEPT !.step = x].through = request.through
                 /\ [request EXCEPT !.step = x].issuer = request.issuer
      BY DEF LyAsk
    <3>4. Issue(request)
      BY <3>1
    <3> HIDE DEF request
    <3> QED
      BY <3>2, <3>3, <3>4
  <2>2. CASE OtherRequest
    <3>1. PICK issuer \in BOOLEAN : Issue([step |-> "idle", of |-> "deployer",
                                           through |-> "adapter", issuer |-> issuer])
      BY <2>2 DEF OtherRequest
    <3> DEFINE request == [step |-> "idle", of |-> "deployer", through |-> "adapter",
                           issuer |-> issuer]
    <3>2. request.issuer \in BOOLEAN /\ request.through = "adapter"
      OBVIOUS
    <3>3. ASSUME NEW x \in Steps
          PROVE  /\ [request EXCEPT !.step = x] \in OtherAsk
                 /\ [request EXCEPT !.step = x].step = x
                 /\ [request EXCEPT !.step = x].through = request.through
                 /\ [request EXCEPT !.step = x].issuer = request.issuer
      BY DEF OtherAsk
    <3>4. Issue(request)
      BY <3>1
    <3> HIDE DEF request
    <3> QED
      BY <3>2, <3>3, <3>4
  <2> QED
    BY <2>1, <2>2
<1>2. /\ ask.step = "idle" /\ ly = NoLy /\ raw = NoRaw /\ outcome = NoOutcome
      /\ verdict = NoVerdict /\ Forms
  BY DEF PInv, Stages, LyRequest, OtherRequest
<1>3. ly' = NoLy /\ raw' = NoRaw /\ verdict' = NoVerdict /\ UNCHANGED ly
  BY <1>1, <1>2 DEF Issue
<1>4. raw' \notin RawSet /\ ly' \notin LyRun /\ Covered'
  <2>1. NoRaw.status = "none" /\ NoLy.at = 0 /\ Len(LyDatasets) \in Nat
    BY PublicLawAssumption DEF NoRaw, NoLy
  <2>2. NoRaw \notin RawSet /\ NoLy \notin LyRun
    BY <2>1 DEF RawSet, LyRun
  <2> QED
    BY <1>3, <2>1, <2>2 DEF Covered
<1>5. CASE request.issuer
  <2>1. ask' = [request EXCEPT !.step = "backend"] /\ outcome' = NoOutcome
        /\ receipt' = [own |-> TRUE, current |-> TRUE]
    BY <1>1, <1>2, <1>5 DEF Issue
  <2>2. ask' \in LyAsk \cup OtherAsk /\ ask'.step = "backend" /\ ask'.issuer
    BY <1>1, <1>5, <2>1 DEF Steps
  <2>3. Forms' /\ Stages'
    BY <1>3, <2>1, <2>2 DEF Forms, Stages
  <2> QED
    BY <1>3, <1>4, <2>2, <2>3 DEF PInv, RawHonest, OutcomeEarned, VerdictEarned
<1>6. CASE ~request.issuer
  <2>1. ask' = [request EXCEPT !.step = "resolve"] /\ outcome' = Refused("blocked")
        /\ receipt' = receipt
    BY <1>1, <1>6 DEF Issue
  <2>2. ask' \in LyAsk \cup OtherAsk /\ ask'.step = "resolve" /\ ask'.through = "adapter"
    BY <1>1, <1>6, <2>1 DEF Steps
  <2>3. Forms' /\ Stages'
    BY <1>2, <1>3, <2>1, <2>2 DEF Forms, Stages
  <2>4. OutcomeEarned'
    BY <2>1, <2>2 DEF OutcomeEarned, Refused, Adapted, AdaptedSet
  <2> QED
    BY <1>3, <1>4, <2>2, <2>3, <2>4 DEF PInv, RawHonest, VerdictEarned
<1> QED
  BY <1>1, <1>5, <1>6

-----------------------------------------------------------------------------
(* The Legislative Yuan's connector.                                       *)

\* k is l with more said against it.
Further(l, k) ==
  k \in LyRun /\ k.at = l.at /\ k.left = l.left /\ l.incomplete \subseteq k.incomplete

LEMMA AgainstFurther ==
  ASSUME NEW l \in LyRun, NEW d \in STRING
  PROVE  /\ Further(l, Against(l, d)) /\ d \in Against(l, d).incomplete
         /\ Further(l, Noted(l))
  BY DEF Further, Against, Noted, LyRun

LEMMA FurtherTwice ==
  ASSUME NEW l, NEW k, NEW m, Further(l, k), Further(k, m)
  PROVE  Further(l, m)
  BY DEF Further

LEMMA SetLeft ==
  ASSUME NEW l \in LyRun, NEW n \in Nat
  PROVE  LET k == [l EXCEPT !.left = n] IN
         k \in LyRun /\ k.at = l.at /\ k.left = n /\ k.incomplete = l.incomplete
  BY DEF LyRun

LEMMA AddRowFurther ==
  ASSUME NEW l \in LyRun, Dataset \in STRING, NEW row,
         row.bill \in Bills \cup {NoBill}, row.id \in LyIds
  PROVE  Further(l, AddRow(l, row))
<1> DEFINE k == [l EXCEPT !.linked = @ \cup ({row.bill} \ {NoBill}), !.seen = @ \cup {row.id}]
<1>1. Further(l, k)
  BY DEF Further, LyRun
<1>2. /\ Further(k, Against(k, Dataset))
      /\ Further(k, [k EXCEPT !.truncated = TRUE])
      /\ Further(k, [k EXCEPT !.cands = @ \cup {row.id}])
  <2>1. k \in LyRun
    BY <1>1 DEF Further
  <2> HIDE DEF k
  <2>2. Further(k, Against(k, Dataset))
    BY <2>1, AgainstFurther
  <2> QED
    BY <2>1, <2>2 DEF Further, LyRun
<1>3. \/ AddRow(l, row) = Against(k, Dataset)
      \/ AddRow(l, row) = [k EXCEPT !.truncated = TRUE]
      \/ AddRow(l, row) = [k EXCEPT !.cands = @ \cup {row.id}]
  BY DEF AddRow
<1> HIDE DEF k
<1>4. CASE AddRow(l, row) = Against(k, Dataset)
  BY <1>1, <1>2, <1>4, FurtherTwice
<1>5. CASE AddRow(l, row) = [k EXCEPT !.truncated = TRUE]
  BY <1>1, <1>2, <1>5, FurtherTwice
<1>6. CASE AddRow(l, row) = [k EXCEPT !.cands = @ \cup {row.id}]
  BY <1>1, <1>2, <1>6, FurtherTwice
<1> QED
  BY <1>3, <1>4, <1>5, <1>6

\* Covered of a state of the connector.
CoveredBy(l) ==
  /\ l.at <= Len(LyDatasets) + 1
  /\ \A i \in 1..Len(LyDatasets) :
        LyDatasets[i] \notin LyDated /\ (i < l.at \/ (i = l.at /\ l.left # -1))
           => LyDatasets[i] \in l.incomplete

LEMMA FurtherCovered ==
  ASSUME NEW l \in LyRun, NEW k, Further(l, k), CoveredBy(l)
  PROVE  CoveredBy(k)
  BY DEF Further, CoveredBy

\* The connector passes a dataset that has a date, or is incomplete.
LEMMA AdvanceCovered ==
  ASSUME NEW l \in LyRun, CoveredBy(l), l.at \in 1..Len(LyDatasets),
         LyDatasets[l.at] \in LyDated \cup l.incomplete
  PROVE  LET k == [l EXCEPT !.at = @ + 1, !.left = -1] IN k \in LyRun /\ CoveredBy(k)
<1> DEFINE k == [l EXCEPT !.at = @ + 1, !.left = -1]
<1>1. k \in LyRun /\ k.at = l.at + 1 /\ k.left = -1 /\ k.incomplete = l.incomplete
  <2>1. PICK m \in Nat \ {0} : m = l.at + 1
    BY DEF LyRun
  <2>2. PICK n \in Nat \cup {-1} : n = -1
    OBVIOUS
  <2>3. [l EXCEPT !.at = m, !.left = n] \in LyRun
        /\ [l EXCEPT !.at = m, !.left = n].at = m
        /\ [l EXCEPT !.at = m, !.left = n].left = n
        /\ [l EXCEPT !.at = m, !.left = n].incomplete = l.incomplete
    BY DEF LyRun
  <2>4. k = [l EXCEPT !.at = m, !.left = n]
    BY <2>1, <2>2
  <2> HIDE DEF k
  <2> QED
    BY <2>1, <2>2, <2>3, <2>4
<1>2. l.at \in Nat /\ Len(LyDatasets) \in Nat
  BY PublicLawAssumption DEF LyRun
<1> HIDE DEF k
<1>3. CoveredBy(k)
  BY <1>1, <1>2 DEF CoveredBy
<1> QED
  BY <1>1, <1>3 DEF k

\* The connector works on: only its locals change.
LEMMA RunKeeps ==
  ASSUME PInv, ask.step = "backend", ask \in LyAsk, ask.history,
         UNCHANGED <<ask, raw, promoted, outcome, verdict, receipt>>,
         ly' \in LyRun, CoveredBy(ly')
  PROVE  PInv'
<1>1. raw = NoRaw /\ outcome = NoOutcome /\ verdict = NoVerdict
  BY DEF PInv, Stages
<1>2. Forms' /\ Stages'
  BY DEF PInv, Forms, Stages
<1>3. Covered'
  BY DEF Covered, CoveredBy
<1>4. RawHonest' /\ OutcomeEarned' /\ VerdictEarned'
  BY <1>1 DEF PInv, RawHonest, OutcomeEarned, VerdictEarned
<1> QED
  BY <1>2, <1>3, <1>4 DEF PInv

LEMMA NoLyIsNone == NoLy \notin LyRun /\ NoLy.at = 0 /\ NoRaw \notin RawSet
<1>1. NoLy.at = 0 /\ NoRaw.status = "none"
  BY DEF NoLy, NoRaw
<1> QED
  BY <1>1 DEF LyRun, RawSet

\* Inside the loop over the datasets.
LEMMA InLoop ==
  ASSUME PInv, LyAsks
  PROVE  /\ ly \in LyRun /\ ask \in LyAsk /\ ask.history /\ CoveredBy(ly)
         /\ ly.at \in 1..Len(LyDatasets) /\ Dataset \in STRING
         /\ LyDatasets \in Seq(STRING)
<1>1. LyDatasets \in Seq(STRING) /\ DOMAIN LyDatasets = 1..Len(LyDatasets)
  BY PublicLawAssumption
<1>2. ly.at \in 1..Len(LyDatasets)
  BY <1>1 DEF LyAsks
<1>3. ly # NoLy
  BY <1>1, <1>2, NoLyIsNone
<1> QED
  BY <1>1, <1>2, <1>3 DEF PInv, Forms, Covered, CoveredBy, Dataset

LEMMA LoopKeeps ==
  ASSUME PInv, LySkip \/ LyFetch \/ LyRow \/ LyEndOfRows
  PROVE  PInv'
<1>1. LyAsks /\ UNCHANGED <<ask, raw, promoted, outcome, verdict, receipt>>
  BY DEF LySkip, LyFetch, LyRow, LyEndOfRows, RestSame
<1>2. /\ ly \in LyRun /\ ask \in LyAsk /\ ask.history /\ CoveredBy(ly)
      /\ ly.at \in 1..Len(LyDatasets) /\ Dataset \in STRING /\ ask.step = "backend"
  BY <1>1, InLoop DEF LyAsks
<1>3. ASSUME NEW d \in {Dataset}
      PROVE  /\ Further(ly, Against(ly, d)) /\ d \in Against(ly, d).incomplete
             /\ Against(ly, d) \in LyRun /\ CoveredBy(Against(ly, d))
             /\ Further(ly, Noted(ly))
  BY <1>2, AgainstFurther, FurtherCovered DEF Further
<1>4. ASSUME NEW k, Further(ly, k), Dataset \in LyDated \cup k.incomplete, Advance(k)
      PROVE  ly' \in LyRun /\ CoveredBy(ly')
  <2>1. k \in LyRun /\ k.at = ly.at /\ CoveredBy(k)
    BY <1>2, <1>4, FurtherCovered DEF Further
  <2> QED
    BY <1>2, <1>4, <2>1, AdvanceCovered DEF Advance, Dataset
<1>5. CASE LySkip
  <2>1. Advance(Against(ly, Dataset))
    BY <1>5 DEF LySkip
  <2> QED
    BY <1>1, <1>2, <1>3, <1>4, <2>1, RunKeeps
<1>6. CASE LyFetch
  <2>1. CASE Advance([Against(ly, Dataset) EXCEPT !.failed = @ \cup {Dataset}])
    <3>1. /\ Further(Against(ly, Dataset), [Against(ly, Dataset) EXCEPT !.failed = @ \cup {Dataset}])
          /\ [Against(ly, Dataset) EXCEPT !.failed = @ \cup {Dataset}].incomplete
               = Against(ly, Dataset).incomplete
      BY <1>2, <1>3 DEF Further, LyRun
    <3> QED
      BY <1>1, <1>2, <1>3, <1>4, <2>1, <3>1, FurtherTwice, RunKeeps
  <2>2. CASE \E n \in 0..LyRows, full \in BOOLEAN :
               LET l == IF full THEN Against(ly, Dataset) ELSE ly
                   empty == n = 0 \/ Dataset \notin LyDated IN
               ly' = [(IF empty THEN Against(l, Dataset) ELSE l) EXCEPT !.left = n]
    <3>1. PICK n \in 0..LyRows, full \in BOOLEAN :
            ly' = [(IF n = 0 \/ Dataset \notin LyDated
                      THEN Against(IF full THEN Against(ly, Dataset) ELSE ly, Dataset)
                      ELSE IF full THEN Against(ly, Dataset) ELSE ly) EXCEPT !.left = n]
      BY <2>2
    <3> DEFINE l == IF full THEN Against(ly, Dataset) ELSE ly
               k == IF n = 0 \/ Dataset \notin LyDated THEN Against(l, Dataset) ELSE l
    <3>2. Further(ly, ly)
      BY <1>2 DEF Further
    <3>3. Further(ly, l) /\ l \in LyRun
      BY <1>2, <1>3, <3>2
    <3>4. ly' = [k EXCEPT !.left = n]
      BY <3>1
    <3> HIDE DEF l
    <3>5. Further(l, Against(l, Dataset)) /\ Dataset \in Against(l, Dataset).incomplete
          /\ Further(l, l)
      BY <1>2, <3>3, AgainstFurther DEF Further
    <3>6. Further(ly, k) /\ Dataset \in LyDated \cup k.incomplete
      BY <3>3, <3>5, FurtherTwice
    <3> HIDE DEF k
    <3>7. k \in LyRun /\ k.at = ly.at /\ CoveredBy(k) /\ n \in Nat
      BY <1>2, <3>6, FurtherCovered, PublicLawAssumption DEF Further
    <3>8. ly' \in LyRun /\ ly'.at = k.at /\ ly'.left = n /\ ly'.incomplete = k.incomplete
      BY <3>4, <3>7, SetLeft
    <3>9. CoveredBy(ly')
      BY <1>2, <3>6, <3>7, <3>8 DEF CoveredBy, Dataset
    <3> QED
      BY <1>1, <1>2, <3>8, <3>9, RunKeeps
  <2> QED
    BY <1>6, <2>1, <2>2 DEF LyFetch
<1>7. CASE LyRow
  <2>1. PICK row \in [date : {"before", "after", "undated", "bad"},
                      bill : Bills \cup {NoBill}, titled : BOOLEAN, id : LyIds, sound : BOOLEAN] :
          LET l == [(IF row.date \in {"undated", "bad"} THEN Against(ly, Dataset) ELSE ly)
                      EXCEPT !.left = @ - 1] IN
          ly' \in {l, Noted(l), AddRow(l, row)}
    BY <1>7 DEF LyRow
  <2> DEFINE k == IF row.date \in {"undated", "bad"} THEN Against(ly, Dataset) ELSE ly
             l == [k EXCEPT !.left = @ - 1]
  <2>2. Further(ly, k) /\ k \in LyRun
    BY <1>2, <1>3 DEF Further
  <2>3. ly' \in {l, Noted(l), AddRow(l, row)}
    BY <2>1
  <2> HIDE DEF k
  <2>4. /\ l \in LyRun /\ l.at = ly.at /\ l.left # -1 /\ l.incomplete = k.incomplete
    BY <1>7, <2>2 DEF LyRow, Further, LyRun
  <2>5. CoveredBy(l)
    <3>1. CoveredBy(k) /\ k.left # -1 /\ k.at = ly.at
      BY <1>2, <1>7, <2>2, FurtherCovered DEF Further, LyRow
    <3> QED
      BY <2>4, <3>1 DEF CoveredBy
  <2> HIDE DEF l
  <2>6. Further(l, l) /\ Further(l, Noted(l)) /\ Further(l, AddRow(l, row))
    BY <1>2, <2>4, AgainstFurther, AddRowFurther DEF Further
  <2>7. ly' \in LyRun /\ CoveredBy(ly')
    BY <2>3, <2>4, <2>5, <2>6, FurtherCovered DEF Further
  <2> QED
    BY <1>1, <1>2, <2>7, RunKeeps
<1>8. CASE LyEndOfRows
  <2>1. Advance(ly) /\ ly.left = 0
    BY <1>8 DEF LyEndOfRows
  <2>2. Dataset \in LyDated \cup ly.incomplete
    BY <1>2, <2>1 DEF CoveredBy, Dataset
  <2>3. Further(ly, ly)
    BY <1>2 DEF Further
  <2> QED
    BY <1>1, <1>2, <1>4, <2>1, <2>2, <2>3, RunKeeps
<1> QED
  BY <1>5, <1>6, <1>7, <1>8

-----------------------------------------------------------------------------
(* What comes back, and what is made of it.                                *)

\* A backend answers.
LEMMA ReturnKeeps ==
  ASSUME PInv, ask.step = "backend", NEW r \in RawSet, BackendReturns(r),
         UNCHANGED <<ly, promoted, outcome, verdict, receipt>>,
         ask \in LyAsk => /\ r.status \in {"found", "not_found", "partial", "error"}
                          /\ ask.history => ~r.complete
  PROVE  PInv'
<1>1. ask # NoAsk
  BY DEF NoAsk
<1>2. ask \in LyAsk \cup OtherAsk /\ "returned" \in Steps
  BY <1>1 DEF PInv, Forms, Steps
<1>3. raw' = r /\ ask' = [ask EXCEPT !.step = "returned"]
  BY DEF BackendReturns
<1>4. /\ ask' \in LyAsk \cup OtherAsk /\ ask'.step = "returned" /\ ask'.issuer = ask.issuer
      /\ ask \in LyAsk => ask' \in LyAsk /\ ask'.history = ask.history
      /\ ask \notin LyAsk => ask' \notin LyAsk
  BY <1>2, <1>3, StepOf
<1>5. Forms'
  BY <1>3, <1>4 DEF PInv, Forms
<1>6. Stages'
  BY <1>3, <1>4 DEF PInv, Stages
<1>7. Covered'
  BY DEF PInv, Covered
<1>8. RawHonest' /\ OutcomeEarned'
  BY <1>3, <1>4 DEF RawHonest, OutcomeEarned
<1>9. VerdictEarned'
  BY DEF PInv, Stages, VerdictEarned
<1> QED
  BY <1>5, <1>6, <1>7, <1>8, <1>9 DEF PInv

LEMMA LyBeginKeeps == PInv /\ LyBegin => PInv'
<1> SUFFICES ASSUME PInv, LyBegin PROVE PInv'
  OBVIOUS
<1>1. ask.step = "backend" /\ ask.of = "ly" /\ ly.at = 0
      /\ UNCHANGED <<promoted, outcome, verdict, receipt>>
  BY DEF LyBegin, RestSame
<1>2. ask # NoAsk /\ ask \notin OtherAsk
  BY <1>1 DEF NoAsk, OtherAsk
<1>3. ask \in LyAsk /\ ask.history \in BOOLEAN
  BY <1>2 DEF PInv, Forms, LyAsk
<1>4. CASE ~ask.history
  <2>1. BackendReturns(Raw("not_found", {}, {}, TRUE, FALSE, FALSE)) /\ UNCHANGED ly
    BY <1>4, Zenon DEF LyBegin
  <2> DEFINE r == Raw("not_found", {}, {}, TRUE, FALSE, FALSE)
  <2>2. r \in RawSet /\ r.status = "not_found"
    BY DEF Raw, RawSet
  <2>3. BackendReturns(r)
    BY <2>1
  <2> HIDE DEF r
  <2> QED
    BY <1>1, <1>4, <2>1, <2>2, <2>3, ReturnKeeps
<1>5. CASE ask.history /\ ask.scope = "invalid"
  <2>1. BackendReturns(Raw("error", {}, {}, FALSE, FALSE, TRUE)) /\ UNCHANGED ly
    BY <1>5, Zenon DEF LyBegin
  <2> DEFINE r == Raw("error", {}, {}, FALSE, FALSE, TRUE)
  <2>2. r \in RawSet /\ r.status = "error" /\ ~r.complete
    BY DEF Raw, RawSet
  <2>3. BackendReturns(r)
    BY <2>1
  <2> HIDE DEF r
  <2> QED
    BY <1>1, <2>1, <2>2, <2>3, ReturnKeeps
<1>6. CASE ask.history /\ ask.scope # "invalid"
  <2>1. /\ ly' = [at |-> 1, left |-> -1, cands |-> {}, seen |-> {}, linked |-> {},
                  incomplete |-> {}, failed |-> {}, truncated |-> FALSE,
                  noted |-> ask.scope # "full"]
        /\ UNCHANGED <<ask, raw>>
    BY <1>6, Zenon DEF LyBegin
  <2>2. PICK n \in Nat \cup {-1} : n = -1
    OBVIOUS
  <2>3. PICK b \in BOOLEAN : b = (ask.scope # "full")
    OBVIOUS
  <2> DEFINE k == [at |-> 1, left |-> n, cands |-> {}, seen |-> {}, linked |-> {},
                   incomplete |-> {}, failed |-> {}, truncated |-> FALSE, noted |-> b]
  <2>4. k \in LyRun /\ k.at = 1 /\ k.left = n
    BY DEF LyRun
  <2>5. ly' = k
    BY <2>1, <2>2, <2>3, Zenon
  <2> HIDE DEF k
  <2>6. Len(LyDatasets) \in Nat
    BY PublicLawAssumption
  <2>7. CoveredBy(k)
    BY <2>2, <2>4, <2>6 DEF CoveredBy
  <2> QED
    BY <1>1, <1>3, <1>6, <2>1, <2>4, <2>5, <2>7, RunKeeps
<1> QED
  BY <1>3, <1>4, <1>5, <1>6

\* The proposals carry no date, so a search that reaches the end is incomplete.
LEMMA LyReturnKeeps == PInv /\ LyReturn => PInv'
<1> SUFFICES ASSUME PInv, LyReturn PROVE PInv'
  OBVIOUS
<1>1. /\ ask.step = "backend" /\ ask.of = "ly" /\ ly.at > Len(LyDatasets)
      /\ UNCHANGED <<ly, promoted, outcome, verdict, receipt>>
  BY DEF LyReturn, RestSame
<1>2. ly # NoLy /\ Len(LyDatasets) \in Nat
  BY <1>1, NoLyIsNone, PublicLawAssumption
<1>3. ly \in LyRun /\ CoveredBy(ly)
  BY <1>2 DEF PInv, Forms, Covered, CoveredBy
<1>4. ly.incomplete # {}
  <2>1. PICK i \in DOMAIN LyDatasets : LyDatasets[i] = LyProposal
    BY PublicLawAssumption
  <2>2. i \in 1..Len(LyDatasets) /\ LyDatasets[i] \notin LyDated /\ ly.at \in Nat
    BY <1>3, <2>1, PublicLawAssumption DEF LyRun
  <2>3. LyDatasets[i] \in ly.incomplete
    BY <1>1, <1>2, <1>3, <2>2 DEF CoveredBy
  <2> QED
    BY <2>3
<1>5. \A b : LyStatus(b) \in {"found", "not_found", "partial", "error"}
  BY DEF LyStatus
<1>6. PICK st \in {"found", "not_found", "partial", "error"}, noted \in BOOLEAN :
        BackendReturns(Raw(st, ly.cands, {}, FALSE, ly.truncated, noted))
  <2> DEFINE complete == ly.incomplete = {} /\ ask.scope = "full" /\ ~ly.noted
  <2>1. BackendReturns(Raw(LyStatus(complete), ly.cands, {}, complete /\ ~ly.truncated,
                           ly.truncated, ly.noted \/ ly.truncated))
    BY DEF LyReturn
  <2>2. (complete /\ ~ly.truncated) = FALSE
    BY <1>4
  <2>3. LyStatus(complete) \in {"found", "not_found", "partial", "error"}
    BY <1>5
  <2>4. PICK noted \in BOOLEAN : noted = (ly.noted \/ ly.truncated)
    OBVIOUS
  <2> HIDE DEF complete
  <2>5. PICK st \in {"found", "not_found", "partial", "error"} : st = LyStatus(complete)
    BY <2>3
  <2>6. BackendReturns(Raw(st, ly.cands, {}, FALSE, ly.truncated, noted))
    BY <2>1, <2>2, <2>4, <2>5, Zenon
  <2> QED
    BY <2>6, Zenon
<1> DEFINE r == Raw(st, ly.cands, {}, FALSE, ly.truncated, noted)
<1>7. r \in RawSet /\ r.status = st /\ ~r.complete
  <2>1. ly.cands \in SUBSET LyIds /\ ly.truncated \in BOOLEAN
    BY <1>3 DEF LyRun
  <2> QED
    BY <2>1 DEF Raw, RawSet
<1>8. BackendReturns(r)
  BY <1>6
<1> HIDE DEF r
<1> QED
  BY <1>1, <1>7, <1>8, ReturnKeeps

LEMMA OtherReturnsKeeps == PInv /\ OtherReturns => PInv'
<1> SUFFICES ASSUME PInv, OtherReturns PROVE PInv'
  OBVIOUS
<1>1. /\ ask.step = "backend" /\ ask.of = "deployer"
      /\ UNCHANGED <<ly, promoted, outcome, verdict, receipt>>
  BY DEF OtherReturns, RestSame
<1>2. ask \notin LyAsk
  BY <1>1 DEF LyAsk
<1>3. SUFFICES ASSUME \A r \in RawSet : ~BackendReturns(r) PROVE FALSE
  BY <1>1, <1>2, ReturnKeeps
<1>4. ASSUME NEW st \in {"raised", "foreign"},
             BackendReturns(Raw(st, {}, {}, FALSE, FALSE, TRUE)) PROVE FALSE
  <2> DEFINE r == Raw(st, {}, {}, FALSE, FALSE, TRUE)
  <2>1. r \in RawSet
    BY DEF Raw, RawSet
  <2>2. BackendReturns(r)
    BY <1>4
  <2> QED
    BY <1>3, <2>1, <2>2
<1>5. ASSUME NEW st \in {"found", "not_found", "partial", "error"}, NEW c \in SUBSET LyIds,
             NEW src \in SUBSET Sources, NEW complete \in BOOLEAN, NEW trunc \in BOOLEAN,
             NEW noted \in BOOLEAN, BackendReturns(Raw(st, c, src, complete, trunc, noted))
      PROVE  FALSE
  <2> DEFINE r == Raw(st, c, src, complete, trunc, noted)
  <2>1. r \in RawSet
    BY DEF Raw, RawSet
  <2>2. BackendReturns(r)
    BY <1>5
  <2> QED
    BY <1>3, <2>1, <2>2
<1> QED
  BY <1>4, <1>5, Zenon DEF OtherReturns

\* Moving on to another step keeps the shape of the request.
LEMMA Moves ==
  ASSUME PInv, ask.step \in Steps, NEW x \in Steps, ask' = [ask EXCEPT !.step = x]
  PROVE  /\ ask \in LyAsk \cup OtherAsk /\ ask' \in LyAsk \cup OtherAsk /\ ask'.step = x
         /\ ask'.through = ask.through /\ ask'.issuer = ask.issuer
         /\ ask \in LyAsk <=> ask' \in LyAsk
         /\ ask \in LyAsk => ask'.history = ask.history
<1>1. ask # NoAsk
  BY DEF NoAsk, Steps
<1>2. ask \in LyAsk \cup OtherAsk
  BY <1>1 DEF PInv, Forms
<1> QED
  BY <1>2, StepOf

LEMMA ToolReturnsKeeps == PInv /\ ToolReturns => PInv'
<1> SUFFICES ASSUME PInv, ToolReturns PROVE PInv'
  OBVIOUS
<1>1. /\ ask.step = "returned" /\ ask.through = "tool" /\ UNCHANGED <<ly, raw, promoted, verdict, receipt>>
      /\ ask' = [ask EXCEPT !.step = "done"]
      /\ outcome'.status = raw.status
  BY DEF ToolReturns
<1>2. /\ ask' \in LyAsk /\ ask \in LyAsk /\ ask'.step = "done" /\ ask'.through = "tool"
      /\ ask'.history = ask.history
  <2>1. "returned" \in Steps /\ "done" \in Steps
    BY DEF Steps
  <2>2. ask \notin OtherAsk
    BY <1>1 DEF OtherAsk
  <2> QED
    BY <1>1, <2>1, <2>2, Moves
<1>3. raw \in RawSet /\ raw.status \in {"found", "not_found", "partial", "error"}
      /\ verdict = NoVerdict
  BY <1>1, <1>2 DEF PInv, Stages, RawHonest
<1>4. Forms' /\ Covered' /\ RawHonest'
  BY <1>1, <1>2 DEF PInv, Forms, Covered, RawHonest
<1>5. Stages' /\ OutcomeEarned' /\ VerdictEarned'
  BY <1>1, <1>2, <1>3 DEF Stages, OutcomeEarned, VerdictEarned
<1> QED
  BY <1>4, <1>5 DEF PInv

LEMMA PromoteKeeps == PInv /\ Promote => PInv'
<1> SUFFICES ASSUME PInv, Promote PROVE PInv'
  OBVIOUS
<1>1. /\ ask.step = "returned" /\ ask.through = "adapter" /\ UNCHANGED <<ly, raw, outcome, verdict, receipt>>
      /\ ask' = [ask EXCEPT !.step = "adapt"] /\ promoted' \in [raw.sources -> Fates]
  BY DEF Promote
<1>2. /\ ask' \in LyAsk \cup OtherAsk /\ ask'.step = "adapt" /\ ask'.through = "adapter"
      /\ ask'.issuer = ask.issuer
      /\ ask \in LyAsk <=> ask' \in LyAsk
      /\ ask \in LyAsk => ask'.history = ask.history
  <2>1. "returned" \in Steps /\ "adapt" \in Steps
    BY DEF Steps
  <2> QED
    BY <1>1, <2>1, Moves
<1>3. raw \in RawSet /\ outcome = NoOutcome /\ verdict = NoVerdict /\ ask.issuer
  BY <1>1 DEF PInv, Stages
<1>4. Forms' /\ Covered' /\ RawHonest'
  BY <1>1, <1>2 DEF PInv, Forms, Covered, RawHonest
<1>5. Stages' /\ OutcomeEarned' /\ VerdictEarned'
  BY <1>1, <1>2, <1>3 DEF Stages, OutcomeEarned, VerdictEarned
<1> QED
  BY <1>4, <1>5 DEF PInv

\* The result is empty in its scope only when the backend's answer was.
LEMMA AdaptKeeps == PInv /\ Adapt => PInv'
<1> SUFFICES ASSUME PInv, Adapt PROVE PInv'
  OBVIOUS
<1>1. /\ ask.step = "adapt" /\ UNCHANGED <<ly, raw, promoted, verdict, receipt>>
      /\ ask' = [ask EXCEPT !.step = "resolve"]
  BY DEF Adapt
<1>2. /\ ask' \in LyAsk \cup OtherAsk /\ ask'.step = "resolve" /\ ask'.through = "adapter"
      /\ ask'.issuer = ask.issuer
      /\ ask \in LyAsk <=> ask' \in LyAsk
      /\ ask \in LyAsk => ask'.history = ask.history
  <2>1. "resolve" \in Steps /\ "adapt" \in Steps
    BY DEF Steps
  <2>2. ask.through = "adapter"
    BY <1>1 DEF PInv, Stages
  <2> QED
    BY <1>1, <2>1, <2>2, Moves
<1>3. raw \in RawSet /\ verdict = NoVerdict /\ promoted \in [raw.sources -> Fates]
  BY <1>1 DEF PInv, Stages
<1>4. PICK c \in SUBSET raw.candidates, trunc \in BOOLEAN :
        /\ trunc = (raw.truncated \/ c # raw.candidates)
        /\ LET st == AdaptedStatus(c, trunc) IN
           \/ outcome' = Refused("retry_required") \/ outcome' = Refused("blocked")
           \/ outcome' = Unbuilt
           \/ outcome' = Adapted(st, c, Kept, st \in {"found", "not_found_in_scope"},
                                 st = "not_found_in_scope", trunc)
  <2>1. PICK c \in SUBSET raw.candidates :
          LET trunc == raw.truncated \/ c # raw.candidates
              st == AdaptedStatus(c, trunc) IN
          \/ outcome' = Refused("retry_required") \/ outcome' = Refused("blocked")
          \/ outcome' = Unbuilt
          \/ outcome' = Adapted(st, c, Kept, st \in {"found", "not_found_in_scope"},
                                st = "not_found_in_scope", trunc)
    BY DEF Adapt
  <2>2. PICK trunc \in BOOLEAN : trunc = (raw.truncated \/ c # raw.candidates)
    OBVIOUS
  <2> QED
    BY <2>1, <2>2, Zenon
<1>5. /\ AdaptedStatus(c, trunc) \in {"found", "not_found_in_scope", "partial", "retry_required"}
      /\ AdaptedStatus(c, trunc) = "not_found_in_scope" =>
            raw.status = "not_found" /\ CleanMiss(c, Kept, trunc) /\ ~trunc
  <2>1. raw.status # "not_found_in_scope"
    BY <1>3 DEF RawSet
  <2> QED
    BY <2>1 DEF AdaptedStatus
<1>6. CleanMiss(c, Kept, trunc) /\ raw.status = "not_found" /\ ~trunc => CleanRaw
  BY <1>3, <1>4 DEF CleanMiss, CleanRaw
<1>7. Kept \subseteq raw.sources /\ \A s \in Kept : promoted[s] = "promoted"
  BY DEF Kept
<1>8. /\ outcome' = Unbuilt \/ outcome' \in AdaptedSet
      /\ outcome' \in AdaptedSet => \A s \in outcome'.sources : promoted'[s] = "promoted"
      /\ outcome'.status = "not_found_in_scope" => CleanRaw'
  <2>1. ASSUME NEW st \in {"retry_required", "blocked"}, outcome' = Refused(st)
        PROVE  outcome' \in AdaptedSet /\ outcome'.sources = {} /\ outcome'.status = st
    BY <2>1 DEF Refused, Adapted, AdaptedSet
  <2>2. ASSUME outcome' = Unbuilt
        PROVE  outcome'.status = "unbuilt" /\ outcome' \notin AdaptedSet
    BY <2>2 DEF Unbuilt, AdaptedSet
  <2> DEFINE st == AdaptedStatus(c, trunc)
  <2>3. ASSUME outcome' = Adapted(st, c, Kept, st \in {"found", "not_found_in_scope"},
                                  st = "not_found_in_scope", trunc)
        PROVE  outcome' \in AdaptedSet /\ outcome'.sources = Kept /\ outcome'.status = st
    <3>1. PICK a \in BOOLEAN, b \in BOOLEAN : /\ a = (st \in {"found", "not_found_in_scope"})
                                              /\ b = (st = "not_found_in_scope")
      <4>1. (st \in {"found", "not_found_in_scope"}) \in BOOLEAN
            /\ (st = "not_found_in_scope") \in BOOLEAN
        OBVIOUS
      <4> QED
        BY <4>1, Zenon
    <3>2. c \in SUBSET LyIds /\ Kept \in SUBSET Sources
      BY <1>3, <1>7 DEF RawSet
    <3>3. st \in {"found", "not_found_in_scope", "partial", "retry_required"}
      BY <1>5
    <3> HIDE DEF st
    <3>4. outcome' = Adapted(st, c, Kept, a, b, trunc)
      BY <2>3, <3>1, Zenon
    <3> QED
      BY <3>2, <3>3, <3>4 DEF Adapted, AdaptedSet
  <2>4. st = "not_found_in_scope" => CleanRaw
    BY <1>5, <1>6
  <2> HIDE DEF st
  <2>5. CleanRaw' <=> CleanRaw
    BY <1>1 DEF CleanRaw
  <2>6. \/ outcome' = Refused("retry_required") \/ outcome' = Refused("blocked")
        \/ outcome' = Unbuilt
        \/ outcome' = Adapted(st, c, Kept, st \in {"found", "not_found_in_scope"},
                              st = "not_found_in_scope", trunc)
    BY <1>4, Zenon DEF st
  <2>7. CASE outcome' = Refused("retry_required")
    BY <2>1, <2>7
  <2>8. CASE outcome' = Refused("blocked")
    BY <2>1, <2>8
  <2>9. CASE outcome' = Unbuilt
    BY <2>2, <2>9
  <2>10. CASE outcome' = Adapted(st, c, Kept, st \in {"found", "not_found_in_scope"},
                                 st = "not_found_in_scope", trunc)
    BY <1>1, <1>7, <2>3, <2>4, <2>5, <2>10
  <2> QED
    BY <2>6, <2>7, <2>8, <2>9, <2>10
<1>9. ask.issuer
  BY <1>1 DEF PInv, Stages
<1>10. Forms' /\ Covered' /\ RawHonest' /\ Stages'
  BY <1>1, <1>2, <1>3 DEF PInv, Forms, Covered, RawHonest, Stages
<1>11. OutcomeEarned' /\ VerdictEarned'
  BY <1>1, <1>2, <1>3, <1>8, <1>9 DEF OutcomeEarned, VerdictEarned
<1> QED
  BY <1>10, <1>11 DEF PInv

LEMMA ResolveKeeps == PInv /\ Resolve => PInv'
<1> SUFFICES ASSUME PInv, Resolve PROVE PInv'
  OBVIOUS
<1>1. /\ ask.step = "resolve" /\ UNCHANGED <<ly, raw, promoted, verdict, receipt>>
      /\ ask' = [ask EXCEPT !.step = "done"]
      /\ outcome' = outcome \/ outcome' = Refused("blocked")
  BY DEF Resolve
<1>2. /\ ask' \in LyAsk \cup OtherAsk /\ ask'.step = "done" /\ ask'.through = "adapter"
      /\ ask'.issuer = ask.issuer /\ ask.through = "adapter"
      /\ ask \in LyAsk <=> ask' \in LyAsk
      /\ ask \in LyAsk => ask'.history = ask.history
  <2>1. "resolve" \in Steps /\ "done" \in Steps
    BY DEF Steps
  <2>2. ask.through = "adapter"
    BY <1>1 DEF PInv, Stages
  <2> QED
    BY <1>1, <2>1, <2>2, Moves
<1>3. verdict = NoVerdict
  BY <1>1 DEF PInv, Stages
<1>4. Forms' /\ Covered' /\ RawHonest' /\ Stages' /\ VerdictEarned'
  BY <1>1, <1>2, <1>3 DEF PInv, Forms, Covered, RawHonest, Stages, VerdictEarned
<1>5. Refused("blocked") \in AdaptedSet /\ Refused("blocked").sources = {}
      /\ Refused("blocked").status = "blocked"
  BY DEF Refused, Adapted, AdaptedSet
<1>6. OutcomeEarned
  BY DEF PInv
<1>7. CleanRaw' <=> CleanRaw
  BY <1>1 DEF CleanRaw
<1>8. OutcomeEarned'
  <2>1. CASE outcome' = outcome
    BY <1>1, <1>2, <1>6, <1>7, <2>1 DEF OutcomeEarned
  <2>2. CASE outcome' = Refused("blocked")
    BY <1>2, <1>5, <2>2 DEF OutcomeEarned
  <2> QED
    BY <1>1, <2>1, <2>2
<1> QED
  BY <1>4, <1>8 DEF PInv

\* What the validation says of a result, and what it needs for it.
LEMMA VerdictOf ==
  ASSUME outcome \in AdaptedSet, NEW owned \in SUBSET Sources
  PROVE  /\ Verdict(owned) \in VerdictSet
         /\ Verdict(owned).decision = "accepted" /\ Verdict(owned).absence =>
               outcome.status = "not_found_in_scope"
         /\ Verdict(owned).decision # "blocked" =>
               /\ ~NotCurrent /\ outcome.status # "blocked"
               /\ Verdict(owned).eligible \cup Verdict(owned).law \subseteq outcome.sources
               /\ Verdict(owned).law \subseteq Statutes
<1>1. outcome.sources \in SUBSET Sources
  BY DEF AdaptedSet
<1>2. Blocked \in VerdictSet /\ Blocked.decision = "blocked"
  BY DEF Blocked, VerdictSet
<1>3. ASSUME NEW e \in SUBSET outcome.sources, NEW l \in SUBSET (outcome.sources \cap Statutes),
             NEW d \in {"accepted", "qualified"}, NEW a \in BOOLEAN
      PROVE  LET v == [decision |-> d, eligible |-> e, law |-> l, absence |-> a] IN
             v \in VerdictSet
  BY <1>1 DEF VerdictSet
<1>4. CASE Verdict(owned) = Blocked
  BY <1>2, <1>4
<1>5. CASE Verdict(owned) # Blocked
  <2>1. ~NotCurrent /\ outcome.status \notin {"retry_required", "blocked"}
    BY <1>5 DEF Verdict
  <2>2. \/ Verdict(owned) = [decision |-> "qualified", eligible |-> {},
                             law |-> outcome.sources \cap Statutes, absence |-> FALSE]
        \/ /\ outcome.status = "not_found_in_scope"
           /\ Verdict(owned) = [decision |-> "accepted", eligible |-> {}, law |-> {},
                                absence |-> TRUE]
        \/ Verdict(owned) = [decision |-> "accepted", eligible |-> outcome.sources,
                             law |-> outcome.sources \cap Statutes, absence |-> FALSE]
    BY <1>5 DEF Verdict
  <2>3. CASE Verdict(owned) = [decision |-> "qualified", eligible |-> {},
                               law |-> outcome.sources \cap Statutes, absence |-> FALSE]
    BY <1>1, <2>1, <2>3 DEF VerdictSet
  <2>4. CASE outcome.status = "not_found_in_scope" /\
             Verdict(owned) = [decision |-> "accepted", eligible |-> {}, law |-> {},
                               absence |-> TRUE]
    BY <2>1, <2>4 DEF VerdictSet
  <2>5. CASE Verdict(owned) = [decision |-> "accepted", eligible |-> outcome.sources,
                               law |-> outcome.sources \cap Statutes, absence |-> FALSE]
    BY <1>1, <2>1, <2>5 DEF VerdictSet
  <2> QED
    BY <2>2, <2>3, <2>4, <2>5
<1> QED
  BY <1>4, <1>5

\* A result is validated only when it is one.
LEMMA Validated ==
  ASSUME PInv, Validate
  PROVE  /\ ask.step = "done" /\ ask.through = "adapter" /\ outcome \in AdaptedSet
         /\ \E owned \in SUBSET Sources : verdict' = Verdict(owned)
         /\ UNCHANGED <<ask, ly, raw, promoted, outcome, receipt>>
<1>1. /\ ask.step = "done" /\ ask.through = "adapter" /\ outcome # Unbuilt
      /\ \E owned \in SUBSET Sources : verdict' = Verdict(owned)
      /\ UNCHANGED <<ask, ly, raw, promoted, outcome, receipt>>
  BY DEF Validate
<1>2. outcome \in AdaptedSet
  BY <1>1 DEF PInv, OutcomeEarned
<1> QED
  BY <1>1, <1>2

LEMMA ValidateKeeps == PInv /\ Validate => PInv'
<1> SUFFICES ASSUME PInv, Validate PROVE PInv'
  OBVIOUS
<1>1. PICK owned \in SUBSET Sources : verdict' = Verdict(owned)
  BY Validated
<1>2. /\ ask.step = "done" /\ ask.through = "adapter" /\ outcome \in AdaptedSet
      /\ UNCHANGED <<ask, ly, raw, promoted, outcome, receipt>>
  BY Validated
<1>3. /\ verdict' \in VerdictSet
      /\ verdict'.decision = "accepted" /\ verdict'.absence => outcome.status = "not_found_in_scope"
  BY <1>1, <1>2, VerdictOf
<1>4. CleanRaw' <=> CleanRaw
  BY <1>2 DEF CleanRaw
<1>5. Forms' /\ Stages' /\ Covered' /\ RawHonest'
  BY <1>2, <1>3 DEF PInv, Forms, Stages, Covered, RawHonest
<1>6. OutcomeEarned' /\ VerdictEarned'
  BY <1>2, <1>3, <1>4 DEF PInv, OutcomeEarned, VerdictEarned
<1> QED
  BY <1>5, <1>6 DEF PInv

LEMMA LeaveKeeps == PInv /\ Leave => PInv'
<1> SUFFICES ASSUME PInv, Leave PROVE PInv'
  OBVIOUS
<1>1. /\ ask' = NoAsk /\ ly' = NoLy /\ raw' = NoRaw /\ outcome' = NoOutcome
      /\ verdict' = NoVerdict /\ receipt' = receipt
  BY DEF Leave
<1>2. NoAsk.step = "idle" /\ Len(LyDatasets) \in Nat
  BY PublicLawAssumption DEF NoAsk
<1>3. Forms' /\ Stages'
  BY <1>1, <1>2 DEF PInv, Forms, Stages
<1>4. Covered' /\ RawHonest' /\ OutcomeEarned' /\ VerdictEarned'
  BY <1>1, <1>2, NoLyIsNone DEF Covered, RawHonest, OutcomeEarned, VerdictEarned
<1> QED
  BY <1>3, <1>4 DEF PInv

\* Time, and a new issue, change the metadata only.
LEMMA ReceiptKeeps ==
  ASSUME PInv, UNCHANGED <<ask, ly, raw, promoted, outcome, verdict>>,
         receipt' \in [own : BOOLEAN, current : BOOLEAN]
  PROVE  PInv'
<1>1. CleanRaw' <=> CleanRaw
  BY DEF CleanRaw
<1> QED
  BY <1>1 DEF PInv, Forms, Stages, Covered, RawHonest, OutcomeEarned, VerdictEarned

LEMMA StepPInv == PInv /\ [PublicNext]_publicVars => PInv'
<1> SUFFICES ASSUME PInv, [PublicNext]_publicVars PROVE PInv'
  OBVIOUS
<1>1. receipt \in [own : BOOLEAN, current : BOOLEAN]
  BY DEF PInv, Forms
<1>2. CASE Expire \/ Reissue \/ UNCHANGED publicVars
  <2>1. UNCHANGED <<ask, ly, raw, promoted, outcome, verdict>>
    BY <1>2 DEF Expire, Reissue, publicVars
  <2>2. receipt' \in [own : BOOLEAN, current : BOOLEAN]
    <3>1. CASE Expire
      BY <1>1, <3>1 DEF Expire
    <3>2. CASE Reissue
      BY <3>2 DEF Reissue
    <3>3. CASE UNCHANGED publicVars
      BY <1>1, <3>3 DEF publicVars
    <3> QED
      BY <1>2, <3>1, <3>2, <3>3
  <2> QED
    BY <2>1, <2>2, ReceiptKeeps
<1>3. CASE LyRequest \/ OtherRequest
  BY <1>3, IssueKeeps
<1>4. CASE LySkip \/ LyFetch \/ LyRow \/ LyEndOfRows
  BY <1>4, LoopKeeps
<1>5. CASE LyBegin \/ LyReturn \/ OtherReturns
  BY <1>5, LyBeginKeeps, LyReturnKeeps, OtherReturnsKeeps
<1>6. CASE ToolReturns \/ Promote \/ Adapt \/ Resolve \/ Validate \/ Leave
  BY <1>6, ToolReturnsKeeps, PromoteKeeps, AdaptKeeps, ResolveKeeps, ValidateKeeps, LeaveKeeps
<1> QED
  BY <1>2, <1>3, <1>4, <1>5, <1>6 DEF PublicNext

-----------------------------------------------------------------------------
(* The theorems.                                                           *)

\* The state of a request to a public-law adapter is well-formed at each step.
THEOREM PublicTypes == PublicSpec => []PublicTypeOK
<1>1. PInv => PublicTypeOK
  <2> SUFFICES ASSUME PInv PROVE PublicTypeOK
    OBVIOUS
  <2>1. ask.step \in Steps \cup {"idle"}
    BY DEF PInv, Forms, LyAsk, OtherAsk, NoAsk
  <2>2. Len(LyDatasets) \in Nat
    BY PublicLawAssumption
  <2>3. ly.at \in 0..(Len(LyDatasets) + 1)
    BY <2>2, NoLyIsNone DEF PInv, Forms, Covered, LyRun
  <2>4. raw.status \in {"none", "found", "not_found", "partial", "error", "raised", "foreign"}
    BY DEF PInv, Forms, NoRaw, RawSet
  <2>5. verdict.decision \in {"none", "accepted", "qualified", "blocked"}
    BY DEF PInv, Forms, NoVerdict, VerdictSet
  <2>6. receipt \in [own : BOOLEAN, current : BOOLEAN]
    BY DEF PInv, Forms
  <2>7. outcome.status \in {"none", "found", "not_found_in_scope", "partial", "retry_required",
                            "blocked", "unbuilt"}
           \cup (IF ask.step = "done" /\ ask.through = "tool" THEN {"not_found", "error"} ELSE {})
    <3>1. CASE ask.step \notin {"resolve", "done"}
      BY <2>1, <3>1 DEF PInv, Stages, Steps, NoOutcome
    <3>2. CASE ask.step \in {"resolve", "done"}
      BY <3>2 DEF PInv, OutcomeEarned, Unbuilt, AdaptedSet
    <3> QED
      BY <3>1, <3>2
  <2> QED
    BY <2>1, <2>3, <2>4, <2>5, <2>6, <2>7 DEF PublicTypeOK, Steps
<1> QED
  BY <1>1, InitPInv, StepPInv, PTL DEF PublicSpec

\* An absence rests on a complete, clean and empty answer of the backend, and
\* the Legislative Yuan's data never give one for a history (_validated_result,
\* search of LegislativeYuanHistoricalLawBackend).
THEOREM AbsencesAreEarned == PublicSpec => []AbsenceIsEarned
<1>1. PInv => AbsenceIsEarned
  <2> SUFFICES ASSUME PInv, verdict.decision = "accepted", verdict.absence
               PROVE  CleanRaw /\ (ask.of = "ly" => ~ask.history)
    BY DEF AbsenceIsEarned, CleanRaw
  <2>1. verdict # NoVerdict
    BY DEF NoVerdict
  <2>2. /\ ask.step = "done" /\ ask.through = "adapter" /\ outcome.status = "not_found_in_scope"
        /\ CleanRaw
    BY <2>1 DEF PInv, VerdictEarned, OutcomeEarned
  <2>3. ask.of = "ly" => ask \in LyAsk
    BY <2>2 DEF PInv, Forms, OtherAsk, NoAsk
  <2> QED
    BY <2>2, <2>3 DEF PInv, RawHonest, CleanRaw
<1> QED
  BY <1>1, InitPInv, StepPInv, PTL DEF PublicSpec

\* A validation lets nothing be used that the server's gate did not promote
\* unaltered under metadata that is its own and current (sdk.py, validate), and
\* no legislative material as law.
THEOREM UsableArePromoted == PublicSpec => UsableIsPromoted
<1>1. ASSUME PInv, [PublicNext]_publicVars, verdict' # verdict,
             verdict'.decision \in {"accepted", "qualified"}
      PROVE  /\ receipt.current /\ receipt.own /\ ask.issuer
             /\ \A s \in verdict'.eligible \cup verdict'.law : promoted[s] = "promoted"
             /\ verdict'.law \cap Materials = {}
  <2>1. verdict' # NoVerdict
    BY <1>1 DEF NoVerdict
  <2>2. Validate
    <3>1. LyBegin \/ LySkip \/ LyFetch \/ LyRow \/ LyEndOfRows \/ LyReturn \/ OtherReturns
            => verdict' = verdict
      BY DEF LyBegin, LySkip, LyFetch, LyRow, LyEndOfRows, LyReturn, OtherReturns, RestSame
    <3>2. LyRequest \/ OtherRequest => verdict' = verdict
      <4>1. \A request : Issue(request) => verdict' = verdict
        BY DEF Issue
      <4>2. LyRequest => verdict' = verdict
        BY <4>1, Zenon DEF LyRequest
      <4>3. OtherRequest => verdict' = verdict
        BY <4>1, Zenon DEF OtherRequest
      <4> QED
        BY <4>2, <4>3
    <3>3. ToolReturns \/ Promote \/ Adapt \/ Resolve \/ Expire \/ Reissue => verdict' = verdict
      BY DEF ToolReturns, Promote, Adapt, Resolve, Expire, Reissue
    <3>4. Leave => verdict' = NoVerdict
      BY DEF Leave
    <3>5. UNCHANGED publicVars => verdict' = verdict
      BY DEF publicVars
    <3> QED
      BY <1>1, <2>1, <3>1, <3>2, <3>3, <3>4, <3>5 DEF PublicNext
  <2>3. PICK owned \in SUBSET Sources : verdict' = Verdict(owned)
    BY <1>1, <2>2, Validated
  <2>4. ask.step = "done" /\ ask.through = "adapter" /\ outcome \in AdaptedSet
    BY <1>1, <2>2, Validated
  <2>5. /\ ~NotCurrent /\ outcome.status # "blocked"
        /\ verdict'.eligible \cup verdict'.law \subseteq outcome.sources
        /\ verdict'.law \subseteq Statutes
    BY <1>1, <2>3, <2>4, VerdictOf
  <2>6. ask.issuer /\ \A s \in outcome.sources : promoted[s] = "promoted"
    BY <1>1, <2>4, <2>5 DEF PInv, OutcomeEarned
  <2> QED
    BY <2>5, <2>6, PublicLawAssumption DEF NotCurrent
<1> QED
  BY <1>1, InitPInv, StepPInv, PTL DEF PublicSpec, UsableIsPromoted

-----------------------------------------------------------------------------
(* The three modules side by side.                                         *)

\* A step of one module is none of the others, so the disjoint union of
\* their behaviours that TLC explores behaves as each of them, and what is
\* proved of each holds of it.
THEOREM RecordsAreSeparate == RecordsSpec => MaterialSpec /\ LineageSpec /\ PublicSpec
<1> DEFINE all == <<subject, materialVars, lineageVars, publicVars>>
<1>1. RecordsInit => MaterialInit /\ LineageInit /\ PublicInit
  BY DEF RecordsInit
<1>2. [RecordsNext]_all => [MaterialNext]_materialVars /\ [LineageNext]_lineageVars /\ [PublicNext]_publicVars
  BY Zenon DEF RecordsNext
<1> QED
  BY <1>1, <1>2, PTL DEF RecordsSpec, MaterialSpec, LineageSpec, PublicSpec

\* Every variable of the three modules keeps its type.
THEOREM RecordsTypes == RecordsSpec => []RecordsTypeOK
<1>1. RecordsSpec => []MaterialTypeOK /\ []LineageTypeOK /\ []PublicTypeOK
  BY RecordsAreSeparate, MaterialTypeCorrect, LineageTypeCorrect, PublicTypes
<1> QED
  BY <1>1, PTL DEF RecordsTypeOK

=============================================================================
