---------------------------- MODULE RecordProofs ----------------------------
(***************************************************************************)
(* Proofs about SourceMaterials, for any runs, keys, texts, providers and  *)
(* terms, and about JudgmentLineage, for any judgments, histories and      *)
(* bounds: what the store keeps of a run's sources, and what an inspection *)
(* of a judgment's history makes of them.                                  *)
(*                                                                         *)
(* What a run owns is never deleted by half, because a deletion is one     *)
(* transaction and takes the rows that depend on a record with it          *)
(* (DeletionSafe).  A lookup is many transactions, and that its answer is  *)
(* whole has to be carried through them: WorkSound says how much of the    *)
(* evidence has been stored and what is left, and that nothing it relies   *)
(* on is deleted under it.                                                 *)
(*                                                                         *)
(* The contract of a history can be built because the official records of  *)
(* an inspection are of different judgments (DistinctOK), whatever the     *)
(* entries say.  The result of an inspection, and its replay, speak about  *)
(* the store because the records it rests on stay where they are until it  *)
(* is stored: what the inspection itself writes is never the root          *)
(* (RootOK), and a record whose evidence is missing is replaced before the *)
(* next entry.                                                             *)
(***************************************************************************)
EXTENDS SourceMaterials, JudgmentLineage, FiniteSetTheorems, WellFoundedInduction, TLAPS

Spans == UNION {SpansIn[c] : c \in Contents}
FailureCodes == {"SOURCE_REVALIDATION_FAILED", "OFFICIAL_SOURCE_UNAVAILABLE",
                 "PROVIDER_RESULT_CONTRACT_VIOLATION", "BUDGET_EXCEEDED", "OFFICIAL_SOURCE_NOT_FOUND"}

Failures == [status : {"error", "blocked", "not_found"}, run : Runs, key : Keys, code : FailureCodes]
Founds == [status : {"found"}, run : Runs, key : Keys, code : {"none"}, source : Records]
Bindings == [status : {"bound", "inconsistent"}, run : Runs, code : {"none"}]

\* The locals of a lookup before, while and after it stores.
Looking == [step : {"cache", "fetch"}, run : Runs, key : Keys, shared : BOOLEAN, existing : BOOLEAN]
Storings == [step : {"source", "spans"}, run : Runs, key : Keys, source : Records,
             left : SUBSET Spans, index : BOOLEAN]
Finishings == [step : {"finish"}, run : Runs, answer : Failures \cup Founds]

TablesOK ==
  /\ time \in 0..Horizon
  /\ runEnds \in [Runs -> {NoRun} \cup Nat]
  /\ records \subseteq Records
  /\ links \subseteq Runs \X Records
  /\ held \subseteq Runs \X Records \X Spans
  /\ cached \in [Keys -> {NoEntry} \cup [source : Records, evidence : SUBSET Spans]]
  /\ DOMAIN receipts = Runs

WorkOK == work \in {NoWork} \cup Looking \cup Storings \cup Finishings
ReplyOK == reply \in {NoReply} \cup Failures \cup Founds \cup Bindings

\* A source found is linked to the run, with all of its evidence.
Whole(a) ==
  /\ <<a.run, a.source>> \in links
  /\ \A e \in SpansIn[a.source.text] : <<a.run, a.source, e>> \in held

\* What the operation in progress has done and relies on.
WorkSound ==
  /\ work.step # "idle" => runEnds[work.run] # NoRun
  /\ work.step \in {"cache", "fetch"} /\ work.existing => cached[work.key] # NoEntry
  /\ work.step = "fetch" /\ work.existing => Ends(cached[work.key].source) <= time
  /\ work.step \in {"source", "spans"} => work.source.key = work.key
  /\ work.step = "source" => work.left = SpansIn[work.source.text]
  /\ work.step = "spans" =>
       /\ <<work.run, work.source>> \in links /\ work.left \subseteq SpansIn[work.source.text]
       /\ \A e \in SpansIn[work.source.text] : e \in work.left \/ <<work.run, work.source, e>> \in held
  /\ work.step = "finish" /\ work.answer.status = "found" => Whole(work.answer)

MaterialsInv == TablesOK /\ WorkOK /\ ReplyOK /\ NothingOrphaned /\ WorkSound /\ LookupIsWhole

-----------------------------------------------------------------------------
\* The step of an operation tells which of its locals there are.
LEMMA WorkCases ==
  ASSUME WorkOK
  PROVE  /\ work.step = "idle" => work = NoWork
         /\ work.step \in {"cache", "fetch"} => work \in Looking
         /\ work.step \in {"source", "spans"} => work \in Storings
         /\ work.step = "finish" => work \in Finishings
         /\ work.step \in {"idle", "cache", "fetch", "source", "spans", "finish"}
  BY DEF WorkOK, NoWork, Looking, Storings, Finishings

LEMMA MaterialsInitSafe == MaterialInit => MaterialsInv
  <1> SUFFICES ASSUME MaterialInit PROVE MaterialsInv
    OBVIOUS
  <1>1. TablesOK
    BY SourceMaterialsAssumption DEF MaterialInit, TablesOK, NoRun
  <1>2. WorkOK /\ ReplyOK
    BY DEF MaterialInit, WorkOK, ReplyOK
  <1>3. NothingOrphaned
    BY DEF MaterialInit, NothingOrphaned
  <1>4. WorkSound
    BY DEF MaterialInit, WorkSound, NoWork
  <1>5. LookupIsWhole
    BY DEF MaterialInit, LookupIsWhole, NoReply
  <1>6. QED
    BY <1>1, <1>2, <1>3, <1>4, <1>5 DEF MaterialsInv

\* Deleting runs, with at least the records that only they are linked to,
\* leaves nothing behind.
LEMMA DeletionSafe ==
  ASSUME MaterialsInv, NEW R \in SUBSET Runs, NEW D \in SUBSET records,
         UnlinkedWithout(R) \subseteq D,
         DeleteRows(R, D), cached' = WithoutRecords(D),
         UNCHANGED time
  PROVE  TablesOK' /\ NothingOrphaned'
  <1>1. TablesOK'
    BY DEF MaterialsInv, TablesOK, DeleteRows, WithoutRecords
  <1>2. ASSUME NEW s \in records'
        PROVE  \E r \in Runs : runEnds'[r] # NoRun /\ <<r, s>> \in links'
    <2>1. s \in records /\ s \notin D /\ s \notin UnlinkedWithout(R)
      BY DEF DeleteRows
    <2>2. PICK l \in links : l[2] = s /\ l[1] \notin R
      BY <2>1 DEF UnlinkedWithout
    <2>3. l = <<l[1], s>> /\ l[1] \in Runs /\ runEnds[l[1]] # NoRun
      BY <2>2 DEF MaterialsInv, TablesOK, NothingOrphaned
    <2>4. l \in links' /\ runEnds'[l[1]] # NoRun
      BY <2>1, <2>2, <2>3 DEF DeleteRows
    <2>5. QED
      BY <2>3, <2>4
  <1>3. \A l \in links' : runEnds'[l[1]] # NoRun /\ l[2] \in records'
    BY DEF MaterialsInv, TablesOK, NothingOrphaned, DeleteRows
  <1>4. ASSUME NEW h \in held'
        PROVE  <<h[1], h[2]>> \in links' /\ h[3] \in SpansIn[h[2].text]
    <2>1. h \in held /\ h[1] \notin R /\ h[2] \notin D
      BY DEF DeleteRows
    <2>2. <<h[1], h[2]>> \in links /\ h[3] \in SpansIn[h[2].text]
      BY <2>1 DEF MaterialsInv, NothingOrphaned
    <2>3. QED
      BY <2>1, <2>2 DEF DeleteRows
  <1>5. ASSUME NEW k \in Keys, cached'[k] # NoEntry
        PROVE  /\ cached'[k].source \in records' /\ cached'[k].source.key = k
               /\ cached'[k].evidence = SpansIn[cached'[k].source.text]
    <2>1. cached'[k] = cached[k] /\ cached[k].source \notin D
      BY <1>5 DEF WithoutRecords
    <2>2. QED
      BY <1>5, <2>1 DEF MaterialsInv, NothingOrphaned, DeleteRows
  <1>6. \A r \in Runs : runEnds'[r] = NoRun => receipts'[r] = {}
    BY DEF MaterialsInv, NothingOrphaned, DeleteRows
  <1>7. QED
    BY <1>1, <1>2, <1>3, <1>4, <1>5, <1>6 DEF NothingOrphaned

\* With no operation in progress and no source handed out there is nothing
\* to say of either.
LEMMA AtRest ==
  ASSUME work' = NoWork, reply' = NoReply
  PROVE  WorkOK' /\ ReplyOK' /\ WorkSound' /\ LookupIsWhole'
  BY DEF WorkOK, ReplyOK, WorkSound, LookupIsWhole, NoWork, NoReply

LEMMA DeletionsSafe ==
  ASSUME MaterialsInv, PurgeAll \/ CleanUp \/ \E r \in Runs : PurgeRun(r)
  PROVE  MaterialsInv'
  <1>1. work' = NoWork /\ reply' = NoReply /\ UNCHANGED time
    BY DEF PurgeAll, CleanUp, PurgeRun
  <1>2. TablesOK' /\ NothingOrphaned'
    <2>1. CASE PurgeAll
      <3>1. UnlinkedWithout(Runs) \subseteq records
        BY DEF UnlinkedWithout
      <3>2. cached' = WithoutRecords(records)
        BY <2>1 DEF PurgeAll, WithoutRecords, MaterialsInv, NothingOrphaned
      <3>3. QED
        BY <1>1, <2>1, <3>1, <3>2, DeletionSafe DEF PurgeAll
    <2>2. CASE CleanUp
      <3> DEFINE R == {r \in Runs : runEnds[r] <= time}
                 D == UnlinkedWithout(R) \cup {s \in records : Ends(s) <= time}
      <3>1. DeleteRows(R, D) /\ cached' = WithoutRecords(D)
        BY <2>2 DEF CleanUp
      <3>2. R \in SUBSET Runs /\ D \in SUBSET records /\ UnlinkedWithout(R) \subseteq D
        BY DEF UnlinkedWithout
      <3> HIDE DEF R, D
      <3>3. QED
        BY <1>1, <3>1, <3>2, DeletionSafe
    <2>3. CASE \E r \in Runs : PurgeRun(r)
      <3>1. PICK r \in Runs : PurgeRun(r)
        BY <2>3
      <3>2. UnlinkedWithout({r}) \in SUBSET records
        BY DEF UnlinkedWithout
      <3>3. QED
        BY <1>1, <3>1, <3>2, DeletionSafe DEF PurgeRun
    <2>4. QED
      BY <2>1, <2>2, <2>3
  <1>3. QED
    BY <1>1, <1>2, AtRest DEF MaterialsInv

-----------------------------------------------------------------------------
\* A run is opened, and receipts are looked at: the rows of materials stay.
LEMMA OpenRunSafe ==
  ASSUME MaterialsInv, NEW r \in Runs, OpenRun(r)
  PROVE  MaterialsInv'
  <1>1. work' = NoWork /\ reply' = NoReply
    BY DEF OpenRun
  <1>2. TablesOK'
    BY SourceMaterialsAssumption DEF MaterialsInv, TablesOK, OpenRun
  <1>3. NothingOrphaned'
    <2>1. runEnds'[r] # NoRun
      BY SourceMaterialsAssumption DEF MaterialsInv, TablesOK, OpenRun, NoRun
    <2>2. \A q \in Runs : q # r => runEnds'[q] = runEnds[q]
      BY DEF MaterialsInv, TablesOK, OpenRun
    <2>3. UNCHANGED <<records, links, held, cached, receipts>>
      BY DEF OpenRun
    <2>4. \A l \in links : l[1] \in Runs
      BY DEF MaterialsInv, TablesOK
    <2>5. QED
      BY <2>1, <2>2, <2>3, <2>4 DEF MaterialsInv, NothingOrphaned
  <1>4. QED
    BY <1>1, <1>2, <1>3, AtRest DEF MaterialsInv

LEMMA CheckReceiptsSafe ==
  ASSUME MaterialsInv, NEW r \in Runs, CheckReceipts(r)
  PROVE  MaterialsInv'
  <1>1. reply' \in Bindings /\ UNCHANGED <<time, tables, work>>
    BY DEF CheckReceipts, Bindings
  <1>2. TablesOK' /\ WorkOK' /\ NothingOrphaned' /\ WorkSound'
    BY <1>1 DEF MaterialsInv, TablesOK, WorkOK, NothingOrphaned, WorkSound, Whole, tables
  <1>3. ReplyOK' /\ LookupIsWhole'
    BY <1>1 DEF ReplyOK, LookupIsWhole, Bindings
  <1>4. QED
    BY <1>2, <1>3 DEF MaterialsInv

LEMMA AbandonSafe == MaterialsInv /\ Abandon => MaterialsInv'
  <1> SUFFICES ASSUME MaterialsInv, Abandon PROVE MaterialsInv'
    OBVIOUS
  <1>1. TablesOK' /\ NothingOrphaned'
    BY DEF MaterialsInv, TablesOK, NothingOrphaned, Abandon, tables
  <1>2. QED
    BY <1>1, AtRest DEF MaterialsInv, Abandon

LEMMA PassSafe == MaterialsInv /\ Pass => MaterialsInv'
  <1> SUFFICES ASSUME MaterialsInv, Pass PROVE MaterialsInv'
    OBVIOUS
  <1>1. UNCHANGED <<tables, work, reply>> /\ time' \in 0..Horizon /\ time <= time'
    BY SourceMaterialsAssumption DEF MaterialsInv, TablesOK, Pass
  <1>2. TablesOK' /\ WorkOK' /\ ReplyOK' /\ NothingOrphaned' /\ LookupIsWhole'
    BY <1>1 DEF MaterialsInv, TablesOK, WorkOK, ReplyOK, NothingOrphaned, LookupIsWhole, tables
  <1>3. WorkSound'
    <2>1. work.step = "fetch" /\ work.existing => Ends(cached[work.key].source) <= time'
      <3>1. SUFFICES ASSUME work.step = "fetch", work.existing
                     PROVE  Ends(cached[work.key].source) <= time'
        OBVIOUS
      <3>2. work.key \in Keys /\ cached[work.key] # NoEntry
        BY <3>1, WorkCases DEF MaterialsInv, WorkSound, Looking
      <3>3. cached[work.key].source \in Records
        BY <3>2 DEF MaterialsInv, TablesOK
      <3>4. Ends(cached[work.key].source) \in Int
        BY <3>3, SourceMaterialsAssumption DEF Records, Ends
      <3>5. QED
        BY <1>1, <3>1, <3>4 DEF MaterialsInv, TablesOK, WorkSound
    <2>2. QED
      BY <1>1, <2>1 DEF MaterialsInv, WorkSound, Whole, Ends, tables
  <1>4. QED
    BY <1>2, <1>3 DEF MaterialsInv

-----------------------------------------------------------------------------
\* The steps of a lookup before anything is stored.
LEMMA BeginLookupSafe ==
  ASSUME MaterialsInv, NEW r \in Runs, NEW k \in Keys, NEW shared \in BOOLEAN, BeginLookup(r, k, shared)
  PROVE  MaterialsInv'
  <1>1. UNCHANGED <<time, tables>> /\ reply' = NoReply
    BY DEF BeginLookup
  <1>2. TablesOK' /\ ReplyOK' /\ NothingOrphaned' /\ LookupIsWhole'
    BY <1>1 DEF MaterialsInv, TablesOK, ReplyOK, NothingOrphaned, LookupIsWhole, NoReply, tables
  <1>3. work' \in Looking /\ work'.run = r /\ work'.key = k
    <2>1. (shared /\ cached[k] # NoEntry) \in BOOLEAN
      OBVIOUS
    <2>2. QED
      BY <2>1 DEF BeginLookup, Looking
  <1>4. WorkOK'
    BY <1>3 DEF WorkOK
  <1>5. work'.existing => shared /\ cached[k] # NoEntry
    BY DEF BeginLookup
  <1>6. shared => work'.step = "cache"
    BY DEF BeginLookup
  <1>7. runEnds[r] # NoRun
    BY DEF BeginLookup, MaterialsInv, TablesOK, NoRun
  <1>8. WorkSound'
    BY <1>1, <1>3, <1>5, <1>6, <1>7 DEF WorkSound, Looking, tables
  <1>9. QED
    BY <1>2, <1>4, <1>8 DEF MaterialsInv

\* What is kept when only the locals of the operation change.
LEMMA LocalStep ==
  ASSUME MaterialsInv, UNCHANGED <<time, tables, reply>>, WorkOK', WorkSound'
  PROVE  MaterialsInv'
  BY DEF MaterialsInv, TablesOK, ReplyOK, NothingOrphaned, LookupIsWhole, tables

LEMMA ReadCacheSafe == MaterialsInv /\ ReadCache => MaterialsInv'
  <1> SUFFICES ASSUME MaterialsInv, ReadCache PROVE MaterialsInv'
    OBVIOUS
  <1>1. work \in Looking /\ work.step = "cache" /\ UNCHANGED <<time, tables, reply>>
    BY WorkCases DEF MaterialsInv, ReadCache
  <1>2. work.run \in Runs /\ work.key \in Keys /\ runEnds[work.run] # NoRun
    BY <1>1 DEF MaterialsInv, WorkSound, Looking
  <1>3. CASE FreshEntry(work.key)
    <2> DEFINE s == cached[work.key].source
    <2>1. /\ s \in Records /\ s.key = work.key
          /\ cached[work.key].evidence = SpansIn[s.text] /\ SpansIn[s.text] \subseteq Spans
      BY <1>2, <1>3 DEF MaterialsInv, TablesOK, NothingOrphaned, FreshEntry, Records, Spans
    <2>2. work' = [step |-> "source", run |-> work.run, key |-> work.key, source |-> s,
                   left |-> SpansIn[s.text], index |-> FALSE]
      BY <1>3, <2>1 DEF ReadCache, Storing
    <2>3. WorkOK'
      BY <1>2, <2>1, <2>2 DEF WorkOK, Storings
    <2>4. WorkSound'
      BY <1>1, <1>2, <2>1, <2>2 DEF WorkSound, tables
    <2>5. QED
      BY <1>1, <2>3, <2>4, LocalStep
  <1>4. CASE ~FreshEntry(work.key)
    <2>1. work' = [work EXCEPT !.step = "fetch"]
      BY <1>4 DEF ReadCache
    <2>2. /\ work' \in Looking /\ work'.step = "fetch"
          /\ work'.run = work.run /\ work'.key = work.key /\ work'.existing = work.existing
      BY <1>1, <2>1 DEF Looking
    <2>3. WorkOK'
      BY <2>2 DEF WorkOK
    <2>4. work.existing => cached[work.key] # NoEntry
      BY <1>1 DEF MaterialsInv, WorkSound
    <2>5. work.existing => Ends(cached[work.key].source) <= time
      <3>1. SUFFICES ASSUME cached[work.key] # NoEntry PROVE Ends(cached[work.key].source) <= time
        BY <2>4
      <3>2. cached[work.key].source \in Records
        BY <1>2, <3>1 DEF MaterialsInv, TablesOK
      <3>3. Ends(cached[work.key].source) \in Int
        BY <3>2, SourceMaterialsAssumption DEF Records, Ends
      <3>4. QED
        BY <1>4, <3>1, <3>3 DEF FreshEntry, MaterialsInv, TablesOK
    <2>6. WorkSound'
      BY <1>1, <1>2, <2>2, <2>4, <2>5 DEF WorkSound, Ends, tables
    <2>7. QED
      BY <1>1, <2>3, <2>6, LocalStep
  <1>5. QED
    BY <1>3, <1>4

\* A failed fetch blames the revalidation only of an entry that has ended.
LEMMA FailedFetch ==
  ASSUME MaterialsInv, work.step = "fetch", NEW a \in FetchOutcomes
  PROVE  /\ a \in Failures
         /\ a.code = "SOURCE_REVALIDATION_FAILED" => work.existing
  <1>1. work \in Looking
    BY WorkCases DEF MaterialsInv
  <1>2. work.run \in Runs /\ work.key \in Keys
    BY <1>1 DEF Looking
  <1>3. QED
    BY <1>2 DEF FetchOutcomes, FailedReply, Failures, FailureCodes

LEMMA FetchSafe == MaterialsInv /\ Fetch => MaterialsInv'
  <1> SUFFICES ASSUME MaterialsInv, Fetch PROVE MaterialsInv'
    OBVIOUS
  <1>1. work \in Looking /\ work.step = "fetch" /\ UNCHANGED <<time, tables, reply>>
    BY WorkCases DEF MaterialsInv, Fetch
  <1>2. /\ work.run \in Runs /\ work.key \in Keys /\ work.shared \in BOOLEAN
        /\ runEnds[work.run] # NoRun
    BY <1>1 DEF MaterialsInv, WorkSound, Looking
  <1>3. CASE \E a \in FetchOutcomes : Finishing(a)
    <2>1. PICK a \in FetchOutcomes : Finishing(a)
      BY <1>3
    <2>2. work' = [step |-> "finish", run |-> work.run, answer |-> a] /\ a \in Failures
      BY <1>1, <2>1, FailedFetch DEF Finishing
    <2>3. WorkOK'
      BY <1>2, <2>2 DEF WorkOK, Finishings
    <2>4. WorkSound'
      BY <1>1, <1>2, <2>2 DEF WorkSound, Failures, tables
    <2>5. QED
      BY <1>1, <2>3, <2>4, LocalStep
  <1>4. CASE \E c \in Contents : work' = Storing([key |-> work.key, at |-> time, text |-> c], SpansIn[c], work.shared)
    <2>1. PICK c \in Contents :
            work' = Storing([key |-> work.key, at |-> time, text |-> c], SpansIn[c], work.shared)
      BY <1>4
    <2> DEFINE s == [key |-> work.key, at |-> time, text |-> c]
    <2>2. s \in Records /\ s.key = work.key /\ s.text = c /\ SpansIn[c] \subseteq Spans
      BY <1>2 DEF MaterialsInv, TablesOK, Records, Spans
    <2>3. work' = [step |-> "source", run |-> work.run, key |-> work.key, source |-> s,
                   left |-> SpansIn[c], index |-> work.shared]
      BY <2>1 DEF Storing
    <2>4. WorkOK'
      BY <1>2, <2>2, <2>3 DEF WorkOK, Storings
    <2>5. WorkSound'
      BY <1>1, <1>2, <2>2, <2>3 DEF WorkSound, tables
    <2>6. QED
      BY <1>1, <2>4, <2>5, LocalStep
  <1>5. QED
    BY <1>3, <1>4 DEF Fetch

-----------------------------------------------------------------------------
\* The transactions of a lookup.
LEMMA SaveSourceSafe == MaterialsInv /\ SaveSource => MaterialsInv'
  <1> SUFFICES ASSUME MaterialsInv, SaveSource PROVE MaterialsInv'
    OBVIOUS
  <1>1. work \in Storings /\ work.step = "source"
    BY WorkCases DEF MaterialsInv, SaveSource
  <1>2. /\ work.run \in Runs /\ work.source \in Records /\ runEnds[work.run] # NoRun
        /\ work.source.key = work.key /\ work.left = SpansIn[work.source.text]
    BY <1>1 DEF MaterialsInv, WorkSound, Storings
  <1>3. /\ records' = records \cup {work.source} /\ links' = links \cup {<<work.run, work.source>>}
        /\ UNCHANGED <<time, runEnds, held, cached, receipts, reply>>
    BY DEF SaveSource, StoreSource
  <1>4. /\ work' \in Storings /\ work'.step = "spans" /\ work'.run = work.run /\ work'.key = work.key
        /\ work'.source = work.source /\ work'.left = work.left
    BY <1>1 DEF SaveSource, Storings
  <1>5. TablesOK'
    BY <1>2, <1>3 DEF MaterialsInv, TablesOK
  <1>6. WorkOK' /\ ReplyOK'
    BY <1>3, <1>4 DEF MaterialsInv, WorkOK, ReplyOK
  <1>7. NothingOrphaned'
    <2>1. \A s \in records' : \E r \in Runs : runEnds'[r] # NoRun /\ <<r, s>> \in links'
      BY <1>2, <1>3 DEF MaterialsInv, NothingOrphaned
    <2>2. \A l \in links' : runEnds'[l[1]] # NoRun /\ l[2] \in records'
      BY <1>2, <1>3 DEF MaterialsInv, NothingOrphaned
    <2>3. \A h \in held' : <<h[1], h[2]>> \in links' /\ h[3] \in SpansIn[h[2].text]
      BY <1>3 DEF MaterialsInv, NothingOrphaned
    <2>4. QED
      BY <1>3, <2>1, <2>2, <2>3 DEF MaterialsInv, NothingOrphaned
  <1>8. WorkSound'
    BY <1>2, <1>3, <1>4 DEF WorkSound
  <1>9. LookupIsWhole'
    BY <1>3 DEF MaterialsInv, LookupIsWhole
  <1>10. QED
    BY <1>5, <1>6, <1>7, <1>8, <1>9 DEF MaterialsInv

LEMMA SaveEvidenceSafe == MaterialsInv /\ SaveEvidence => MaterialsInv'
  <1> SUFFICES ASSUME MaterialsInv, SaveEvidence PROVE MaterialsInv'
    OBVIOUS
  <1>1. work \in Storings /\ work.step = "spans"
    BY WorkCases DEF MaterialsInv, SaveEvidence
  <1>2. PICK e \in work.left : /\ StoreSpan(work.run, work.source, e)
                               /\ work' = [work EXCEPT !.left = @ \ {e}]
    BY DEF SaveEvidence
  <1>3. /\ work.run \in Runs /\ work.source \in Records /\ e \in Spans /\ runEnds[work.run] # NoRun
        /\ work.source.key = work.key /\ <<work.run, work.source>> \in links
        /\ work.left \subseteq SpansIn[work.source.text]
        /\ \A x \in SpansIn[work.source.text] :
              x \in work.left \/ <<work.run, work.source, x>> \in held
    BY <1>1 DEF MaterialsInv, WorkSound, Storings
  <1>4. /\ held' = held \cup {<<work.run, work.source, e>>}
        /\ UNCHANGED <<time, runEnds, records, links, cached, receipts, reply>>
    BY <1>2 DEF SaveEvidence, StoreSpan
  <1>5. /\ work' \in Storings /\ work'.step = "spans" /\ work'.run = work.run /\ work'.key = work.key
        /\ work'.source = work.source /\ work'.left = work.left \ {e}
    BY <1>1, <1>2 DEF Storings
  <1>6. TablesOK'
    BY <1>3, <1>4 DEF MaterialsInv, TablesOK
  <1>7. WorkOK' /\ ReplyOK'
    BY <1>4, <1>5 DEF MaterialsInv, WorkOK, ReplyOK
  <1>8. NothingOrphaned'
    <2>1. ASSUME NEW h \in held'
          PROVE  <<h[1], h[2]>> \in links /\ h[3] \in SpansIn[h[2].text]
      <3>1. CASE h \in held
        BY <3>1 DEF MaterialsInv, NothingOrphaned
      <3>2. CASE h = <<work.run, work.source, e>>
        BY <1>2, <1>3, <3>2
      <3>3. QED
        BY <1>4, <3>1, <3>2
    <2>2. QED
      BY <1>4, <2>1 DEF MaterialsInv, NothingOrphaned
  <1>9. WorkSound'
    BY <1>3, <1>4, <1>5 DEF WorkSound
  <1>10. LookupIsWhole'
    BY <1>4 DEF MaterialsInv, LookupIsWhole
  <1>11. QED
    BY <1>6, <1>7, <1>8, <1>9, <1>10 DEF MaterialsInv

LEMMA SaveCacheEntrySafe == MaterialsInv /\ SaveCacheEntry => MaterialsInv'
  <1> SUFFICES ASSUME MaterialsInv, SaveCacheEntry PROVE MaterialsInv'
    OBVIOUS
  <1>1. work \in Storings /\ work.step = "spans" /\ work.left = {}
    BY WorkCases DEF MaterialsInv, SaveCacheEntry
  <1>2. /\ work.run \in Runs /\ work.key \in Keys /\ work.source \in Records
        /\ runEnds[work.run] # NoRun /\ work.source.key = work.key
        /\ <<work.run, work.source>> \in links
        /\ \A e \in SpansIn[work.source.text] : <<work.run, work.source, e>> \in held
    BY <1>1 DEF MaterialsInv, WorkSound, Storings
  <1>3. UNCHANGED <<time, runEnds, records, links, held, receipts, reply>>
    BY DEF SaveCacheEntry
  <1> DEFINE entry == [source |-> work.source, evidence |-> SpansIn[work.source.text]]
  <1>4. cached' = cached \/ cached' = [cached EXCEPT ![work.key] = entry]
    BY DEF SaveCacheEntry
  <1>5. entry \in [source : Records, evidence : SUBSET Spans]
    BY <1>2 DEF Records, Spans
  <1>6. work' = [step |-> "finish", run |-> work.run, answer |-> FoundReply] /\ FoundReply \in Founds
    BY <1>2 DEF SaveCacheEntry, Finishing, FoundReply, Founds
  <1>7. TablesOK'
    BY <1>2, <1>3, <1>4, <1>5 DEF MaterialsInv, TablesOK
  <1>8. WorkOK' /\ ReplyOK'
    BY <1>2, <1>3, <1>6 DEF MaterialsInv, WorkOK, ReplyOK, Finishings
  <1>9. NothingOrphaned'
    <2>1. work.source \in records
      BY <1>2 DEF MaterialsInv, NothingOrphaned
    <2>2. ASSUME NEW k \in Keys, cached'[k] # NoEntry
          PROVE  /\ cached'[k].source \in records /\ cached'[k].source.key = k
                 /\ cached'[k].evidence = SpansIn[cached'[k].source.text]
      BY <1>2, <1>4, <2>1, <2>2 DEF MaterialsInv, TablesOK, NothingOrphaned
    <2>3. QED
      BY <1>3, <2>2 DEF MaterialsInv, NothingOrphaned
  <1>10. WorkSound'
    BY <1>2, <1>3, <1>6 DEF WorkSound, Whole, FoundReply
  <1>11. LookupIsWhole'
    BY <1>3 DEF MaterialsInv, LookupIsWhole
  <1>12. QED
    BY <1>7, <1>8, <1>9, <1>10, <1>11 DEF MaterialsInv

LEMMA FinishLookupSafe == MaterialsInv /\ FinishLookup => MaterialsInv'
  <1> SUFFICES ASSUME MaterialsInv, FinishLookup PROVE MaterialsInv'
    OBVIOUS
  <1>1. work \in Finishings /\ work.step = "finish"
    BY WorkCases DEF MaterialsInv, FinishLookup
  <1>2. /\ work.run \in Runs /\ runEnds[work.run] # NoRun /\ work.answer \in Failures \cup Founds
        /\ work.answer.status = "found" => Whole(work.answer)
    BY <1>1 DEF MaterialsInv, WorkSound, Finishings
  <1>3. /\ UNCHANGED <<time, runEnds, records, links, held, cached>>
        /\ receipts' = [receipts EXCEPT ![work.run] = DueAt(work.run, time)]
        /\ reply' = work.answer /\ work' = NoWork
    BY DEF FinishLookup, SyncReceipts
  <1>4. TablesOK'
    BY <1>3 DEF MaterialsInv, TablesOK
  <1>5. WorkOK' /\ ReplyOK'
    BY <1>2, <1>3 DEF WorkOK, ReplyOK
  <1>6. NothingOrphaned'
    <2>1. \A r \in Runs : r # work.run => receipts'[r] = receipts[r]
      BY <1>3 DEF MaterialsInv, TablesOK
    <2>2. QED
      BY <1>2, <1>3, <2>1 DEF MaterialsInv, NothingOrphaned
  <1>7. WorkSound'
    BY <1>3 DEF WorkSound, NoWork
  <1>8. LookupIsWhole'
    BY <1>2, <1>3 DEF LookupIsWhole, Whole
  <1>9. QED
    BY <1>4, <1>5, <1>6, <1>7, <1>8 DEF MaterialsInv

-----------------------------------------------------------------------------
LEMMA MaterialsStepSafe == MaterialsInv /\ [MaterialNext]_materialVars => MaterialsInv'
  <1> SUFFICES ASSUME MaterialsInv, [MaterialNext]_materialVars PROVE MaterialsInv'
    OBVIOUS
  <1>1. CASE \E r \in Runs : OpenRun(r) \/ PurgeRun(r) \/ CheckReceipts(r)
    BY <1>1, OpenRunSafe, DeletionsSafe, CheckReceiptsSafe
  <1>2. CASE PurgeAll \/ CleanUp
    BY <1>2, DeletionsSafe
  <1>3. CASE \E r \in Runs, k \in Keys, shared \in BOOLEAN : BeginLookup(r, k, shared)
    BY <1>3, BeginLookupSafe
  <1>4. CASE ReadCache \/ Fetch
    BY <1>4, ReadCacheSafe, FetchSafe
  <1>5. CASE SaveSource \/ SaveEvidence \/ SaveCacheEntry \/ FinishLookup
    BY <1>5, SaveSourceSafe, SaveEvidenceSafe, SaveCacheEntrySafe, FinishLookupSafe
  <1>6. CASE Abandon \/ Pass
    BY <1>6, AbandonSafe, PassSafe
  <1>7. CASE UNCHANGED materialVars
    <2>1. UNCHANGED <<time, tables, work, reply>>
      BY <1>7 DEF materialVars
    <2>2. WorkOK' /\ WorkSound'
      BY <2>1 DEF MaterialsInv, WorkOK, WorkSound, Whole, Ends, tables
    <2>3. QED
      BY <2>1, <2>2, LocalStep
  <1>8. QED
    BY <1>1, <1>2, <1>3, <1>4, <1>5, <1>6, <1>7 DEF MaterialNext

LEMMA MaterialsInvariance == MaterialSpec => []MaterialsInv
  <1>1. QED
    BY MaterialsInitSafe, MaterialsStepSafe, PTL DEF MaterialSpec

\* The tables, the lookup in progress and the last reply are well typed.
THEOREM MaterialTypeCorrect == MaterialSpec => []MaterialTypeOK
  <1>1. MaterialsInv => MaterialTypeOK
    <2> SUFFICES ASSUME MaterialsInv PROVE MaterialTypeOK
      OBVIOUS
    <2>1. \A k \in Keys : cached[k] = NoEntry \/ cached[k].source \in Records
      BY DEF MaterialsInv, TablesOK
    <2>2. reply.status \in {"none", "found", "not_found", "error", "blocked", "bound", "inconsistent"}
      BY DEF MaterialsInv, ReplyOK, NoReply, Failures, Founds, Bindings
    <2>3. QED
      BY <2>1, <2>2 DEF MaterialsInv, TablesOK, MaterialTypeOK
  <1>2. QED
    BY <1>1, MaterialsInvariance, PTL

\* Whatever is purged, cleaned up or abandoned half way, and in whatever
\* order, the store keeps nothing that no run owns (sqlite_store.py).
THEOREM NothingIsOrphaned == MaterialSpec => []NothingOrphaned
  <1>1. MaterialsInv => NothingOrphaned
    BY DEF MaterialsInv
  <1>2. QED
    BY <1>1, MaterialsInvariance, PTL

\* A lookup answers with a source of the run and all of its evidence
\* (_cached_lookup of provider_executor.py).
THEOREM LookupsAreWhole == MaterialSpec => []LookupIsWhole
  <1>1. MaterialsInv => LookupIsWhole
    BY DEF MaterialsInv
  <1>2. QED
    BY <1>1, MaterialsInvariance, PTL

\* SOURCE_REVALIDATION_FAILED is said only of what the cache holds and whose
\* term has ended (_cached_lookup).
THEOREM RevalidationsAreOfExpired == MaterialSpec => RevalidationIsOfExpired
  <1>1. ASSUME MaterialsInv, MaterialNext,
               work.step = "fetch", work'.step = "finish",
               work'.answer.code = "SOURCE_REVALIDATION_FAILED"
        PROVE  cached[work.key] # NoEntry /\ Ends(cached[work.key].source) <= time
    <2>1. Fetch
      <3>1. work # NoWork /\ work' # work
        BY <1>1 DEF NoWork
      <3>2. work' # NoWork
        BY <1>1 DEF NoWork
      <3>3. QED
        BY <1>1, <3>1, <3>2
        DEF MaterialNext, materialVars, OpenRun, PurgeRun, CheckReceipts, PurgeAll, CleanUp, BeginLookup,
            ReadCache, SaveSource, SaveEvidence, SaveCacheEntry, FinishLookup, Abandon, Pass
    <2>2. PICK a \in FetchOutcomes : Finishing(a)
      <3>1. ~\E c \in Contents : work' = Storing([key |-> work.key, at |-> time, text |-> c], SpansIn[c], work.shared)
        BY <1>1 DEF Storing
      <3>2. QED
        BY <2>1, <3>1 DEF Fetch
    <2>3. a.code = "SOURCE_REVALIDATION_FAILED"
      BY <1>1, <2>2 DEF Finishing
    <2>4. work.existing
      BY <1>1, <2>3, FailedFetch
    <2>5. QED
      BY <1>1, <2>4 DEF MaterialsInv, WorkSound
  <1>2. MaterialsInv /\ [MaterialNext]_materialVars =>
          [work.step = "fetch" /\ work'.step = "finish" /\ work'.answer.code = "SOURCE_REVALIDATION_FAILED" =>
             /\ cached[work.key] # NoEntry
             /\ Ends(cached[work.key].source) <= time]_materialVars
    BY <1>1
  <1>3. QED
    BY <1>2, MaterialsInvariance, PTL DEF MaterialSpec, RevalidationIsOfExpired

-----------------------------------------------------------------------------
\* There is one receipt for each provider with evidence, of its material.
LEMMA DueOfProviders ==
  ASSUME NEW r \in Runs, NEW t \in Int
  PROVE  /\ \A x \in DueAt(r, t) : \E v \in ProvidersAt(r, t) : x.material = MaterialOf(r, v, t)
         /\ \A v \in ProvidersAt(r, t) : \E x \in DueAt(r, t) : x.material = MaterialOf(r, v, t)
  <1> DEFINE Until(v) == Min({runEnds[r]} \cup {Ends(s) : s \in SourcesOf(r, v, t)})
             Due(v) == [provider |-> v, material |-> MaterialOf(r, v, t), ends |-> Until(v)]
  <1>1. DueAt(r, t) = {Due(v) : v \in ProvidersAt(r, t)}
    BY Zenon DEF DueAt
  <1> HIDE DEF Until
  <1>2. \A v : Due(v).material = MaterialOf(r, v, t)
    OBVIOUS
  <1> HIDE DEF Due
  <1>3. QED
    BY <1>1, <1>2

\* The receipts that are due cover just the evidence that may be used.
LEMMA DueCoversEvidence ==
  ASSUME MaterialsInv, NEW r \in Runs, NEW t \in Int
  PROVE  UNION {x.material.evidence : x \in DueAt(r, t)} = {p \in EvidenceOf(r) : t < Ends(p[1])}
  <1>1. ASSUME NEW x \in DueAt(r, t), NEW p \in x.material.evidence
        PROVE  p \in EvidenceOf(r) /\ t < Ends(p[1])
    <2>1. PICK v \in ProvidersAt(r, t) : x.material = MaterialOf(r, v, t)
      BY DueOfProviders
    <2>2. QED
      BY <2>1 DEF MaterialOf, SourcesOf
  <1>2. ASSUME NEW p \in EvidenceOf(r), t < Ends(p[1])
        PROVE  \E x \in DueAt(r, t) : p \in x.material.evidence
    <2>1. PICK h \in held : h[1] = r /\ p = <<h[2], h[3]>>
      BY DEF EvidenceOf
    <2>2. p[1] \in records /\ p[1] \in Records /\ <<r, p[1]>> \in links
      BY <2>1 DEF MaterialsInv, TablesOK, NothingOrphaned
    <2> DEFINE v == ProviderOf[p[1].key]
    <2>3. p \in MaterialOf(r, v, t).evidence
      BY <1>2, <2>2 DEF MaterialOf, SourcesOf
    <2>4. v \in ProvidersAt(r, t)
      BY <2>2, <2>3 DEF ProvidersAt, Records
    <2> HIDE DEF v
    <2>5. QED
      BY <2>3, <2>4, DueOfProviders
  <1>3. QED
    BY <1>1, <1>2

\* A finalization contract calls receipts valid only if they cover all the
\* evidence that may be used, and no other (check_run_snapshot_receipts).
THEOREM BoundReceiptsAreCurrent == MaterialSpec => ReceiptsAreCurrent
  <1>1. ASSUME MaterialsInv, MaterialNext, reply' # reply, reply'.status = "bound"
        PROVE  UNION {x.material.evidence : x \in receipts[reply'.run]} =
                 {p \in EvidenceOf(reply'.run) : time < Ends(p[1])}
    <2>1. reply' # NoReply
      BY <1>1 DEF NoReply
    <2>2. ~FinishLookup
      <3>1. SUFFICES ASSUME FinishLookup PROVE FALSE
        OBVIOUS
      <3>2. work \in Finishings /\ reply' = work.answer
        BY <1>1, <3>1, WorkCases DEF MaterialsInv, FinishLookup
      <3>3. QED
        BY <1>1, <3>2 DEF Finishings, Failures, Founds
    <2>3. PICK r \in Runs : CheckReceipts(r)
      BY <1>1, <2>1, <2>2
      DEF MaterialNext, materialVars, OpenRun, PurgeRun, PurgeAll, CleanUp, BeginLookup,
          ReadCache, Fetch, SaveSource, SaveEvidence, SaveCacheEntry, Abandon, Pass
    <2>4. reply'.run = r /\ receipts[r] = DueAt(r, time)
      BY <1>1, <2>3 DEF CheckReceipts, ReceiptsValid
    <2>5. time \in Int
      BY <1>1 DEF MaterialsInv, TablesOK
    <2>6. QED
      BY <1>1, <2>4, <2>5, DueCoversEvidence
  <1>2. MaterialsInv /\ [MaterialNext]_materialVars =>
          [reply' # reply /\ reply'.status = "bound" =>
             UNION {x.material.evidence : x \in receipts[reply'.run]} =
               {p \in EvidenceOf(reply'.run) : time < Ends(p[1])}]_materialVars
    BY <1>1
  <1>3. QED
    BY <1>2, MaterialsInvariance, PTL DEF MaterialSpec, ReceiptsAreCurrent

-----------------------------------------------------------------------------
(* The history of a judgment.                                              *)

JudgmentRecords == [doc : Judgments, at : Nat, disp : Dispositions, whole : BOOLEAN]

Asking == inspection.step \in {"history", "refresh"}
Verifying == inspection.step \in {"verify", "store"}

AskingFields == {"step", "last", "began", "root"}
VerifyingFields == {"step", "began", "root", "left", "verified"}

Shapes ==
  /\ moment \in 0..LineageHorizon
  /\ \A s \in stock \cup bound : s \in JudgmentRecords /\ s.at <= moment
  /\ inspection.step \in {"idle", "history", "refresh", "verify", "store", "finish"}
  /\ Asking => DOMAIN inspection = AskingFields
  /\ Verifying => DOMAIN inspection = VerifyingFields
  /\ completed.status \in {"none", "stored"}
  /\ returned.status \in {"none", "new", "replayed", "stale"}

\* The newest record of the root among those of a set.
NewestOf(q, S) == q \in S /\ q.doc = Root /\ \A s \in S : s.doc = Root => s.at <= q.at

RootOK == Asking \/ Verifying => NewestOf(inspection.root, stock)

\* The judgments verified so far.
Docs(V) == {v.source.doc : v \in V}

GoodEntry(v) ==
  /\ v.source \in JudgmentRecords /\ v.source.whole /\ v.source.at <= moment
  /\ v.source.doc # Root /\ v.direction \in Directions

DistinctOK ==
  Verifying =>
    /\ \A v \in inspection.verified : GoodEntry(v)
    /\ \A v, w \in inspection.verified : v.source.doc = w.source.doc => v = w
    /\ IsFiniteSet(inspection.verified) /\ IsFiniteSet(Docs(inspection.verified))
    /\ Cardinality(Docs(inspection.verified)) = Cardinality(inspection.verified)

StoredOK == inspection.step = "verify" => \A v \in inspection.verified : v.source \in stock

\* A result that rests on the records of a set.
RestsOn(result, S) ==
  /\ result.sources \subseteq S
  /\ result.reversal => \E s \in result.sources : s.doc # Root /\ s.disp = "vacates"
  /\ result.status = "qualified" => \E q \in result.sources : NewestOf(q, S)

ResultsOK ==
  /\ inspection.step = "finish" => RestsOn(inspection.result, stock)
  /\ completed.status = "stored" =>
       /\ RestsOn(completed.result, completed.digest.sources)
       /\ \A s \in completed.digest.sources : s \in JudgmentRecords

LineageInv == Shapes /\ RootOK /\ DistinctOK /\ StoredOK /\ ResultsOK

-----------------------------------------------------------------------------
LEMMA HorizonIsNatural == LineageHorizon \in Nat /\ LineageTTL \in Nat
  BY JudgmentLineageAssumption

LEMMA DispositionsAre == \A d : DispositionsOf(d) \subseteq Dispositions
  BY DEF DispositionsOf, Dispositions

\* A set of natural numbers with a bound has a largest one.
LEMMA LargestExists ==
  ASSUME NEW n \in Nat, NEW T \in SUBSET (0..n), T # {}
  PROVE  \E x \in T : \A y \in T : y <= x
  <1> DEFINE U == {n - x : x \in T}
             R == OpToRel(<, Nat)
  <1>1. U \subseteq Nat /\ U # {}
    <2>1. \A x \in T : x \in Nat /\ x <= n /\ n - x \in Nat
      OBVIOUS
    <2>2. QED
      BY <2>1
  <1>2. IsWellFoundedOn(R, Nat)
    BY NatLessThanWellFounded
  <1> HIDE DEF R
  <1>3. PICK u \in U : \A w \in U : ~(<<w, u>> \in R)
    BY <1>1, <1>2, WFMin
  <1>4. \A w \in U : ~(w < u)
    BY <1>1, <1>3 DEF R, OpToRel
  <1>5. PICK x \in T : u = n - x
    BY DEF U
  <1>6. \A y \in T : y <= x
    <2> SUFFICES ASSUME NEW y \in T PROVE y <= x
      OBVIOUS
    <2>1. ~(n - y < n - x)
      BY <1>4, <1>5
    <2>2. QED
      BY <2>1
  <1>7. QED
    BY <1>6

\* When the run holds the root, RootRecord is its newest record.
LEMMA RootRecordIsNewest ==
  ASSUME Shapes, RootRecords # {}
  PROVE  NewestOf(RootRecord, stock)
  <1> DEFINE T == {s.at : s \in RootRecords}
  <1>1. moment \in Nat
    BY HorizonIsNatural DEF Shapes
  <1>2. T \in SUBSET (0..moment) /\ T # {}
    BY <1>1 DEF Shapes, JudgmentRecords, RootRecords
  <1>3. \E x \in T : \A y \in T : y <= x
    BY <1>1, <1>2, LargestExists
  <1>4. \E s \in RootRecords : \A q \in RootRecords : q.at <= s.at
    BY <1>3
  <1>5. RootRecord \in RootRecords /\ \A q \in RootRecords : q.at <= RootRecord.at
    BY <1>4 DEF RootRecord
  <1>6. QED
    BY <1>5 DEF NewestOf, RootRecords

-----------------------------------------------------------------------------
LEMMA LineageInitSafe == LineageInit => LineageInv
  <1> SUFFICES ASSUME LineageInit PROVE LineageInv
    OBVIOUS
  <1>1. /\ moment = 0 /\ stock = {} /\ bound = {} /\ inspection.step = "idle"
        /\ completed.status = "none" /\ returned.status = "none"
    BY DEF LineageInit, NoInspection, NoResult
  <1>2. QED
    BY <1>1, HorizonIsNatural
    DEF LineageInv, Shapes, Asking, Verifying, RootOK, DistinctOK, StoredOK, ResultsOK

\* A step that ends an inspection where it is, or leaves none.
LEMMA StopSafe ==
  ASSUME LineageInv, StoreSame, returned'.status \in {"none", "new", "replayed", "stale"},
         \/ inspection' = NoInspection
         \/ \E result : End(result) /\ RestsOn(result, stock)
  PROVE  LineageInv'
  <1>1. \/ inspection'.step = "idle"
        \/ inspection'.step = "finish" /\ RestsOn(inspection'.result, stock)
    BY DEF NoInspection, End
  <1>2. moment' = moment /\ stock' = stock /\ bound' = bound /\ completed' = completed
    BY DEF StoreSame
  <1>3. Shapes'
    BY <1>1, <1>2 DEF LineageInv, Shapes, Asking, Verifying
  <1>4. RootOK' /\ DistinctOK' /\ StoredOK'
    BY <1>1 DEF RootOK, DistinctOK, StoredOK, Asking, Verifying
  <1>5. ResultsOK'
    BY <1>1, <1>2 DEF LineageInv, ResultsOK, RestsOn, NewestOf
  <1>6. QED
    BY <1>3, <1>4, <1>5 DEF LineageInv

LEMMA BlockedRests == RestsOn(BlockedResult, stock)
  BY DEF RestsOn, BlockedResult

\* A step within the history changes the inspection only.
LEMMA AskSafe ==
  ASSUME LineageInv, StoreSame, returned'.status \in {"none", "new", "replayed", "stale"},
         Asking', DOMAIN inspection' = AskingFields, NewestOf(inspection'.root, stock)
  PROVE  LineageInv'
  <1>1. moment' = moment /\ stock' = stock /\ bound' = bound /\ completed' = completed
    BY DEF StoreSame
  <1>2. inspection'.step \in {"history", "refresh"}
    BY DEF Asking
  <1>3. Shapes'
    BY <1>1, <1>2 DEF LineageInv, Shapes, Asking, Verifying
  <1>4. RootOK' /\ DistinctOK' /\ StoredOK'
    BY <1>1, <1>2 DEF RootOK, DistinctOK, StoredOK, Verifying, NewestOf
  <1>5. ResultsOK'
    BY <1>1, <1>2 DEF LineageInv, ResultsOK
  <1>6. QED
    BY <1>3, <1>4, <1>5 DEF LineageInv

LEMMA BeginSafe ==
  ASSUME LineageInv, NEW provider \in BOOLEAN, NEW candidate \in BOOLEAN,
         BeginInspection(provider, candidate)
  PROVE  LineageInv'
  <1>1. StoreSame /\ returned'.status = "none"
    BY DEF BeginInspection, NoResult
  <1>2. CASE End(BlockedResult)
    BY <1>1, <1>2, StopSafe, BlockedRests
  <1>3. CASE ~End(BlockedResult)
    <2>1. /\ RootRecords # {}
          /\ inspection' = [step |-> IF candidate THEN "history" ELSE "refresh", last |-> ~candidate,
                            began |-> moment, root |-> RootRecord]
      BY <1>3 DEF BeginInspection
    <2>2. NewestOf(RootRecord, stock)
      BY <2>1, RootRecordIsNewest DEF LineageInv
    <2>3. Asking' /\ DOMAIN inspection' = AskingFields /\ inspection'.root = RootRecord
      BY <2>1 DEF Asking, AskingFields
    <2>4. QED
      BY <1>1, <2>2, <2>3, AskSafe
  <1>4. QED
    BY <1>2, <1>3

-----------------------------------------------------------------------------
\* A step of the verification that writes nothing.
LEMMA WithinSafe ==
  ASSUME LineageInv, StoreSame, returned' = returned,
         Verifying', DOMAIN inspection' = VerifyingFields,
         NewestOf(inspection'.root, stock), DistinctOK',
         inspection'.step = "verify" => \A v \in inspection'.verified : v.source \in stock
  PROVE  LineageInv'
  <1>1. moment' = moment /\ stock' = stock /\ bound' = bound /\ completed' = completed
    BY DEF StoreSame
  <1>2. inspection'.step \in {"verify", "store"}
    BY DEF Verifying
  <1>3. Shapes'
    BY <1>1, <1>2 DEF LineageInv, Shapes, Asking, Verifying
  <1>4. RootOK' /\ StoredOK'
    BY <1>1 DEF RootOK, StoredOK, NewestOf
  <1>5. ResultsOK'
    BY <1>1, <1>2 DEF LineageInv, ResultsOK
  <1>6. QED
    BY <1>3, <1>4, <1>5 DEF LineageInv

LEMMA AskHistorySafe == LineageInv /\ AskHistory => LineageInv'
  <1> SUFFICES ASSUME LineageInv, AskHistory PROVE LineageInv'
    OBVIOUS
  <1>1. StoreSame /\ returned' = returned /\ inspection.step = "history"
    BY DEF AskHistory
  <1>2. /\ DOMAIN inspection = AskingFields /\ NewestOf(inspection.root, stock)
        /\ returned'.status \in {"none", "new", "replayed", "stale"}
    BY <1>1 DEF LineageInv, Shapes, RootOK, Asking
  <1>3. CASE inspection' = [inspection EXCEPT !.step = "refresh", !.last = TRUE]
    <2>1. Asking' /\ DOMAIN inspection' = AskingFields /\ inspection'.root = inspection.root
      BY <1>2, <1>3 DEF Asking, AskingFields
    <2>2. QED
      BY <1>1, <1>2, <2>1, AskSafe
  <1>4. CASE End(BlockedResult)
    BY <1>1, <1>2, <1>4, StopSafe, BlockedRests
  <1>5. ASSUME NEW n \in 0..MaxEntries,
               inspection' = [step |-> "verify", began |-> inspection.began, root |-> inspection.root,
                              left |-> Min({n, MaxRelated}), verified |-> {}]
        PROVE  LineageInv'
    <2>1. /\ inspection'.step = "verify" /\ inspection'.verified = {}
          /\ inspection'.root = inspection.root /\ DOMAIN inspection' = VerifyingFields
      BY <1>5 DEF VerifyingFields
    <2>2. Docs({}) = {} /\ IsFiniteSet({})
      BY FS_EmptySet DEF Docs
    <2>3. DistinctOK'
      BY <2>1, <2>2 DEF DistinctOK, Docs
    <2>4. QED
      BY <1>1, <1>2, <2>1, <2>3, WithinSafe DEF Verifying
  <1>6. QED
    BY <1>3, <1>4, <1>5 DEF AskHistory

LEMMA RefreshSafe == LineageInv /\ RefreshHandle => LineageInv'
  <1> SUFFICES ASSUME LineageInv, RefreshHandle PROVE LineageInv'
    OBVIOUS
  <1>1. StoreSame /\ returned' = returned /\ inspection.step = "refresh"
    BY DEF RefreshHandle
  <1>2. /\ DOMAIN inspection = AskingFields /\ NewestOf(inspection.root, stock)
        /\ returned'.status \in {"none", "new", "replayed", "stale"}
    BY <1>1 DEF LineageInv, Shapes, RootOK, Asking
  <1>3. CASE End(BlockedResult)
    BY <1>1, <1>2, <1>3, StopSafe, BlockedRests
  <1>4. CASE inspection' = [inspection EXCEPT !.step = "history"]
    <2>1. Asking' /\ DOMAIN inspection' = AskingFields /\ inspection'.root = inspection.root
      BY <1>2, <1>4 DEF Asking, AskingFields
    <2>2. QED
      BY <1>1, <1>2, <2>1, AskSafe
  <1>5. QED
    BY <1>3, <1>4 DEF RefreshHandle

\* An entry that is passed over.
LEMMA NextEntrySafe ==
  ASSUME LineageInv, StoreSame, returned' = returned, inspection.step = "verify", NextEntry
  PROVE  LineageInv'
  <1>1. /\ DOMAIN inspection' = VerifyingFields /\ inspection'.step = "verify"
        /\ inspection'.root = inspection.root /\ inspection'.verified = inspection.verified
    BY DEF NextEntry, LineageInv, Shapes, Verifying, VerifyingFields
  <1>2. moment' = moment
    BY DEF StoreSame
  <1>3. DistinctOK'
    BY <1>1, <1>2 DEF LineageInv, DistinctOK, Verifying, GoodEntry
  <1>4. QED
    BY <1>1, <1>3, WithinSafe DEF LineageInv, RootOK, StoredOK, Verifying

\* A record of a judgment not verified yet keeps the judgments apart.
LEMMA AddedDistinct ==
  ASSUME NEW V, NEW x, IsFiniteSet(V), IsFiniteSet(Docs(V)),
         Cardinality(Docs(V)) = Cardinality(V), \A v \in V : v.source.doc # x.source.doc
  PROVE  /\ IsFiniteSet(V \cup {x}) /\ IsFiniteSet(Docs(V \cup {x}))
         /\ Cardinality(Docs(V \cup {x})) = Cardinality(V \cup {x})
  <1>1. Docs(V \cup {x}) = Docs(V) \cup {x.source.doc}
    BY DEF Docs
  <1>2. x \notin V /\ x.source.doc \notin Docs(V)
    BY DEF Docs
  <1>3. QED
    BY <1>1, <1>2, FS_AddElement

LEMMA VerifyEntrySafe == LineageInv /\ VerifyEntry => LineageInv'
  <1> SUFFICES ASSUME LineageInv, VerifyEntry PROVE LineageInv'
    OBVIOUS
  <1>1. StoreSame /\ returned' = returned /\ inspection.step = "verify" /\ moment' = moment
    BY DEF VerifyEntry, StoreSame
  <1>2. CASE NextEntry
    BY <1>1, <1>2, NextEntrySafe
  <1>3. ASSUME NEW e \in Entries, NEW at \in 0..moment, NEW disp \in DispositionsOf(e.doc),
               ~EntryFault(Record(e.doc, at, disp, TRUE)),
               inspection' = [inspection EXCEPT !.step = "store",
                                !.verified = @ \cup {Verified(Record(e.doc, at, disp, TRUE), e)}]
        PROVE  LineageInv'
    <2> DEFINE s == Record(e.doc, at, disp, TRUE)
               x == Verified(s, e)
               V == inspection.verified
    <2>1. e.doc \in Judgments /\ e.direction \in Directions
      BY DEF Entries
    <2>2. moment \in Nat /\ at \in Nat /\ at <= moment /\ disp \in Dispositions
      BY HorizonIsNatural, DispositionsAre DEF LineageInv, Shapes
    <2>3. s \in JudgmentRecords /\ s.doc = e.doc /\ s.at = at /\ s.whole
      BY <2>1, <2>2 DEF Record, JudgmentRecords
    <2>4. s.doc # Root /\ \A v \in V : v.source.doc # s.doc
      BY <1>3 DEF EntryFault
    <2> HIDE DEF s
    <2>5. x.source = s /\ x.direction = e.direction
      BY DEF Verified
    <2>6. GoodEntry(x)
      BY <2>1, <2>2, <2>3, <2>4, <2>5 DEF GoodEntry
    <2>7. /\ DOMAIN inspection' = VerifyingFields /\ inspection'.step = "store"
          /\ inspection'.root = inspection.root /\ inspection'.verified = V \cup {x}
      BY <1>1, <1>3 DEF LineageInv, Shapes, Verifying, VerifyingFields, s
    <2> HIDE DEF x
    <2>8. /\ \A v \in V : GoodEntry(v)
          /\ \A v, w \in V : v.source.doc = w.source.doc => v = w
          /\ IsFiniteSet(V) /\ IsFiniteSet(Docs(V)) /\ Cardinality(Docs(V)) = Cardinality(V)
      BY <1>1 DEF LineageInv, DistinctOK, Verifying
    <2>9. /\ IsFiniteSet(V \cup {x}) /\ IsFiniteSet(Docs(V \cup {x}))
          /\ Cardinality(Docs(V \cup {x})) = Cardinality(V \cup {x})
      BY <2>4, <2>5, <2>8, AddedDistinct
    <2>10. /\ \A v \in V \cup {x} : GoodEntry(v)
           /\ \A v, w \in V \cup {x} : v.source.doc = w.source.doc => v = w
      BY <2>4, <2>5, <2>6, <2>8
    <2>11. \A v : GoodEntry(v)' <=> GoodEntry(v)
      BY <1>1 DEF GoodEntry
    <2> HIDE DEF V
    <2>12. DistinctOK'
      BY <2>7, <2>9, <2>10, <2>11 DEF DistinctOK, Docs
    <2>13. NewestOf(inspection.root, stock)
      BY <1>1 DEF LineageInv, RootOK, Verifying
    <2>14. QED
      BY <1>1, <2>7, <2>12, <2>13, WithinSafe DEF Verifying
  <1>4. QED
    BY <1>2, <1>3 DEF VerifyEntry

LEMMA StoreRelatedSafe == LineageInv /\ StoreRelated => LineageInv'
  <1> SUFFICES ASSUME LineageInv, StoreRelated PROVE LineageInv'
    OBVIOUS
  <1>1. /\ inspection.step = "store"
        /\ UNCHANGED <<moment, bound, inspection, completed, returned>>
    BY DEF StoreRelated
  <1>2. PICK v \in inspection.verified :
          \/ stock' = stock \cup {[v.source EXCEPT !.whole = FALSE]}
          \/ stock' = (stock \ {[v.source EXCEPT !.whole = FALSE]}) \cup {v.source}
    BY DEF StoreRelated
  <1> DEFINE bare == [v.source EXCEPT !.whole = FALSE]
  <1>3. v.source \in JudgmentRecords /\ v.source.doc # Root /\ v.source.at <= moment
    BY <1>1 DEF LineageInv, DistinctOK, Verifying, GoodEntry
  <1>4. bare \in JudgmentRecords /\ bare.doc # Root /\ bare.at <= moment
    BY <1>3 DEF JudgmentRecords
  <1> HIDE DEF bare
  <1>5. /\ \A s \in stock' : s \in stock \/ s = bare \/ s = v.source
        /\ \A s \in stock : s.doc = Root => s \in stock'
    BY <1>2, <1>4 DEF bare
  <1>6. Shapes'
    BY <1>1, <1>3, <1>4, <1>5 DEF LineageInv, Shapes, Asking, Verifying
  <1>7. RootOK'
    BY <1>1, <1>3, <1>4, <1>5 DEF LineageInv, RootOK, NewestOf, Asking, Verifying
  <1>8. DistinctOK' /\ StoredOK'
    BY <1>1 DEF LineageInv, DistinctOK, StoredOK, Verifying, GoodEntry
  <1>9. ResultsOK'
    BY <1>1 DEF LineageInv, ResultsOK
  <1>10. QED
    BY <1>6, <1>7, <1>8, <1>9 DEF LineageInv

LEMMA StoredRelatedSafe == LineageInv /\ StoredRelated => LineageInv'
  <1> SUFFICES ASSUME LineageInv, StoredRelated PROVE LineageInv'
    OBVIOUS
  <1>1. /\ StoreSame /\ returned' = returned /\ inspection.step = "store" /\ moment' = moment
        /\ \A v \in inspection.verified : v.source \in stock
        /\ inspection' = [inspection EXCEPT !.step = "verify", !.left = @ - 1]
    BY DEF StoredRelated, StoreSame
  <1>2. /\ DOMAIN inspection' = VerifyingFields /\ inspection'.step = "verify"
        /\ inspection'.root = inspection.root /\ inspection'.verified = inspection.verified
    BY <1>1 DEF LineageInv, Shapes, Verifying, VerifyingFields
  <1>3. DistinctOK'
    BY <1>1, <1>2 DEF LineageInv, DistinctOK, Verifying, GoodEntry
  <1>4. QED
    BY <1>1, <1>2, <1>3, WithinSafe DEF LineageInv, RootOK, Verifying

-----------------------------------------------------------------------------
LEMMA QualifiedRests ==
  ASSUME LineageInv, inspection.step = "verify"
  PROVE  RestsOn(Qualified, stock)
  <1>1. /\ NewestOf(inspection.root, stock)
        /\ \A v \in inspection.verified : v.source \in stock /\ v.source.doc # Root
    BY DEF LineageInv, RootOK, StoredOK, DistinctOK, Verifying, GoodEntry
  <1> DEFINE sources == {v.source : v \in inspection.verified} \cup {inspection.root}
             reversal == \E v \in inspection.verified : Reversing(v)
  <1>2. Qualified.sources = sources /\ (Qualified.reversal <=> reversal)
    BY DEF Qualified
  <1>3. sources \subseteq stock /\ NewestOf(inspection.root, stock) /\ inspection.root \in sources
    BY <1>1 DEF NewestOf
  <1>4. reversal => \E s \in sources : s.doc # Root /\ s.disp = "vacates"
    BY <1>1 DEF Reversing
  <1> HIDE DEF sources, reversal
  <1>5. QED
    BY <1>2, <1>3, <1>4 DEF RestsOn

LEMMA BuildSafe == LineageInv /\ BuildContract => LineageInv'
  <1> SUFFICES ASSUME LineageInv, BuildContract PROVE LineageInv'
    OBVIOUS
  <1>1. StoreSame /\ returned' = returned /\ inspection.step = "verify" /\ End(Qualified)
    BY DEF BuildContract
  <1>2. QED
    BY <1>1, QualifiedRests, StopSafe DEF LineageInv, Shapes

LEMMA FinishSafe == LineageInv /\ FinishInspection => LineageInv'
  <1> SUFFICES ASSUME LineageInv, FinishInspection PROVE LineageInv'
    OBVIOUS
  <1>1. /\ inspection.step = "finish" /\ bound' = Usable /\ inspection'.step = "idle"
        /\ completed'.status = "stored" /\ completed'.result = inspection.result
        /\ completed'.digest.sources = stock /\ returned'.status = "new"
        /\ UNCHANGED <<moment, stock>>
    BY DEF FinishInspection, NoInspection
  <1>2. bound' \subseteq stock
    BY <1>1 DEF Usable
  <1>3. Shapes'
    BY <1>1, <1>2 DEF LineageInv, Shapes, Asking, Verifying
  <1>4. RootOK' /\ DistinctOK' /\ StoredOK'
    BY <1>1 DEF RootOK, DistinctOK, StoredOK, Asking, Verifying
  <1>5. RestsOn(inspection.result, stock) /\ \A s \in stock : s \in JudgmentRecords
    BY <1>1 DEF LineageInv, ResultsOK, Shapes
  <1>6. ResultsOK'
    BY <1>1, <1>5 DEF ResultsOK, RestsOn, NewestOf
  <1>7. QED
    BY <1>3, <1>4, <1>6 DEF LineageInv

\* What changes the run's material between two inspections.
LEMMA BetweenSafe ==
  ASSUME LineageInv, inspection.step = "idle", UNCHANGED <<inspection, completed>>,
         moment' \in 0..LineageHorizon,
         \A s \in stock' \cup bound' : s \in JudgmentRecords /\ s.at <= moment',
         returned'.status \in {"none", "new", "replayed", "stale"}
  PROVE  LineageInv'
  BY DEF LineageInv, Shapes, RootOK, DistinctOK, StoredOK, ResultsOK, Asking, Verifying

LEMMA StoreJudgmentSafe ==
  ASSUME LineageInv, NEW d \in Judgments, NEW disp \in DispositionsOf(d), StoreJudgment(d, disp)
  PROVE  LineageInv'
  <1> DEFINE s == Record(d, moment, disp, TRUE)
  <1>1. /\ inspection.step = "idle" /\ stock' = stock \cup {s} /\ bound' = Usable \cup {s}
        /\ UNCHANGED <<moment, inspection, completed>> /\ returned'.status = "none"
    BY DEF StoreJudgment, NoResult
  <1>2. moment \in Nat /\ disp \in Dispositions
    BY HorizonIsNatural, DispositionsAre DEF LineageInv, Shapes
  <1>3. s \in JudgmentRecords /\ s.at <= moment
    BY <1>2 DEF Record, JudgmentRecords
  <1> HIDE DEF s
  <1>4. Usable \subseteq stock
    BY DEF Usable
  <1>5. QED
    BY <1>1, <1>3, <1>4, BetweenSafe DEF LineageInv, Shapes

LEMMA ForgetSafe == LineageInv /\ ForgetExpired => LineageInv'
  <1> SUFFICES ASSUME LineageInv, ForgetExpired PROVE LineageInv'
    OBVIOUS
  <1>1. /\ inspection.step = "idle" /\ stock' \subseteq stock /\ returned'.status = "none"
        /\ UNCHANGED <<moment, bound, inspection, completed>>
    BY DEF ForgetExpired, NoResult
  <1>2. QED
    BY <1>1, BetweenSafe DEF LineageInv, Shapes

\* Time passes in the middle of an inspection as well.
LEMMA MomentSafe == LineageInv /\ MomentPasses => LineageInv'
  <1> SUFFICES ASSUME LineageInv, MomentPasses PROVE LineageInv'
    OBVIOUS
  <1>1. /\ moment < LineageHorizon /\ moment' = moment + 1
        /\ UNCHANGED <<stock, bound, inspection, completed, returned>>
    BY DEF MomentPasses
  <1>2. moment \in Nat /\ moment' \in 0..LineageHorizon
    BY <1>1, HorizonIsNatural DEF LineageInv, Shapes
  <1>3. \A s \in JudgmentRecords : s.at <= moment => s.at <= moment'
    BY <1>1, <1>2 DEF JudgmentRecords
  <1>4. Shapes'
    BY <1>1, <1>2, <1>3 DEF LineageInv, Shapes, Asking, Verifying
  <1>5. DistinctOK'
    BY <1>1, <1>3 DEF LineageInv, DistinctOK, Verifying, GoodEntry, Docs
  <1>6. RootOK' /\ StoredOK' /\ ResultsOK'
    BY <1>1 DEF LineageInv, RootOK, StoredOK, ResultsOK, Asking, Verifying, NewestOf
  <1>7. QED
    BY <1>4, <1>5, <1>6 DEF LineageInv

-----------------------------------------------------------------------------
LEMMA LineageStepSafe == LineageInv /\ [LineageNext]_lineageVars => LineageInv'
  <1> SUFFICES ASSUME LineageInv, [LineageNext]_lineageVars PROVE LineageInv'
    OBVIOUS
  <1>1. CASE \E provider, candidate \in BOOLEAN : BeginInspection(provider, candidate)
    BY <1>1, BeginSafe
  <1>2. CASE AskHistory
    BY <1>2, AskHistorySafe
  <1>3. CASE RefreshHandle
    BY <1>3, RefreshSafe
  <1>4. CASE VerifyEntry
    BY <1>4, VerifyEntrySafe
  <1>5. CASE StoreRelated
    BY <1>5, StoreRelatedSafe
  <1>6. CASE StoredRelated
    BY <1>6, StoredRelatedSafe
  <1>7. CASE BuildContract
    BY <1>7, BuildSafe
  <1>8. CASE FinishInspection
    BY <1>8, FinishSafe
  <1>9. CASE BudgetEnds
    <2>1. StoreSame /\ returned' = returned /\ End(BlockedResult)
      BY <1>9 DEF BudgetEnds
    <2>2. QED
      BY <2>1, StopSafe, BlockedRests DEF LineageInv, Shapes
  <1>10. CASE AbandonInspection
    BY <1>10, StopSafe DEF AbandonInspection, NoResult
  <1>11. CASE ReplayInspection
    <2>1. /\ inspection.step = "idle" /\ UNCHANGED <<inspection, moment, stock, bound, completed>>
          /\ returned'.status \in {"replayed", "stale"}
      BY <1>11 DEF ReplayInspection, StoreSame
    <2>2. QED
      BY <2>1, BetweenSafe DEF LineageInv, Shapes
  <1>12. CASE \E d \in Judgments : \E disp \in DispositionsOf(d) : StoreJudgment(d, disp)
    BY <1>12, StoreJudgmentSafe
  <1>13. CASE ForgetExpired
    BY <1>13, ForgetSafe
  <1>14. CASE MomentPasses
    BY <1>14, MomentSafe
  <1>15. CASE UNCHANGED lineageVars
    BY <1>15 DEF lineageVars, LineageInv, Shapes, RootOK, DistinctOK, StoredOK, ResultsOK, Asking,
                 Verifying, NewestOf, GoodEntry, Docs
  <1>16. QED
    BY <1>1, <1>2, <1>3, <1>4, <1>5, <1>6, <1>7, <1>8, <1>9, <1>10, <1>11, <1>12, <1>13,
       <1>14, <1>15 DEF LineageNext

LEMMA LineageInvariance == LineageSpec => []LineageInv
  BY LineageInitSafe, LineageStepSafe, PTL DEF LineageSpec

\* The clock, the records and the steps of an inspection have their types
\* (JudgmentLineage!LineageTypeOK).
THEOREM LineageTypeCorrect == LineageSpec => []LineageTypeOK
  <1>1. LineageInv => LineageTypeOK
    BY HorizonIsNatural DEF LineageInv, Shapes, LineageTypeOK, JudgmentRecords
  <1>2. QED
    BY <1>1, LineageInvariance, PTL

\* Whatever the provider's history says, the contract of an inspection that
\* has verified its entries can be built (JudgmentLineage!ContractBuilds).
THEOREM ContractsBuild == LineageSpec => []ContractBuilds
  <1>1. LineageInv => ContractBuilds
    <2> SUFFICES ASSUME LineageInv, inspection.step = "verify" PROVE Buildable(inspection.verified)
      BY DEF ContractBuilds
    <2> DEFINE V == inspection.verified
    <2>1. /\ \A v \in V : v.source.doc # Root /\ v.direction \in Directions
          /\ \A v, w \in V : v.source.doc = w.source.doc => v = w
          /\ Cardinality({v.source.doc : v \in V}) = Cardinality(V)
      BY DEF LineageInv, DistinctOK, Verifying, GoodEntry, Docs
    <2> HIDE DEF V
    <2>2. ASSUME NEW e \in EdgesOf(V) PROVE e[1] # e[2] /\ <<e[2], e[1]>> \notin EdgesOf(V)
      <3>1. PICK v \in V : e = IF v.direction = "upper" THEN <<v.source.doc, Root>>
                               ELSE <<Root, v.source.doc>>
        BY DEF EdgesOf
      <3>2. e[1] # e[2]
        BY <2>1, <3>1
      <3>3. ASSUME NEW w \in V,
                   <<e[2], e[1]>> = IF w.direction = "upper" THEN <<w.source.doc, Root>>
                                    ELSE <<Root, w.source.doc>>
            PROVE  FALSE
        <4>1. w.source.doc = v.source.doc
          BY <2>1, <3>1, <3>3
        <4>2. w = v
          BY <2>1, <4>1
        <4>3. QED
          BY <2>1, <3>1, <3>3, <4>2
      <3>4. QED
        BY <3>2, <3>3 DEF EdgesOf
    <2>3. QED
      BY <2>1, <2>2 DEF Buildable, V
  <1>2. QED
    BY <1>1, LineageInvariance, PTL

-----------------------------------------------------------------------------
\* What a step may return.
Official ==
  returned' # returned /\ returned'.status = "new" /\ returned'.result.reversal =>
    \E s \in returned'.result.sources \cap stock : s.doc # Root /\ s.disp = "vacates"

Current ==
  returned' # returned /\ returned'.status = "replayed" =>
    /\ \A s \in stock : moment < Term(s)
    /\ returned'.result.sources \subseteq {[s EXCEPT !.whole = w] : s \in stock, w \in BOOLEAN}
    /\ returned'.result.status = "qualified" =>
         \A s \in stock : s.doc = Root => \E q \in returned'.result.sources : q.doc = Root /\ s.at <= q.at

\* Only the end of an inspection returns a new result, only a replay an old one.
LEMMA WhoReturns ==
  ASSUME [LineageNext]_lineageVars, returned' # returned
  PROVE  /\ returned'.status = "new" => FinishInspection
         /\ returned'.status = "replayed" => ReplayInspection
  <1>1. NoResult.status = "none"
    BY DEF NoResult
  <1>2. CASE returned' = NoResult
    BY <1>1, <1>2
  <1>3. CASE FinishInspection
    BY <1>3 DEF FinishInspection
  <1>4. CASE ReplayInspection
    <2>1. returned'.status \in {"replayed", "stale"}
      BY <1>4 DEF ReplayInspection
    <2>2. QED
      BY <1>4, <2>1
  <1>5. ASSUME NEW provider \in BOOLEAN, NEW candidate \in BOOLEAN, BeginInspection(provider, candidate)
        PROVE  returned' = NoResult
    BY <1>5 DEF BeginInspection
  <1>6. ASSUME NEW d \in Judgments, NEW disp \in DispositionsOf(d), StoreJudgment(d, disp)
        PROVE  returned' = NoResult
    BY <1>6 DEF StoreJudgment
  <1>7. ForgetExpired \/ AbandonInspection => returned' = NoResult
    BY DEF ForgetExpired, AbandonInspection
  <1>8. ~(AskHistory \/ RefreshHandle \/ VerifyEntry \/ BuildContract \/ BudgetEnds)
    BY DEF AskHistory, RefreshHandle, VerifyEntry, BuildContract, BudgetEnds
  <1>9. ~(StoreRelated \/ StoredRelated \/ MomentPasses) /\ ~ UNCHANGED lineageVars
    BY DEF StoreRelated, StoredRelated, MomentPasses, lineageVars
  <1>10. QED
    BY <1>2, <1>3, <1>4, <1>5, <1>6, <1>7, <1>8, <1>9 DEF LineageNext

LEMMA StepOfficial == LineageInv /\ [LineageNext]_lineageVars => [Official]_lineageVars
  <1> SUFFICES ASSUME LineageInv, [LineageNext]_lineageVars, returned' # returned,
                      returned'.status = "new", returned'.result.reversal
               PROVE  \E s \in returned'.result.sources \cap stock : s.doc # Root /\ s.disp = "vacates"
    BY DEF Official
  <1>1. inspection.step = "finish" /\ returned'.result = inspection.result
    BY WhoReturns DEF FinishInspection
  <1>2. QED
    BY <1>1 DEF LineageInv, ResultsOK, RestsOn

LEMMA StepCurrent == LineageInv /\ [LineageNext]_lineageVars => [Current]_lineageVars
  <1> SUFFICES ASSUME LineageInv, [LineageNext]_lineageVars, returned' # returned,
                      returned'.status = "replayed"
               PROVE  Current
    BY DEF Current
  <1>1. ReplayInspection
    BY WhoReturns
  <1>2. Replayable
    BY <1>1 DEF ReplayInspection
  <1>3. returned'.result = completed.result /\ completed.status = "stored"
    BY <1>1, <1>2 DEF ReplayInspection
  <1>4. completed.digest.sources = stock /\ \A s \in stock : moment < Term(s)
    BY <1>2 DEF Replayable, MaterialDigest
  <1>5. RestsOn(completed.result, stock)
    BY <1>3, <1>4 DEF LineageInv, ResultsOK
  <1>6. \A s \in stock : s \in {[r EXCEPT !.whole = w] : r \in stock, w \in BOOLEAN}
    <2> SUFFICES ASSUME NEW s \in stock
                 PROVE  \E r \in stock, w \in BOOLEAN : s = [r EXCEPT !.whole = w]
      OBVIOUS
    <2>1. s \in JudgmentRecords
      BY DEF LineageInv, Shapes
    <2>2. s.whole \in BOOLEAN /\ s = [s EXCEPT !.whole = s.whole]
      BY <2>1 DEF JudgmentRecords
    <2>3. QED
      BY <2>2
  <1>7. QED
    BY <1>3, <1>4, <1>5, <1>6 DEF Current, RestsOn, NewestOf

\* A reported reversal rests on an official judgment, other than the root,
\* whose own disposition vacates (JudgmentLineage!ReversalIsOfficial).
THEOREM ReversalsAreOfficial == LineageSpec => ReversalIsOfficial
  <1>1. LineageSpec => [][Official]_lineageVars
    BY LineageInvariance, StepOfficial, PTL DEF LineageSpec
  <1>2. QED
    BY <1>1 DEF ReversalIsOfficial, Official

\* A stored inspection is shown again only over the very records it rests on,
\* none of them expired or fetched anew (JudgmentLineage!ReplayIsCurrent).
THEOREM ReplaysAreCurrent == LineageSpec => ReplayIsCurrent
  <1>1. LineageSpec => [][Current]_lineageVars
    BY LineageInvariance, StepCurrent, PTL DEF LineageSpec
  <1>2. QED
    BY <1>1, PTL DEF ReplayIsCurrent, Current
=============================================================================
