--------------------------- MODULE SourceMaterials ---------------------------
(***************************************************************************)
(* The source records, evidence spans, cache entries and snapshot receipts *)
(* of the managed store (storage/sqlite_store.py), with the cached exact   *)
(* lookup that fills them (ProviderResearchExecutor._cached_lookup behind  *)
(* ResearchService.lookup_source) and the receipts that bind them          *)
(* (research/snapshot_receipts.py, contracts/provider_snapshot.py).        *)
(*                                                                         *)
(* One operation runs at a time, under the coordinator (ManagedStore).     *)
(* Each of its steps is a transaction of its own: between two of them time *)
(* passes and the process may die.  What an official source has of a key   *)
(* may be another text, or none, at every fetch.                           *)
(***************************************************************************)
EXTENDS Integers, FiniteSets, FiniteSetsExt

CONSTANTS
  Runs,        \* research runs
  Keys,        \* what can be looked up: articles, judgments, decisions
  Contents,    \* texts it may have
  SpansIn,     \* the evidence spans of each text
  ProviderOf,  \* the provider of each key
  SourceTTL,   \* term of a source record
  RunTTL,      \* term of a run
  Horizon,     \* bound on the clock
  MaxRecords   \* bound on the source records held at once

ASSUME SourceMaterialsAssumption ==
  /\ DOMAIN SpansIn = Contents /\ DOMAIN ProviderOf = Keys
  /\ {SourceTTL, RunTTL} \subseteq Nat \ {0} /\ {Horizon, MaxRecords} \subseteq Nat

VARIABLES
  time,
  runEnds,    \* research_runs.expires_at; NoRun when there is no such row
  records,    \* source_records
  links,      \* run_sources
  held,       \* evidence_spans
  cached,     \* cache_entries
  receipts,   \* provider_snapshot_receipts of each run
  work,       \* the operation in progress
  reply       \* what the last one returned

tables == <<runEnds, records, links, held, cached, receipts>>
materialVars == <<time, tables, work, reply>>

NoRun == -1
NoEntry == [of |-> "nothing"]
NoWork == [step |-> "idle"]
NoReply == [status |-> "none", code |-> "none"]

\* The identifier of a record contains the instant of its fetch: what is
\* fetched anew is another record.
Records == [key : Keys, at : 0..Horizon, text : Contents]
Ends(s) == s.at + SourceTTL

EvidenceOf(r) == {<<s, e>> : s \in records, e \in UNION {SpansIn[c] : c \in Contents}} \cap
                 {<<h[2], h[3]>> : h \in {g \in held : g[1] = r}}

-----------------------------------------------------------------------------
(* Snapshot receipts.                                                      *)

\* The sources of a run that may be used at t, of one provider, and their
\* evidence.  A source without evidence counts when another has some.
SourcesOf(r, v, t) == {s \in records : <<r, s>> \in links /\ t < Ends(s) /\ ProviderOf[s.key] = v}

MaterialOf(r, v, t) ==
  [sources |-> SourcesOf(r, v, t), evidence |-> {p \in EvidenceOf(r) : p[1] \in SourcesOf(r, v, t)}]

ProvidersAt(r, t) == {v \in {ProviderOf[k] : k \in Keys} : MaterialOf(r, v, t).evidence # {}}

\* A receipt is due for each provider with evidence; it ends with the first
\* of its sources, or with the run.  The instant of its issue is left out.
DueAt(r, t) ==
  {[provider |-> v, material |-> MaterialOf(r, v, t),
    ends |-> Min({runEnds[r]} \cup {Ends(s) : s \in SourcesOf(r, v, t)})] : v \in ProvidersAt(r, t)}

\* A receipt whose term would end before it begins cannot be issued.
Issuable(r, t) == \A x \in DueAt(r, t) : t < x.ends

SyncReceipts(r) == receipts' = [receipts EXCEPT ![r] = DueAt(r, time)]

\* A variant that does not compare what the receipts cover.
ReceiptsOfSomeMaterial(r, t) ==
  {x.provider : x \in receipts[r]} = ProvidersAt(r, t) /\ \A x \in receipts[r] : t < x.ends

\* check_run_snapshot_receipts: exactly the receipts that are due, and none
\* of them ended.
ReceiptsValid(r, t) == receipts[r] = DueAt(r, t) /\ \A x \in receipts[r] : t < x.ends

-----------------------------------------------------------------------------
(* The transactions of the store.                                          *)

StoreSource(r, s) ==
  /\ records' = records \cup {s} /\ links' = links \cup {<<r, s>>}
  /\ UNCHANGED <<runEnds, held, cached, receipts>>

\* Evidence is taken only for a source of the run.
StoreSpan(r, s, e) ==
  /\ <<r, s>> \in links
  /\ held' = held \cup {<<r, s, e>>}
  /\ UNCHANGED <<runEnds, records, links, cached, receipts>>

\* The rows that go with the runs R and the records D that are deleted.
DeleteRows(R, D) ==
  /\ links' = {l \in links : l[1] \notin R /\ l[2] \notin D}
  /\ held' = {h \in held : h[1] \notin R /\ h[2] \notin D}
  /\ records' = records \ D
  /\ receipts' = [r \in Runs |-> IF r \in R THEN {} ELSE receipts[r]]
  /\ runEnds' = [r \in Runs |-> IF r \in R THEN NoRun ELSE runEnds[r]]

\* A variant that forgets that the links of R go as well.
UnlinkedAlready(R) == {s \in records : \A l \in links : l[2] # s}

\* Records no run is linked to once the runs R are gone.
UnlinkedWithout(R) == {s \in records : \A l \in links : l[2] = s => l[1] \in R}

WithoutRecords(D) == [k \in Keys |-> IF cached[k] # NoEntry /\ cached[k].source \in D
                                     THEN NoEntry ELSE cached[k]]

-----------------------------------------------------------------------------
(* Runs, and what deletes them.                                            *)

OpenRun(r) ==
  /\ work = NoWork /\ runEnds[r] = NoRun
  /\ runEnds' = [runEnds EXCEPT ![r] = time + RunTTL]
  /\ reply' = NoReply
  /\ UNCHANGED <<records, links, held, cached, receipts, work, time>>

PurgeRun(r) ==
  /\ work = NoWork /\ runEnds[r] # NoRun
  /\ DeleteRows({r}, UnlinkedWithout({r}))
  /\ cached' = WithoutRecords(UnlinkedWithout({r}))
  /\ reply' = NoReply /\ UNCHANGED <<time, work>>

PurgeAll ==
  /\ work = NoWork
  /\ DeleteRows(Runs, records)
  /\ cached' = [k \in Keys |-> NoEntry]
  /\ reply' = NoReply /\ UNCHANGED <<time, work>>

\* cleanup_expired: a record goes when its term has ended, linked or not.
CleanUp ==
  /\ work = NoWork
  /\ LET R == {r \in Runs : runEnds[r] <= time}
         D == UnlinkedWithout(R) \cup {s \in records : Ends(s) <= time} IN
     /\ DeleteRows(R, D)
     /\ cached' = WithoutRecords(D)
  /\ reply' = NoReply /\ UNCHANGED <<time, work>>

-----------------------------------------------------------------------------
(* A lookup.                                                               *)

\* A pack of judgments does not use the cache: shared is FALSE.  Whether
\* there is an entry, expired or not, is noted first.
BeginLookup(r, k, shared) ==
  /\ work = NoWork /\ time < runEnds[r]
  /\ work' = [step |-> IF shared THEN "cache" ELSE "fetch", run |-> r, key |-> k,
              shared |-> shared, existing |-> shared /\ cached[k] # NoEntry]
  /\ reply' = NoReply
  /\ UNCHANGED <<time, tables>>

\* get_fresh_cache_entry.
FreshEntry(k) == cached[k] # NoEntry /\ time < Ends(cached[k].source)

\* A variant for which a source found in the cache has its evidence already.
StoringUnlessCached(s, spans, index) ==
  [step |-> "source", run |-> work.run, key |-> work.key, source |-> s,
   left |-> IF index THEN spans ELSE {}, index |-> index]

\* The steps that store a source with its evidence.
Storing(s, spans, index) ==
  [step |-> "source", run |-> work.run, key |-> work.key, source |-> s, left |-> spans, index |-> index]

ReadCache ==
  /\ work.step = "cache"
  /\ work' = IF FreshEntry(work.key)
             THEN Storing(cached[work.key].source, cached[work.key].evidence, FALSE)
             ELSE [work EXCEPT !.step = "fetch"]
  /\ UNCHANGED <<time, tables, reply>>

\* A variant that blames the revalidation whatever is in the cache.
RevalidationReply(status, code) ==
  [status |-> status, run |-> work.run, key |-> work.key, code |-> "SOURCE_REVALIDATION_FAILED"]

\* What a lookup reports when the provider gave no valid source.
FailedReply(status, code) ==
  [status |-> status, run |-> work.run, key |-> work.key,
   code |-> IF work.existing THEN "SOURCE_REVALIDATION_FAILED" ELSE code]

\* The budget ends the fetch by an exception, past the cache's error code.
FetchOutcomes ==
  {FailedReply("error", "OFFICIAL_SOURCE_UNAVAILABLE"),
   [status |-> "error", run |-> work.run, key |-> work.key, code |-> "PROVIDER_RESULT_CONTRACT_VIOLATION"],
   [status |-> "blocked", run |-> work.run, key |-> work.key, code |-> "BUDGET_EXCEEDED"],
   FailedReply("not_found", "OFFICIAL_SOURCE_NOT_FOUND")}

Finishing(answer) == work' = [step |-> "finish", run |-> work.run, answer |-> answer]

\* The official source has whatever text it has at this moment.
Fetch ==
  /\ work.step = "fetch"
  /\ \/ \E a \in FetchOutcomes : Finishing(a)
     \/ \E c \in Contents :
          LET s == [key |-> work.key, at |-> time, text |-> c] IN
          /\ Cardinality(records \cup {s}) <= MaxRecords
          /\ work' = Storing(s, SpansIn[c], work.shared)
  /\ UNCHANGED <<time, tables, reply>>

SaveSource ==
  /\ work.step = "source"
  /\ StoreSource(work.run, work.source)
  /\ work' = [work EXCEPT !.step = "spans"]
  /\ UNCHANGED <<time, reply>>

SaveEvidence ==
  /\ work.step = "spans"
  /\ \E e \in work.left :
       /\ StoreSpan(work.run, work.source, e)
       /\ work' = [work EXCEPT !.left = @ \ {e}]
  /\ UNCHANGED <<time, reply>>

FoundReply == [status |-> "found", run |-> work.run, key |-> work.key, code |-> "none", source |-> work.source]

\* What the cache keeps of a source: all its evidence.  A source without any
\* is not cached.
SaveCacheEntry ==
  /\ work.step = "spans" /\ work.left = {}
  /\ cached' = IF work.index /\ SpansIn[work.source.text] # {}
               THEN [cached EXCEPT ![work.key] = [source |-> work.source, evidence |-> SpansIn[work.source.text]]]
               ELSE cached
  /\ Finishing(FoundReply)
  /\ UNCHANGED <<runEnds, records, links, held, receipts, reply, time>>

\* lookup_source renews the receipts and stores the run and its answer.
FinishLookup ==
  /\ work.step = "finish" /\ Issuable(work.run, time)
  /\ SyncReceipts(work.run)
  /\ reply' = work.answer
  /\ work' = NoWork
  /\ UNCHANGED <<runEnds, records, links, held, cached, time>>

\* The receipts of a finalization contract, valid or marked inconsistent.
CheckReceipts(r) ==
  /\ work = NoWork /\ time < runEnds[r] /\ receipts[r] # {}
  /\ reply' = [status |-> IF ReceiptsValid(r, time) THEN "bound" ELSE "inconsistent", run |-> r, code |-> "none"]
  /\ UNCHANGED <<time, tables, work>>

\* The process dies, or an exception ends the operation: what it has stored
\* stays.
Abandon ==
  /\ work # NoWork
  /\ work' = NoWork /\ reply' = NoReply
  /\ UNCHANGED <<time, tables>>

-----------------------------------------------------------------------------
(* The world.                                                              *)

Pass == time < Horizon /\ time' = time + 1 /\ UNCHANGED <<tables, work, reply>>

MaterialInit ==
  /\ time = 0
  /\ runEnds = [r \in Runs |-> NoRun]
  /\ records = {} /\ links = {} /\ held = {}
  /\ cached = [k \in Keys |-> NoEntry]
  /\ receipts = [r \in Runs |-> {}]
  /\ work = NoWork /\ reply = NoReply

MaterialNext ==
  \/ \E r \in Runs : OpenRun(r) \/ PurgeRun(r) \/ CheckReceipts(r)
  \/ PurgeAll \/ CleanUp
  \/ \E r \in Runs, k \in Keys, shared \in BOOLEAN : BeginLookup(r, k, shared)
  \/ ReadCache \/ Fetch \/ SaveSource \/ SaveEvidence \/ SaveCacheEntry \/ FinishLookup \/ Abandon
  \/ Pass

MaterialSpec == MaterialInit /\ [][MaterialNext]_materialVars

-----------------------------------------------------------------------------
(* Properties                                                              *)

\* The variables of the store and of a lookup have their types.
MaterialTypeOK ==
  /\ time \in 0..Horizon
  /\ runEnds \in [Runs -> {NoRun} \cup Nat]
  /\ records \subseteq Records /\ links \subseteq Runs \X Records
  /\ \A k \in Keys : cached[k] = NoEntry \/ cached[k].source \in Records
  /\ DOMAIN receipts = Runs
  /\ reply.status \in {"none", "found", "not_found", "error", "blocked", "bound", "inconsistent"}

\* Whatever is purged, cleaned up or abandoned in the middle: nothing stays
\* behind that no run owns.  Every record belongs to a run that exists, every
\* span to a record of its run, every cache entry to a record, whole.
NothingOrphaned ==
  /\ \A s \in records : \E r \in Runs : runEnds[r] # NoRun /\ <<r, s>> \in links
  /\ \A l \in links : runEnds[l[1]] # NoRun /\ l[2] \in records
  /\ \A h \in held : <<h[1], h[2]>> \in links /\ h[3] \in SpansIn[h[2].text]
  /\ \A k \in Keys : cached[k] # NoEntry =>
       /\ cached[k].source \in records /\ cached[k].source.key = k
       /\ cached[k].evidence = SpansIn[cached[k].source.text]
  /\ \A r \in Runs : runEnds[r] = NoRun => receipts[r] = {}

\* A source that a lookup answers with belongs to the run with all of its
\* evidence, although it may come from the cache another run has filled, an
\* earlier lookup of it may have died between two of its transactions, and
\* the run that filled the cache may have been purged since.
LookupIsWhole ==
  reply.status = "found" =>
    /\ <<reply.run, reply.source>> \in links
    /\ \A e \in SpansIn[reply.source.text] : <<reply.run, reply.source, e>> \in held

\* SOURCE_REVALIDATION_FAILED is said only of a source this store has held
\* and whose term has ended, never of one it has not, nor while its record
\* could still be used.
RevalidationIsOfExpired ==
  [][work.step = "fetch" /\ work'.step = "finish" /\ work'.answer.code = "SOURCE_REVALIDATION_FAILED" =>
       /\ cached[work.key] # NoEntry
       /\ Ends(cached[work.key].source) <= time]_materialVars

\* A finalization contract carries receipts as valid only if they cover all
\* the evidence of the run that may still be used and nothing that has been
\* deleted or has ended, although time passes, records are cleaned up and a
\* lookup may die after it has stored and before it renews them.
ReceiptsAreCurrent ==
  [][reply' # reply /\ reply'.status = "bound" =>
       UNION {x.material.evidence : x \in receipts[reply'.run]} =
         {p \in EvidenceOf(reply'.run) : time < Ends(p[1])}]_materialVars

\* What DATA_POLICY.md says of a judgment the court has removed: the managed
\* copy goes with the answer.  The code says that the cache had one.
RemovedIsForgotten ==
  [][reply' # reply /\ reply'.status = "not_found" /\ reply'.code = "SOURCE_REVALIDATION_FAILED" =>
       ~\E s \in records' : s.key = reply'.key]_materialVars

=============================================================================
