--------------------------- MODULE JudgmentLineage ---------------------------
(***************************************************************************)
(* The inspection of a judgment's lineage: ResearchService and             *)
(* ProviderResearchExecutor.inspect_judgment_lineage, the contract built   *)
(* of it (research/judgment_lineage.py, contracts/authority_lineage.py)    *)
(* and the replay of a stored inspection.                                  *)
(*                                                                         *)
(* The external provider says which judgments are upper or lower instances *)
(* of the root; each is looked up at the official source before it counts. *)
(* Both are the environment.  One run is modelled: what it holds of the    *)
(* store's tables, with the operation ledger and the run's term left to    *)
(* ManagedStore.                                                           *)
(***************************************************************************)
EXTENDS Integers, FiniteSets, FiniteSetsExt, Sequences

CONSTANTS
  Root,           \* the judgment inspected
  Relatives,      \* other judgments
  LineageTTL,     \* term of a source record
  LineageHorizon, \* bound on the clock
  MaxRelated,     \* max_related_nodes
  MaxEntries,     \* bound on the entries of a history
  MaxStock        \* bound on the source records of the run

ASSUME JudgmentLineageAssumption ==
  /\ Root \notin Relatives
  /\ {LineageTTL, MaxRelated} \subseteq Nat \ {0}
  /\ {LineageHorizon, MaxEntries, MaxStock} \subseteq Nat

VARIABLES
  moment,     \* the clock
  stock,      \* the judgments the run has in the store
  bound,      \* those its snapshot receipts bind
  inspection, \* the inspection in progress
  completed,  \* the last result stored
  returned    \* what the last call returned

lineageVars == <<moment, stock, bound, inspection, completed, returned>>

Judgments == {Root} \cup Relatives

\* The official text has a disposition section that vacates the judgment
\* below, or it has another one, or none that can be read.
Dispositions == {"vacates", "other"}

\* That of the root is reported and nothing depends on it.
DispositionsOf(d) == IF d = Root THEN {"other"} ELSE Dispositions

\* A record, with its evidence once that is stored as well (whole).
Record(d, at, disp, whole) == [doc |-> d, at |-> at, disp |-> disp, whole |-> whole]
Term(s) == s.at + LineageTTL

NoInspection == [step |-> "idle"]
NoResult == [status |-> "none"]

\* The receipts cover what may be used; the digest covers everything.
Usable == {s \in stock : s.whole /\ moment < Term(s)}
MaterialDigest == [sources |-> stock, receipts |-> bound]

-----------------------------------------------------------------------------
(* The history.                                                            *)

BlockedResult == [status |-> "blocked", reversal |-> FALSE, sources |-> {}]

End(result) == inspection' = [step |-> "finish", result |-> result]

StoreSame == UNCHANGED <<moment, stock, bound, completed>>

\* The newest record of the root.
RootRecords == {s \in stock : s.doc = Root}
RootRecord == CHOOSE s \in RootRecords : \A q \in RootRecords : q.at <= s.at

\* Without a provider, or with a root that is not of the run or out of date,
\* the inspection is blocked.  Without a candidate the provider is searched.
BeginInspection(provider, candidate) ==
  /\ inspection.step = "idle"
  /\ returned' = NoResult
  /\ IF RootRecords = {} \/ ~provider \/ ~(moment < Term(RootRecord))
     THEN End(BlockedResult)
     ELSE inspection' = [step |-> IF candidate THEN "history" ELSE "refresh", last |-> ~candidate,
                         began |-> moment, root |-> RootRecord]
  /\ StoreSame

Directions == {"upper", "lower"}

\* An entry is chosen when it is read.  It leads to a judgment, by its full
\* identifier or by one several share, so that two entries may lead to one;
\* it may be marked as having vacated the root.
Entries == [doc : Judgments, direction : Directions, marker : BOOLEAN]

\* A handle that has expired is renewed once, by a search.
AskHistory ==
  /\ inspection.step = "history"
  /\ \/ inspection' = [inspection EXCEPT !.step = "refresh", !.last = TRUE] /\ ~inspection.last
     \/ End(BlockedResult)
     \/ \E n \in 0..MaxEntries :
          inspection' = [step |-> "verify", began |-> inspection.began, root |-> inspection.root,
                         left |-> Min({n, MaxRelated}), verified |-> {}]
  /\ UNCHANGED returned /\ StoreSame

RefreshHandle ==
  /\ inspection.step = "refresh"
  /\ \/ End(BlockedResult)
     \/ inspection' = [inspection EXCEPT !.step = "history"]
  /\ UNCHANGED returned /\ StoreSame

-----------------------------------------------------------------------------
(* The official verification of its entries.                               *)

\* A variant that takes one judgment under two identifiers.
EntryFaultByName(s) == s.doc = Root \/ ~(inspection.began < Term(s))

\* Entries beyond MaxRelated are not looked at.
\* Whether the official record found for an entry is refused.  Its
\* term is compared with the beginning of the inspection.
EntryFault(s) ==
  \/ s.doc = Root
  \/ ~(inspection.began < Term(s))
  \/ \E v \in inspection.verified : v.source.doc = s.doc

NextEntry == inspection' = [inspection EXCEPT !.left = @ - 1]

Verified(s, e) == [source |-> s, direction |-> e.direction, marker |-> e.marker]

\* The official source fails or answers with another judgment, or with a
\* record: a fresh one, or one that a pack has fetched earlier.
VerifyEntry ==
  /\ inspection.step = "verify" /\ inspection.left > 0
  /\ \/ NextEntry
     \/ \E e \in Entries : \E at \in 0..moment, disp \in DispositionsOf(e.doc) :
          LET s == Record(e.doc, at, disp, TRUE) IN
          IF EntryFault(s) THEN NextEntry
          ELSE /\ Cardinality(stock \cup {s}) <= MaxStock
               /\ inspection' = [inspection EXCEPT !.step = "store", !.verified = @ \cup {Verified(s, e)}]
  /\ UNCHANGED returned /\ StoreSame

\* The record first, its evidence in further transactions.
StoreRelated ==
  /\ inspection.step = "store"
  /\ \E v \in {w \in inspection.verified : w.source \notin stock} :
       LET bare == [v.source EXCEPT !.whole = FALSE] IN
       IF bare \notin stock THEN stock' = stock \cup {bare}
       ELSE stock' = (stock \ {bare}) \cup {v.source}
  /\ UNCHANGED <<moment, bound, inspection, completed, returned>>

StoredRelated ==
  /\ inspection.step = "store"
  /\ \A v \in inspection.verified : v.source \in stock
  /\ inspection' = [inspection EXCEPT !.step = "verify", !.left = @ - 1]
  /\ UNCHANGED returned /\ StoreSame

-----------------------------------------------------------------------------
(* The contract and the result.                                            *)

\* A variant that believes the marker.
ReversingByMarker(v) == v.direction = "upper" /\ v.marker

\* A verified upper instance reverses the root when the provider marks it so
\* and its own official disposition says so.
Reversing(v) ==
  /\ v.direction = "upper" /\ v.marker
  /\ v.source.disp = "vacates"

\* The edges of the contract: upper instances review the root, which reviews
\* the lower ones.
EdgesOf(V) ==
  {IF v.direction = "upper" THEN <<v.source.doc, Root>> ELSE <<Root, v.source.doc>> : v \in V}

\* validate_graph: a contract of one node per judgment whose edges neither
\* leave it nor form a cycle; else it cannot be built.
Buildable(V) ==
  /\ Cardinality({v.source.doc : v \in V}) = Cardinality(V) /\ \A v \in V : v.source.doc # Root
  /\ \A e \in EdgesOf(V) : e[1] # e[2] /\ <<e[2], e[1]>> \notin EdgesOf(V)

Qualified ==
  [status |-> "qualified",
   reversal |-> \E v \in inspection.verified : Reversing(v),
   sources |-> {v.source : v \in inspection.verified} \cup {inspection.root}]

BuildContract ==
  /\ inspection.step = "verify" /\ inspection.left = 0
  /\ Buildable(inspection.verified)
  /\ End(Qualified)
  /\ UNCHANGED returned /\ StoreSame

-----------------------------------------------------------------------------
(* The end of an inspection, and its replay.                               *)

\* The receipts are renewed and the result is stored with the digest of the
\* materials.  The limitations it leaves in the coverage are ResearchRun's.
FinishInspection ==
  /\ inspection.step = "finish"
  /\ bound' = Usable
  /\ completed' = [status |-> "stored", result |-> inspection.result,
                   digest |-> [sources |-> stock, receipts |-> Usable]]
  /\ returned' = [status |-> "new", result |-> inspection.result]
  /\ inspection' = NoInspection
  /\ UNCHANGED <<moment, stock>>

\* The request budget ends; the inspection is blocked where it is.
BudgetEnds ==
  /\ inspection.step \in {"history", "refresh", "verify"}
  /\ End(BlockedResult)
  /\ UNCHANGED returned /\ StoreSame

\* The process dies, or an exception ends the inspection.
AbandonInspection ==
  /\ inspection.step # "idle"
  /\ inspection' = NoInspection /\ returned' = NoResult
  /\ StoreSame

\* A variant that compares the digest only.
ReplayableByDigest == completed.digest = MaterialDigest

\* The materials are those of the result, and none of them, nor a receipt,
\* has ended.
Replayable ==
  /\ completed.digest = MaterialDigest
  /\ \A s \in stock \cup bound : moment < Term(s)

ReplayInspection ==
  /\ inspection.step = "idle" /\ completed.status = "stored"
  /\ returned' = IF Replayable THEN [status |-> "replayed", result |-> completed.result]
                 ELSE [status |-> "stale"]
  /\ UNCHANGED inspection /\ StoreSame

-----------------------------------------------------------------------------
(* The rest of the run.                                                    *)

\* A lookup stores a judgment and renews the receipts.
StoreJudgment(d, disp) ==
  /\ inspection.step = "idle"
  /\ LET s == Record(d, moment, disp, TRUE) IN
     /\ Cardinality(stock \cup {s}) <= MaxStock
     /\ stock' = stock \cup {s}
     /\ bound' = Usable \cup {s}
  /\ returned' = NoResult
  /\ UNCHANGED <<moment, inspection, completed>>

\* cleanup_expired.
ForgetExpired ==
  /\ inspection.step = "idle"
  /\ stock' = {s \in stock : moment < Term(s)}
  /\ returned' = NoResult
  /\ UNCHANGED <<moment, bound, inspection, completed>>

MomentPasses == moment < LineageHorizon /\ moment' = moment + 1
                /\ UNCHANGED <<stock, bound, inspection, completed, returned>>

LineageInit ==
  /\ moment = 0 /\ stock = {} /\ bound = {}
  /\ inspection = NoInspection /\ completed = NoResult /\ returned = NoResult

LineageNext ==
  \/ \E provider, candidate \in BOOLEAN : BeginInspection(provider, candidate)
  \/ AskHistory \/ RefreshHandle \/ VerifyEntry \/ StoreRelated \/ StoredRelated \/ BuildContract
  \/ FinishInspection \/ BudgetEnds \/ AbandonInspection \/ ReplayInspection
  \/ \E d \in Judgments : \E disp \in DispositionsOf(d) : StoreJudgment(d, disp)
  \/ ForgetExpired \/ MomentPasses

LineageSpec == LineageInit /\ [][LineageNext]_lineageVars

-----------------------------------------------------------------------------
(* Properties                                                              *)

LineageTypeOK ==
  /\ moment \in 0..LineageHorizon
  /\ \A s \in stock \cup bound : s.doc \in Judgments /\ s.at \in 0..moment /\ s.disp \in Dispositions
  /\ inspection.step \in {"idle", "history", "refresh", "verify", "store", "finish"}
  /\ completed.status \in {"none", "stored"} /\ returned.status \in {"none", "new", "replayed", "stale"}

\* The contract of an inspection can always be built: whatever the provider
\* says of directions and of judgments it names twice, by a full identifier
\* and a partial one, the verified nodes are one per judgment, the root not
\* among them, and the edges form no cycle.
ContractBuilds ==
  inspection.step = "verify" /\ inspection.left = 0 => Buildable(inspection.verified)

\* A reversal is reported only when the run holds an official judgment other
\* than the root, with its evidence, whose own disposition vacates.
ReversalIsOfficial ==
  [][returned' # returned /\ returned'.status = "new" /\ returned'.result.reversal =>
       \E s \in returned'.result.sources \cap stock : s.doc # Root /\ s.disp = "vacates"]_lineageVars

\* A stored inspection is shown again only while everything it rests on is
\* in the store, unexpired, and nothing has been fetched anew since.
ReplayIsCurrent ==
  [][returned' # returned /\ returned'.status = "replayed" =>
       /\ \A s \in stock : moment < Term(s)
       /\ returned'.result.sources \subseteq {[s EXCEPT !.whole = w] : s \in stock, w \in BOOLEAN}
       /\ returned'.result.status = "qualified" =>
            \A s \in stock : s.doc = Root => \E q \in returned'.result.sources : q.doc = Root /\ s.at <= q.at
    ]_lineageVars

=============================================================================
