----------------------- MODULE CounterAuthorityProofs -----------------------
(***************************************************************************)
(* Proofs about CounterAuthority for any number of queries, any judgments  *)
(* and any bounds.                                                         *)
(*                                                                         *)
(* Whether a search ends with "not found" is decided by the statuses of    *)
(* the queries; whether anything was listed, by nothing the execution      *)
(* looks at.  What connects the two is what each query has on record       *)
(* (Recorded): once a judgment was listed, some query has one on record,   *)
(* over all the resumptions, and a query with a judgment on record is not  *)
(* clean without having verified it (GoodItem).                            *)
(*                                                                         *)
(* The numbers of lookups are a second part (Numbers): an execution never  *)
(* fetches more than is left of what the kept progress leaves.  The sum    *)
(* over the queries it resumes from is a number because its recursive      *)
(* function has prefix sums, by the least number principle (PrefixSums).   *)
(*                                                                         *)
(* That a complete search has verified all it listed needs a third         *)
(* (Coverage): a judgment listed is on record, waits in the query or was   *)
(* left when the lookups ended (Accounted), and a query that is over has   *)
(* verified what it has on record (Held).                                  *)
(***************************************************************************)
EXTENDS CounterAuthority, FiniteSetTheorems, NaturalsInduction, WellFoundedInduction, TLAPS

ItemFields == {"status", "count", "ids", "verified", "attempts", "unresolved"}
OpFields == {"q", "items", "seen", "attempts", "exhausted", "transient", "fetched", "listed"}
CurFields == {"left", "size", "complete", "ids", "verified", "doubt", "spent"}

\* A query's progress: what it has verified it has recorded, and it is not
\* called empty with a judgment on record that it has not verified.
GoodItem(x) ==
  /\ DOMAIN x = ItemFields
  /\ x.status \in {"none", "found", "not_found", "partial", "failed", "blocked"}
  /\ x.verified \subseteq x.ids
  /\ x.status = "none" => x.ids = {}
  /\ x.status = "not_found" => x.ids \subseteq x.verified

\* The progress of a query as it stands: the one of this execution once the
\* query is over.
Now(q) == IF q < op.q THEN op.items[q] ELSE saved.items[q]

\* Some query has a judgment on record.
Recorded == cur.ids # {} \/ \E q \in Queries : Now(q).ids # {}

Shapes ==
  /\ DOMAIN op = OpFields /\ op.q \in 1..(N + 1) /\ DOMAIN op.items = Queries
  /\ DOMAIN cur = CurFields
  /\ DOMAIN saved.items = Queries
  /\ phase \in {"idle", "query", "verifying", "completed"}
  /\ phase \in {"idle", "completed"} => op = NoOp
  /\ phase # "verifying" => cur = NoQuery

\* What the queries that are over keep of the saved progress.
Extended ==
  \A q \in Queries : q < op.q =>
    /\ saved.items[q].ids \subseteq op.items[q].ids
    /\ saved.items[q].verified \subseteq op.items[q].verified
    /\ Terminal(saved.items[q]) => op.items[q] = saved.items[q]

\* The query in progress.
CurrentOK ==
  phase = "verifying" =>
    /\ op.q \in Queries /\ ~Terminal(Prior)
    /\ cur.verified \subseteq cur.ids
    /\ ~cur.doubt => cur.ids \subseteq cur.verified
    /\ cur.size = 0 => cur.ids = {} /\ cur.left = {}

ListedOK ==
  /\ op.seen # {} => Recorded
  /\ op.listed # {} => Recorded \/ cur.left # {}
  /\ saved.listed # {} => \E q \in Queries : saved.items[q].ids # {}

ItemsOK == \A q \in Queries : GoodItem(saved.items[q]) /\ (q < op.q => GoodItem(op.items[q]))

IInv == Shapes /\ ItemsOK /\ Extended /\ CurrentOK /\ ListedOK /\ NoFalseMiss

-----------------------------------------------------------------------------
LEMMA QueriesAreNumbers == Queries \subseteq Nat /\ N \in Nat \ {0} /\ 1 \in Queries
  BY CounterAssumption DEF Queries

LEMMA InitSafe == Init => IInv
  <1> SUFFICES ASSUME Init PROVE IInv
    OBVIOUS
  <1>1. op = NoOp /\ cur = NoQuery /\ phase = "idle" /\ result = NoResult
    BY DEF Init
  <1>2. /\ DOMAIN saved.items = Queries /\ saved.listed = {}
        /\ \A q \in Queries : saved.items[q] = Absent
    BY DEF Init
  <1>3. GoodItem(Absent)
    BY DEF GoodItem, Absent, ItemFields
  <1>4. op.q = 1 /\ op.seen = {} /\ op.listed = {} /\ DOMAIN op.items = Queries
    BY <1>1 DEF NoOp
  <1>5. \A q \in Queries : ~(q < op.q)
    BY <1>4, QueriesAreNumbers DEF Queries
  <1>6. Shapes
    BY <1>1, <1>2, <1>4, QueriesAreNumbers DEF Shapes, NoOp, OpFields, NoQuery, CurFields
  <1>7. ItemsOK /\ Extended
    BY <1>2, <1>3, <1>5 DEF ItemsOK, Extended
  <1>8. CurrentOK /\ ListedOK
    BY <1>1, <1>2, <1>4 DEF CurrentOK, ListedOK
  <1>9. NoFalseMiss
    BY <1>1 DEF NoFalseMiss, NoResult
  <1>10. QED
    BY <1>6, <1>7, <1>8, <1>9 DEF IInv

-----------------------------------------------------------------------------
\* An execution that begins, or is lost, has no query of its own over.
LEMMA Afresh ==
  ASSUME IInv, UNCHANGED saved,
         op'.q = 1, DOMAIN op' = OpFields, DOMAIN op'.items = Queries,
         cur' = NoQuery, phase' \in {"idle", "query"}, phase' = "idle" => op' = NoOp,
         op'.seen # {} => \E q \in Queries : saved.items[q].ids # {},
         op'.listed # {} => saved.listed # {}
  PROVE  Shapes' /\ ItemsOK' /\ Extended' /\ CurrentOK' /\ ListedOK'
  <1>1. \A q \in Queries : ~(q < op'.q)
    BY QueriesAreNumbers DEF Queries
  <1>2. Shapes'
    BY QueriesAreNumbers DEF IInv, Shapes, NoQuery, CurFields
  <1>3. ItemsOK' /\ Extended'
    BY <1>1 DEF IInv, ItemsOK, Extended
  <1>4. CurrentOK'
    BY DEF CurrentOK
  <1>5. \A q \in Queries : Now(q)' = saved.items[q]
    BY <1>1 DEF Now
  <1>6. ListedOK'
    BY <1>5 DEF IInv, ListedOK, Recorded
  <1>7. QED
    BY <1>2, <1>3, <1>4, <1>6

LEMMA BeginSafe == IInv /\ Begin => IInv'
  <1> SUFFICES ASSUME IInv, Begin PROVE IInv'
    OBVIOUS
  <1>1. /\ DOMAIN op' = OpFields /\ op'.q = 1 /\ DOMAIN op'.items = Queries
        /\ op'.seen = PriorVerified /\ op'.listed = saved.listed
    BY DEF Begin, NoOp, OpFields
  <1>2. PriorVerified # {} => \E q \in Queries : saved.items[q].ids # {}
    BY DEF PriorVerified, IInv, ItemsOK, GoodItem
  <1>3. cur' = NoQuery /\ phase' = "query" /\ saved' = saved /\ result' = NoResult
    BY DEF Begin, IInv, Shapes
  <1>4. NoFalseMiss'
    BY <1>3 DEF NoFalseMiss, NoResult
  <1>5. QED
    BY <1>1, <1>2, <1>3, <1>4, Afresh DEF IInv

LEMMA LostSafe == IInv /\ Lost => IInv'
  <1> SUFFICES ASSUME IInv, Lost PROVE IInv'
    OBVIOUS
  <1>1. op' = NoOp /\ cur' = NoQuery /\ phase' = "idle" /\ UNCHANGED <<saved, result>>
    BY DEF Lost
  <1>2. /\ DOMAIN op' = OpFields /\ op'.q = 1 /\ DOMAIN op'.items = Queries
        /\ op'.seen = {} /\ op'.listed = {}
    BY <1>1 DEF NoOp, OpFields
  <1>3. NoFalseMiss'
    BY <1>1 DEF IInv, NoFalseMiss
  <1>4. QED
    BY <1>1, <1>2, <1>3, Afresh DEF IInv

LEMMA OtherLookupSafe ==
  ASSUME IInv, NEW c \in Candidates, NEW found, OtherLookup(c, found)
  PROVE  IInv'
  <1>1. UNCHANGED <<saved, phase, op, cur, result>>
    BY DEF OtherLookup
  <1>2. QED
    BY <1>1 DEF IInv, Shapes, ItemsOK, Extended, CurrentOK, ListedOK, NoFalseMiss, Now, Recorded, Prior

-----------------------------------------------------------------------------
\* The end of a query: its progress joins what earlier executions have found.
LEMMA RecordSafe ==
  ASSUME IInv, op.q \in Queries, NEW item, GoodItem(item),
         Prior.ids \subseteq item.ids, Prior.verified \subseteq item.verified,
         Terminal(Prior) => item = Prior,
         cur.ids \subseteq item.ids, cur.left = {},
         DOMAIN op' = OpFields, op'.q = op.q + 1, op'.items = [op.items EXCEPT ![op.q] = item],
         op'.seen = op.seen, op'.listed = op.listed,
         UNCHANGED <<saved, result>>, cur' = NoQuery, phase' = "query"
  PROVE  IInv'
  <1>1. op.q \in 1..N /\ N \in Nat
    BY CounterAssumption DEF Queries
  <1>2. /\ op'.items[op.q] = item
        /\ \A q \in Queries : q # op.q => op'.items[q] = op.items[q]
    BY DEF IInv, Shapes
  <1>3. \A q \in Queries : q < op'.q <=> q < op.q \/ q = op.q
    BY <1>1 DEF Queries
  <1>4. Shapes'
    BY <1>1 DEF IInv, Shapes, NoQuery, CurFields
  <1>5. ItemsOK'
    BY <1>2, <1>3 DEF IInv, ItemsOK
  <1>6. Extended'
    BY <1>2, <1>3 DEF IInv, Extended, Prior
  <1>7. CurrentOK'
    BY DEF CurrentOK
  <1>8. \A q \in Queries : Now(q)' = IF q < op.q THEN Now(q) ELSE IF q = op.q THEN item ELSE Now(q)
    <2> SUFFICES ASSUME NEW q \in Queries
                 PROVE  Now(q)' = IF q < op.q THEN Now(q) ELSE IF q = op.q THEN item ELSE Now(q)
      OBVIOUS
    <2>1. saved'.items[q] = saved.items[q]
      OBVIOUS
    <2>2. q < op.q => q # op.q
      BY <1>1 DEF Queries
    <2>3. QED
      BY <1>2, <1>3, <2>1, <2>2 DEF Now
  <1>9. /\ \A q \in Queries : q = op.q => Now(q)'.ids = item.ids /\ Now(q).ids = Prior.ids
        /\ \A q \in Queries : q # op.q => Now(q)' = Now(q)
    BY <1>1, <1>8 DEF Now, Prior, Queries
  <1>10. Recorded => Recorded'
    BY <1>9 DEF Recorded
  <1>11. ListedOK'
    BY <1>10 DEF IInv, ListedOK
  <1>12. NoFalseMiss'
    BY DEF IInv, NoFalseMiss
  <1>13. QED
    BY <1>4, <1>5, <1>6, <1>7, <1>11, <1>12 DEF IInv

\* What recording an item does to the fields of op.
LEMMA RecordFields ==
  ASSUME Shapes, NEW item
  PROVE  /\ DOMAIN Record(item) = OpFields
         /\ Record(item).q = op.q + 1
         /\ Record(item).items = [op.items EXCEPT ![op.q] = item]
         /\ Record(item).seen = op.seen /\ Record(item).listed = op.listed
  BY DEF Shapes, Record, OpFields

\* Between two queries, the query at hand is one of the plan's.
LEMMA AtQuery ==
  ASSUME IInv, phase = "query", op.q <= N
  PROVE  /\ op.q \in Queries /\ GoodItem(Prior)
         /\ cur.ids = {} /\ cur.left = {} /\ cur = NoQuery
  <1>1. op.q \in Queries
    BY CounterAssumption DEF IInv, Shapes, Queries
  <1>2. QED
    BY <1>1 DEF IInv, Shapes, ItemsOK, Prior, NoQuery

LEMMA KeepCleanSafe == IInv /\ KeepClean => IInv'
  <1> SUFFICES ASSUME IInv, KeepClean PROVE IInv'
    OBVIOUS
  <1>1. /\ op' = Record(Prior) /\ phase = "query" /\ op.q <= N
        /\ UNCHANGED <<saved, phase, cur, result>>
    BY DEF KeepClean
  <1>2. QED
    BY <1>1, AtQuery, RecordFields, RecordSafe DEF IInv

LEMMA SearchFailedSafe ==
  ASSUME IInv, NEW failure \in {"transient", "blocked", "unreadable"}, SearchFailed(failure)
  PROVE  IInv'
  <1> DEFINE item == AfterFailure(failure)
  <1>1. /\ phase = "query" /\ op.q <= N /\ ~Terminal(Prior)
        /\ UNCHANGED <<saved, phase, cur, result>>
    BY DEF SearchFailed
  <1>2. /\ item.ids = Prior.ids /\ item.verified = Prior.verified /\ DOMAIN item = ItemFields
        /\ item.status \in {"partial", "blocked", "failed"}
    BY <1>1, AtQuery DEF AfterFailure, GoodItem, ItemFields
  <1>3. GoodItem(item)
    BY <1>1, <1>2, AtQuery DEF GoodItem
  <1> HIDE DEF item
  <1>4. op' = [Record(item) EXCEPT !.transient = @ \/ failure = "transient"]
    BY DEF SearchFailed, item
  <1>5. /\ DOMAIN op' = OpFields /\ op'.q = Record(item).q /\ op'.items = Record(item).items
        /\ op'.seen = Record(item).seen /\ op'.listed = Record(item).listed
    BY <1>4, RecordFields DEF IInv, OpFields
  <1>6. QED
    BY <1>1, <1>2, <1>3, <1>5, AtQuery, RecordFields, RecordSafe DEF IInv

LEMMA EndQuerySafe == IInv /\ EndQuery => IInv'
  <1> SUFFICES ASSUME IInv, EndQuery PROVE IInv'
    OBVIOUS
  <1>1. /\ phase = "verifying" /\ cur.left = {} /\ phase' = "query" /\ cur' = NoQuery
        /\ op' = Record(AfterSearch) /\ UNCHANGED <<saved, result>>
    BY DEF EndQuery
  <1>2. op.q \in Queries /\ ~Terminal(Prior) /\ GoodItem(Prior) /\ cur.verified \subseteq cur.ids
    BY <1>1 DEF IInv, CurrentOK, ItemsOK, Prior
  <1>3. /\ AfterSearch.ids = Prior.ids \cup cur.ids
        /\ AfterSearch.verified = Prior.verified \cup cur.verified
        /\ DOMAIN AfterSearch = ItemFields
        /\ AfterSearch.status \in {"partial", "not_found", "found"}
        /\ AfterSearch.status = "not_found" => ~cur.doubt /\ ~StillUnresolved
    BY DEF AfterSearch, ItemFields
  <1>4. ASSUME ~cur.doubt, ~StillUnresolved
        PROVE  Prior.ids \cup cur.ids \subseteq Prior.verified \cup cur.verified
    <2>1. cur.ids \subseteq cur.verified
      BY <1>1, <1>4 DEF IInv, CurrentOK
    <2>2. CASE PriorUnresolved(Prior)
      BY <1>2, <1>4, <2>1, <2>2 DEF StillUnresolved, PriorIds
    <2>3. CASE ~PriorUnresolved(Prior) /\ Prior.status # "none"
      BY <1>2, <2>1, <2>3 DEF PriorUnresolved, PriorIds, Terminal, GoodItem
    <2>4. CASE Prior.status = "none"
      BY <1>2, <2>1, <2>4 DEF GoodItem
    <2>5. QED
      BY <2>2, <2>3, <2>4
  <1>5. GoodItem(AfterSearch)
    BY <1>2, <1>3, <1>4 DEF GoodItem
  <1>6. QED
    BY <1>1, <1>2, <1>3, <1>5, RecordFields, RecordSafe DEF IInv

-----------------------------------------------------------------------------
\* Within a query only its own locals change, and what is listed or handled.
LEMMA WithinQuerySafe ==
  ASSUME IInv, op.q \in Queries, ~Terminal(Prior),
         UNCHANGED <<saved, result>>, phase' = "verifying",
         DOMAIN op' = OpFields, op'.q = op.q, op'.items = op.items,
         DOMAIN cur' = CurFields, CurrentOK',
         cur.ids \subseteq cur'.ids,
         op'.seen # {} => op.seen # {} \/ cur'.ids # {},
         op'.listed # {} => \/ op.listed # {} /\ cur.left = {}
                            \/ op'.seen # {} \/ cur'.left # {}
  PROVE  IInv'
  <1>1. Shapes'
    BY DEF IInv, Shapes
  <1>2. ItemsOK' /\ Extended' /\ NoFalseMiss'
    BY DEF IInv, ItemsOK, Extended, NoFalseMiss
  <1>3. \A q \in Queries : Now(q)' = Now(q)
    BY DEF Now
  <1>4. Recorded => Recorded'
    BY <1>3 DEF Recorded
  <1>5. op'.seen # {} => Recorded'
    BY <1>4 DEF IInv, ListedOK, Recorded
  <1>6. op'.listed # {} => Recorded' \/ cur'.left # {}
    BY <1>4, <1>5 DEF IInv, ListedOK
  <1>7. saved'.listed # {} => \E q \in Queries : saved'.items[q].ids # {}
    BY DEF IInv, ListedOK
  <1>8. ListedOK'
    BY <1>5, <1>6, <1>7 DEF ListedOK
  <1>9. QED
    BY <1>1, <1>2, <1>8 DEF IInv

LEMMA SearchedSafe ==
  ASSUME IInv, NEW list \in SUBSET Candidates, NEW complete \in BOOLEAN,
         Searched(list, complete)
  PROVE  IInv'
  <1>1. /\ phase = "query" /\ op.q <= N /\ ~Terminal(Prior) /\ phase' = "verifying"
        /\ cur' = [NoQuery EXCEPT !.left = list \ op.seen, !.size = Cardinality(list),
                                  !.complete = complete]
        /\ op' = [op EXCEPT !.listed = @ \cup list]
        /\ UNCHANGED <<saved, material, result>>
    BY DEF Searched
  <1>2. Cardinality(list) = 0 => list = {}
    BY CounterAssumption, FS_Subset, FS_EmptySet
  <1>3. op.q \in Queries /\ cur.ids = {} /\ cur.left = {}
    BY <1>1, AtQuery
  <1>4. /\ DOMAIN cur' = CurFields /\ cur'.left = list \ op.seen /\ cur'.size = Cardinality(list)
        /\ cur'.ids = {} /\ cur'.verified = {}
    BY <1>1 DEF NoQuery, CurFields
  <1>5. /\ DOMAIN op' = OpFields /\ op'.q = op.q /\ op'.items = op.items
        /\ op'.seen = op.seen /\ op'.listed = op.listed \cup list
    BY <1>1 DEF IInv, Shapes, OpFields
  <1>6. CurrentOK'
    BY <1>1, <1>2, <1>3, <1>4, <1>5 DEF CurrentOK, Prior, Terminal
  <1>7. op'.listed # {} => op.listed # {} \/ op'.seen # {} \/ cur'.left # {}
    BY <1>4, <1>5
  <1>8. QED
    BY <1>1, <1>3, <1>4, <1>5, <1>6, <1>7, WithinQuerySafe

LEMMA TruncatedSafe ==
  ASSUME IInv, NEW c \in Candidates, Truncated(c)
  PROVE  IInv'
  <1>1. /\ phase = "verifying" /\ c \in cur.left /\ phase' = "verifying"
        /\ op' = [op EXCEPT !.exhausted = TRUE]
        /\ cur' = [cur EXCEPT !.left = {}, !.ids = @ \cup {c}, !.doubt = TRUE]
        /\ UNCHANGED <<saved, result>>
    BY DEF Truncated
  <1>2. /\ op.q \in Queries /\ ~Terminal(Prior) /\ cur.verified \subseteq cur.ids
        /\ cur.size # 0
    BY <1>1 DEF IInv, CurrentOK
  <1>3. /\ DOMAIN cur' = CurFields /\ cur'.ids = cur.ids \cup {c} /\ cur'.size = cur.size
        /\ cur'.verified = cur.verified /\ cur'.doubt
    BY <1>1 DEF IInv, Shapes, CurFields
  <1>4. /\ DOMAIN op' = OpFields /\ op'.q = op.q /\ op'.items = op.items
        /\ op'.seen = op.seen /\ op'.listed = op.listed
    BY <1>1 DEF IInv, Shapes, OpFields
  <1>5. CurrentOK'
    BY <1>1, <1>2, <1>3, <1>4 DEF CurrentOK, Prior, Terminal
  <1>6. cur'.ids # {}
    BY <1>3
  <1>7. QED
    <2>1. Shapes' /\ ItemsOK' /\ Extended' /\ NoFalseMiss'
      BY <1>1, <1>3, <1>4 DEF IInv, Shapes, ItemsOK, Extended, NoFalseMiss
    <2>2. ListedOK'
      BY <1>1, <1>6 DEF IInv, ListedOK, Recorded
    <2>3. QED
      BY <1>5, <2>1, <2>2 DEF IInv

LEMMA VerifySafe ==
  ASSUME IInv, NEW c \in Candidates, NEW found \in {"none", "stored", "eligible"},
         NEW transient \in BOOLEAN, Verify(c, found, transient)
  PROVE  IInv'
  <1> DEFINE charge == IF NeedsLookup(c) THEN 1 ELSE 0
             verified == found = "eligible"
  <1>1. /\ phase = "verifying" /\ c \in cur.left /\ phase' = "verifying"
        /\ op' = [op EXCEPT !.seen = @ \cup {c}, !.attempts = @ + charge,
                            !.fetched = @ + charge, !.transient = @ \/ transient]
        /\ cur' = [cur EXCEPT !.left = @ \ {c}, !.ids = @ \cup {c},
                              !.verified = IF verified THEN @ \cup {c} ELSE @,
                              !.doubt = @ \/ ~verified, !.spent = @ + charge]
        /\ UNCHANGED <<saved, result>>
    BY DEF Verify
  <1>2. /\ op.q \in Queries /\ ~Terminal(Prior) /\ cur.verified \subseteq cur.ids
        /\ ~cur.doubt => cur.ids \subseteq cur.verified
        /\ cur.size # 0
    BY <1>1 DEF IInv, CurrentOK
  <1>3. /\ DOMAIN cur' = CurFields /\ cur'.ids = cur.ids \cup {c} /\ cur'.size = cur.size
        /\ cur'.verified = IF verified THEN cur.verified \cup {c} ELSE cur.verified
    BY <1>1 DEF IInv, Shapes, CurFields
  <1>4. ~cur'.doubt => ~cur.doubt /\ verified
    BY <1>1 DEF IInv, Shapes, CurFields
  <1>5. /\ DOMAIN op' = OpFields /\ op'.q = op.q /\ op'.items = op.items
        /\ op'.listed = op.listed
    BY <1>1 DEF IInv, Shapes, OpFields
  <1>6. CurrentOK'
    BY <1>1, <1>2, <1>3, <1>4, <1>5 DEF CurrentOK, Prior, Terminal
  <1>7. cur'.ids # {}
    BY <1>3
  <1>8. Shapes' /\ ItemsOK' /\ Extended' /\ NoFalseMiss'
    BY <1>1, <1>3, <1>5 DEF IInv, Shapes, ItemsOK, Extended, NoFalseMiss
  <1>9. ListedOK'
    BY <1>1, <1>7 DEF IInv, ListedOK, Recorded
  <1>10. QED
    BY <1>6, <1>8, <1>9 DEF IInv

-----------------------------------------------------------------------------
\* When every query is over, what is listed is on some query's record.
LEMMA AllOver ==
  ASSUME IInv, phase = "query", op.q > N
  PROVE  /\ \A q \in Queries : q < op.q /\ GoodItem(op.items[q])
         /\ op.listed # {} => \E q \in Queries : op.items[q].ids # {}
  <1>1. \A q \in Queries : q < op.q
    BY CounterAssumption DEF IInv, Shapes, Queries
  <1>2. cur.ids = {} /\ cur.left = {}
    BY DEF IInv, Shapes, NoQuery
  <1>3. \A q \in Queries : GoodItem(op.items[q]) /\ Now(q) = op.items[q]
    BY <1>1 DEF IInv, ItemsOK, Now
  <1>4. QED
    BY <1>1, <1>2, <1>3 DEF IInv, ListedOK, Recorded

\* The status "not found" needs every query without a judgment on record.
LEMMA MissMeansNothingListed ==
  ASSUME IInv, phase = "query", op.q > N, Status = "not_found_in_scope"
  PROVE  op.listed = {}
  <1>1. /\ ~ \E q \in Queries : op.items[q].verified # {}
        /\ \A q \in Queries : op.items[q].status = "not_found"
    BY DEF Status
  <1>2. \A q \in Queries : op.items[q].ids = {}
    BY <1>1, AllOver DEF GoodItem
  <1>3. QED
    BY <1>2, AllOver

LEMMA FinishSafe == IInv /\ Finish => IInv'
  <1> SUFFICES ASSUME IInv, Finish PROVE IInv'
    OBVIOUS
  <1> DEFINE retry == op.transient \/ Status = "retry_required"
  <1>1. /\ phase = "query" /\ op.q > N /\ op' = NoOp /\ cur' = cur /\ cur = NoQuery
        /\ phase' \in {"idle", "completed"}
        /\ saved' = IF retry
                    THEN [items |-> op.items, attempts |-> op.attempts,
                          fetched |-> op.fetched, listed |-> op.listed]
                    ELSE saved
        /\ result'.status = Status /\ result'.listed = op.listed
    BY DEF Finish, IInv, Shapes
  <1> HIDE DEF retry
  <1>2. /\ op'.q = 1 /\ op'.seen = {} /\ op'.listed = {}
        /\ DOMAIN op' = OpFields /\ DOMAIN op'.items = Queries
    BY <1>1 DEF NoOp, OpFields
  <1>3. \A q \in Queries : ~(q < op'.q)
    BY <1>2, QueriesAreNumbers DEF Queries
  <1>4. NoFalseMiss'
    BY <1>1, MissMeansNothingListed DEF NoFalseMiss
  <1>5. /\ DOMAIN saved'.items = Queries
        /\ \A q \in Queries : GoodItem(saved'.items[q])
        /\ saved'.listed # {} => \E q \in Queries : saved'.items[q].ids # {}
    <2>1. CASE retry
      BY <1>1, <2>1, AllOver DEF IInv, Shapes
    <2>2. CASE ~retry
      BY <1>1, <2>2 DEF IInv, Shapes, ItemsOK, ListedOK
    <2>3. QED
      BY <2>1, <2>2
  <1>6. Shapes'
    BY <1>1, <1>2, <1>5, QueriesAreNumbers DEF Shapes, NoQuery, CurFields
  <1>7. ItemsOK' /\ Extended'
    BY <1>3, <1>5 DEF ItemsOK, Extended
  <1>8. CurrentOK' /\ ListedOK'
    BY <1>1, <1>2, <1>5 DEF CurrentOK, ListedOK
  <1>9. QED
    BY <1>4, <1>6, <1>7, <1>8 DEF IInv

-----------------------------------------------------------------------------
LEMMA StepSafe == IInv /\ [Next]_vars => IInv'
  <1> SUFFICES ASSUME IInv, [Next]_vars PROVE IInv'
    OBVIOUS
  <1>1. CASE Begin
    BY <1>1, BeginSafe
  <1>2. CASE KeepClean
    BY <1>2, KeepCleanSafe
  <1>3. CASE \E failure \in {"transient", "blocked", "unreadable"} : SearchFailed(failure)
    BY <1>3, SearchFailedSafe
  <1>4. CASE \E list \in SUBSET Candidates, complete \in BOOLEAN :
                /\ Cardinality(list) <= MaxListed
                /\ Searched(list, complete)
    BY <1>4, SearchedSafe
  <1>5. CASE \E c \in Candidates : Truncated(c)
    BY <1>5, TruncatedSafe
  <1>6. CASE \E c \in Candidates, found \in {"none", "stored", "eligible"},
                transient \in BOOLEAN : Verify(c, found, transient)
    BY <1>6, VerifySafe
  <1>7. CASE EndQuery
    BY <1>7, EndQuerySafe
  <1>8. CASE Finish
    BY <1>8, FinishSafe
  <1>9. CASE Lost
    BY <1>9, LostSafe
  <1>10. CASE \E c \in Candidates, found \in {"stored", "eligible"} : OtherLookup(c, found)
    BY <1>10, OtherLookupSafe
  <1>11. CASE UNCHANGED vars
    BY <1>11 DEF vars, IInv, Shapes, ItemsOK, Extended, CurrentOK, ListedOK, NoFalseMiss,
                 Now, Recorded, Prior
  <1>12. QED
    BY <1>1, <1>2, <1>3, <1>4, <1>5, <1>6, <1>7, <1>8, <1>9, <1>10, <1>11 DEF Next

LEMMA Invariance == Spec => []IInv
  BY InitSafe, StepSafe, PTL DEF Spec

\* "Not found in scope" is never reported once a search that is part of the
\* kept progress has listed a judgment (CounterAuthority!NoFalseMiss).
THEOREM NoFalseMisses == Spec => []NoFalseMiss
  <1>1. IInv => NoFalseMiss
    BY DEF IInv
  <1>2. QED
    BY <1>1, Invariance, PTL

-----------------------------------------------------------------------------
\* What is kept of each query when the progress is saved anew.
Kept ==
  \A q \in Queries :
    /\ saved.items[q].status \in {"found", "not_found"} => saved'.items[q] = saved.items[q]
    /\ saved.items[q].verified \subseteq saved'.items[q].verified

LEMMA StepKeeps == IInv /\ [Next]_vars => [Kept]_saved
  <1> SUFFICES ASSUME IInv, [Next]_vars, saved' # saved PROVE Kept
    OBVIOUS
  <1>1. Finish
    BY DEF Next, vars, Begin, KeepClean, SearchFailed, Searched, Truncated, Verify, EndQuery,
           Lost, OtherLookup
  <1>2. phase = "query" /\ op.q > N /\ saved'.items = op.items
    BY <1>1 DEF Finish
  <1>3. \A q \in Queries : q < op.q
    BY <1>2, AllOver
  <1>4. QED
    BY <1>2, <1>3 DEF IInv, Extended, Kept, Terminal

\* Resuming a search repeats no clean query and forgets no judgment a query
\* has verified, whatever an execution meets (CounterAuthority!ProgressKept).
THEOREM ProgressIsKept == Spec => ProgressKept
  <1>1. Init /\ [][Next]_vars => [][Kept]_saved
    BY Invariance, StepKeeps, PTL DEF Spec
  <1>2. QED
    BY <1>1 DEF Spec, ProgressKept, Kept

-----------------------------------------------------------------------------
(* The numbers: what the queries have spent adds up, and never passes the  *)
(* bound.                                                                  *)

\* The least number principle.
LEMMA Least ==
  ASSUME NEW T \in SUBSET Nat, T # {}
  PROVE  \E x \in T : \A y \in T : x <= y
  <1> DEFINE R == OpToRel(<, Nat)
  <1>1. IsWellFoundedOn(R, Nat)
    BY NatLessThanWellFounded
  <1> HIDE DEF R
  <1>2. PICK x \in T : \A y \in T : ~(<<y, x>> \in R)
    BY <1>1, WFMin
  <1>3. \A y \in T : ~(y < x)
    BY <1>2 DEF R, OpToRel
  <1>4. QED
    BY <1>3

\* f adds the numbers up, from the first query to the query n.
AddsUp(f, n, number) ==
  /\ f \in [0..n -> Nat]
  /\ f[0] = 0
  /\ \A q \in 1..n : f[q] = f[q - 1] + number[q]

LEMMA PrefixSums ==
  ASSUME NEW number \in [Queries -> Nat]
  PROVE  \E f : AddsUp(f, N, number)
  <1> DEFINE T == {n \in 0..N : ~ \E f : AddsUp(f, n, number)}
  <1>0. N \in Nat /\ Queries = 1..N
    BY CounterAssumption DEF Queries
  <1> SUFFICES ASSUME ~ \E f : AddsUp(f, N, number) PROVE FALSE
    OBVIOUS
  <1>1. N \in T
    BY <1>0
  <1>2. PICK n \in T : \A m \in T : n <= m
    <2>1. T \in SUBSET Nat
      BY <1>0
    <2> HIDE DEF T
    <2>2. QED
      BY <1>1, <2>1, Least
  <1>3. n \in 0..N /\ ~ \E f : AddsUp(f, n, number)
    BY <1>2
  <1>4. n # 0
    <2>1. AddsUp([q \in 0..0 |-> 0], 0, number)
      BY DEF AddsUp
    <2>2. QED
      BY <1>3, <2>1
  <1>5. n - 1 \in 0..N /\ n - 1 \notin T /\ n \in Queries
    BY <1>0, <1>2, <1>3, <1>4
  <1>6. PICK g : AddsUp(g, n - 1, number)
    BY <1>5
  <1> DEFINE h == [q \in 0..n |-> IF q = n THEN g[n - 1] + number[n] ELSE g[q]]
  <1>7. n \in Nat /\ n > 0 /\ number[n] \in Nat
    BY <1>0, <1>3, <1>4, <1>5
  <1>8. g \in [0..(n - 1) -> Nat] /\ g[n - 1] \in Nat
    BY <1>6, <1>7 DEF AddsUp
  <1>9. h \in [0..n -> Nat] /\ h[0] = 0
    BY <1>6, <1>7, <1>8 DEF AddsUp
  <1>10. ASSUME NEW q \in 1..n PROVE h[q] = h[q - 1] + number[q]
    <2>1. CASE q = n
      BY <1>7, <1>8, <2>1
    <2>2. CASE q # n
      <3>1. q \in 1..(n - 1) /\ q \in 0..n /\ q - 1 \in 0..n /\ q - 1 # n
        BY <1>7, <1>10, <2>2
      <3>2. h[q] = g[q] /\ h[q - 1] = g[q - 1]
        BY <2>2, <3>1
      <3>3. QED
        BY <1>6, <3>1, <3>2 DEF AddsUp
    <2>3. QED
      BY <2>1, <2>2
  <1>11. AddsUp(h, n, number)
    BY <1>9, <1>10 DEF AddsUp
  <1>12. QED
    BY <1>3, <1>11

\* The sum over the queries of natural numbers is one.
LEMMA TotalIsNatural ==
  ASSUME NEW number \in [Queries -> Nat]
  PROVE  Total(number) \in Nat
  <1> DEFINE Sums(f) == f = [q \in 0..N |-> IF q = 0 THEN 0 ELSE f[q - 1] + number[q]]
             upTo == CHOOSE f : Sums(f)
  <1>0. N \in Nat \ {0} /\ Queries = 1..N
    BY CounterAssumption DEF Queries
  <1>1. \E f : Sums(f)
    <2>1. PICK g : AddsUp(g, N, number)
      BY PrefixSums
    <2>2. g = [q \in 0..N |-> g[q]]
      BY <2>1 DEF AddsUp
    <2>3. \A q \in 0..N : g[q] = IF q = 0 THEN 0 ELSE g[q - 1] + number[q]
      BY <2>1, <1>0 DEF AddsUp
    <2>4. g = [q \in 0..N |-> IF q = 0 THEN 0 ELSE g[q - 1] + number[q]]
      BY <2>2, <2>3
    <2>5. QED
      BY <2>4
  <1>2. Sums(upTo)
    BY <1>1
  <1>3. Total(number) = upTo[N]
    BY DEF Total
  <1> HIDE DEF upTo
  <1>4. /\ upTo[0] = 0
        /\ \A q \in 1..N : upTo[q] = upTo[q - 1] + number[q]
    BY <1>0, <1>2
  <1> DEFINE T == {n \in 0..N : upTo[n] \notin Nat}
  <1>5. T = {}
    <2>1. SUFFICES ASSUME T # {} PROVE FALSE
      OBVIOUS
    <2>2. PICK n \in T : \A m \in T : n <= m
      <3>1. T \in SUBSET Nat
        BY <1>0
      <3> HIDE DEF T
      <3>2. QED
        BY <2>1, <3>1, Least
    <2>3. n \in 1..N
      BY <1>0, <1>4, <2>2
    <2>4. n - 1 \in 0..N /\ n - 1 \notin T
      BY <1>0, <2>2, <2>3
    <2>5. upTo[n - 1] \in Nat /\ number[n] \in Nat
      BY <1>0, <2>3, <2>4
    <2>6. QED
      BY <1>4, <2>2, <2>3, <2>5
  <1>6. QED
    BY <1>0, <1>3, <1>5

LEMMA MaxOfThree ==
  ASSUME NEW a \in Nat, NEW b \in Nat, NEW c \in Nat
  PROVE  Max({a, b, c}) \in {a, b, c} /\ Max({a, b, c}) >= a
  <1>1. \E x \in {a, b, c} : \A y \in {a, b, c} : x >= y
    OBVIOUS
  <1>2. QED
    BY <1>1 DEF Max

\* The lookups charged are counted, and are within the bound.
Numbers ==
  /\ op.fetched <= op.attempts /\ op.fetched <= MaxVerifications
  /\ saved.fetched <= saved.attempts /\ saved.fetched <= MaxVerifications

Typed == TypeOK /\ Numbers

\* An execution starts counting where the kept progress stopped.
LEMMA ResumesTheCount ==
  ASSUME TypeOK
  PROVE  PriorAttempts \in Nat /\ PriorAttempts >= saved.attempts
  <1>1. Attempts \in [Queries -> Nat] /\ CleanHits \in [Queries -> Nat]
    BY DEF TypeOK, Attempts, CleanHits, Items
  <1>2. saved.attempts \in Nat
    BY DEF TypeOK
  <1>3. Total(Attempts) \in Nat /\ Total(CleanHits) \in Nat
    BY <1>1, TotalIsNatural
  <1>4. PICK b \in Nat : b = Total(Attempts)
    BY <1>3
  <1>5. PICK c \in Nat : c = Total(CleanHits)
    BY <1>3
  <1>6. PriorAttempts = Max({saved.attempts, b, c})
    BY <1>4, <1>5 DEF PriorAttempts
  <1>7. PriorAttempts \in {saved.attempts, b, c} /\ PriorAttempts >= saved.attempts
    BY <1>2, <1>6, MaxOfThree
  <1>8. QED
    BY <1>2, <1>7

OpType ==
  [q: 1 .. N + 1, items: [Queries -> Items], seen: SUBSET Candidates, attempts: Nat,
   exhausted: BOOLEAN, transient: BOOLEAN, fetched: Nat, listed: SUBSET Candidates]

CurType ==
  [left: SUBSET Candidates, size: Nat, complete: BOOLEAN, ids: SUBSET Candidates,
   verified: SUBSET Candidates, doubt: BOOLEAN, spent: Nat]

LEMMA NothingTyped == Absent \in Items /\ NoOp \in OpType /\ NoQuery \in CurType
  <1>1. Absent \in Items
    BY DEF Absent, Items
  <1>2. 1 \in 1 .. N + 1
    BY CounterAssumption
  <1>3. QED
    BY <1>1, <1>2 DEF NoOp, OpType, NoQuery, CurType

LEMMA InitTyped == Init => Typed
  <1> SUFFICES ASSUME Init PROVE Typed
    OBVIOUS
  <1>1. op \in OpType /\ cur \in CurType
    BY NothingTyped DEF Init
  <1>2. saved \in [items: [Queries -> Items], attempts: Nat, fetched: Nat, listed: SUBSET Candidates]
    BY NothingTyped DEF Init
  <1>3. \A q \in Queries : saved.items[q].verified \subseteq saved.items[q].ids
    BY DEF Init, Absent
  <1>4. TypeOK
    BY <1>1, <1>2, <1>3 DEF Init, TypeOK, OpType, CurType, NoResult
  <1>5. Numbers
    BY CounterAssumption DEF Init, Numbers, NoOp
  <1>6. QED
    BY <1>4, <1>5 DEF Typed

\* What a step within an execution has to show.
LEMMA WithinTyped ==
  ASSUME Typed, UNCHANGED <<saved, result>>,
         material' \in [Candidates -> {"none", "stored", "eligible"}],
         phase' \in {"idle", "query", "verifying", "completed"},
         op' \in OpType, cur' \in CurType,
         op'.fetched <= op'.attempts, op'.fetched <= MaxVerifications
  PROVE  Typed'
  <1>1. TypeOK'
    BY DEF Typed, TypeOK, OpType, CurType
  <1>2. Numbers'
    BY DEF Typed, Numbers
  <1>3. QED
    BY <1>1, <1>2 DEF Typed

LEMMA BeginTyped == Typed /\ Begin => Typed'
  <1> SUFFICES ASSUME Typed, Begin PROVE Typed'
    OBVIOUS
  <1>1. PICK spent \in Nat : spent = PriorAttempts /\ spent >= saved.attempts
    BY ResumesTheCount DEF Typed
  <1>2. PICK seen \in SUBSET Candidates : seen = PriorVerified
    <2>1. \A q \in Queries : saved.items[q] \in Items
      BY DEF Typed, TypeOK
    <2>2. \A q \in Queries : saved.items[q].verified \subseteq Candidates
      BY <2>1 DEF Items
    <2>3. QED
      BY <2>2 DEF PriorVerified
  <1>3. PICK exhausted \in BOOLEAN : exhausted = (PriorAttempts >= MaxVerifications)
    <2>1. (PriorAttempts >= MaxVerifications) \in BOOLEAN
      BY <1>1, CounterAssumption
    <2>2. QED
      BY <2>1, Zenon
  <1>4. op' = [NoOp EXCEPT !.seen = seen, !.attempts = spent, !.exhausted = exhausted,
                           !.fetched = saved.fetched, !.listed = saved.listed]
    BY <1>1, <1>2, <1>3 DEF Begin
  <1>5. /\ saved.fetched \in Nat /\ saved.attempts \in Nat /\ saved.listed \in SUBSET Candidates
        /\ saved.fetched <= saved.attempts /\ saved.fetched <= MaxVerifications
    BY DEF Typed, TypeOK, Numbers
  <1>6. op' \in OpType
    BY <1>4, <1>5, NothingTyped DEF OpType
  <1>7. op'.fetched = saved.fetched /\ op'.attempts = spent
    BY <1>4 DEF NoOp
  <1>8. op'.fetched <= op'.attempts /\ op'.fetched <= MaxVerifications
    BY <1>1, <1>5, <1>7
  <1>9. /\ cur' = cur /\ result' = NoResult /\ saved' = saved /\ material' = material
        /\ phase' = "query"
    BY DEF Begin
  <1>10. TypeOK'
    BY <1>6, <1>9 DEF Typed, TypeOK, OpType, NoResult
  <1>11. Numbers'
    BY <1>5, <1>8, <1>9 DEF Numbers
  <1>12. QED
    BY <1>10, <1>11 DEF Typed

\* Recording an item, with or without a sign that a retry may help.
LEMMA RecordTyped ==
  ASSUME Typed, op.q \in Queries, NEW item \in Items
  PROVE  /\ Record(item) \in OpType
         /\ Record(item).fetched = op.fetched /\ Record(item).attempts = op.attempts
         /\ op.fetched <= op.attempts /\ op.fetched <= MaxVerifications
  <1>1. op \in OpType
    BY DEF Typed, TypeOK, OpType
  <1>2. op.q + 1 \in 1 .. N + 1
    BY CounterAssumption DEF Queries
  <1>3. [op.items EXCEPT ![op.q] = item] \in [Queries -> Items]
    BY <1>1 DEF OpType
  <1>4. Record(item) \in OpType /\ Record(item).fetched = op.fetched /\ Record(item).attempts = op.attempts
    BY <1>1, <1>2, <1>3 DEF OpType, Record
  <1>5. QED
    BY <1>4 DEF Typed, Numbers

LEMMA KeepCleanTyped == IInv /\ Typed /\ KeepClean => Typed'
  <1> SUFFICES ASSUME IInv, Typed, KeepClean PROVE Typed'
    OBVIOUS
  <1>1. op.q \in Queries
    BY AtQuery DEF KeepClean
  <1>2. Prior \in Items
    BY <1>1 DEF Typed, TypeOK, Prior
  <1>3. op' = Record(Prior) /\ UNCHANGED <<saved, material, phase, cur, result>>
    BY DEF KeepClean
  <1>4. cur \in CurType /\ material \in [Candidates -> {"none", "stored", "eligible"}]
        /\ phase \in {"idle", "query", "verifying", "completed"}
    BY DEF Typed, TypeOK, CurType
  <1>5. QED
    BY <1>1, <1>2, <1>3, <1>4, RecordTyped, WithinTyped

LEMMA SearchFailedTyped ==
  ASSUME IInv, Typed, NEW failure \in {"transient", "blocked", "unreadable"}, SearchFailed(failure)
  PROVE  Typed'
  <1>1. op.q \in Queries
    BY AtQuery DEF SearchFailed
  <1>2. Prior \in Items
    BY <1>1 DEF Typed, TypeOK, Prior
  <1>3. PICK unresolved \in BOOLEAN : unresolved = PriorUnresolved(Prior)
    BY DEF PriorUnresolved
  <1>4. AfterFailure(failure) \in Items
    BY <1>2, <1>3 DEF AfterFailure, Items
  <1>5. PICK item \in Items : item = AfterFailure(failure)
    BY <1>4
  <1>6. /\ op' = [Record(item) EXCEPT !.transient = @ \/ failure = "transient"]
        /\ UNCHANGED <<saved, material, phase, cur, result>>
    BY <1>5 DEF SearchFailed
  <1>7. Record(item) \in OpType
    BY <1>1, RecordTyped
  <1>8. op' \in OpType /\ op'.fetched = Record(item).fetched /\ op'.attempts = Record(item).attempts
    BY <1>6, <1>7 DEF OpType
  <1>9. cur \in CurType /\ material \in [Candidates -> {"none", "stored", "eligible"}]
        /\ phase \in {"idle", "query", "verifying", "completed"}
    BY DEF Typed, TypeOK, CurType
  <1>10. op'.fetched <= op'.attempts /\ op'.fetched <= MaxVerifications
    BY <1>1, <1>8, RecordTyped
  <1>11. QED
    BY <1>6, <1>8, <1>9, <1>10, WithinTyped

LEMMA EndQueryTyped == IInv /\ Typed /\ EndQuery => Typed'
  <1> SUFFICES ASSUME IInv, Typed, EndQuery PROVE Typed'
    OBVIOUS
  <1>1. op.q \in Queries
    BY DEF EndQuery, IInv, CurrentOK
  <1>2. Prior \in Items /\ cur \in CurType
    BY <1>1 DEF Typed, TypeOK, Prior, CurType
  <1>3. PICK unresolved \in BOOLEAN : unresolved = StillUnresolved
    BY DEF StillUnresolved, PriorUnresolved
  <1>4. PICK count \in Nat : count = Max({Prior.count, Cardinality(Prior.ids \cup cur.ids), cur.size})
    <2>1. Prior.ids \cup cur.ids \in SUBSET Candidates
      BY <1>2 DEF Items, CurType
    <2>2. IsFiniteSet(Prior.ids \cup cur.ids)
      BY <2>1, CounterAssumption, FS_Subset
    <2>3. Cardinality(Prior.ids \cup cur.ids) \in Nat
      BY <2>2, FS_CardinalityType
    <2>4. PICK n \in Nat : n = Cardinality(Prior.ids \cup cur.ids)
      BY <2>3
    <2>5. Prior.count \in Nat /\ cur.size \in Nat
      BY <1>2 DEF Items, CurType
    <2>6. Max({Prior.count, n, cur.size}) \in {Prior.count, n, cur.size}
      BY <2>5, MaxOfThree
    <2>7. QED
      BY <2>4, <2>5, <2>6
  <1>5. PICK status \in {"partial", "not_found", "found"} : status = AfterSearch.status
    BY DEF AfterSearch
  <1>6. AfterSearch = [status |-> status, count |-> count, ids |-> Prior.ids \cup cur.ids,
                       verified |-> Prior.verified \cup cur.verified,
                       attempts |-> Prior.attempts + cur.spent, unresolved |-> unresolved]
    BY <1>3, <1>4, <1>5 DEF AfterSearch
  <1>7. AfterSearch \in Items
    BY <1>2, <1>6 DEF Items, CurType
  <1>8. PICK item \in Items : item = AfterSearch
    BY <1>7
  <1>9. op' = Record(item) /\ cur' = NoQuery /\ phase' = "query" /\ UNCHANGED <<saved, material, result>>
    BY <1>8 DEF EndQuery
  <1>10. material \in [Candidates -> {"none", "stored", "eligible"}]
    BY DEF Typed, TypeOK
  <1>11. QED
    BY <1>1, <1>9, <1>10, RecordTyped, NothingTyped, WithinTyped

LEMMA SearchedTyped ==
  ASSUME Typed, NEW list \in SUBSET Candidates, NEW complete \in BOOLEAN, Searched(list, complete)
  PROVE  Typed'
  <1>1. PICK size \in Nat : size = Cardinality(list)
    BY CounterAssumption, FS_Subset, FS_CardinalityType
  <1>2. op \in OpType /\ material \in [Candidates -> {"none", "stored", "eligible"}]
    BY DEF Typed, TypeOK, OpType
  <1>3. /\ cur' = [NoQuery EXCEPT !.left = list \ op.seen, !.size = size, !.complete = complete]
        /\ op' = [op EXCEPT !.listed = @ \cup list]
        /\ phase' = "verifying" /\ UNCHANGED <<saved, material, result>>
    BY <1>1 DEF Searched
  <1>4. cur' \in CurType
    BY <1>3, NothingTyped DEF CurType
  <1>5. op' \in OpType /\ op'.fetched = op.fetched /\ op'.attempts = op.attempts
    BY <1>2, <1>3 DEF OpType
  <1>6. op.fetched <= op.attempts /\ op.fetched <= MaxVerifications
    BY DEF Typed, Numbers
  <1>7. QED
    BY <1>2, <1>3, <1>4, <1>5, <1>6, WithinTyped

LEMMA TruncatedTyped ==
  ASSUME Typed, NEW c \in Candidates, Truncated(c)
  PROVE  Typed'
  <1>1. op \in OpType /\ cur \in CurType /\ material \in [Candidates -> {"none", "stored", "eligible"}]
    BY DEF Typed, TypeOK, OpType, CurType
  <1>2. /\ op' = [op EXCEPT !.exhausted = TRUE]
        /\ cur' = [cur EXCEPT !.left = {}, !.ids = @ \cup {c}, !.doubt = TRUE]
        /\ phase' = "verifying" /\ UNCHANGED <<saved, material, result>>
    BY DEF Truncated
  <1>3. cur' \in CurType
    BY <1>1, <1>2 DEF CurType
  <1>4. op' \in OpType /\ op'.fetched = op.fetched /\ op'.attempts = op.attempts
    BY <1>1, <1>2 DEF OpType
  <1>5. op.fetched <= op.attempts /\ op.fetched <= MaxVerifications
    BY DEF Typed, Numbers
  <1>6. QED
    BY <1>1, <1>2, <1>3, <1>4, <1>5, WithinTyped

LEMMA OpAfterVerify ==
  ASSUME op \in OpType, NEW c \in Candidates, NEW attempts \in Nat, NEW fetched \in Nat,
         NEW again \in BOOLEAN,
         op' = [op EXCEPT !.seen = @ \cup {c}, !.attempts = attempts,
                          !.fetched = fetched, !.transient = again]
  PROVE  op' \in OpType /\ op'.fetched = fetched /\ op'.attempts = attempts
  BY DEF OpType

LEMMA CurAfterVerify ==
  ASSUME cur \in CurType, NEW c \in Candidates, NEW more \in SUBSET Candidates,
         NEW spent \in Nat, NEW doubt \in BOOLEAN,
         cur' = [cur EXCEPT !.left = @ \ {c}, !.ids = @ \cup {c}, !.verified = more,
                            !.doubt = doubt, !.spent = spent]
  PROVE  cur' \in CurType
  BY DEF CurType

\* A lookup is charged before it is made, and only below the bound.
LEMMA VerifyTyped ==
  ASSUME Typed, NEW c \in Candidates, NEW found \in {"none", "stored", "eligible"},
         NEW transient \in BOOLEAN, Verify(c, found, transient)
  PROVE  Typed'
  <1>1. op \in OpType /\ cur \in CurType /\ material \in [Candidates -> {"none", "stored", "eligible"}]
    BY DEF Typed, TypeOK, OpType, CurType
  <1>2. PICK charge \in Nat : charge = IF NeedsLookup(c) THEN 1 ELSE 0
    OBVIOUS
  <1>3. PICK more \in SUBSET Candidates :
            more = IF found = "eligible" THEN cur.verified \cup {c} ELSE cur.verified
    BY <1>1 DEF CurType
  <1>4. PICK again \in BOOLEAN : again = (op.transient \/ transient)
    OBVIOUS
  <1>5. PICK doubt \in BOOLEAN : doubt = (cur.doubt \/ ~(found = "eligible"))
    OBVIOUS
  <1>6. PICK attempts \in Nat, fetched \in Nat, spent \in Nat :
            /\ attempts = op.attempts + charge /\ fetched = op.fetched + charge
            /\ spent = cur.spent + charge
    BY <1>1 DEF OpType, CurType
  <1>7. /\ op' = [op EXCEPT !.seen = @ \cup {c}, !.attempts = attempts,
                            !.fetched = fetched, !.transient = again]
        /\ cur' = [cur EXCEPT !.left = @ \ {c}, !.ids = @ \cup {c}, !.verified = more,
                              !.doubt = doubt, !.spent = spent]
        /\ material' = [material EXCEPT ![c] = found]
        /\ phase' = "verifying" /\ UNCHANGED <<saved, result>>
    BY <1>2, <1>3, <1>4, <1>5, <1>6 DEF Verify
  <1>8. cur' \in CurType
    BY <1>1, <1>7, CurAfterVerify
  <1>9. op' \in OpType /\ op'.fetched = fetched /\ op'.attempts = attempts
    BY <1>1, <1>7, OpAfterVerify
  <1>10. /\ op.fetched <= op.attempts /\ op.fetched <= MaxVerifications
         /\ charge = 0 \/ (charge = 1 /\ op.attempts < MaxVerifications)
         /\ op.fetched \in Nat /\ op.attempts \in Nat /\ MaxVerifications \in Nat
    BY <1>1, <1>2, CounterAssumption DEF Typed, Numbers, Verify, OpType
  <1>11. op'.fetched <= op'.attempts /\ op'.fetched <= MaxVerifications
    BY <1>6, <1>9, <1>10
  <1>12. material' \in [Candidates -> {"none", "stored", "eligible"}]
    BY <1>1, <1>7
  <1>13. QED
    BY <1>7, <1>8, <1>9, <1>11, <1>12, WithinTyped

LEMMA FinishTyped == IInv /\ Typed /\ Finish => Typed'
  <1> SUFFICES ASSUME IInv, Typed, Finish PROVE Typed'
    OBVIOUS
  <1> DEFINE retry == op.transient \/ Status = "retry_required"
  <1>1. op \in OpType /\ cur \in CurType /\ material \in [Candidates -> {"none", "stored", "eligible"}]
    BY DEF Typed, TypeOK, OpType, CurType
  <1>2. PICK status \in {"partial", "not_found_in_scope", "blocked", "retry_required"} : status = Status
    BY DEF Status
  <1>3. PICK complete \in BOOLEAN : complete = (AllClean /\ ~op.exhausted)
    BY DEF AllClean
  <1>4. result' = [status |-> status, complete |-> complete, listed |-> op.listed]
    BY <1>2, <1>3 DEF Finish
  <1>5. /\ saved' = IF retry
                    THEN [items |-> op.items, attempts |-> op.attempts,
                          fetched |-> op.fetched, listed |-> op.listed]
                    ELSE saved
        /\ phase' \in {"idle", "completed"} /\ op' = NoOp /\ UNCHANGED <<material, cur>>
    BY DEF Finish
  <1>6. \A q \in Queries : op.items[q].verified \subseteq op.items[q].ids
    BY AllOver DEF Finish, GoodItem
  <1> HIDE DEF retry
  <1>7. /\ saved' \in [items: [Queries -> Items], attempts: Nat, fetched: Nat, listed: SUBSET Candidates]
        /\ \A q \in Queries : saved'.items[q].verified \subseteq saved'.items[q].ids
        /\ saved'.fetched <= saved'.attempts /\ saved'.fetched <= MaxVerifications
    <2>1. CASE retry
      BY <1>1, <1>5, <1>6, <2>1 DEF Typed, Numbers, OpType
    <2>2. CASE ~retry
      BY <1>5, <2>2 DEF Typed, TypeOK, Numbers
    <2>3. QED
      BY <2>1, <2>2
  <1>8. TypeOK'
    BY <1>1, <1>4, <1>5, <1>7, NothingTyped DEF TypeOK, OpType, CurType
  <1>9. op'.fetched = 0 /\ op'.attempts = 0
    BY <1>5 DEF NoOp
  <1>10. Numbers'
    BY <1>7, <1>9, CounterAssumption DEF Numbers
  <1>11. QED
    BY <1>8, <1>10 DEF Typed

LEMMA LostTyped == Typed /\ Lost => Typed'
  <1> SUFFICES ASSUME Typed, Lost PROVE Typed'
    OBVIOUS
  <1>1. op' = NoOp /\ cur' = NoQuery /\ phase' = "idle" /\ UNCHANGED <<saved, material, result>>
    BY DEF Lost
  <1>2. op'.fetched = 0 /\ op'.attempts = 0
    BY <1>1 DEF NoOp
  <1>3. material \in [Candidates -> {"none", "stored", "eligible"}]
    BY DEF Typed, TypeOK
  <1>4. op'.fetched <= op'.attempts /\ op'.fetched <= MaxVerifications
    BY <1>2, CounterAssumption
  <1>5. QED
    BY <1>1, <1>3, <1>4, NothingTyped, WithinTyped

LEMMA StepTyped == IInv /\ Typed /\ [Next]_vars => Typed'
  <1> SUFFICES ASSUME IInv, Typed, [Next]_vars PROVE Typed'
    OBVIOUS
  <1>1. CASE Begin
    BY <1>1, BeginTyped
  <1>2. CASE KeepClean
    BY <1>2, KeepCleanTyped
  <1>3. CASE \E failure \in {"transient", "blocked", "unreadable"} : SearchFailed(failure)
    BY <1>3, SearchFailedTyped
  <1>4. CASE \E list \in SUBSET Candidates, complete \in BOOLEAN :
                /\ Cardinality(list) <= MaxListed
                /\ Searched(list, complete)
    BY <1>4, SearchedTyped
  <1>5. CASE \E c \in Candidates : Truncated(c)
    BY <1>5, TruncatedTyped
  <1>6. CASE \E c \in Candidates, found \in {"none", "stored", "eligible"},
                transient \in BOOLEAN : Verify(c, found, transient)
    BY <1>6, VerifyTyped
  <1>7. CASE EndQuery
    BY <1>7, EndQueryTyped
  <1>8. CASE Finish
    BY <1>8, FinishTyped
  <1>9. CASE Lost
    BY <1>9, LostTyped
  <1>10. CASE \E c \in Candidates, found \in {"stored", "eligible"} : OtherLookup(c, found)
    BY <1>10 DEF OtherLookup, Typed, TypeOK, Numbers
  <1>11. CASE UNCHANGED vars
    BY <1>11 DEF vars, Typed, TypeOK, Numbers
  <1>12. QED
    BY <1>1, <1>2, <1>3, <1>4, <1>5, <1>6, <1>7, <1>8, <1>9, <1>10, <1>11 DEF Next

LEMMA TypedInvariance == Spec => []Typed
  <1>1. Init => IInv /\ Typed
    BY InitSafe, InitTyped
  <1>2. (IInv /\ Typed) /\ [Next]_vars => (IInv /\ Typed)'
    BY StepSafe, StepTyped
  <1>3. QED
    BY <1>1, <1>2, PTL DEF Spec

\* Every variable has the type the code's models give it
\* (CounterAuthority!TypeOK).
THEOREM CounterTypes == Spec => []TypeOK
  <1>1. Typed => TypeOK
    BY DEF Typed
  <1>2. QED
    BY <1>1, TypedInvariance, PTL

\* However often the search is resumed, the executions whose progress is kept
\* spend together at most max_verifications exact lookups
\* (CounterAuthority!LookupsBounded).
THEOREM LookupsAreBounded == Spec => []LookupsBounded
  <1>1. Typed => LookupsBounded
    BY DEF Typed, Numbers, LookupsBounded
  <1>2. QED
    BY <1>1, TypedInvariance, PTL

-----------------------------------------------------------------------------
(* The coverage: every judgment listed is on some query's record, unless   *)
(* the bound cut its list off, and the record of a clean query is verified.*)

Eligible == {c \in Candidates : material[c] = "eligible"}

\* What a query has verified the run holds as eligible evidence, and a clean
\* query has verified all that it has on record.
HeldItem(x, held) ==
  /\ x.verified \subseteq held
  /\ Terminal(x) => x.ids \subseteq x.verified

Held ==
  /\ cur.verified \subseteq Eligible
  /\ \A q \in Queries : HeldItem(saved.items[q], Eligible) /\ (q < op.q => HeldItem(op.items[q], Eligible))

OnRecord(c) == c \in cur.ids \/ \E q \in Queries : c \in Now(q).ids

Accounted ==
  /\ \A c \in op.seen : OnRecord(c)
  /\ \A c \in op.listed : OnRecord(c) \/ c \in cur.left \/ op.exhausted
  /\ op.exhausted => op.attempts >= MaxVerifications
  /\ \A c \in saved.listed : \/ saved.attempts >= MaxVerifications
                             \/ \E q \in Queries : c \in saved.items[q].ids

Coverage == Held /\ Accounted /\ CompleteMeansVerified

All == IInv /\ Typed

LEMMA InitCovered == Init => Coverage
  <1> SUFFICES ASSUME Init PROVE Coverage
    OBVIOUS
  <1>1. /\ cur.verified = {} /\ op.seen = {} /\ op.listed = {} /\ op.exhausted = FALSE /\ op.q = 1
        /\ saved.listed = {} /\ result.complete = FALSE
        /\ \A q \in Queries : saved.items[q] = Absent
    BY DEF Init, NoQuery, NoOp, NoResult
  <1>2. HeldItem(Absent, Eligible)
    BY DEF HeldItem, Absent, Terminal
  <1>3. \A q \in Queries : ~(q < op.q)
    BY <1>1, QueriesAreNumbers DEF Queries
  <1>4. QED
    BY <1>1, <1>2, <1>3 DEF Coverage, Held, Accounted, CompleteMeansVerified

\* Eligible evidence stays: held items stay held.
LEMMA StaysHeld ==
  ASSUME NEW x, NEW held, HeldItem(x, held), NEW more, held \subseteq more
  PROVE  HeldItem(x, more)
  BY DEF HeldItem, Terminal

LEMMA StaysComplete ==
  ASSUME Typed, CompleteMeansVerified, UNCHANGED result, Eligible \subseteq Eligible'
  PROVE  CompleteMeansVerified'
  <1>1. result.listed \subseteq Candidates
    BY DEF Typed, TypeOK
  <1>2. \A c \in Candidates : material[c] = "eligible" => material'[c] = "eligible"
    BY DEF Eligible
  <1>3. QED
    BY <1>1, <1>2 DEF CompleteMeansVerified

\* Nothing is over yet: what an execution that begins, or is lost, shows.
LEMMA AfreshCovered ==
  ASSUME All, Coverage, UNCHANGED <<saved, material>>, cur' = NoQuery, op'.q = 1,
         op'.seen \subseteq PriorVerified, op'.listed \subseteq saved.listed,
         op'.exhausted => op'.attempts >= MaxVerifications,
         op'.listed # {} => op'.exhausted \/ saved.attempts < MaxVerifications,
         CompleteMeansVerified'
  PROVE  Coverage'
  <1>1. \A q \in Queries : ~(q < op'.q) /\ Now(q)' = saved.items[q]
    BY QueriesAreNumbers DEF Queries, Now
  <1>2. Eligible' = Eligible /\ cur'.verified = {} /\ cur'.ids = {} /\ cur'.left = {}
    BY DEF Eligible, NoQuery
  <1>3. Held'
    BY <1>1, <1>2, StaysHeld DEF Coverage, Held
  <1>4. \A c \in op'.seen : OnRecord(c)'
    <2> SUFFICES ASSUME NEW c \in PriorVerified PROVE OnRecord(c)'
      OBVIOUS
    <2>1. PICK q \in Queries : c \in saved.items[q].verified
      BY DEF PriorVerified
    <2>2. c \in saved.items[q].ids
      BY <2>1 DEF All, Typed, TypeOK
    <2>3. QED
      BY <1>1, <2>2 DEF OnRecord
  <1>5. \A c \in op'.listed : OnRecord(c)' \/ op'.exhausted
    <2> SUFFICES ASSUME NEW c \in op'.listed, ~op'.exhausted PROVE OnRecord(c)'
      OBVIOUS
    <2>1. saved.attempts < MaxVerifications /\ c \in saved.listed
      OBVIOUS
    <2>2. saved.attempts \in Nat /\ MaxVerifications \in Nat
      BY CounterAssumption DEF All, Typed, TypeOK
    <2>3. \E q \in Queries : c \in saved.items[q].ids
      BY <2>1, <2>2 DEF Coverage, Accounted
    <2>4. QED
      BY <1>1, <2>3 DEF OnRecord
  <1>6. \A c \in saved'.listed : \/ saved'.attempts >= MaxVerifications
                                 \/ \E q \in Queries : c \in saved'.items[q].ids
    BY DEF Coverage, Accounted
  <1>7. Accounted'
    BY <1>4, <1>5, <1>6 DEF Accounted
  <1>8. QED
    BY <1>3, <1>7 DEF Coverage

LEMMA BeginCovered == All /\ Coverage /\ Begin => Coverage'
  <1> SUFFICES ASSUME All, Coverage, Begin PROVE Coverage'
    OBVIOUS
  <1>1. PriorAttempts \in Nat /\ PriorAttempts >= saved.attempts
    BY ResumesTheCount DEF All, Typed
  <1>2. saved.attempts \in Nat /\ MaxVerifications \in Nat
    BY CounterAssumption DEF All, Typed, TypeOK
  <1>3. /\ op'.q = 1 /\ op'.seen = PriorVerified /\ op'.listed = saved.listed
        /\ op'.exhausted = (PriorAttempts >= MaxVerifications) /\ op'.attempts = PriorAttempts
        /\ UNCHANGED <<saved, material, cur>> /\ result'.complete = FALSE
    BY DEF Begin, NoOp, NoResult
  <1>4. cur' = NoQuery
    BY <1>3 DEF Begin, All, IInv, Shapes
  <1>5. op'.exhausted => op'.attempts >= MaxVerifications
    BY <1>3
  <1>6. op'.exhausted \/ saved.attempts < MaxVerifications
    <2>1. CASE saved.attempts >= MaxVerifications
      <3>1. PriorAttempts >= MaxVerifications
        BY <1>1, <1>2, <2>1
      <3>2. QED
        BY <1>3, <3>1
    <2>2. QED
      BY <1>2, <2>1
  <1>7. CompleteMeansVerified'
    BY <1>3 DEF CompleteMeansVerified
  <1>8. QED
    BY <1>3, <1>4, <1>5, <1>6, <1>7, AfreshCovered

LEMMA LostCovered == All /\ Coverage /\ Lost => Coverage'
  <1> SUFFICES ASSUME All, Coverage, Lost PROVE Coverage'
    OBVIOUS
  <1>1. op' = NoOp /\ cur' = NoQuery /\ UNCHANGED <<saved, material, result>>
    BY DEF Lost
  <1>2. op'.q = 1 /\ op'.seen = {} /\ op'.listed = {} /\ op'.exhausted = FALSE
    BY <1>1 DEF NoOp
  <1>3. CompleteMeansVerified'
    BY <1>1 DEF Coverage, CompleteMeansVerified
  <1>4. QED
    BY <1>1, <1>2, <1>3, AfreshCovered

\* The end of a query: what was on record stays, and the item is held.
LEMMA RecordCovered ==
  ASSUME All, Coverage, op.q \in Queries, NEW item, HeldItem(item, Eligible),
         Prior.ids \subseteq item.ids, cur.ids \subseteq item.ids, cur.left = {},
         op'.q = op.q + 1, op'.items = [op.items EXCEPT ![op.q] = item],
         op'.seen = op.seen, op'.listed = op.listed,
         op'.exhausted = op.exhausted, op'.attempts = op.attempts,
         UNCHANGED <<saved, material, result>>, cur' = NoQuery
  PROVE  Coverage'
  <1>1. op.q \in 1..N /\ N \in Nat /\ DOMAIN op.items = Queries
    BY CounterAssumption DEF Queries, All, IInv, Shapes
  <1>2. /\ op'.items[op.q] = item
        /\ \A q \in Queries : q # op.q => op'.items[q] = op.items[q]
    BY <1>1
  <1>3. \A q \in Queries : q < op'.q <=> q < op.q \/ q = op.q
    BY <1>1 DEF Queries
  <1>4. Eligible' = Eligible /\ cur'.verified = {} /\ cur'.ids = {} /\ cur'.left = {}
    BY DEF Eligible, NoQuery
  <1>5. \A q \in Queries : HeldItem(saved.items[q], Eligible) /\ (q < op'.q => HeldItem(op'.items[q], Eligible))
    BY <1>2, <1>3 DEF Coverage, Held
  <1>6. \A q \in Queries : HeldItem(saved'.items[q], Eligible') /\ (q < op'.q => HeldItem(op'.items[q], Eligible'))
    BY <1>4, <1>5, StaysHeld
  <1>7. Held'
    BY <1>4, <1>6 DEF Held
  <1>8. \A q \in Queries : Now(q).ids \subseteq Now(q)'.ids
    <2> SUFFICES ASSUME NEW q \in Queries PROVE Now(q).ids \subseteq Now(q)'.ids
      OBVIOUS
    <2>1. CASE q = op.q
      <3>1. ~(q < op.q) /\ q < op'.q
        BY <1>1, <1>3, <2>1
      <3>2. Now(q) = Prior /\ Now(q)' = item
        BY <1>2, <2>1, <3>1 DEF Now, Prior
      <3>3. QED
        BY <3>2
    <2>2. CASE q # op.q
      BY <1>2, <1>3, <2>2 DEF Now
    <2>3. QED
      BY <2>1, <2>2
  <1>9. \A q \in Queries : q = op.q => Now(q)' = item
    BY <1>2, <1>3 DEF Now
  <1>10. \A c : OnRecord(c) => OnRecord(c)'
    BY <1>8, <1>9 DEF OnRecord
  <1>11. Accounted'
    BY <1>10 DEF Coverage, Accounted
  <1>12. QED
    BY <1>7, <1>11 DEF Coverage, CompleteMeansVerified

\* What recording an item leaves of the counters.
LEMMA RecordCounters ==
  ASSUME Shapes, NEW item
  PROVE  Record(item).exhausted = op.exhausted /\ Record(item).attempts = op.attempts
  BY DEF Shapes, Record, OpFields

LEMMA KeepCleanCovered == All /\ Coverage /\ KeepClean => Coverage'
  <1> SUFFICES ASSUME All, Coverage, KeepClean PROVE Coverage'
    OBVIOUS
  <1>1. /\ op' = Record(Prior) /\ phase = "query" /\ op.q <= N
        /\ UNCHANGED <<saved, material, cur, result>>
    BY DEF KeepClean
  <1>2. op.q \in Queries /\ cur.ids = {} /\ cur.left = {} /\ cur' = NoQuery
    BY <1>1, AtQuery DEF All
  <1>3. HeldItem(Prior, Eligible)
    BY <1>2 DEF Coverage, Held, Prior
  <1>4. QED
    BY <1>1, <1>2, <1>3, RecordFields, RecordCounters, RecordCovered DEF All, IInv

LEMMA SearchFailedCovered ==
  ASSUME All, Coverage, NEW failure \in {"transient", "blocked", "unreadable"},
         SearchFailed(failure)
  PROVE  Coverage'
  <1> DEFINE item == AfterFailure(failure)
  <1>1. /\ phase = "query" /\ op.q <= N /\ UNCHANGED <<saved, material, cur, result>>
        /\ op' = [Record(item) EXCEPT !.transient = @ \/ failure = "transient"]
    BY DEF SearchFailed
  <1>2. op.q \in Queries /\ GoodItem(Prior) /\ cur.ids = {} /\ cur.left = {} /\ cur' = NoQuery
    BY <1>1, AtQuery DEF All
  <1>3. /\ item.ids = Prior.ids /\ item.verified = Prior.verified
        /\ item.status \in {"partial", "blocked", "failed"}
    BY <1>2 DEF AfterFailure, GoodItem, ItemFields
  <1>4. HeldItem(Prior, Eligible)
    BY <1>2 DEF Coverage, Held, Prior
  <1>5. HeldItem(item, Eligible)
    BY <1>3, <1>4 DEF HeldItem, Terminal
  <1> HIDE DEF item
  <1>6. /\ op'.q = Record(item).q /\ op'.items = Record(item).items
        /\ op'.seen = Record(item).seen /\ op'.listed = Record(item).listed
        /\ op'.exhausted = Record(item).exhausted /\ op'.attempts = Record(item).attempts
    BY <1>1, RecordFields DEF All, IInv, OpFields
  <1>7. QED
    BY <1>1, <1>2, <1>3, <1>5, <1>6, RecordFields, RecordCounters, RecordCovered DEF All, IInv

LEMMA EndQueryCovered == All /\ Coverage /\ EndQuery => Coverage'
  <1> SUFFICES ASSUME All, Coverage, EndQuery PROVE Coverage'
    OBVIOUS
  <1>1. /\ phase = "verifying" /\ cur.left = {} /\ cur' = NoQuery
        /\ op' = Record(AfterSearch) /\ UNCHANGED <<saved, material, result>>
    BY DEF EndQuery
  <1>2. op.q \in Queries /\ ~Terminal(Prior) /\ GoodItem(Prior)
    BY <1>1 DEF All, IInv, CurrentOK, ItemsOK, Prior
  <1>3. /\ AfterSearch.ids = Prior.ids \cup cur.ids
        /\ AfterSearch.verified = Prior.verified \cup cur.verified
        /\ AfterSearch.status \in {"not_found", "found"} => ~cur.doubt /\ ~StillUnresolved
    BY DEF AfterSearch
  <1>4. ASSUME ~cur.doubt, ~StillUnresolved
        PROVE  Prior.ids \cup cur.ids \subseteq Prior.verified \cup cur.verified
    <2>1. cur.ids \subseteq cur.verified
      BY <1>1, <1>4 DEF All, IInv, CurrentOK
    <2>2. CASE PriorUnresolved(Prior)
      BY <1>2, <1>4, <2>1, <2>2 DEF StillUnresolved, PriorIds
    <2>3. CASE ~PriorUnresolved(Prior) /\ Prior.status # "none"
      BY <1>2, <2>1, <2>3 DEF PriorUnresolved, PriorIds, Terminal, GoodItem
    <2>4. CASE Prior.status = "none"
      BY <1>2, <2>1, <2>4 DEF GoodItem
    <2>5. QED
      BY <2>2, <2>3, <2>4
  <1>5. Prior.verified \subseteq Eligible /\ cur.verified \subseteq Eligible
    BY <1>2 DEF Coverage, Held, HeldItem, Prior
  <1>6. HeldItem(AfterSearch, Eligible)
    BY <1>3, <1>4, <1>5 DEF HeldItem, Terminal
  <1>7. QED
    BY <1>1, <1>2, <1>3, <1>6, RecordFields, RecordCounters, RecordCovered DEF All, IInv

\* Within a query the items of the others do not change.
LEMMA WithinCovered ==
  ASSUME All, Coverage, UNCHANGED <<saved, result>>, Eligible \subseteq Eligible',
         op'.q = op.q, op'.items = op.items, cur'.verified \subseteq Eligible',
         cur.ids \subseteq cur'.ids,
         \A c \in op'.seen : c \in op.seen \/ c \in cur'.ids,
         \A c \in op'.listed : \/ c \in op.listed /\ c \notin cur.left
                               \/ c \in op'.seen \/ c \in cur'.left \/ op'.exhausted,
         op.exhausted => op'.exhausted,
         op'.exhausted => op'.attempts >= MaxVerifications
  PROVE  Coverage'
  <1>1. \A q \in Queries : Now(q)' = Now(q)
    BY DEF Now
  <1>2. \A c : OnRecord(c) => OnRecord(c)'
    BY <1>1 DEF OnRecord
  <1>3. \A c \in op'.seen : OnRecord(c)'
    BY <1>2 DEF Coverage, Accounted, OnRecord
  <1>4. \A c \in op'.listed : OnRecord(c)' \/ c \in cur'.left \/ op'.exhausted
    BY <1>2, <1>3 DEF Coverage, Accounted
  <1>5. \A c \in saved'.listed : \/ saved'.attempts >= MaxVerifications
                                 \/ \E q \in Queries : c \in saved'.items[q].ids
    BY DEF Coverage, Accounted
  <1>6. Accounted'
    BY <1>3, <1>4, <1>5 DEF Accounted
  <1>7. Held'
    BY StaysHeld DEF Coverage, Held
  <1>8. CompleteMeansVerified'
    BY StaysComplete DEF All, Coverage
  <1>9. QED
    BY <1>6, <1>7, <1>8 DEF Coverage

LEMMA SearchedCovered ==
  ASSUME All, Coverage, NEW list \in SUBSET Candidates, NEW complete \in BOOLEAN,
         Searched(list, complete)
  PROVE  Coverage'
  <1>1. /\ phase = "query" /\ op.q <= N
        /\ cur' = [NoQuery EXCEPT !.left = list \ op.seen, !.size = Cardinality(list),
                                  !.complete = complete]
        /\ op' = [op EXCEPT !.listed = @ \cup list]
        /\ UNCHANGED <<saved, material, result>>
    BY DEF Searched
  <1>2. cur.ids = {} /\ cur.left = {}
    BY <1>1, AtQuery DEF All
  <1>3. cur'.left = list \ op.seen /\ cur'.ids = {} /\ cur'.verified = {}
    BY <1>1 DEF NoQuery
  <1>4. /\ op'.q = op.q /\ op'.items = op.items /\ op'.seen = op.seen
        /\ op'.listed = op.listed \cup list
        /\ op'.exhausted = op.exhausted /\ op'.attempts = op.attempts
    BY <1>1 DEF All, IInv, Shapes, OpFields
  <1>5. Eligible' = Eligible
    BY <1>1 DEF Eligible
  <1>6. op'.exhausted => op'.attempts >= MaxVerifications
    BY <1>4 DEF Coverage, Accounted
  <1>7. QED
    BY <1>1, <1>2, <1>3, <1>4, <1>5, <1>6, WithinCovered

\* The rest of the list is dropped: the search is exhausted from now on.
LEMMA TruncatedCovered ==
  ASSUME All, Coverage, NEW c \in Candidates, Truncated(c)
  PROVE  Coverage'
  <1>1. /\ op' = [op EXCEPT !.exhausted = TRUE] /\ op.attempts >= MaxVerifications
        /\ cur' = [cur EXCEPT !.left = {}, !.ids = @ \cup {c}, !.doubt = TRUE]
        /\ UNCHANGED <<saved, material, result>>
    BY DEF Truncated
  <1>2. cur'.ids = cur.ids \cup {c} /\ cur'.verified = cur.verified
    BY <1>1 DEF All, IInv, Shapes, CurFields
  <1>3. /\ op'.q = op.q /\ op'.items = op.items /\ op'.seen = op.seen /\ op'.listed = op.listed
        /\ op'.exhausted /\ op'.attempts = op.attempts
    BY <1>1 DEF All, IInv, Shapes, OpFields
  <1>4. Eligible' = Eligible /\ cur.verified \subseteq Eligible
    BY <1>1 DEF Eligible, Coverage, Held
  <1>5. QED
    BY <1>1, <1>2, <1>3, <1>4, WithinCovered

LEMMA VerifyCovered ==
  ASSUME All, Coverage, NEW c \in Candidates, NEW found \in {"none", "stored", "eligible"},
         NEW transient \in BOOLEAN, Verify(c, found, transient)
  PROVE  Coverage'
  <1> DEFINE charge == IF NeedsLookup(c) THEN 1 ELSE 0
             verified == found = "eligible"
  <1>1. /\ op' = [op EXCEPT !.seen = @ \cup {c}, !.attempts = @ + charge,
                            !.fetched = @ + charge, !.transient = @ \/ transient]
        /\ cur' = [cur EXCEPT !.left = @ \ {c}, !.ids = @ \cup {c},
                              !.verified = IF verified THEN @ \cup {c} ELSE @,
                              !.doubt = @ \/ ~verified, !.spent = @ + charge]
        /\ material' = [material EXCEPT ![c] = found]
        /\ UNCHANGED <<saved, result>>
        /\ ~NeedsLookup(c) => found = material[c]
    BY DEF Verify, Outcomes
  <1>2. material \in [Candidates -> {"none", "stored", "eligible"}]
    BY DEF All, Typed, TypeOK
  <1>3. material'[c] = found /\ \A d \in Candidates : d # c => material'[d] = material[d]
    BY <1>1, <1>2
  <1>4. Eligible \subseteq Eligible' /\ (verified => c \in Eligible')
    BY <1>1, <1>2, <1>3 DEF Eligible, NeedsLookup
  <1>5. /\ cur'.ids = cur.ids \cup {c} /\ cur'.left = cur.left \ {c}
        /\ cur'.verified = IF verified THEN cur.verified \cup {c} ELSE cur.verified
    BY <1>1 DEF All, IInv, Shapes, CurFields
  <1>6. cur'.verified \subseteq Eligible'
    BY <1>4, <1>5 DEF Coverage, Held
  <1>7. /\ op'.q = op.q /\ op'.items = op.items /\ op'.listed = op.listed
        /\ op'.seen = op.seen \cup {c}
        /\ op'.exhausted = op.exhausted /\ op'.attempts = op.attempts + charge
    BY <1>1 DEF All, IInv, Shapes, OpFields
  <1>8. op'.exhausted => op'.attempts >= MaxVerifications
    <2>1. op.attempts \in Nat /\ charge \in Nat /\ MaxVerifications \in Nat
      BY CounterAssumption DEF All, Typed, TypeOK
    <2> HIDE DEF charge
    <2>2. op.exhausted => op.attempts >= MaxVerifications
      BY DEF Coverage, Accounted
    <2>3. QED
      BY <1>7, <2>1, <2>2
  <1>9. \A d \in op'.listed : \/ d \in op.listed /\ d \notin cur.left
                              \/ d \in op'.seen \/ d \in cur'.left \/ op'.exhausted
    BY <1>5, <1>7
  <1>10. QED
    BY <1>1, <1>4, <1>5, <1>6, <1>7, <1>8, <1>9, WithinCovered

\* When every query is clean and the bound was not reached, every judgment
\* listed has been verified.
LEMMA CleanMeansVerified ==
  ASSUME All, Coverage, phase = "query", op.q > N, AllClean, ~op.exhausted
  PROVE  op.listed \subseteq Eligible
  <1>1. \A q \in Queries : q < op.q
    BY AllOver DEF All
  <1>2. \A q \in Queries : op.items[q].ids \subseteq Eligible /\ Now(q) = op.items[q]
    BY <1>1 DEF Coverage, Held, HeldItem, AllClean, Now
  <1>3. cur.ids = {} /\ cur.left = {}
    BY DEF All, IInv, Shapes, NoQuery
  <1>4. QED
    BY <1>2, <1>3 DEF Coverage, Accounted, OnRecord

LEMMA FinishCovered == All /\ Coverage /\ Finish => Coverage'
  <1> SUFFICES ASSUME All, Coverage, Finish PROVE Coverage'
    OBVIOUS
  <1> DEFINE retry == op.transient \/ Status = "retry_required"
  <1>1. /\ phase = "query" /\ op.q > N /\ op' = NoOp /\ cur' = cur /\ cur = NoQuery
        /\ saved' = IF retry
                    THEN [items |-> op.items, attempts |-> op.attempts,
                          fetched |-> op.fetched, listed |-> op.listed]
                    ELSE saved
        /\ material' = material
        /\ result'.complete = (AllClean /\ ~op.exhausted) /\ result'.listed = op.listed
    BY DEF Finish, All, IInv, Shapes
  <1> HIDE DEF retry
  <1>2. op'.q = 1 /\ op'.seen = {} /\ op'.listed = {} /\ op'.exhausted = FALSE
    BY <1>1 DEF NoOp
  <1>3. \A q \in Queries : ~(q < op'.q)
    BY <1>2, QueriesAreNumbers DEF Queries
  <1>4. Eligible' = Eligible /\ cur'.verified = {} /\ cur.ids = {} /\ cur.left = {}
    BY <1>1 DEF Eligible, NoQuery
  <1>5. \A q \in Queries : q < op.q /\ Now(q) = op.items[q]
    BY <1>1, AllOver DEF All, Now
  <1>6. \A q \in Queries : HeldItem(saved'.items[q], Eligible)
    <2>1. CASE retry
      BY <1>1, <1>5, <2>1 DEF Coverage, Held
    <2>2. CASE ~retry
      BY <1>1, <2>2 DEF Coverage, Held
    <2>3. QED
      BY <2>1, <2>2
  <1>7. \A q \in Queries : HeldItem(saved'.items[q], Eligible')
    BY <1>4, <1>6, StaysHeld
  <1>8. Held'
    BY <1>3, <1>4, <1>7 DEF Held
  <1>9. \A c \in saved'.listed : \/ saved'.attempts >= MaxVerifications
                                 \/ \E q \in Queries : c \in saved'.items[q].ids
    <2>1. CASE retry
      <3>1. saved'.listed = op.listed /\ saved'.attempts = op.attempts /\ saved'.items = op.items
        BY <1>1, <2>1
      <3>2. QED
        BY <1>4, <1>5, <3>1 DEF Coverage, Accounted, OnRecord
    <2>2. CASE ~retry
      BY <1>1, <2>2 DEF Coverage, Accounted
    <2>3. QED
      BY <2>1, <2>2
  <1>10. Accounted'
    BY <1>2, <1>9 DEF Accounted
  <1>11. result'.complete => op.listed \subseteq Eligible
    BY <1>1, CleanMeansVerified
  <1>12. CompleteMeansVerified'
    BY <1>1, <1>11 DEF CompleteMeansVerified, Eligible
  <1>13. QED
    BY <1>8, <1>10, <1>12 DEF Coverage

LEMMA OtherLookupCovered ==
  ASSUME All, Coverage, NEW c \in Candidates, NEW found, OtherLookup(c, found)
  PROVE  Coverage'
  <1>1. /\ UNCHANGED <<saved, op, cur, result>> /\ material[c] # "eligible"
        /\ material' = [material EXCEPT ![c] = found]
    BY DEF OtherLookup
  <1>2. material \in [Candidates -> {"none", "stored", "eligible"}]
    BY DEF All, Typed, TypeOK
  <1>3. Eligible \subseteq Eligible'
    BY <1>1, <1>2 DEF Eligible
  <1>4. Held'
    BY <1>1, <1>3, StaysHeld DEF Coverage, Held
  <1>5. Accounted'
    BY <1>1 DEF Coverage, Accounted, OnRecord, Now
  <1>6. CompleteMeansVerified'
    BY <1>1, <1>3, StaysComplete DEF All, Coverage
  <1>7. QED
    BY <1>4, <1>5, <1>6 DEF Coverage

LEMMA StepCovered == All /\ Coverage /\ [Next]_vars => Coverage'
  <1> SUFFICES ASSUME All, Coverage, [Next]_vars PROVE Coverage'
    OBVIOUS
  <1>1. CASE Begin
    BY <1>1, BeginCovered
  <1>2. CASE KeepClean
    BY <1>2, KeepCleanCovered
  <1>3. CASE \E failure \in {"transient", "blocked", "unreadable"} : SearchFailed(failure)
    BY <1>3, SearchFailedCovered
  <1>4. CASE \E list \in SUBSET Candidates, complete \in BOOLEAN :
                /\ Cardinality(list) <= MaxListed
                /\ Searched(list, complete)
    BY <1>4, SearchedCovered
  <1>5. CASE \E c \in Candidates : Truncated(c)
    BY <1>5, TruncatedCovered
  <1>6. CASE \E c \in Candidates, found \in {"none", "stored", "eligible"},
                transient \in BOOLEAN : Verify(c, found, transient)
    BY <1>6, VerifyCovered
  <1>7. CASE EndQuery
    BY <1>7, EndQueryCovered
  <1>8. CASE Finish
    BY <1>8, FinishCovered
  <1>9. CASE Lost
    BY <1>9, LostCovered
  <1>10. CASE \E c \in Candidates, found \in {"stored", "eligible"} : OtherLookup(c, found)
    BY <1>10, OtherLookupCovered
  <1>11. CASE UNCHANGED vars
    <2>1. Eligible' = Eligible
      BY <1>11 DEF vars, Eligible
    <2>2. Held'
      BY <1>11, <2>1, StaysHeld DEF vars, Coverage, Held
    <2>3. Accounted' /\ CompleteMeansVerified'
      BY <1>11 DEF vars, Coverage, Accounted, CompleteMeansVerified, OnRecord, Now
    <2>4. QED
      BY <2>2, <2>3 DEF Coverage
  <1>12. QED
    BY <1>1, <1>2, <1>3, <1>4, <1>5, <1>6, <1>7, <1>8, <1>9, <1>10, <1>11 DEF Next

\* Complete coverage means that every judgment a kept execution has listed is
\* verified with eligible evidence, the ones two queries list and the ones
\* that failed before included (CounterAuthority!CompleteMeansVerified).
THEOREM CompleteIsVerified == Spec => []CompleteMeansVerified
  <1>1. Init => All /\ Coverage
    BY InitSafe, InitTyped, InitCovered DEF All
  <1>2. (All /\ Coverage) /\ [Next]_vars => (All /\ Coverage)'
    BY StepSafe, StepTyped, StepCovered DEF All
  <1>3. All /\ Coverage => CompleteMeansVerified
    BY DEF Coverage
  <1>4. QED
    BY <1>1, <1>2, <1>3, PTL DEF Spec
=============================================================================
