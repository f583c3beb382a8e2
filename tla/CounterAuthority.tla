-------------------------- MODULE CounterAuthority --------------------------
(***************************************************************************)
(* The bounded search for opposing judgments of one run                    *)
(* (research/counter_authority.py), driven by the provider executor and by *)
(* the obligation of the research service that keeps its progress.         *)
(*                                                                         *)
(* A plan has N queries.  One execution walks them in order: it searches   *)
(* the official site, verifies the judgments the search lists that no      *)
(* query has handled yet, and gives each query a status.  A transient      *)
(* failure anywhere leaves the obligation pending with the progress, and a *)
(* later execution resumes: it keeps the clean queries, repeats the others *)
(* and goes on counting exact lookups against one bound.  Any other        *)
(* outcome completes the obligation.                                       *)
(*                                                                         *)
(* A judgment of Candidates stands for its canonical identifier.  The code *)
(* derives candidate ids from the identifier and the text of the query, so *)
(* within one query they are the same thing, and across queries only the   *)
(* identifier links them.                                                  *)
(***************************************************************************)
EXTENDS Naturals, FiniteSets, FiniteSetsExt

CONSTANTS
    N,                 \* queries of the plan (MAX_COUNTER_QUERIES is 4)
    Candidates,        \* the judgments the official search may list
    MaxListed,         \* max_candidates_per_query
    MaxVerifications   \* max_verifications

ASSUME CounterAssumption ==
    /\ N \in Nat \ {0}
    /\ MaxListed \in Nat \ {0}
    /\ MaxVerifications \in Nat \ {0}
    /\ IsFiniteSet(Candidates)

VARIABLES
    saved,     \* the obligation's counter_authority_progress
    material,  \* the run's official judgments: none, stored or eligible
    phase,     \* idle, query (between queries), verifying, completed
    op,        \* the locals of the execution under way
    cur,       \* the locals of its current query
    result     \* what the last execution reported, if it settled

vars == <<saved, material, phase, op, cur, result>>

Queries == 1 .. N

-----------------------------------------------------------------------------
(* Progress *)

\* No progress for a query yet.
Absent == [status |-> "none", count |-> 0, ids |-> {}, verified |-> {},
           attempts |-> 0, unresolved |-> FALSE]

Terminal(item) == item.status \in {"found", "not_found"}

\* Judgments an earlier execution recorded for the query and did not verify.
PriorIds(item) == IF Terminal(item) THEN {} ELSE item.ids \ item.verified

PriorUnresolved(item) ==
    /\ item.status \in {"partial", "failed", "blocked"}
    /\ \/ PriorIds(item) # {}
       \/ item.count > Cardinality(item.verified)
       \/ item.unresolved

\* The sum of a number that each query has.
Total(number) ==
    LET upTo[q \in 0 .. N] == IF q = 0 THEN 0 ELSE upTo[q - 1] + number[q]
    IN  upTo[N]

Attempts == [q \in Queries |-> saved.items[q].attempts]

\* The judgments of the clean hits.
CleanHits == [q \in Queries |-> IF saved.items[q].status = "found"
                                THEN saved.items[q].count ELSE 0]

\* Variant: only the clean hits count, as for progress without counters.
PriorAttemptsLegacy == Total(CleanHits)

\* Lookups already spent: the saved counter, but never less than the queries
\* account for, nor than the judgments of the clean hits (progress of older
\* clients has no counters).
PriorAttempts == Max({saved.attempts, Total(Attempts), Total(CleanHits)})

\* Judgments a resumed execution does not verify again: those that a query
\* which is not clean has verified.
PriorVerified ==
    UNION {saved.items[q].verified : q \in {r \in Queries : ~Terminal(saved.items[r])}}

NoOp == [q |-> 1, items |-> [q \in Queries |-> Absent], seen |-> {},
         attempts |-> 0, exhausted |-> FALSE, transient |-> FALSE,
         fetched |-> 0, listed |-> {}]

NoQuery == [left |-> {}, size |-> 0, complete |-> FALSE, ids |-> {},
            verified |-> {}, doubt |-> FALSE, spent |-> 0]

NoResult == [status |-> "none", complete |-> FALSE, listed |-> {}]

\* fetched and listed are ghosts: the exact lookups charged, and the
\* judgments listed, over all the executions whose progress was kept.
Init ==
    /\ saved = [items |-> [q \in Queries |-> Absent], attempts |-> 0,
                fetched |-> 0, listed |-> {}]
    /\ material \in [Candidates -> {"none", "stored", "eligible"}]
    /\ phase = "idle"
    /\ op = NoOp
    /\ cur = NoQuery
    /\ result = NoResult

-----------------------------------------------------------------------------
(* One execution *)

Begin ==
    /\ phase = "idle"
    /\ phase' = "query"
    /\ op' = [NoOp EXCEPT !.seen = PriorVerified,
                          !.attempts = PriorAttempts,
                          !.exhausted = PriorAttempts >= MaxVerifications,
                          !.fetched = saved.fetched,
                          !.listed = saved.listed]
    /\ result' = NoResult
    /\ UNCHANGED <<saved, material, cur>>

Prior == saved.items[op.q]

\* The query's progress is final for this execution.
Record(item) == [op EXCEPT !.items[op.q] = item, !.q = @ + 1]

KeepClean ==
    /\ phase = "query" /\ op.q <= N
    /\ Terminal(Prior)
    /\ op' = Record(Prior)
    /\ UNCHANGED <<saved, material, phase, cur, result>>

\* Variant: the judgments on record are dropped, the verified ones kept.
AfterFailureForgetting(failure) ==
    [Prior EXCEPT !.status = IF failure = "blocked" THEN "blocked" ELSE "failed",
                  !.ids = {}]

\* What a failed search leaves of the query: what earlier executions found.
AfterFailure(failure) ==
    LET kept == \/ PriorUnresolved(Prior)
                \/ Prior.count > 0
                \/ Prior.ids # {}
        status == CASE kept -> "partial"
                    [] ~kept /\ failure = "blocked" -> "blocked"
                    [] OTHER -> "failed"
    IN  [Prior EXCEPT !.status = status, !.unresolved = PriorUnresolved(Prior)]

\* The site is unavailable (a retry may help), refuses the query, or answers
\* with a page that cannot be parsed.
SearchFailed(failure) ==
    /\ phase = "query" /\ op.q <= N
    /\ ~Terminal(Prior)
    /\ op' = [Record(AfterFailure(failure)) EXCEPT
                !.transient = @ \/ failure = "transient"]
    /\ UNCHANGED <<saved, material, phase, cur, result>>

\* The search lists some judgments, the site's full list or its beginning, or
\* shows that it has none.  Judgments already handled are left aside.
Searched(list, complete) ==
    /\ phase = "query" /\ op.q <= N
    /\ ~Terminal(Prior)
    /\ list = {} => complete
    /\ phase' = "verifying"
    /\ cur' = [NoQuery EXCEPT !.left = list \ op.seen,
                              !.size = Cardinality(list),
                              !.complete = complete]
    /\ op' = [op EXCEPT !.listed = @ \cup list]
    /\ UNCHANGED <<saved, material, result>>

\* A judgment the run holds already needs no lookup.
NeedsLookup(c) == material[c] = "none"

\* What verifying yields: the text the run holds, or what the exact lookup
\* finds, with or without eligible evidence.
Outcomes(c) == IF NeedsLookup(c) THEN {"none", "stored", "eligible"}
                                 ELSE {material[c]}

\* The bound is reached: the rest of the list is not looked at.
Truncated(c) ==
    /\ phase = "verifying" /\ c \in cur.left
    /\ NeedsLookup(c)
    /\ op.attempts >= MaxVerifications
    /\ op' = [op EXCEPT !.exhausted = TRUE]
    /\ cur' = [cur EXCEPT !.left = {}, !.ids = @ \cup {c}, !.doubt = TRUE]
    /\ UNCHANGED <<saved, material, phase, result>>

\* One judgment is verified.  A lookup is charged before it is made, and a
\* judgment that fails is not tried again by this execution.
Verify(c, found, transient) ==
    LET charge == IF NeedsLookup(c) THEN 1 ELSE 0
        verified == found = "eligible"
    IN  /\ phase = "verifying" /\ c \in cur.left
        /\ NeedsLookup(c) => op.attempts < MaxVerifications
        /\ found \in Outcomes(c)
        /\ transient => found = "none"
        /\ material' = [material EXCEPT ![c] = found]
        /\ op' = [op EXCEPT !.seen = @ \cup {c},
                            !.attempts = @ + charge,
                            !.fetched = @ + charge,
                            !.transient = @ \/ transient]
        /\ cur' = [cur EXCEPT !.left = @ \ {c},
                              !.ids = @ \cup {c},
                              !.verified = IF verified THEN @ \cup {c} ELSE @,
                              !.doubt = @ \/ ~verified,
                              !.spent = @ + charge]
        /\ UNCHANGED <<saved, phase, result>>

\* Variant: verifying any judgment settles those that were left open.
UnresolvedUntilAny == PriorUnresolved(Prior) /\ cur.verified = {}

\* Variant: nothing is carried over from earlier executions.
UnresolvedNever == FALSE

\* A judgment that an earlier execution left open and this one did not verify.
StillUnresolved ==
    /\ PriorUnresolved(Prior)
    /\ PriorIds(Prior) = {} \/ ~(PriorIds(Prior) \subseteq cur.verified)

\* Variant: the new progress replaces the old one instead of joining it.
AfterSearchReplacing ==
    LET partial == ~cur.complete \/ cur.doubt \/ StillUnresolved
    IN  [status |-> CASE partial -> "partial"
                      [] ~partial /\ cur.size = 0 -> "not_found"
                      [] OTHER -> "found",
         count |-> Max({Prior.count, cur.size}),
         ids |-> cur.ids,
         verified |-> cur.verified,
         attempts |-> Prior.attempts + cur.spent,
         unresolved |-> StillUnresolved]

\* The query's new progress: what earlier executions found is kept.
AfterSearch ==
    LET ids == Prior.ids \cup cur.ids
        partial == ~cur.complete \/ cur.doubt \/ StillUnresolved
    IN  [status |-> CASE partial -> "partial"
                      [] ~partial /\ cur.size = 0 -> "not_found"
                      [] OTHER -> "found",
         count |-> Max({Prior.count, Cardinality(ids), cur.size}),
         ids |-> ids,
         verified |-> Prior.verified \cup cur.verified,
         attempts |-> Prior.attempts + cur.spent,
         unresolved |-> StillUnresolved]

EndQuery ==
    /\ phase = "verifying" /\ cur.left = {}
    /\ phase' = "query"
    /\ op' = Record(AfterSearch)
    /\ cur' = NoQuery
    /\ UNCHANGED <<saved, material, result>>

AllClean == \A q \in Queries : Terminal(op.items[q])

\* A verified judgment may support or oppose the question, which nothing
\* decides: it leaves the search partial.
Status ==
    LET Some(status) == \E q \in Queries : op.items[q].status = status
    IN  IF op.exhausted \/ \E q \in Queries : op.items[q].verified # {} THEN "partial"
        ELSE IF \A q \in Queries : op.items[q].status = "not_found" THEN "not_found_in_scope"
        ELSE IF Some("found") \/ Some("not_found") THEN "partial"
        ELSE IF Some("blocked") THEN "blocked"
        ELSE "retry_required"

\* The service keeps the obligation and its progress for a retry, or
\* completes it and forgets the progress.
Finish ==
    LET retry == op.transient \/ Status = "retry_required"
    IN  /\ phase = "query" /\ op.q > N
        /\ result' = [status |-> Status,
                      complete |-> AllClean /\ ~op.exhausted,
                      listed |-> op.listed]
        /\ saved' = IF retry
                    THEN [items |-> op.items, attempts |-> op.attempts,
                          fetched |-> op.fetched, listed |-> op.listed]
                    ELSE saved
        /\ phase' = IF retry THEN "idle" ELSE "completed"
        /\ op' = NoOp
        /\ UNCHANGED <<material, cur>>

\* The operation runs out of its time or request budget, or its process dies:
\* the official material it stored stays, its progress does not.
Lost ==
    /\ phase \in {"query", "verifying"}
    /\ phase' = "idle"
    /\ op' = NoOp
    /\ cur' = NoQuery
    /\ UNCHANGED <<saved, material, result>>

\* Between executions another operation of the run looks the judgment up.
OtherLookup(c, found) ==
    /\ phase \in {"idle", "completed"}
    /\ material[c] # "eligible" /\ found # material[c]
    /\ material' = [material EXCEPT ![c] = found]
    /\ UNCHANGED <<saved, phase, op, cur, result>>

Next ==
    \/ Begin
    \/ KeepClean
    \/ \E failure \in {"transient", "blocked", "unreadable"} : SearchFailed(failure)
    \/ \E list \in SUBSET Candidates, complete \in BOOLEAN :
          /\ Cardinality(list) <= MaxListed
          /\ Searched(list, complete)
    \/ \E c \in Candidates : Truncated(c)
    \/ \E c \in Candidates, found \in {"none", "stored", "eligible"},
          transient \in BOOLEAN : Verify(c, found, transient)
    \/ EndQuery
    \/ Finish
    \/ Lost
    \/ \E c \in Candidates, found \in {"stored", "eligible"} : OtherLookup(c, found)

Spec == Init /\ [][Next]_vars

-----------------------------------------------------------------------------
(* Properties *)

Items == [status: {"none", "found", "not_found", "partial", "failed", "blocked"},
          count: Nat, ids: SUBSET Candidates, verified: SUBSET Candidates,
          attempts: Nat, unresolved: BOOLEAN]

\* Every variable has the type the code's models give it, and what a query
\* has verified is among what it has recorded.
TypeOK ==
    /\ saved \in [items: [Queries -> Items], attempts: Nat, fetched: Nat,
                  listed: SUBSET Candidates]
    /\ material \in [Candidates -> {"none", "stored", "eligible"}]
    /\ phase \in {"idle", "query", "verifying", "completed"}
    /\ op \in [q: 1 .. N + 1, items: [Queries -> Items],
               seen: SUBSET Candidates, attempts: Nat, exhausted: BOOLEAN,
               transient: BOOLEAN, fetched: Nat, listed: SUBSET Candidates]
    /\ cur \in [left: SUBSET Candidates, size: Nat, complete: BOOLEAN,
                ids: SUBSET Candidates, verified: SUBSET Candidates,
                doubt: BOOLEAN, spent: Nat]
    /\ result \in [status: {"none", "partial", "not_found_in_scope", "blocked",
                            "retry_required"},
                   complete: BOOLEAN, listed: SUBSET Candidates]
    /\ \A q \in Queries : saved.items[q].verified \subseteq saved.items[q].ids

\* However often the search is resumed, the executions whose progress is kept
\* spend together at most max_verifications exact lookups.
LookupsBounded == op.fetched <= MaxVerifications

\* "Not found in scope", the only outcome that lets a run claim absence, is
\* never reported when a search of this or of an earlier kept execution has
\* listed a judgment: a candidate that once could not be verified does not
\* vanish because a later search ranks differently or comes back empty.
NoFalseMiss == result.status = "not_found_in_scope" => result.listed = {}

\* Complete coverage means that every judgment listed by a kept execution has
\* been verified with eligible evidence, also one that two queries list and
\* one that failed before.
CompleteMeansVerified ==
    result.complete => \A c \in result.listed : material[c] = "eligible"

\* Resuming repeats no clean query and forgets no verified judgment.
ProgressKept ==
    [][\A q \in Queries :
          /\ saved.items[q].status \in {"found", "not_found"} =>
                saved'.items[q] = saved.items[q]
          /\ saved.items[q].verified \subseteq saved'.items[q].verified]_saved
=============================================================================
