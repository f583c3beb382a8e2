------------------------------ MODULE PublicLaw ------------------------------
(***************************************************************************)
(* Legislative history and other public-law material: the Legislative      *)
(* Yuan's open data (providers/legislative_yuan.py), the adapters around   *)
(* it and around a deployer's own backend (providers/                      *)
(* legislative_history.py, providers/sdk.py), the contracts of their       *)
(* results (contracts/public_law.py, contracts/historical_law.py) and the  *)
(* validation of a result at the time it is used.                          *)
(*                                                                         *)
(* A reason code stands for any of them: what matters is whether a result  *)
(* carries one.  Candidates and rows are identifiers.                      *)
(***************************************************************************)
EXTENDS Integers, FiniteSets, FiniteSetsExt, Sequences

CONSTANTS
  LyDatasets,   \* the datasets in the order they are asked
  LyDated,      \* those whose rows carry a date
  LyProposal,   \* the one that can be searched by name alone; it has no dates
  LyRows,       \* bound on the rows of a dataset
  LyLimit,      \* max_results
  LyIds,        \* candidate ids of rows
  Bills,        \* bill numbers
  Statutes,     \* source records a backend may hold: versions of law
  Materials     \* and legislative material

ASSUME PublicLawAssumption ==
  /\ LyDatasets \in Seq(STRING) /\ LyDated \subseteq STRING
  /\ LyProposal \in {LyDatasets[i] : i \in DOMAIN LyDatasets} \ LyDated
  /\ LyRows \in Nat /\ LyLimit \in Nat \ {0}
  /\ Statutes \cap Materials = {} /\ "none" \notin Bills

VARIABLES
  ask,        \* the request under way
  ly,         \* the connector's locals
  raw,        \* what a backend returned
  promoted,   \* what the server's source gate made of each source
  outcome,    \* the adapter's result
  verdict,    \* what the validation made of it
  receipt     \* the server's metadata: still that of the request (own), still current

publicVars == <<ask, ly, raw, promoted, outcome, verdict, receipt>>

NoBill == "none"
NoAsk == [step |-> "idle"]
NoLy == [at |-> 0]
NoRaw == [status |-> "none"]
NoOutcome == [status |-> "none"]
NoVerdict == [decision |-> "none"]
NoPromotion == [s \in {} |-> "none"]

Sources == Statutes \cup Materials

\* The result of the adapter.
Adapted(st, c, src, complete, absence, trunc) ==
  [status |-> st, candidates |-> c, sources |-> src, complete |-> complete,
   absence |-> absence, truncated |-> trunc]

Refused(st) == Adapted(st, {}, {}, FALSE, FALSE, FALSE)

Raw(st, c, src, complete, trunc, noted) ==
  [status |-> st, candidates |-> c, sources |-> src, complete |-> complete,
   truncated |-> trunc, noted |-> noted]

-----------------------------------------------------------------------------
(* A request to the Legislative Yuan's connector.                          *)

\* Term and session bound the search; without both only the proposals can be
\* searched, by the name of the law.
Scopes == {"invalid", "none", "term", "full"}

\* The adapter issues the metadata of a request before it asks the backend;
\* without an issuer it does not ask.
Issue(request) ==
  /\ ask' = [request EXCEPT !.step = IF request.issuer THEN "backend" ELSE "resolve"]
  /\ IF request.issuer THEN receipt' = [own |-> TRUE, current |-> TRUE] /\ UNCHANGED outcome
                       ELSE outcome' = Refused("blocked") /\ UNCHANGED receipt
  /\ UNCHANGED <<ly, raw, promoted, verdict>>

LyRequest ==
  /\ ask.step = "idle"
  /\ \E through \in {"tool", "adapter"}, history \in BOOLEAN, scope \in Scopes,
        named \in BOOLEAN, bill \in Bills \cup {NoBill}, issuer \in BOOLEAN :
       /\ through = "tool" => history /\ issuer
       /\ named \/ bill # NoBill
       /\ Issue([step |-> "idle", of |-> "ly", through |-> through, history |-> history,
                 scope |-> scope, named |-> named, bill |-> bill, issuer |-> issuer])

BackendReturns(r) == raw' = r /\ ask' = [ask EXCEPT !.step = "returned"]

RestSame == UNCHANGED <<promoted, outcome, verdict, receipt>>

LyBegin ==
  /\ ask.step = "backend" /\ ask.of = "ly" /\ ly.at = 0
  /\ CASE ~ask.history ->
            BackendReturns(Raw("not_found", {}, {}, TRUE, FALSE, FALSE)) /\ UNCHANGED ly
       [] ask.history /\ ask.scope = "invalid" ->
            BackendReturns(Raw("error", {}, {}, FALSE, FALSE, TRUE)) /\ UNCHANGED ly
       [] OTHER ->
            /\ ly' = [at |-> 1, left |-> -1, cands |-> {}, seen |-> {}, linked |-> {},
                      incomplete |-> {}, failed |-> {}, truncated |-> FALSE,
                      noted |-> ask.scope # "full"]
            /\ UNCHANGED <<ask, raw>>
  /\ RestSame

Dataset == LyDatasets[ly.at]

\* Reasons against the dataset under way, with or without its completeness.
Against(l, d) == [l EXCEPT !.incomplete = @ \cup {d}, !.noted = TRUE]
Noted(l) == [l EXCEPT !.noted = TRUE]

Advance(l) == ly' = [l EXCEPT !.at = @ + 1, !.left = -1]

LyAsks == ly.at \in DOMAIN LyDatasets /\ ask.step = "backend"

LySkip ==
  /\ LyAsks /\ ly.left = -1
  /\ ask.scope # "full" /\ (Dataset # LyProposal \/ ~ask.named)
  /\ Advance(Against(ly, Dataset))
  /\ UNCHANGED <<ask, raw>> /\ RestSame

\* An answer that is not the JSON expected, from the URL asked, is a failure;
\* a full page of rows may not be all of them.
LyFetch ==
  /\ LyAsks /\ ly.left = -1
  /\ ask.scope = "full" \/ (Dataset = LyProposal /\ ask.named)
  /\ \/ Advance([Against(ly, Dataset) EXCEPT !.failed = @ \cup {Dataset}])
     \/ \E n \in 0..LyRows, full \in BOOLEAN :
          LET l == IF full THEN Against(ly, Dataset) ELSE ly
              empty == n = 0 \/ Dataset \notin LyDated IN
          ly' = [(IF empty THEN Against(l, Dataset) ELSE l) EXCEPT !.left = n]
  /\ UNCHANGED <<ask, raw>> /\ RestSame

\* A row belongs to the request by its bill number, or by its title; once a
\* bill was found by title, the rows that carry its number belong as well.
RowMatches(row) ==
  IF ask.bill # NoBill THEN IF row.bill # NoBill THEN row.bill = ask.bill ELSE row.titled
  ELSE IF row.bill # NoBill /\ row.bill \in ly.linked THEN TRUE
  ELSE row.titled

\* A row the request covers becomes a candidate, unless it is one already or
\* the limit is reached.
AddRow(l, row) ==
  LET k == [l EXCEPT !.linked = @ \cup ({row.bill} \ {NoBill}), !.seen = @ \cup {row.id}] IN
  IF row.id \in l.seen THEN Against(k, Dataset)
  ELSE IF Cardinality(l.cands) >= LyLimit THEN [k EXCEPT !.truncated = TRUE]
  ELSE [k EXCEPT !.cands = @ \cup {row.id}]

LyRow ==
  /\ LyAsks /\ ly.left > 0
  /\ \E row \in [date : IF Dataset \in LyDated THEN {"before", "after", "undated", "bad"} ELSE {"undated"},
                 bill : Bills \cup {NoBill}, titled : BOOLEAN, id : LyIds, sound : BOOLEAN] :
       LET l == [(IF row.date \in {"undated", "bad"} THEN Against(ly, Dataset) ELSE ly)
                   EXCEPT !.left = @ - 1] IN
       ly' = IF row.date = "bad" THEN l
             ELSE IF row.date = "after" THEN Noted(l)
             ELSE IF ~RowMatches(row) THEN l
             ELSE IF ~row.sound THEN Noted(l)
             ELSE AddRow(l, row)
  /\ UNCHANGED <<ask, raw>> /\ RestSame

LyEndOfRows ==
  /\ LyAsks /\ ly.left = 0
  /\ Advance(ly)
  /\ UNCHANGED <<ask, raw>> /\ RestSame

LyStatus(complete) ==
  CASE ly.noted /\ ly.cands = {} /\ Cardinality(ly.failed) = Len(LyDatasets) -> "error"
    [] ly.cands # {} -> IF complete /\ ~ly.truncated THEN "found" ELSE "partial"
    [] OTHER -> IF complete /\ ~ly.truncated THEN "not_found" ELSE "partial"

LyReturn ==
  /\ ask.step = "backend" /\ ask.of = "ly" /\ ly.at > Len(LyDatasets)
  /\ LET complete == ly.incomplete = {} /\ ask.scope = "full" /\ ~ly.noted IN
     BackendReturns(Raw(LyStatus(complete), ly.cands, {}, complete /\ ~ly.truncated,
                        ly.truncated, ly.noted \/ ly.truncated))
  /\ UNCHANGED ly /\ RestSame

-----------------------------------------------------------------------------
(* A deployer's backend: any result its own validation accepts.            *)

OtherRequest ==
  /\ ask.step = "idle"
  /\ \E issuer \in BOOLEAN :
       Issue([step |-> "idle", of |-> "deployer", through |-> "adapter", issuer |-> issuer])

\* It may raise, answer for another provider or another query, or answer.
OtherReturns ==
  /\ ask.step = "backend" /\ ask.of = "deployer"
  /\ \/ \E st \in {"raised", "foreign"} : BackendReturns(Raw(st, {}, {}, FALSE, FALSE, TRUE))
     \/ \E st \in {"found", "not_found", "partial", "error"}, c \in SUBSET LyIds,
           src \in SUBSET Sources, complete \in BOOLEAN, trunc \in BOOLEAN, noted \in BOOLEAN :
          /\ ~(trunc /\ complete)
          /\ BackendReturns(Raw(st, c, src, complete, trunc, noted))
  /\ UNCHANGED ly /\ RestSame

-----------------------------------------------------------------------------
(* The tool of the server, which asks the connector itself.                *)

ToolReturns ==
  /\ ask.step = "returned" /\ ask.through = "tool"
  /\ outcome' = [status |-> raw.status, absence |-> FALSE, sources |-> {}]
  /\ ask' = [ask EXCEPT !.step = "done"]
  /\ UNCHANGED <<ly, raw, promoted, verdict, receipt>>

-----------------------------------------------------------------------------
(* The adapter (sdk.py).                                                   *)

\* What can become of a source at the server's gate: of another provider,
\* bound to other metadata, refused, altered on the way, or promoted as it is.
Fates == {"foreign", "unbound", "refused", "altered", "promoted"}

Promote ==
  /\ ask.step = "returned" /\ ask.through = "adapter"
  /\ \E gate \in BOOLEAN : \E fate \in [raw.sources -> Fates] :
       /\ ~gate => \A s \in raw.sources : fate[s] = "refused"
       /\ promoted' = fate
  /\ ask' = [ask EXCEPT !.step = "adapt"]
  /\ UNCHANGED <<ly, raw, outcome, verdict, receipt>>

Kept == {s \in raw.sources : promoted[s] = "promoted"}

\* A result the contract refuses to build: its exception leaves the adapter.
Unbuilt == [status |-> "unbuilt"]

\* A variant that does not look at the notes of the backend.
EmptyMiss(c, src, trunc) == raw.complete /\ ~trunc /\ c = {} /\ src = {}

\* The clean empty answer, the only one that allows to speak of an absence.
CleanMiss(c, src, trunc) ==
  raw.complete /\ ~trunc /\ c = {} /\ src = {} /\ ~raw.noted /\ Kept = raw.sources

\* A variant that hands on the status of the backend.
AdaptedAsIs(c, trunc) ==
  IF trunc THEN "partial"
  ELSE IF raw.status = "error" THEN "retry_required"
  ELSE IF raw.status = "not_found" /\ CleanMiss(c, Kept, trunc) THEN "not_found_in_scope"
  ELSE raw.status

AdaptedStatus(c, trunc) ==
  IF trunc THEN "partial"
  ELSE IF raw.status = "error" THEN "retry_required"
  ELSE IF raw.status = "not_found" /\ CleanMiss(c, Kept, trunc) THEN "not_found_in_scope"
  ELSE IF raw.status = "found" /\ raw.complete /\ Kept = raw.sources THEN "found"
  ELSE "partial"

Adapt ==
  /\ ask.step = "adapt"
  /\ \E c \in SUBSET raw.candidates :
       LET trunc == raw.truncated \/ c # raw.candidates
           st == AdaptedStatus(c, trunc) IN
       /\ Cardinality(c) = Min({LyLimit, Cardinality(raw.candidates)})
       /\ outcome' =
            IF raw.status = "raised" THEN Refused("retry_required")
            ELSE IF raw.status = "foreign" THEN Refused("blocked")
            ELSE IF st = "found" /\ c = {} /\ Kept = {} THEN Unbuilt
            ELSE Adapted(st, c, Kept, st \in {"found", "not_found_in_scope"},
                                  st = "not_found_in_scope", trunc)
  /\ ask' = [ask EXCEPT !.step = "resolve"]
  /\ UNCHANGED <<ly, raw, promoted, verdict, receipt>>

\* The resolution of a historical law (legislative_history.py): records that
\* cannot be read, or of another bill, term or session, block the result.
Resolve ==
  /\ ask.step = "resolve"
  /\ \/ ask' = [ask EXCEPT !.step = "done"] /\ UNCHANGED outcome
     \/ /\ outcome # Unbuilt /\ outcome.candidates # {}
        /\ ask' = [ask EXCEPT !.step = "done"]
        /\ outcome' = Refused("blocked")
  /\ UNCHANGED <<ly, raw, promoted, verdict, receipt>>

-----------------------------------------------------------------------------
(* Validation of a result when it is used.                                 *)

Blocked == [decision |-> "blocked", eligible |-> {}, law |-> {}, absence |-> FALSE]

\* A variant that looks at the term only.
TermOver == ~receipt.current

\* The metadata the result is bound to is no longer the server's, or its term
\* is over.
NotCurrent == ~receipt.own \/ ~receipt.current

\* owned: the sources the server knows to be its own.
Verdict(owned) ==
  LET o == outcome IN
  IF NotCurrent THEN Blocked
  ELSE IF o.status \in {"retry_required", "blocked"} THEN Blocked
  ELSE IF ~(o.sources \subseteq owned) THEN Blocked
  ELSE IF o.status = "partial" \/ ~o.complete THEN
         [decision |-> "qualified", eligible |-> {}, law |-> o.sources \cap Statutes, absence |-> FALSE]
  ELSE IF o.status = "not_found_in_scope" THEN
         [decision |-> "accepted", eligible |-> {}, law |-> {}, absence |-> TRUE]
  ELSE
         [decision |-> "accepted", eligible |-> o.sources, law |-> o.sources \cap Statutes, absence |-> FALSE]

\* A result may be kept, and validated later or again.
Validate ==
  /\ ask.step = "done" /\ ask.through = "adapter" /\ outcome # Unbuilt
  /\ \E owned \in SUBSET Sources : verdict' = Verdict(owned)
  /\ UNCHANGED <<ask, ly, raw, promoted, outcome, receipt>>

Leave ==
  /\ ask.step = "done"
  /\ ask' = NoAsk /\ ly' = NoLy /\ raw' = NoRaw /\ promoted' = NoPromotion
  /\ outcome' = NoOutcome /\ verdict' = NoVerdict
  /\ UNCHANGED receipt

\* The server's metadata expires, or is issued anew.
Expire == receipt.current /\ receipt' = [receipt EXCEPT !.current = FALSE]
          /\ UNCHANGED <<ask, ly, raw, promoted, outcome, verdict>>
Reissue == receipt' = [own |-> FALSE, current |-> TRUE]
           /\ UNCHANGED <<ask, ly, raw, promoted, outcome, verdict>>

PublicInit ==
  /\ ask = NoAsk /\ ly = NoLy /\ raw = NoRaw /\ promoted = NoPromotion
  /\ outcome = NoOutcome /\ verdict = NoVerdict
  /\ receipt = [own |-> TRUE, current |-> TRUE]

PublicNext ==
  \/ LyRequest \/ LyBegin \/ LySkip \/ LyFetch \/ LyRow \/ LyEndOfRows \/ LyReturn
  \/ OtherRequest \/ OtherReturns \/ ToolReturns
  \/ Promote \/ Adapt \/ Resolve \/ Validate \/ Leave
  \/ (ask.step = "done" /\ (Expire \/ Reissue))

PublicSpec == PublicInit /\ [][PublicNext]_publicVars

-----------------------------------------------------------------------------
(* Properties                                                              *)

PublicTypeOK ==
  /\ ask.step \in {"idle", "backend", "returned", "adapt", "resolve", "done"}
  /\ ly.at \in 0..(Len(LyDatasets) + 1)
  /\ raw.status \in {"none", "found", "not_found", "partial", "error", "raised", "foreign"}
  /\ outcome.status \in {"none", "found", "not_found_in_scope", "partial", "retry_required", "blocked", "unbuilt"}
                        \cup (IF ask.step = "done" /\ ask.through = "tool" THEN {"not_found", "error"} ELSE {})
  /\ verdict.decision \in {"none", "accepted", "qualified", "blocked"}
  /\ receipt \in [own : BOOLEAN, current : BOOLEAN]

\* A source may be used only when the server's gate promoted it unaltered,
\* under metadata that is still the server's own when the result is used:
\* a result kept past its term, or from before a new issue, gives nothing.
\* Legislative material never serves as law.
UsableIsPromoted ==
  [][verdict' # verdict /\ verdict'.decision \in {"accepted", "qualified"} =>
       /\ receipt.current /\ receipt.own /\ ask.issuer
       /\ \A s \in verdict'.eligible \cup verdict'.law : promoted[s] = "promoted"
       /\ verdict'.law \cap Materials = {}]_publicVars

\* An absence is stated only on a backend's complete, clean and empty answer:
\* not on a failed dataset, a full page, a rejected row or a dropped source.
\* The Legislative Yuan's data never give one: some of it carries no date.
AbsenceIsEarned ==
  verdict.decision = "accepted" /\ verdict.absence =>
    /\ raw.status = "not_found" /\ raw.complete /\ raw.candidates = {} /\ raw.sources = {}
    /\ ~raw.noted /\ ~raw.truncated
    /\ ask.of = "ly" => ~ask.history

=============================================================================
