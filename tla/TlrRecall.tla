------------------------------ MODULE TlrRecall ------------------------------
(***************************************************************************)
(* The external recall provider (providers/tlr/provider.py) behind its     *)
(* privacy screen (providers/tlr/privacy.py): searches of judgments and of *)
(* administrative interpretations, the reading of a candidate's text page  *)
(* by page, and the case history of a judgment.                            *)
(*                                                                         *)
(* The provider is the environment.  Between two pages it may replace the  *)
(* text it holds and let the handle of a result expire.  Of a text that    *)
(* goes out only what the screen looks at is kept; of a judgment's text    *)
(* only its version and its length.                                        *)
(***************************************************************************)
EXTENDS Integers, FiniteSets, FiniteSetsExt, Sequences

CONSTANTS
  Pii,          \* kinds of personal data the screen knows
  Versions,     \* texts the provider may hold of the judgment that is read
  LengthOf,     \* and their lengths
  PageChars,    \* largest page the provider returns
  MaxOffset,    \* largest offset a reader asks for
  MaxPages,     \* largest number of pages a reader asks for
  MaxRetries,   \* max_retries
  MaxResults,   \* largest number of results asked for
  HistoryDocs   \* judgments of a case history beside its root

ASSUME TlrRecallAssumption ==
  /\ LengthOf \in [Versions -> Nat]
  /\ {PageChars, MaxPages, MaxResults} \subseteq Nat \ {0}
  /\ {MaxOffset, MaxRetries} \subseteq Nat

VARIABLES
  held,       \* the version the provider holds
  handleLive, \* the result handle is accepted
  recall,     \* the call in progress
  recalled,   \* what the last call returned
  sent        \* the texts that have left the process

recallVars == <<held, handleLive, recall, recalled, sent>>

-----------------------------------------------------------------------------
(* The privacy screen.                                                     *)

\* hard: a marker of confidential content; pii: personal data it contains;
\* specific: too long or too many markers of a case once that is masked.
OutText == [hard : BOOLEAN, pii : SUBSET Pii, specific : BOOLEAN]
NoText == [hard |-> FALSE, pii |-> {}, specific |-> FALSE]

Masked(t) == [t EXCEPT !.pii = {}]

ScreenStatus(t) ==
  CASE t.hard -> "sensitive"
    [] ~t.hard /\ t.specific -> "uncertain"
    [] ~t.hard /\ ~t.specific /\ t.pii # {} -> "redacted_safe"
    [] OTHER -> "safe"

Allowed(t) == ScreenStatus(t) \in {"safe", "redacted_safe"}

-----------------------------------------------------------------------------
(* Searches.                                                               *)

NoRecall == [step |-> "idle"]
NoRecalled == [status |-> "none"]

RecallError(code) == [status |-> "error", code |-> code]
Unavailable == RecallError("TLR_UNAVAILABLE")
SchemaChanged == RecallError("EXTERNAL_PROVIDER_SCHEMA_CHANGED")
PublicLawResult(st, n, trunc) == [status |-> st, candidates |-> n, truncated |-> trunc]

AnswerRecall(a) == recall' = NoRecall /\ recalled' = a

HeldSame == UNCHANGED <<held, handleLive>>

StartSearch ==
  /\ recall.step = "idle"
  /\ \E t \in OutText, limit \in 1..MaxResults :
       IF Allowed(t)
       THEN /\ recall' = [step |-> "search", kind |-> "judgments", out |-> {Masked(t)},
                          limit |-> limit, over |-> FALSE, attempt |-> 0]
            /\ recalled' = NoRecalled
       ELSE AnswerRecall(RecallError("PRIVACY_EXTERNAL_QUERY_BLOCKED"))
  /\ UNCHANGED sent /\ HeldSame

\* A variant that lets a filter out that would be safe masked.
AuthorityGoesOutMasked(f) == f = NoText \/ Allowed(f)

\* An authority filter goes out as it is, so it must be safe unmasked.
AuthorityGoesOut(f) == f = NoText \/ ScreenStatus(f) = "safe"

\* over: more results were asked for than the provider gives.
StartAdministrative ==
  /\ recall.step = "idle"
  /\ \E t \in OutText, f \in OutText, limit \in 1..MaxResults, over \in BOOLEAN, supported \in BOOLEAN :
       /\ over => limit = MaxResults
       /\ IF supported /\ AuthorityGoesOut(f) /\ Allowed(t)
          THEN /\ recall' = [step |-> "search", kind |-> "interpretations", out |-> {Masked(t), f},
                             limit |-> limit, over |-> over, attempt |-> 0]
               /\ recalled' = NoRecalled
          ELSE AnswerRecall(PublicLawResult("blocked", 0, FALSE))
  /\ UNCHANGED sent /\ HeldSame

\* What a search makes of its last response: none (an exception, or a status
\* other than 200), results that do not have the expected form or are more
\* than were asked for, n results.
SearchAnswer(r, n) ==
  IF recall.kind = "judgments"
  THEN IF r = "none" THEN Unavailable
       ELSE IF r = "malformed" \/ n > recall.limit THEN SchemaChanged
       ELSE [status |-> IF n > 0 THEN "found" ELSE "not_found", candidates |-> n]
  ELSE CASE r \in {"none", "malformed"} \/ n > recall.limit -> PublicLawResult("retry_required", 0, FALSE)
         [] OTHER -> PublicLawResult("partial", n, recall.over)

\* A busy provider is asked again; an exception ends the search at once.
SearchRequest ==
  /\ recall.step = "search"
  /\ sent' = sent \cup recall.out
  /\ \/ /\ recall.attempt < MaxRetries
        /\ recall' = [recall EXCEPT !.attempt = @ + 1] /\ UNCHANGED recalled
     \/ \E r \in {"none", "malformed", "results"}, n \in 0..(MaxResults + 1) :
          AnswerRecall(SearchAnswer(r, n))
  /\ HeldSame

-----------------------------------------------------------------------------
(* The text of a candidate, page by page.                                  *)

StartFulltext ==
  /\ recall.step = "idle"
  /\ \/ AnswerRecall(RecallError("INVALID_IDENTIFIER"))
     \/ \E from \in 0..MaxOffset, n \in 1..MaxPages :
          /\ recall' = [step |-> "page", from |-> from, at |-> from, left |-> n, pages |-> <<>>, total |-> -1]
          /\ recalled' = NoRecalled
  /\ UNCHANGED sent /\ HeldSame

\* A response without a page; the same for a case history.
HandleFaults ==
  {Unavailable, [status |-> "not_found", code |-> "TLR_DOCUMENT_NOT_FOUND"]}
  \cup (IF handleLive THEN {} ELSE {RecallError("TLR_RESULT_TOKEN_INVALID_OR_EXPIRED")})

\* A page of the version held.  The provider may name another judgment or
\* offset, and may be wrong about there being more.
FulltextPages ==
  [same : BOOLEAN, offset : {recall.at, recall.at + 1}, chars : 0..PageChars,
   total : {LengthOf[held]}, truncated : BOOLEAN]

\* A variant that does not compare the length with that of the first page.
PageFitsAlone(p) ==
  LET end == recall.at + p.chars IN
  /\ p.same /\ p.offset = recall.at /\ end <= p.total
  /\ p.truncated => p.chars > 0 /\ end < p.total
  /\ ~p.truncated => end = p.total

\* Whether a page is taken.  The citation header is not counted.
PageFits(p) ==
  LET end == recall.at + p.chars IN
  /\ p.same /\ p.offset = recall.at
  /\ recall.total \in {-1, p.total}
  /\ end <= p.total
  /\ p.truncated => p.chars > 0 /\ end < p.total
  /\ ~p.truncated => end = p.total

CharsRead(pages) == MapThenSumSet(LAMBDA i : pages[i].chars, DOMAIN pages)

\* The record of the pages read so far; truncated: there are more.
FulltextRecord(pages, total, truncated) ==
  LET whole == recall.from = 0 /\ ~truncated /\ CharsRead(pages) = total IN
  [status |-> IF whole THEN "found" ELSE "partial", whole |-> whole, pages |-> pages, total |-> total]

ReadPage ==
  /\ recall.step = "page"
  /\ \/ \E a \in HandleFaults : AnswerRecall(a)
     \/ /\ handleLive
        /\ \E p \in FulltextPages :
             LET pages == Append(recall.pages, [at |-> recall.at, chars |-> p.chars, version |-> held]) IN
             CASE ~PageFits(p) -> AnswerRecall(SchemaChanged)
               [] PageFits(p) /\ p.truncated /\ recall.left > 1 ->
                    /\ recall' = [recall EXCEPT !.at = @ + p.chars, !.left = @ - 1,
                                                !.pages = pages, !.total = p.total]
                    /\ UNCHANGED recalled
               [] OTHER -> AnswerRecall(FulltextRecord(pages, p.total, p.truncated))
  /\ UNCHANGED sent /\ HeldSame

-----------------------------------------------------------------------------
(* The case history.                                                       *)

StartHistory ==
  /\ recall.step = "idle"
  /\ \/ AnswerRecall(RecallError("INVALID_IDENTIFIER"))
     \/ recall' = [step |-> "history"] /\ recalled' = NoRecalled
  /\ UNCHANGED sent /\ HeldSame

HistoryEntries == [doc : HistoryDocs \cup {"root"}, direction : {"upper", "lower"}]

\* Entries that name the root, or one judgment twice, refuse the answer.
HistoryAnswer(entries) ==
  IF \/ \E i \in DOMAIN entries : entries[i].doc = "root"
     \/ \E i, j \in DOMAIN entries : i # j /\ entries[i].doc = entries[j].doc
  THEN SchemaChanged
  ELSE [status |-> "found", entries |-> {entries[i] : i \in DOMAIN entries}]

ReadHistory ==
  /\ recall.step = "history"
  /\ \/ \E a \in HandleFaults \cup {SchemaChanged, [status |-> "partial", entries |-> {}]} : AnswerRecall(a)
     \/ /\ handleLive
        /\ \E n \in 0..Cardinality(HistoryDocs) : \E entries \in [1..n -> HistoryEntries] :
             AnswerRecall(HistoryAnswer(entries))
  /\ UNCHANGED sent /\ HeldSame

-----------------------------------------------------------------------------
(* The provider changes while a call is in progress.                       *)

Replace(v) == recall.step \in {"page", "history"} /\ v # held /\ held' = v
              /\ UNCHANGED <<handleLive, recall, recalled, sent>>

ExpireHandle == recall.step \in {"page", "history"} /\ handleLive /\ handleLive' = FALSE
                /\ UNCHANGED <<held, recall, recalled, sent>>

\* A new search gives a new handle.
RenewHandle == recall.step = "idle" /\ ~handleLive /\ handleLive' = TRUE
               /\ UNCHANGED <<held, recall, recalled, sent>>

RecallInit ==
  /\ held \in Versions /\ handleLive = TRUE
  /\ recall = NoRecall /\ recalled = NoRecalled
  /\ sent = {}

RecallNext ==
  \/ StartSearch \/ StartAdministrative \/ SearchRequest
  \/ StartFulltext \/ ReadPage \/ StartHistory \/ ReadHistory
  \/ (\E v \in Versions : Replace(v)) \/ ExpireHandle \/ RenewHandle

RecallSpec == RecallInit /\ [][RecallNext]_recallVars

-----------------------------------------------------------------------------
(* Properties                                                              *)

RecallTypeOK ==
  /\ held \in Versions /\ handleLive \in BOOLEAN
  /\ recall.step \in {"idle", "search", "page", "history"}
  /\ recalled.status \in {"none", "error", "found", "not_found", "partial", "blocked", "retry_required"}
  /\ sent \subseteq OutText

\* Nothing leaves the process, in a query or in the filter beside it, on the
\* first attempt or on a retry, that the screen takes for confidential, for
\* personal or for the facts of a case.
NothingPrivateLeaves ==
  \A t \in sent : ScreenStatus(t) = "safe"

\* A text that is called whole consists of pages that follow one another from
\* its first character to its last, all from versions of one length, although
\* the provider may replace the text between two pages.
FulltextIsWhole ==
  recalled.status = "found" /\ "whole" \in DOMAIN recalled =>
    LET ps == recalled.pages
        Covers(i) == ps[i].at..(ps[i].at + ps[i].chars - 1) IN
    /\ UNION {Covers(i) : i \in DOMAIN ps} = 0..(recalled.total - 1)
    /\ \A i, j \in DOMAIN ps : i # j => Covers(i) \cap Covers(j) = {}
    /\ \A i \in DOMAIN ps : LengthOf[ps[i].version] = recalled.total

=============================================================================
