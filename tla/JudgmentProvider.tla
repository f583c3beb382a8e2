-------------------------- MODULE JudgmentProvider --------------------------
(***************************************************************************)
(* Exact lookups and searches of judgments (providers/official/            *)
(* judgments.py over providers/official/judicial_site.py, with             *)
(* providers/local_portal.py in front of it when a portal is configured),  *)
(* run under the request budget of budget.py.                              *)
(*                                                                         *)
(* A call is a sequence of requests to the Judicial Yuan's website.  The   *)
(* website is the environment: between two requests it may publish or      *)
(* withdraw a judgment, and any request may fail, be blocked, or answer a  *)
(* page the parser does not recognise.  A page is abstracted to what the   *)
(* parser reads of it: the judgment it shows, the identifiers in its       *)
(* links, and whether it has a text.                                       *)
(***************************************************************************)
EXTENDS Integers, FiniteSets, FiniteSetsExt

CONSTANTS
  Docs,       \* judgments
  PartOf,     \* the five-part identifier of each; several may share one
  CaseOf,     \* court, year, case word and number of each
  KindOf,     \* ruling or judgment
  PageSize,   \* entries on the first page of the site's result list
  Limit,      \* largest number of hits a search is asked for
  Requests    \* HTTP requests the budget allows

ASSUME JudgmentProviderAssumption ==
  /\ IsFiniteSet(Docs)
  /\ DOMAIN PartOf = Docs /\ DOMAIN CaseOf = Docs /\ DOMAIN KindOf = Docs
  /\ {PageSize, Limit} \subseteq Nat \ {0} /\ Requests \in Nat

VARIABLES
  portal,     \* whether a local portal is configured
  published,  \* what the website publishes
  call,       \* the call in progress
  answer,     \* what the last call returned
  spent,      \* requests charged
  exhausted,  \* the budget has an exhausted reason
  throughout, \* judgments published during the whole of the call
  grew,       \* a judgment was published during the call
  troubled    \* some request of the call got no usable answer

siteVars == <<portal, published, call, answer, spent, exhausted, throughout, grew, troubled>>

Kinds == {KindOf[d] : d \in Docs}
AnyKind == "any"
None == [form |-> "none"]
Conflict == [form |-> "conflict"]
NoFault == "none"

Jid(d) == [form |-> "jid", doc |-> d]
Partial(p) == [form |-> "partial", part |-> p]
Formal(c, k) == [form |-> "formal", case |-> c, kind |-> k]
Invalid == [form |-> "invalid"]
NoTerm == [form |-> "search", of |-> "nothing"]
Keyword == [form |-> "search", of |-> "keyword"]
CaseWord == [form |-> "search", of |-> "case word and number"]

\* What a caller may look up: identifiers, formal citations, other text.
Asks == {Jid(d) : d \in Docs} \cup {Partial(PartOf[d]) : d \in Docs}
        \cup {Formal(CaseOf[d], k) : d \in Docs, k \in Kinds \cup {AnyKind}}
        \cup {Invalid}

\* The judgments an identifier or a citation denotes.
Denotes(ask, d) ==
  CASE ask.form = "jid" -> d = ask.doc
    [] ask.form = "partial" -> PartOf[d] = ask.part
    [] ask.form = "formal" -> CaseOf[d] = ask.case /\ ask.kind \in {AnyKind, KindOf[d]}
    [] OTHER -> FALSE

NoCall == [step |-> "idle"]
NoAnswer == [of |-> Invalid, got |-> [status |-> "none"]]
Stopped(ask) == [of |-> ask, got |-> [status |-> "stopped"]]

Error(code) == [status |-> "error", code |-> code, complete |-> FALSE]
Miss == [status |-> "not_found", code |-> "OFFICIAL_SOURCE_NOT_FOUND", complete |-> TRUE]
Found(d, id, from) == [status |-> "found", doc |-> d, id |-> id, from |-> from, complete |-> TRUE]
CandidateOnly == [status |-> "partial", code |-> "SOURCE_NOT_EVIDENCE_ELIGIBLE", complete |-> TRUE]
Hits(H, c) == [status |-> "hits", docs |-> H, complete |-> c]

-----------------------------------------------------------------------------
(* One HTTP exchange, with its redirects.                                  *)

\* Answers that are no page: a transport error, HTTP 404, a block by status
\* or by the firewall's page, a body that is not UTF-8.
NoPage == {"failed", "missing", "blocked", "garbled"}

TransportCode(r) ==
  CASE r = "missing" -> "OFFICIAL_SOURCE_NOT_FOUND"
    [] r = "blocked" -> "OFFICIAL_SOURCE_BLOCKED"
    [] r = "garbled" -> "OFFICIAL_PARSE_ERROR"
    [] OTHER -> "OFFICIAL_SOURCE_UNAVAILABLE"

MaxHops == 4

\* Every hop is charged before it is sent.  When the budget is used up the
\* exception of the charge is one more transport error for the provider.
Exchange(r) ==
  \/ /\ ~exhausted
     /\ \E h \in 1..MaxHops : spent + h <= Requests /\ spent' = spent + h
     /\ UNCHANGED exhausted
  \/ /\ r = "failed"
     /\ spent' = Requests
     /\ exhausted' = TRUE

\* The provider's coroutine ends with an answer; budget.py still checks the
\* budget before it hands the answer out.
Conclude(a) == call' = [step |-> "done", ask |-> call.ask, result |-> a]

Goto(s) == call' = [call EXCEPT !.step = s]

\* A request got no usable answer: none at all, or a page that is not read.
Trouble(r) == troubled' = (troubled \/ r \in {"failed", "blocked", "garbled", "unknown", "changed"})

SiteSame == UNCHANGED <<portal, published, answer, throughout, grew>>

-----------------------------------------------------------------------------
(* A call begins: the portal, when there is one, is asked first.           *)

Target(ask) == IF ask.form \in {"jid", "partial"} THEN ask ELSE None

StartCall(ask) ==
  /\ call.step = "idle"
  /\ ~exhausted
  /\ call' = [step |-> IF portal /\ ask # NoTerm THEN "local" ELSE IF ask = Keyword THEN "form"
                         ELSE IF ask = CaseWord THEN "submit" ELSE "resolve",
              ask |-> ask, target |-> Target(ask), local |-> FALSE, total |-> 0]
  /\ answer' = NoAnswer
  /\ throughout' = published /\ grew' = FALSE /\ troubled' = FALSE
  /\ UNCHANGED <<portal, published, spent, exhausted>>

Lookup == \E ask \in Asks : StartCall(ask)
Search == \E ask \in {NoTerm, Keyword, CaseWord} : StartCall(ask)

\* A catalog-bound text of the portal is used as it is.  It is taken to be of
\* the identifier asked: nothing compares them.
LocalSnapshot(d) == Conclude(Found(d, Jid(d), "portal"))

\* With a candidate of the portal, or nothing, the website is asked.
LocalLookup ==
  /\ call.step = "local" /\ call.ask.form # "search"
  /\ \/ \E d \in Docs : /\ call.target # None /\ Denotes(call.target, d)
                        /\ LocalSnapshot(d)
     \/ \E c \in BOOLEAN : /\ c => call.target # None
                          /\ call' = [call EXCEPT !.step = "resolve", !.local = c]
  /\ UNCHANGED <<spent, exhausted, troubled>> /\ SiteSame

\* With a portal a search is answered by the portal alone.
LocalSearch ==
  /\ call.step = "local" /\ call.ask.form = "search"
  /\ \/ \E code \in {"EXTERNAL_PROVIDER_UNAVAILABLE", "EXTERNAL_PROVIDER_SCHEMA_CHANGED"} :
          Conclude(Error(code))
     \/ \E H \in SUBSET Docs, c \in BOOLEAN : Conclude([Hits(H, c) EXCEPT !.status = "local hits"])
  /\ UNCHANGED <<spent, exhausted, troubled>> /\ SiteSame

RefuseIdentifier ==
  /\ call.step = "resolve" /\ call.ask \in {Invalid, NoTerm}
  /\ Conclude(Error("INVALID_IDENTIFIER"))
  /\ UNCHANGED <<spent, exhausted, troubled>> /\ SiteSame

UseIdentifier ==
  /\ call.step = "resolve" /\ call.target # None
  /\ Goto("fetch")
  /\ UNCHANGED <<spent, exhausted, troubled>> /\ SiteSame

-----------------------------------------------------------------------------
(* Result pages.  The first page of a result has a reference to the list   *)
(* of its hits ("ref"), says that there are none ("empty"), or is not      *)
(* recognised ("unknown").  The list shows at most PageSize entries.  An   *)
(* entry whose link or title cannot be read is skipped; when that leaves   *)
(* none the page counts as changed.                                        *)

ResultPages(M) == IF M = {} THEN {"empty", "unknown"} ELSE {"ref", "unknown"}

Listings(M) ==
  {S \in SUBSET M : Cardinality(S) = Min({PageSize, Cardinality(M)})}

\* <<kind, hits>> for a list of the judgments in M
ListPages(M) ==
  IF M = {} THEN {<<"empty", {}>>, <<"unknown", {}>>}
  ELSE {<<"unknown", {}>>, <<"changed", {}>>}
       \cup UNION {{<<"hits", H>> : H \in (SUBSET S) \ {{}}} : S \in Listings(M)}

\* The site knows the court of most citations; of the others it lists every
\* court's case of that year, word and number.
Listed == {{d \in published : CaseOf[d] = call.ask.case}, published}

\* A variant that takes a page without a list for an empty result.
AfterResultLoose(r, next) ==
  CASE r \in NoPage -> Conclude(Error(TransportCode(r)))
    [] r = "ref" -> next
    [] OTHER -> Conclude(Miss)

\* Where the first page of a result leads; "no hits" is a page that says so.
AfterResult(r, next) ==
  CASE r \in NoPage -> Conclude(Error(TransportCode(r)))
    [] r = "ref" -> next
    [] r = "empty" -> Conclude(Miss)
    [] OTHER -> Conclude(Error("OFFICIAL_PARSE_ERROR"))

ResolveCitation ==
  /\ call.step = "resolve" /\ call.ask.form = "formal"
  /\ \E M \in Listed : \E r \in NoPage \cup ResultPages(M) :
       /\ Exchange(r)
       /\ Trouble(r)
       /\ AfterResult(r, Goto("list"))
  /\ SiteSame

\* The one judgment of the list that the citation denotes.
Resolved(H) ==
  LET U == {d \in H : Denotes(call.ask, d)} IN
  CASE Cardinality(U) = 1 ->
         call' = [call EXCEPT !.step = "fetch", !.target = Jid(CHOOSE d \in U : TRUE)]
    [] Cardinality(U) > 1 -> Conclude(Error("AMBIGUOUS_FORMAL_CITATION"))
    [] OTHER -> Conclude(Miss)

ReadCitationList ==
  /\ call.step = "list"
  /\ \/ \E r \in NoPage :
          Exchange(r) /\ Trouble(r) /\ Conclude(Error(TransportCode(r)))
     \/ \E M \in Listed : \E p \in ListPages(M) :
          /\ Exchange("page")
          /\ Trouble(p[1])
          /\ IF p[1] \in {"unknown", "changed"}
             THEN Conclude(Error("OFFICIAL_PARSE_ERROR"))
             ELSE Resolved(p[2])
  /\ SiteSame

-----------------------------------------------------------------------------
(* The judgment's page.                                                    *)

\* A page shows one judgment.  Its print and export links carry its full
\* identifier, its five-part one, both or neither; a confused page carries
\* another judgment's beside them.  Its text may be missing, empty or only
\* headings, or hold the words by which the parser knows an empty answer.
Pages(d) ==
  [doc : {d}, canon : {{}, {d}} \cup {{d, e} : e \in Docs},
   part : {{}, {PartOf[d]}} \cup {{PartOf[d], PartOf[e]} : e \in Docs},
   text : {"missing", "empty", "headings", "quotes", "text"}]

\* What the page says it is: the identifier in its links.
PageIdentity(p) ==
  IF Cardinality(p.canon) > 1 \/ Cardinality(p.part) > 1 THEN Conflict
  ELSE IF p.canon = {}
       THEN IF p.part = {} THEN None ELSE Partial(CHOOSE q \in p.part : TRUE)
  ELSE LET d == CHOOSE d \in p.canon : TRUE IN
       IF p.part \subseteq {PartOf[d]} THEN Jid(d) ELSE Conflict

\* A variant that compares the five parts only.
IdentityFaultByPart(id, target) ==
  LET part(i) == IF i.form = "jid" THEN PartOf[i.doc] ELSE i.part IN
  CASE id = Conflict -> "OFFICIAL_CONTENT_CONFLICT"
    [] id = None -> "OFFICIAL_PARSE_ERROR"
    [] id \notin {Conflict, None} /\ part(id) # part(target) -> "OFFICIAL_IDENTIFIER_MISMATCH"
    [] OTHER -> NoFault

\* Whether the page is the one asked for; the name of the fault when not.
IdentityFault(id, target) ==
  IF id = Conflict THEN "OFFICIAL_CONTENT_CONFLICT"
  ELSE IF id = None THEN IF target.form = "partial" THEN "LEGACY_JUDGMENT_IDENTIFIER_UNRESOLVED"
                         ELSE "OFFICIAL_PARSE_ERROR"
  ELSE IF target.form = "jid" /\ id.form = "partial"
       THEN IF id.part = PartOf[target.doc] THEN "LEGACY_JUDGMENT_IDENTIFIER_AMBIGUOUS"
            ELSE "OFFICIAL_IDENTIFIER_MISMATCH"
  ELSE IF \/ target.form = id.form /\ id # target
          \/ target.form = "partial" /\ id.form = "jid" /\ PartOf[id.doc] # target.part
       THEN "OFFICIAL_IDENTIFIER_MISMATCH"
  ELSE NoFault

WrongKind(d) == call.ask.form = "formal" /\ call.ask.kind \notin {AnyKind, KindOf[d]}

PageAnswer(p) ==
  LET id == PageIdentity(p)
      fault == IdentityFault(id, call.target) IN
  IF p.text = "quotes" THEN Miss
  ELSE IF fault # NoFault THEN Error(fault)
  ELSE IF p.text = "missing" THEN Error("JUDGMENT_CONTENT_MISSING")
  ELSE IF p.text = "empty" THEN Error("JUDGMENT_TEXT_EMPTY")
  ELSE IF WrongKind(p.doc) THEN Error("OFFICIAL_IDENTIFIER_MISMATCH")
  ELSE IF p.text = "headings" /\ call.local THEN CandidateOnly
  ELSE Found(p.doc, id, "site")

\* The site may answer with a judgment other than the one asked for.
FetchDocument ==
  /\ call.step = "fetch"
  /\ \/ \E r \in NoPage \cup {"removed"} :
          /\ r \in {"missing", "removed"} => ~\E d \in published : Denotes(call.target, d)
          /\ Exchange(r) /\ Trouble(r)
          /\ Conclude(IF r \in {"missing", "removed"} THEN Miss ELSE Error(TransportCode(r)))
     \/ \E d \in published : \E p \in Pages(d) :
          /\ Exchange("page")
          /\ Trouble(IF PageAnswer(p).status = "error" THEN "unknown" ELSE "page")
          /\ Conclude(PageAnswer(p))
  /\ SiteSame

-----------------------------------------------------------------------------
(* A search: the form with its tokens, its submission, the list.           *)

OpenForm ==
  /\ call.step = "form"
  /\ \E r \in NoPage \cup {"form", "unknown"} :
       /\ Exchange(r)
       /\ Trouble(r)
       /\ CASE r = "form" -> Goto("submit")
            [] r = "unknown" -> Conclude(Error("OFFICIAL_PARSE_ERROR"))
            [] OTHER -> Conclude(Error(TransportCode(r)))
  /\ SiteSame

SubmitForm ==
  /\ call.step = "submit"
  /\ \E r \in NoPage \cup ResultPages(published) :
       /\ Exchange(r)
       /\ Trouble(r)
       /\ AfterResult(r, \E t \in {Cardinality(published), -1} :
                           call' = [call EXCEPT !.step = "hits", !.total = t])
  /\ SiteSame

\* The result page of a search may show its hits itself, without a count.
ReadHitsAtOnce ==
  /\ call.step = "submit"
  /\ \E S \in Listings(published) : \E H \in (SUBSET S) \ {{}} :
       Cardinality(H) <= Limit /\ Conclude(Hits(H, FALSE))
  /\ Exchange("page") /\ UNCHANGED troubled /\ SiteSame

\* A variant for which no count is no more hits.
CountedOrSilent(total, H) == total <= Cardinality(H)

\* The site's count of all hits, when it gave one (-1: it did not), is met.
CountedAll(total, H) == total \in 0..Cardinality(H)

\* The first Limit hits; complete when the site counted no more than that.
ReadHits ==
  /\ call.step = "hits"
  /\ \/ \E r \in NoPage :
          Exchange(r) /\ Trouble(r) /\ Conclude(Error(TransportCode(r)))
     \/ \E p \in ListPages(published) :
          /\ Exchange("page")
          /\ Trouble(p[1])
          /\ CASE p[1] \in {"unknown", "changed"} -> Conclude(Error("OFFICIAL_PARSE_ERROR"))
               [] p[1] = "empty" -> Conclude(Miss)
               [] OTHER ->
                    \E H \in SUBSET p[2] :
                      /\ Cardinality(H) = Min({Limit, Cardinality(p[2])})
                      /\ Conclude(Hits(H, CountedAll(call.total, H)))
  /\ SiteSame

-----------------------------------------------------------------------------
(* The end of a call (budget.py).                                          *)

\* The budget is checked once more before an answer is handed out.
HandedOut(ask, res) == IF exhausted THEN Stopped(ask) ELSE [of |-> ask, got |-> res]

Return ==
  /\ call.step = "done"
  /\ answer' = HandedOut(call.ask, call.result)
  /\ call' = NoCall
  /\ UNCHANGED <<portal, published, spent, exhausted, throughout, grew, troubled>>

\* The deadline passes during a call: it is cancelled where it is.
TimeOut ==
  /\ call.step # "idle"
  /\ exhausted' = TRUE
  /\ answer' = Stopped(call.ask)
  /\ call' = NoCall
  /\ UNCHANGED <<portal, published, spent, throughout, grew, troubled>>

\* The next run has a budget of its own.
NextBudget ==
  /\ call.step = "idle" /\ exhausted
  /\ spent' = 0 /\ exhausted' = FALSE /\ answer' = NoAnswer
  /\ UNCHANGED <<portal, published, call, throughout, grew, troubled>>

-----------------------------------------------------------------------------
(* The website changes.                                                    *)

Publish(d) ==
  /\ d \notin published
  /\ published' = published \cup {d} /\ grew' = TRUE
  /\ UNCHANGED <<portal, call, answer, spent, exhausted, throughout, troubled>>

Withdraw(d) ==
  /\ d \in published
  /\ published' = published \ {d} /\ throughout' = throughout \ {d}
  /\ UNCHANGED <<portal, call, answer, spent, exhausted, grew, troubled>>

SiteInit ==
  /\ portal \in BOOLEAN
  /\ published \in SUBSET Docs
  /\ call = NoCall /\ answer = NoAnswer
  /\ spent = 0 /\ exhausted = FALSE
  /\ throughout = {} /\ grew = FALSE /\ troubled = FALSE

Answering ==
  \/ Lookup \/ Search \/ LocalLookup \/ LocalSearch \/ RefuseIdentifier \/ UseIdentifier
  \/ ResolveCitation \/ ReadCitationList \/ FetchDocument
  \/ OpenForm \/ SubmitForm \/ ReadHits \/ ReadHitsAtOnce
  \/ Return \/ TimeOut \/ NextBudget

\* The site changes only while a call is in progress: a change between two
\* calls is one of the initial states of the second.
SiteNext == Answering \/ (call.step # "idle" /\ \E d \in Docs : Publish(d) \/ Withdraw(d))

SiteSpec == SiteInit /\ [][SiteNext]_siteVars

-----------------------------------------------------------------------------
(* Properties                                                              *)

Results == {"none", "stopped", "error", "not_found", "found", "partial", "hits", "local hits"}

\* Every variable has its type.
SiteTypeOK ==
  /\ portal \in BOOLEAN /\ published \subseteq Docs /\ throughout \subseteq Docs
  /\ call.step \in {"idle", "local", "resolve", "list", "fetch", "form", "submit", "hits", "done"}
  /\ answer.got.status \in Results
  /\ spent \in 0..Requests /\ {exhausted, grew, troubled} \subseteq BOOLEAN

\* A judgment is only ever returned for an identifier or a citation that
\* denotes it, whatever page the website answers with and whatever it
\* publishes or withdraws between the requests of the lookup.
FoundIsAsked ==
  answer.got.status = "found" => Denotes(answer.of, answer.got.doc)

\* "Not found" is what the website said, never what was made of a failed,
\* blocked or unreadable request on the way; and the end of the request budget
\* stops the call, it is not reported as an outage, a parse error or a miss.
CauseIsKept ==
  /\ answer.got.status = "not_found" => ~troubled
  /\ answer.got.status \notin {"none", "stopped"} => ~exhausted

\* A search that claims complete coverage shows every judgment that was
\* published all the time, unless one was added while it was under way.
CompleteSearch ==
  answer.got.status = "hits" /\ answer.got.complete =>
    throughout \subseteq answer.got.docs \/ grew

=============================================================================
