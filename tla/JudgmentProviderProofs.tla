----------------------- MODULE JudgmentProviderProofs -----------------------
(***************************************************************************)
(* Proofs about JudgmentProvider for any judgments and identifiers, any    *)
(* page size, limit and budget.                                            *)
(*                                                                         *)
(* A call carries three things from request to request: which judgment it  *)
(* is after (TargetOK), how many hits the site counted when it was asked   *)
(* (CountOK), and that no request has gone wrong so far (Quiet).  Each     *)
(* result is good for the question when the call ends (GoodResult), and    *)
(* stays so until it is handed out although the site goes on changing.     *)
(***************************************************************************)
EXTENDS JudgmentProvider, FiniteSetTheorems, TLAPS

ActiveSteps == {"local", "resolve", "list", "fetch", "form", "submit", "hits"}
Active == call.step \in ActiveSteps
ActiveFields == {"step", "ask", "target", "local", "total"}

Types ==
  /\ portal \in BOOLEAN /\ published \subseteq Docs /\ throughout \subseteq published
  /\ spent \in 0..Requests
  /\ exhausted \in BOOLEAN /\ grew \in BOOLEAN /\ troubled \in BOOLEAN
  /\ call.step \in ActiveSteps \cup {"idle", "done"}
  /\ Active => DOMAIN call = ActiveFields
  /\ call.step # "idle" => answer = NoAnswer
  /\ answer.got.status \in Results

Quiet == Active => ~troubled

\* The judgment that is fetched is one that was asked for.
TargetOK ==
  /\ call.step \in {"local", "resolve"} => call.target = Target(call.ask)
  /\ call.step = "fetch" =>
       /\ call.target.form \in {"jid", "partial"}
       /\ \A d \in Docs : Denotes(call.target, d) => Denotes(call.ask, d)

\* The site's count was of at least what it publishes now.
CountOK ==
  call.step = "hits" =>
    grew \/ call.total = -1 \/ (call.total \in Nat /\ Cardinality(published) <= call.total)

GoodResult(ask, a) ==
  /\ a.status \in Results
  /\ a.status = "found" => Denotes(ask, a.doc)
  /\ a.status = "not_found" => ~troubled
  /\ a.status = "hits" /\ a.complete => throughout \subseteq a.docs \/ grew

DoneOK == call.step = "done" => GoodResult(call.ask, call.result)

SiteInv == Types /\ Quiet /\ TargetOK /\ CountOK /\ DoneOK /\ FoundIsAsked /\ CauseIsKept /\ CompleteSearch

-----------------------------------------------------------------------------
LEMMA Constants == IsFiniteSet(Docs) /\ Requests \in Nat /\ PageSize \in Nat /\ Limit \in Nat
  BY JudgmentProviderAssumption

\* Nothing is answered yet.
LEMMA NoAnswerSafe ==
  answer = NoAnswer => FoundIsAsked /\ CauseIsKept /\ CompleteSearch /\ answer.got.status = "none"
  BY DEF NoAnswer, FoundIsAsked, CauseIsKept, CompleteSearch

LEMMA NoAnswerSafeNext ==
  answer' = NoAnswer => FoundIsAsked' /\ CauseIsKept' /\ CompleteSearch' /\ answer'.got.status = "none"
  BY DEF NoAnswer, FoundIsAsked, CauseIsKept, CompleteSearch

LEMMA SiteInitSafe == SiteInit => SiteInv
  <1> SUFFICES ASSUME SiteInit PROVE SiteInv
    OBVIOUS
  <1>1. /\ portal \in BOOLEAN /\ published \subseteq Docs /\ answer = NoAnswer
        /\ call.step = "idle" /\ spent = 0 /\ exhausted = FALSE
        /\ throughout = {} /\ grew = FALSE /\ troubled = FALSE
    BY DEF SiteInit, NoCall
  <1>2. Types
    <2>1. throughout \subseteq published /\ spent \in 0..Requests
      BY <1>1, Constants
    <2>2. call.step \in ActiveSteps \cup {"idle", "done"} /\ ~Active
      BY <1>1 DEF Active, ActiveSteps
    <2>3. answer.got.status \in Results
      BY <1>1, NoAnswerSafe DEF Results
    <2>4. QED
      BY <1>1, <2>1, <2>2, <2>3 DEF Types
  <1>3. Quiet /\ TargetOK /\ CountOK /\ DoneOK
    BY <1>1 DEF Quiet, TargetOK, CountOK, DoneOK, Active, ActiveSteps
  <1>4. QED
    BY <1>1, <1>2, <1>3, NoAnswerSafe DEF SiteInv

-----------------------------------------------------------------------------
\* What one request may do to the budget and to the record of its troubles.
Charged == spent' \in 0..Requests /\ exhausted' \in BOOLEAN /\ troubled' \in BOOLEAN

LEMMA ExchangeCharges ==
  ASSUME SiteInv, NEW r, Exchange(r)
  PROVE  spent' \in 0..Requests /\ exhausted' \in BOOLEAN
  <1>1. spent \in 0..Requests /\ exhausted \in BOOLEAN /\ Requests \in Nat
    BY Constants DEF SiteInv, Types
  <1>2. CASE /\ \E h \in 1..MaxHops : spent + h <= Requests /\ spent' = spent + h
             /\ UNCHANGED exhausted
    BY <1>1, <1>2 DEF MaxHops
  <1>3. CASE spent' = Requests /\ exhausted' = TRUE
    BY <1>1, <1>3
  <1>4. QED
    BY <1>2, <1>3 DEF Exchange

LEMMA TroubleIs ==
  ASSUME NEW r, Trouble(r)
  PROVE  /\ troubled' \in BOOLEAN
         /\ r \notin {"failed", "blocked", "garbled", "unknown", "changed"} /\ ~troubled => ~troubled'
  BY DEF Trouble

\* A request after which the call goes on.
LEMMA OnwardSafe ==
  ASSUME SiteInv, Active, SiteSame, Charged, ~troubled',
         call'.step \in ActiveSteps, DOMAIN call' = ActiveFields, TargetOK', CountOK'
  PROVE  SiteInv'
  <1>1. answer' = NoAnswer
    BY DEF SiteSame, SiteInv, Types, Active, ActiveSteps
  <1>2. Types'
    BY <1>1, NoAnswerSafeNext DEF SiteSame, Charged, SiteInv, Types, Active, Results
  <1>3. Quiet' /\ DoneOK'
    BY DEF Quiet, DoneOK, ActiveSteps
  <1>4. QED
    BY <1>1, <1>2, <1>3, NoAnswerSafeNext DEF SiteInv

\* A request after which the call has its result.
LEMMA ConcludeSafe ==
  ASSUME SiteInv, Active, SiteSame, Charged, NEW a, Conclude(a), GoodResult(call.ask, a)'
  PROVE  SiteInv'
  <1>1. answer' = NoAnswer /\ call'.step = "done" /\ call'.ask = call.ask /\ call'.result = a
    BY DEF SiteSame, SiteInv, Types, Active, ActiveSteps, Conclude
  <1>2. Types'
    BY <1>1, NoAnswerSafeNext DEF SiteSame, Charged, SiteInv, Types, Active, ActiveSteps, Results
  <1>3. Quiet' /\ TargetOK' /\ CountOK' /\ DoneOK'
    BY <1>1 DEF Quiet, TargetOK, CountOK, DoneOK, GoodResult, Active, ActiveSteps
  <1>4. QED
    BY <1>1, <1>2, <1>3, NoAnswerSafeNext DEF SiteInv

LEMMA ErrorIsGood == \A ask, code : GoodResult(ask, Error(code))'
  BY DEF GoodResult, Error, Results

LEMMA MissIsGood == ~troubled' => \A ask : GoodResult(ask, Miss)'
  BY DEF GoodResult, Miss, Results

-----------------------------------------------------------------------------
LEMMA StartSafe ==
  ASSUME SiteInv, NEW ask, StartCall(ask)
  PROVE  SiteInv'
  <1> DEFINE step == IF portal /\ ask # NoTerm THEN "local" ELSE IF ask = Keyword THEN "form"
                       ELSE IF ask = CaseWord THEN "submit" ELSE "resolve"
  <1>1. /\ call' = [step |-> step, ask |-> ask, target |-> Target(ask), local |-> FALSE, total |-> 0]
        /\ answer' = NoAnswer /\ throughout' = published /\ grew' = FALSE /\ troubled' = FALSE
        /\ UNCHANGED <<portal, published, spent, exhausted>>
    BY DEF StartCall
  <1>2. step \in {"local", "form", "submit", "resolve"}
    OBVIOUS
  <1> HIDE DEF step
  <1>3. /\ call'.step = step /\ call'.ask = ask /\ call'.target = Target(ask)
        /\ DOMAIN call' = ActiveFields
    BY <1>1 DEF ActiveFields
  <1>4. answer'.got.status = "none"
    BY <1>1 DEF NoAnswer
  <1>5. Types'
    BY <1>1, <1>2, <1>3, <1>4 DEF SiteInv, Types, Active, ActiveSteps, Results
  <1>6. Quiet' /\ TargetOK' /\ CountOK' /\ DoneOK'
    BY <1>1, <1>2, <1>3 DEF Quiet, TargetOK, CountOK, DoneOK
  <1>7. QED
    BY <1>1, <1>5, <1>6, NoAnswerSafeNext DEF SiteInv

\* The portal, an identifier that is refused or used: no request is made.
LEMMA Free ==
  ASSUME SiteInv, Active, UNCHANGED <<spent, exhausted, troubled>>
  PROVE  Charged /\ ~troubled'
  BY DEF SiteInv, Types, Quiet, Charged

LEMMA LocalLookupSafe == SiteInv /\ LocalLookup => SiteInv'
  <1> SUFFICES ASSUME SiteInv, LocalLookup PROVE SiteInv'
    OBVIOUS
  <1>1. call.step = "local" /\ UNCHANGED <<spent, exhausted, troubled>> /\ SiteSame /\ Active
    BY DEF LocalLookup, Active, ActiveSteps
  <1>2. Charged /\ ~troubled'
    BY <1>1, Free
  <1>3. call.target = Target(call.ask) /\ DOMAIN call = ActiveFields
    BY <1>1 DEF SiteInv, TargetOK, Types
  <1>4. ASSUME NEW d \in Docs, call.target # None, Denotes(call.target, d), LocalSnapshot(d)
        PROVE  SiteInv'
    <2>1. call.target = call.ask
      BY <1>3, <1>4 DEF Target
    <2>2. PICK a : a = Found(d, Jid(d), "portal")
      OBVIOUS
    <2>3. a.status = "found" /\ a.doc = d
      BY <2>2 DEF Found
    <2>4. Conclude(a)
      BY <1>4, <2>2 DEF LocalSnapshot
    <2>5. call'.ask = call.ask
      BY <2>4 DEF Conclude
    <2>6. GoodResult(call.ask, a)'
      BY <1>4, <2>1, <2>3, <2>5 DEF GoodResult, Results
    <2>7. QED
      BY <1>1, <1>2, <2>4, <2>6, ConcludeSafe
  <1>5. ASSUME NEW c \in BOOLEAN, call' = [call EXCEPT !.step = "resolve", !.local = c]
        PROVE  SiteInv'
    <2>1. /\ call'.step = "resolve" /\ call'.ask = call.ask /\ call'.target = call.target
          /\ DOMAIN call' = ActiveFields
      BY <1>3, <1>5 DEF ActiveFields
    <2>2. TargetOK' /\ CountOK'
      BY <1>3, <2>1 DEF TargetOK, CountOK
    <2>3. QED
      BY <1>1, <1>2, <2>1, <2>2, OnwardSafe DEF ActiveSteps
  <1>6. QED
    BY <1>4, <1>5 DEF LocalLookup

LEMMA LocalSearchSafe == SiteInv /\ LocalSearch => SiteInv'
  <1> SUFFICES ASSUME SiteInv, LocalSearch PROVE SiteInv'
    OBVIOUS
  <1>1. UNCHANGED <<spent, exhausted, troubled>> /\ SiteSame /\ Active
    BY DEF LocalSearch, Active, ActiveSteps
  <1>2. Charged
    BY <1>1, Free
  <1>a. \A code : Error(code).status = "error"
    BY DEF Error
  <1>b. \A H, c : [Hits(H, c) EXCEPT !.status = "local hits"].status = "local hits"
    BY DEF Hits
  <1>3. PICK a : Conclude(a) /\ a.status \in {"error", "local hits"}
    <2>1. CASE \E code \in {"EXTERNAL_PROVIDER_UNAVAILABLE", "EXTERNAL_PROVIDER_SCHEMA_CHANGED"} :
                 Conclude(Error(code))
      BY <1>a, <2>1
    <2>2. CASE \E H \in SUBSET Docs, c \in BOOLEAN :
                 Conclude([Hits(H, c) EXCEPT !.status = "local hits"])
      BY <1>b, <2>2
    <2>3. QED
      BY <2>1, <2>2 DEF LocalSearch
  <1>4. GoodResult(call.ask, a)'
    BY <1>3 DEF GoodResult, Results
  <1>5. QED
    BY <1>1, <1>2, <1>3, <1>4, ConcludeSafe

LEMMA RefuseSafe == SiteInv /\ RefuseIdentifier => SiteInv'
  <1> SUFFICES ASSUME SiteInv, RefuseIdentifier PROVE SiteInv'
    OBVIOUS
  <1>1. UNCHANGED <<spent, exhausted, troubled>> /\ SiteSame /\ Active
    BY DEF RefuseIdentifier, Active, ActiveSteps
  <1>2. Conclude(Error("INVALID_IDENTIFIER"))
    BY DEF RefuseIdentifier
  <1>3. QED
    BY <1>1, <1>2, Free, ErrorIsGood, ConcludeSafe

LEMMA UseIdentifierSafe == SiteInv /\ UseIdentifier => SiteInv'
  <1> SUFFICES ASSUME SiteInv, UseIdentifier PROVE SiteInv'
    OBVIOUS
  <1>1. /\ call.step = "resolve" /\ call.target # None /\ Goto("fetch")
        /\ UNCHANGED <<spent, exhausted, troubled>> /\ SiteSame /\ Active
    BY DEF UseIdentifier, Active, ActiveSteps
  <1>2. call.target = Target(call.ask) /\ DOMAIN call = ActiveFields
    BY <1>1 DEF SiteInv, TargetOK, Types
  <1>3. call.target = call.ask /\ call.ask.form \in {"jid", "partial"}
    BY <1>1, <1>2 DEF Target
  <1>4. /\ call'.step = "fetch" /\ call'.ask = call.ask /\ call'.target = call.target
        /\ DOMAIN call' = ActiveFields
    BY <1>1, <1>2 DEF Goto, ActiveFields
  <1>5. TargetOK' /\ CountOK'
    BY <1>3, <1>4 DEF TargetOK, CountOK
  <1>6. QED
    BY <1>1, <1>4, <1>5, Free, OnwardSafe DEF ActiveSteps

-----------------------------------------------------------------------------
\* The first page of a result that leads nowhere: what is said is its cause.
LEMMA AfterResultSafe ==
  ASSUME SiteInv, Active, SiteSame, NEW r, Exchange(r), Trouble(r),
         r \in NoPage \cup {"empty", "unknown"}, AfterResult(r, FALSE)
  PROVE  SiteInv'
  <1>1. Charged
    BY ExchangeCharges, TroubleIs DEF Charged
  <1>2. CASE r = "empty"
    <2>1. Conclude(Miss)
      BY <1>2 DEF AfterResult, NoPage
    <2>2. ~troubled'
      BY <1>2, TroubleIs DEF SiteInv, Quiet
    <2>3. QED
      BY <1>1, <2>1, <2>2, MissIsGood, ConcludeSafe
  <1>3. CASE r # "empty"
    <2>1. PICK code : Conclude(Error(code))
      BY <1>3 DEF AfterResult, NoPage
    <2>2. QED
      BY <1>1, <2>1, ErrorIsGood, ConcludeSafe
  <1>4. QED
    BY <1>2, <1>3

LEMMA ResultPagesAre == \A M : ResultPages(M) \subseteq {"ref", "empty", "unknown"}
  BY DEF ResultPages

LEMMA ResolveSafe == SiteInv /\ ResolveCitation => SiteInv'
  <1> SUFFICES ASSUME SiteInv, ResolveCitation PROVE SiteInv'
    OBVIOUS
  <1>1. call.step = "resolve" /\ SiteSame /\ Active
    BY DEF ResolveCitation, Active, ActiveSteps
  <1>2. PICK M \in Listed : \E r \in NoPage \cup ResultPages(M) :
          Exchange(r) /\ Trouble(r) /\ AfterResult(r, Goto("list"))
    BY Zenon DEF ResolveCitation
  <1>3. PICK r \in NoPage \cup ResultPages(M) :
          Exchange(r) /\ Trouble(r) /\ AfterResult(r, Goto("list"))
    BY <1>2, Zenon
  <1>4. r \in NoPage \cup {"ref", "empty", "unknown"}
    BY ResultPagesAre
  <1>5. CASE r # "ref"
    <2>1. AfterResult(r, FALSE)
      BY <1>3, <1>4, <1>5 DEF AfterResult, NoPage
    <2>2. QED
      BY <1>1, <1>3, <1>4, <1>5, <2>1, AfterResultSafe
  <1>6. CASE r = "ref"
    <2>1. Goto("list")
      BY <1>3, <1>6 DEF AfterResult, NoPage
    <2>2. Charged /\ ~troubled'
      BY <1>1, <1>3, <1>6, ExchangeCharges, TroubleIs DEF Charged, SiteInv, Quiet
    <2>3. call'.step = "list" /\ DOMAIN call' = ActiveFields
      BY <1>1, <2>1 DEF Goto, SiteInv, Types, ActiveFields
    <2>4. TargetOK' /\ CountOK'
      BY <2>3 DEF TargetOK, CountOK
    <2>5. QED
      BY <1>1, <2>2, <2>3, <2>4, OnwardSafe DEF ActiveSteps
  <1>7. QED
    BY <1>5, <1>6

\* A result that is only an error, for a request that was not answered.
LEMMA UnansweredSafe ==
  ASSUME SiteInv, Active, SiteSame, NEW r, Exchange(r), Trouble(r), NEW code, Conclude(Error(code))
  PROVE  SiteInv'
  <1>1. Charged
    BY ExchangeCharges, TroubleIs DEF Charged
  <1>2. QED
    BY <1>1, ErrorIsGood, ConcludeSafe

LEMMA ListPagesAre ==
  ASSUME NEW M, NEW p \in ListPages(M)
  PROVE  \/ p[1] = "empty" /\ M = {} /\ p[2] = {}
         \/ p[1] \in {"unknown", "changed"}
         \/ p[1] = "hits" /\ p[2] \subseteq M
  BY DEF ListPages, Listings

LEMMA ReadCitationListSafe == SiteInv /\ ReadCitationList => SiteInv'
  <1> SUFFICES ASSUME SiteInv, ReadCitationList PROVE SiteInv'
    OBVIOUS
  <1>1. call.step = "list" /\ SiteSame /\ Active /\ DOMAIN call = ActiveFields
    BY DEF ReadCitationList, Active, ActiveSteps, SiteInv, Types
  <1>2. ASSUME NEW r \in NoPage, Exchange(r), Trouble(r), Conclude(Error(TransportCode(r)))
        PROVE  SiteInv'
    BY <1>1, <1>2, UnansweredSafe
  <1>3. ASSUME NEW M \in Listed, NEW p \in ListPages(M), Exchange("page"), Trouble(p[1]),
               IF p[1] \in {"unknown", "changed"}
               THEN Conclude(Error("OFFICIAL_PARSE_ERROR"))
               ELSE Resolved(p[2])
        PROVE  SiteInv'
    <2>1. Charged
      BY <1>3, ExchangeCharges, TroubleIs DEF Charged
    <2>2. CASE Conclude(Error("OFFICIAL_PARSE_ERROR")) \/ Conclude(Error("AMBIGUOUS_FORMAL_CITATION"))
      BY <1>1, <2>1, <2>2, ErrorIsGood, ConcludeSafe
    <2>3. CASE p[1] \notin {"unknown", "changed"} /\ Resolved(p[2])
      <3> DEFINE U == {d \in p[2] : Denotes(call.ask, d)}
      <3>1. ~troubled'
        BY <1>1, <1>3, <2>3, ListPagesAre, TroubleIs DEF SiteInv, Quiet
      <3>2. M \subseteq Docs /\ p[2] \subseteq M
        BY <2>3, ListPagesAre DEF Listed, SiteInv, Types
      <3>3. IsFiniteSet(U) /\ U \subseteq Docs
        BY <3>2, Constants, FS_Subset
      <3>4. CASE Cardinality(U) = 1 /\ call' = [call EXCEPT !.step = "fetch",
                                                  !.target = Jid(CHOOSE d \in U : TRUE)]
        <4> DEFINE e == CHOOSE d \in U : TRUE
        <4>1. U # {}
          BY <3>3, <3>4, FS_EmptySet
        <4>2. e \in U
          BY <4>1
        <4>3. e \in Docs /\ Denotes(call.ask, e)
          BY <3>3, <4>2
        <4> HIDE DEF e
        <4>4. /\ call'.step = "fetch" /\ call'.target = Jid(e) /\ call'.ask = call.ask
              /\ DOMAIN call' = ActiveFields
          BY <1>1, <3>4 DEF ActiveFields, e
        <4>5. Jid(e).form = "jid" /\ \A d : Denotes(Jid(e), d) => d = e
          BY DEF Jid, Denotes
        <4>6. TargetOK' /\ CountOK'
          BY <4>3, <4>4, <4>5 DEF TargetOK, CountOK
        <4>7. QED
          BY <1>1, <2>1, <3>1, <4>4, <4>6, OnwardSafe DEF ActiveSteps
      <3>5. CASE Conclude(Miss)
        BY <1>1, <2>1, <3>1, <3>5, MissIsGood, ConcludeSafe
      <3>6. QED
        BY <2>2, <2>3, <3>4, <3>5 DEF Resolved
    <2>4. QED
      BY <1>3, <2>2, <2>3
  <1>4. QED
    BY <1>2, <1>3 DEF ReadCitationList

-----------------------------------------------------------------------------
\* What a page without a fault shows is what was fetched.
LEMMA PairsAre ==
  ASSUME NEW x, NEW y
  PROVE  /\ IsFiniteSet({x, y})
         /\ x # y => Cardinality({x, y}) = 2
  <1>1. IsFiniteSet({x}) /\ Cardinality({x}) = 1
    BY FS_Singleton
  <1>2. {x, y} = {x} \cup {y}
    OBVIOUS
  <1>3. /\ IsFiniteSet({x} \cup {y})
        /\ Cardinality({x} \cup {y}) = IF y \in {x} THEN Cardinality({x}) ELSE Cardinality({x}) + 1
    BY <1>1, FS_AddElement
  <1>4. x # y => y \notin {x}
    OBVIOUS
  <1>5. x # y => Cardinality({x} \cup {y}) = 2
    BY <1>1, <1>3, <1>4
  <1>6. QED
    BY <1>2, <1>3, <1>5

\* A set that is empty, one element, or that and another.
LEMMA SmallSets ==
  ASSUME NEW x, NEW S, S = {} \/ S = {x} \/ \E y : S = {x, y}
  PROVE  /\ IsFiniteSet(S) /\ Cardinality(S) \in Nat
         /\ ~(Cardinality(S) > 1) => S = {} \/ S = {x}
  <1>1. CASE S = {}
    <2>1. IsFiniteSet(S) /\ Cardinality(S) = 0
      BY <1>1, FS_EmptySet
    <2>2. QED
      BY <1>1, <2>1
  <1>2. CASE S = {x}
    <2>1. IsFiniteSet(S) /\ Cardinality(S) = 1
      BY <1>2, FS_Singleton
    <2>2. QED
      BY <1>2, <2>1
  <1>3. ASSUME NEW y, S = {x, y}, x # y
        PROVE  IsFiniteSet(S) /\ Cardinality(S) = 2
    BY <1>3, PairsAre
  <1>4. CASE S # {} /\ S # {x}
    <2>1. PICK y : S = {x, y}
      BY <1>4
    <2>2. x # y
      BY <1>4, <2>1
    <2>3. IsFiniteSet(S) /\ Cardinality(S) = 2
      BY <1>3, <2>1, <2>2
    <2>4. QED
      BY <2>3
  <1>5. QED
    BY <1>1, <1>2, <1>4

LEMMA IdentityIs ==
  ASSUME NEW d \in Docs, NEW p \in Pages(d)
  PROVE  PageIdentity(p) \in {Conflict, None, Partial(PartOf[d]), Jid(d)} /\ p.doc = d
  <1>1. /\ p.doc = d
        /\ p.canon \in {{}, {d}} \cup {{d, e} : e \in Docs}
        /\ p.part \in {{}, {PartOf[d]}} \cup {{PartOf[d], PartOf[e]} : e \in Docs}
    BY DEF Pages
  <1>2. /\ p.canon = {} \/ p.canon = {d} \/ \E e : p.canon = {d, e}
        /\ p.part = {} \/ p.part = {PartOf[d]} \/ \E e : p.part = {PartOf[d], e}
    BY <1>1
  <1>3. CASE Cardinality(p.canon) > 1 \/ Cardinality(p.part) > 1
    <2>1. PageIdentity(p) = Conflict
      BY <1>3 DEF PageIdentity
    <2>2. QED
      BY <1>1, <2>1
  <1>4. CASE ~(Cardinality(p.canon) > 1 \/ Cardinality(p.part) > 1)
    <2>1. p.canon = {} \/ p.canon = {d}
      BY <1>2, <1>4, SmallSets
    <2>2. p.part = {} \/ p.part = {PartOf[d]}
      BY <1>2, <1>4, SmallSets
    <2>3. CASE p.canon = {}
      <3>1. PageIdentity(p) = IF p.part = {} THEN None ELSE Partial(CHOOSE q \in p.part : TRUE)
        BY <1>4, <2>3 DEF PageIdentity
      <3>2. p.part = {PartOf[d]} => (CHOOSE q \in p.part : TRUE) = PartOf[d]
        OBVIOUS
      <3>3. QED
        BY <1>1, <2>2, <3>1, <3>2
    <2>4. CASE p.canon = {d}
      <3>1. p.canon # {} /\ (CHOOSE q \in p.canon : TRUE) = d
        BY <2>4
      <3>2. PageIdentity(p) \in {Jid(d), Conflict}
        BY <1>4, <3>1 DEF PageIdentity
      <3>3. QED
        BY <1>1, <3>2
    <2>5. QED
      BY <2>1, <2>3, <2>4
  <1>5. QED
    BY <1>3, <1>4

LEMMA NoFaultIsTarget ==
  ASSUME NEW d \in Docs, NEW target, target.form \in {"jid", "partial"},
         NEW id \in {Conflict, None, Partial(PartOf[d]), Jid(d)}, IdentityFault(id, target) = NoFault
  PROVE  Denotes(target, d)
  BY DEF IdentityFault, Denotes, Conflict, None, Partial, Jid, NoFault

LEMMA PageAnswerIs ==
  ASSUME SiteInv, call.step = "fetch", NEW d \in Docs, NEW p \in Pages(d)
  PROVE  /\ PageAnswer(p).status \in {"not_found", "error", "partial", "found"}
         /\ PageAnswer(p).status = "found" => Denotes(call.ask, PageAnswer(p).doc)
  <1> DEFINE id == PageIdentity(p)
  <1>1. id \in {Conflict, None, Partial(PartOf[d]), Jid(d)} /\ p.doc = d
    BY IdentityIs
  <1> HIDE DEF id
  <1>2. /\ Miss.status = "not_found" /\ CandidateOnly.status = "partial"
        /\ \A code : Error(code).status = "error"
        /\ Found(p.doc, id, "site").status = "found" /\ Found(p.doc, id, "site").doc = d
    BY <1>1 DEF Miss, CandidateOnly, Error, Found
  <1>3. \/ PageAnswer(p).status \in {"not_found", "error", "partial"}
        \/ PageAnswer(p) = Found(p.doc, id, "site") /\ IdentityFault(id, call.target) = NoFault
    BY <1>2 DEF PageAnswer, id
  <1>4. IdentityFault(id, call.target) = NoFault => Denotes(call.ask, d)
    BY <1>1, NoFaultIsTarget DEF SiteInv, TargetOK
  <1>5. QED
    BY <1>2, <1>3, <1>4

LEMMA FetchSafe == SiteInv /\ FetchDocument => SiteInv'
  <1> SUFFICES ASSUME SiteInv, FetchDocument PROVE SiteInv'
    OBVIOUS
  <1>1. call.step = "fetch" /\ SiteSame /\ Active
    BY DEF FetchDocument, Active, ActiveSteps
  <1>2. ASSUME NEW r \in NoPage \cup {"removed"}, Exchange(r), Trouble(r),
               Conclude(IF r \in {"missing", "removed"} THEN Miss ELSE Error(TransportCode(r)))
        PROVE  SiteInv'
    <2>1. CASE r \in {"missing", "removed"}
      <3>1. Charged /\ ~troubled' /\ Conclude(Miss)
        BY <1>1, <1>2, <2>1, ExchangeCharges, TroubleIs DEF Charged, SiteInv, Quiet
      <3>2. QED
        BY <1>1, <3>1, MissIsGood, ConcludeSafe
    <2>2. CASE r \notin {"missing", "removed"}
      BY <1>1, <1>2, <2>2, UnansweredSafe
    <2>3. QED
      BY <2>1, <2>2
  <1>3. ASSUME NEW d \in published, NEW p \in Pages(d), Exchange("page"),
               Trouble(IF PageAnswer(p).status = "error" THEN "unknown" ELSE "page"),
               Conclude(PageAnswer(p))
        PROVE  SiteInv'
    <2>1. PICK a : a = PageAnswer(p)
      OBVIOUS
    <2>2. d \in Docs
      BY DEF SiteInv, Types
    <2>3. /\ a.status \in {"not_found", "error", "partial", "found"}
          /\ a.status = "found" => Denotes(call.ask, a.doc)
      BY <1>1, <2>1, <2>2, PageAnswerIs
    <2>4. Charged
      BY <1>3, ExchangeCharges, TroubleIs DEF Charged
    <2>5. a.status = "not_found" => ~troubled'
      BY <1>1, <1>3, <2>1, TroubleIs DEF SiteInv, Quiet
    <2>6. Conclude(a) /\ call'.ask = call.ask
      BY <1>3, <2>1 DEF Conclude
    <2>7. GoodResult(call.ask, a)'
      BY <2>3, <2>5, <2>6 DEF GoodResult, Results
    <2>8. QED
      BY <1>1, <2>4, <2>6, <2>7, ConcludeSafe
  <1>4. QED
    BY <1>2, <1>3 DEF FetchDocument

-----------------------------------------------------------------------------
LEMMA OpenFormSafe == SiteInv /\ OpenForm => SiteInv'
  <1> SUFFICES ASSUME SiteInv, OpenForm PROVE SiteInv'
    OBVIOUS
  <1>1. call.step = "form" /\ SiteSame /\ Active
    BY DEF OpenForm, Active, ActiveSteps
  <1>2. PICK r \in NoPage \cup {"form", "unknown"} :
          /\ Exchange(r) /\ Trouble(r)
          /\ \/ r = "form" /\ Goto("submit")
             \/ \E code : Conclude(Error(code))
    BY DEF OpenForm, NoPage
  <1>3. CASE \E code : Conclude(Error(code))
    BY <1>1, <1>2, <1>3, UnansweredSafe
  <1>4. CASE r = "form" /\ Goto("submit")
    <2>1. Charged /\ ~troubled'
      BY <1>1, <1>2, <1>4, ExchangeCharges, TroubleIs DEF Charged, SiteInv, Quiet
    <2>2. call'.step = "submit" /\ DOMAIN call' = ActiveFields
      BY <1>1, <1>4 DEF Goto, SiteInv, Types, ActiveFields
    <2>3. TargetOK' /\ CountOK'
      BY <2>2 DEF TargetOK, CountOK
    <2>4. QED
      BY <1>1, <2>1, <2>2, <2>3, OnwardSafe DEF ActiveSteps
  <1>5. QED
    BY <1>2, <1>3, <1>4

LEMMA PublishedFinite ==
  ASSUME SiteInv
  PROVE  IsFiniteSet(published) /\ Cardinality(published) \in Nat
  BY Constants, FS_Subset, FS_CardinalityType DEF SiteInv, Types

LEMMA SubmitSafe == SiteInv /\ SubmitForm => SiteInv'
  <1> SUFFICES ASSUME SiteInv, SubmitForm PROVE SiteInv'
    OBVIOUS
  <1>1. call.step = "submit" /\ SiteSame /\ Active
    BY DEF SubmitForm, Active, ActiveSteps
  <1> DEFINE Counted == \E t \in {Cardinality(published), -1} :
                          call' = [call EXCEPT !.step = "hits", !.total = t]
  <1>2. \E r \in NoPage \cup ResultPages(published) : Exchange(r) /\ Trouble(r) /\ AfterResult(r, Counted)
    BY Zenon DEF SubmitForm
  <1> HIDE DEF Counted
  <1>3. PICK r \in NoPage \cup ResultPages(published) :
          Exchange(r) /\ Trouble(r) /\ AfterResult(r, Counted)
    BY <1>2, Zenon
  <1>4. r \in NoPage \cup {"ref", "empty", "unknown"}
    BY ResultPagesAre
  <1>5. CASE r # "ref"
    <2>1. AfterResult(r, FALSE)
      BY <1>3, <1>4, <1>5 DEF AfterResult, NoPage
    <2>2. QED
      BY <1>1, <1>3, <1>4, <1>5, <2>1, AfterResultSafe
  <1>6. CASE r = "ref"
    <2>1. Counted
      BY <1>3, <1>6 DEF AfterResult, NoPage
    <2>2. PICK t \in {Cardinality(published), -1} : call' = [call EXCEPT !.step = "hits", !.total = t]
      BY <2>1 DEF Counted
    <2>3. Charged /\ ~troubled'
      BY <1>1, <1>3, <1>6, ExchangeCharges, TroubleIs DEF Charged, SiteInv, Quiet
    <2>4. call'.step = "hits" /\ call'.total = t /\ DOMAIN call' = ActiveFields
      BY <1>1, <2>2 DEF SiteInv, Types, ActiveFields
    <2>5. published' = published
      BY <1>1 DEF SiteSame
    <2>6. TargetOK' /\ CountOK'
      BY <2>4, <2>5, PublishedFinite DEF TargetOK, CountOK
    <2>7. QED
      BY <1>1, <2>3, <2>4, <2>6, OnwardSafe DEF ActiveSteps
  <1>7. QED
    BY <1>5, <1>6

LEMMA HitsAre ==
  ASSUME NEW H, NEW c
  PROVE  Hits(H, c).status = "hits" /\ Hits(H, c).docs = H /\ Hits(H, c).complete = c
  BY DEF Hits

LEMMA AtOnceSafe == SiteInv /\ ReadHitsAtOnce => SiteInv'
  <1> SUFFICES ASSUME SiteInv, ReadHitsAtOnce PROVE SiteInv'
    OBVIOUS
  <1>1. SiteSame /\ Active /\ Exchange("page") /\ troubled' = troubled
    BY DEF ReadHitsAtOnce, Active, ActiveSteps
  <1>2. PICK H : Conclude(Hits(H, FALSE))
    BY DEF ReadHitsAtOnce
  <1>3. PICK a : a = Hits(H, FALSE)
    OBVIOUS
  <1>4. a.status = "hits" /\ ~a.complete
    BY <1>3, HitsAre
  <1>5. Charged
    BY <1>1, ExchangeCharges DEF Charged, SiteInv, Types
  <1>6. GoodResult(call.ask, a)'
    BY <1>4 DEF GoodResult, Results
  <1>7. QED
    BY <1>1, <1>2, <1>3, <1>5, <1>6, ConcludeSafe

\* What is complete by the site's count is all that has been published since.
LEMMA CountedIsAll ==
  ASSUME SiteInv, call.step = "hits", NEW H \in SUBSET published, CountedAll(call.total, H)
  PROVE  throughout \subseteq H \/ grew
  <1>1. IsFiniteSet(published) /\ Cardinality(published) \in Nat
    BY PublishedFinite
  <1>2. IsFiniteSet(H) /\ Cardinality(H) <= Cardinality(published)
        /\ (Cardinality(published) = Cardinality(H) => published = H)
    BY <1>1, FS_Subset
  <1>3. Cardinality(H) \in Nat
    BY <1>2, FS_CardinalityType
  <1>4. call.total \in Nat /\ call.total <= Cardinality(H)
    BY <1>3 DEF CountedAll
  <1>5. grew \/ Cardinality(published) <= call.total
    BY <1>4 DEF SiteInv, CountOK
  <1>6. QED
    BY <1>1, <1>2, <1>3, <1>4, <1>5 DEF SiteInv, Types

LEMMA ReadHitsSafe == SiteInv /\ ReadHits => SiteInv'
  <1> SUFFICES ASSUME SiteInv, ReadHits PROVE SiteInv'
    OBVIOUS
  <1>1. call.step = "hits" /\ SiteSame /\ Active
    BY DEF ReadHits, Active, ActiveSteps
  <1>2. ASSUME NEW r \in NoPage, Exchange(r), Trouble(r), Conclude(Error(TransportCode(r)))
        PROVE  SiteInv'
    BY <1>1, <1>2, UnansweredSafe
  <1>3. ASSUME NEW p \in ListPages(published), Exchange("page"), Trouble(p[1]),
               \/ p[1] \in {"unknown", "changed"} /\ Conclude(Error("OFFICIAL_PARSE_ERROR"))
               \/ p[1] = "empty" /\ Conclude(Miss)
               \/ p[1] = "hits" /\ \E H \in SUBSET p[2] : Conclude(Hits(H, CountedAll(call.total, H)))
        PROVE  SiteInv'
    <2>1. Charged
      BY <1>3, ExchangeCharges, TroubleIs DEF Charged
    <2>2. CASE Conclude(Error("OFFICIAL_PARSE_ERROR"))
      BY <1>1, <2>1, <2>2, ErrorIsGood, ConcludeSafe
    <2>3. CASE p[1] = "empty" /\ Conclude(Miss)
      <3>1. ~troubled'
        BY <1>1, <1>3, <2>3, TroubleIs DEF SiteInv, Quiet
      <3>2. QED
        BY <1>1, <2>1, <2>3, <3>1, MissIsGood, ConcludeSafe
    <2>4. CASE p[1] = "hits" /\ \E H \in SUBSET p[2] : Conclude(Hits(H, CountedAll(call.total, H)))
      <3>1. PICK H \in SUBSET p[2] : Conclude(Hits(H, CountedAll(call.total, H)))
        BY <2>4
      <3>2. H \in SUBSET published
        BY <2>4, ListPagesAre
      <3>3. PICK a : a = Hits(H, CountedAll(call.total, H))
        OBVIOUS
      <3>4. a.status = "hits" /\ a.docs = H /\ a.complete = CountedAll(call.total, H)
        BY <3>3, HitsAre
      <3>5. throughout' = throughout /\ grew' = grew
        BY <1>1 DEF SiteSame
      <3>6. GoodResult(call.ask, a)'
        BY <1>1, <3>2, <3>4, <3>5, CountedIsAll DEF GoodResult, Results
      <3>7. QED
        BY <1>1, <2>1, <3>1, <3>3, <3>6, ConcludeSafe
    <2>5. QED
      BY <1>3, <2>2, <2>3, <2>4
  <1>4. ASSUME NEW p \in ListPages(published), Exchange("page"), Trouble(p[1]),
               CASE p[1] \in {"unknown", "changed"} -> Conclude(Error("OFFICIAL_PARSE_ERROR"))
                 [] p[1] = "empty" -> Conclude(Miss)
                 [] OTHER ->
                      \E H \in SUBSET p[2] :
                        /\ Cardinality(H) = Min({Limit, Cardinality(p[2])})
                        /\ Conclude(Hits(H, CountedAll(call.total, H)))
        PROVE  SiteInv'
    <2>1. \/ p[1] \in {"unknown", "changed"} /\ Conclude(Error("OFFICIAL_PARSE_ERROR"))
          \/ p[1] = "empty" /\ Conclude(Miss)
          \/ p[1] = "hits" /\ \E H \in SUBSET p[2] : Conclude(Hits(H, CountedAll(call.total, H)))
      BY <1>4, ListPagesAre
    <2>2. QED
      BY <1>3, <1>4, <2>1
  <1>5. QED
    BY <1>2, <1>4 DEF ReadHits

-----------------------------------------------------------------------------
LEMMA ReturnSafe == SiteInv /\ Return => SiteInv'
  <1> SUFFICES ASSUME SiteInv, Return PROVE SiteInv'
    OBVIOUS
  <1>1. /\ GoodResult(call.ask, call.result) /\ call'.step = "idle"
        /\ answer' = HandedOut(call.ask, call.result)
        /\ UNCHANGED <<portal, published, spent, exhausted, throughout, grew, troubled>>
    BY DEF Return, SiteInv, DoneOK, NoCall
  <1>2. CASE exhausted
    <2>1. answer'.got.status = "stopped"
      BY <1>1, <1>2 DEF HandedOut, Stopped
    <2>2. QED
      BY <1>1, <2>1 DEF SiteInv, Types, Quiet, TargetOK, CountOK, DoneOK, Active, ActiveSteps, Results,
                        FoundIsAsked, CauseIsKept, CompleteSearch
  <1>3. CASE ~exhausted
    <2>1. answer'.of = call.ask /\ answer'.got = call.result
      BY <1>1, <1>3 DEF HandedOut
    <2>2. FoundIsAsked' /\ CauseIsKept' /\ CompleteSearch' /\ answer'.got.status \in Results
      BY <1>1, <1>3, <2>1 DEF GoodResult, FoundIsAsked, CauseIsKept, CompleteSearch
    <2>3. QED
      BY <1>1, <2>2 DEF SiteInv, Types, Quiet, TargetOK, CountOK, DoneOK, Active, ActiveSteps
  <1>4. QED
    BY <1>2, <1>3

LEMMA TimeOutSafe == SiteInv /\ TimeOut => SiteInv'
  <1> SUFFICES ASSUME SiteInv, TimeOut PROVE SiteInv'
    OBVIOUS
  <1>1. /\ call'.step = "idle" /\ answer'.got.status = "stopped" /\ exhausted' = TRUE
        /\ UNCHANGED <<portal, published, spent, throughout, grew, troubled>>
    BY DEF TimeOut, NoCall, Stopped
  <1>2. QED
    BY <1>1 DEF SiteInv, Types, Quiet, TargetOK, CountOK, DoneOK, Active, ActiveSteps, Results,
                FoundIsAsked, CauseIsKept, CompleteSearch

LEMMA NextBudgetSafe == SiteInv /\ NextBudget => SiteInv'
  <1> SUFFICES ASSUME SiteInv, NextBudget PROVE SiteInv'
    OBVIOUS
  <1>1. /\ call'.step = "idle" /\ answer' = NoAnswer /\ exhausted' = FALSE /\ spent' = 0
        /\ UNCHANGED <<portal, published, throughout, grew, troubled>>
    BY DEF NextBudget
  <1>2. spent' \in 0..Requests
    BY <1>1, Constants
  <1>3. QED
    BY <1>1, <1>2, NoAnswerSafeNext
    DEF SiteInv, Types, Quiet, TargetOK, CountOK, DoneOK, Active, ActiveSteps, Results

LEMMA PublishSafe ==
  ASSUME SiteInv, call.step # "idle", NEW d \in Docs, Publish(d)
  PROVE  SiteInv'
  <1>1. /\ published' = published \cup {d} /\ grew' = TRUE
        /\ UNCHANGED <<portal, call, answer, spent, exhausted, throughout, troubled>>
    BY DEF Publish
  <1>2. answer' = NoAnswer
    BY <1>1 DEF SiteInv, Types
  <1>3. Types' /\ Quiet' /\ TargetOK'
    BY <1>1 DEF SiteInv, Types, Quiet, TargetOK, Active
  <1>4. CountOK' /\ DoneOK'
    BY <1>1 DEF SiteInv, CountOK, DoneOK, GoodResult
  <1>5. QED
    BY <1>2, <1>3, <1>4, NoAnswerSafeNext DEF SiteInv

LEMMA WithdrawSafe ==
  ASSUME SiteInv, call.step # "idle", NEW d \in Docs, Withdraw(d)
  PROVE  SiteInv'
  <1>1. /\ published' = published \ {d} /\ throughout' = throughout \ {d}
        /\ UNCHANGED <<portal, call, answer, spent, exhausted, grew, troubled>>
    BY DEF Withdraw
  <1>2. answer' = NoAnswer
    BY <1>1 DEF SiteInv, Types
  <1>3. Types' /\ Quiet' /\ TargetOK'
    BY <1>1 DEF SiteInv, Types, Quiet, TargetOK, Active
  <1>4. /\ Cardinality(published) \in Nat /\ Cardinality(published') \in Nat
        /\ Cardinality(published') <= Cardinality(published)
    BY <1>1, PublishedFinite, FS_Subset, FS_CardinalityType
  <1>5. CountOK'
    BY <1>1, <1>4 DEF SiteInv, CountOK
  <1>6. DoneOK'
    BY <1>1 DEF SiteInv, DoneOK, GoodResult
  <1>7. QED
    BY <1>2, <1>3, <1>5, <1>6, NoAnswerSafeNext DEF SiteInv

-----------------------------------------------------------------------------
LEMMA SiteStepSafe == SiteInv /\ [SiteNext]_siteVars => SiteInv'
  <1> SUFFICES ASSUME SiteInv, [SiteNext]_siteVars PROVE SiteInv'
    OBVIOUS
  <1>1. CASE Lookup
    BY <1>1, StartSafe DEF Lookup
  <1>2. CASE Search
    BY <1>2, StartSafe DEF Search
  <1>3. CASE LocalLookup \/ LocalSearch \/ RefuseIdentifier \/ UseIdentifier
    BY <1>3, LocalLookupSafe, LocalSearchSafe, RefuseSafe, UseIdentifierSafe
  <1>4. CASE ResolveCitation \/ ReadCitationList \/ FetchDocument
    BY <1>4, ResolveSafe, ReadCitationListSafe, FetchSafe
  <1>5. CASE OpenForm \/ SubmitForm \/ ReadHits \/ ReadHitsAtOnce
    BY <1>5, OpenFormSafe, SubmitSafe, ReadHitsSafe, AtOnceSafe
  <1>6. CASE Return \/ TimeOut \/ NextBudget
    BY <1>6, ReturnSafe, TimeOutSafe, NextBudgetSafe
  <1>7. CASE call.step # "idle" /\ \E d \in Docs : Publish(d) \/ Withdraw(d)
    BY <1>7, PublishSafe, WithdrawSafe
  <1>8. CASE UNCHANGED siteVars
    BY <1>8 DEF siteVars, SiteInv, Types, Quiet, TargetOK, CountOK, DoneOK, GoodResult, Active,
                FoundIsAsked, CauseIsKept, CompleteSearch
  <1>9. QED
    BY <1>1, <1>2, <1>3, <1>4, <1>5, <1>6, <1>7, <1>8 DEF SiteNext, Answering

LEMMA SiteInvariance == SiteSpec => []SiteInv
  BY SiteInitSafe, SiteStepSafe, PTL DEF SiteSpec

\* The budget, the call and its answer have their types
\* (JudgmentProvider!SiteTypeOK).
THEOREM SiteTypeCorrect == SiteSpec => []SiteTypeOK
  <1>1. SiteInv => SiteTypeOK
    BY DEF SiteInv, Types, SiteTypeOK, ActiveSteps
  <1>2. QED
    BY <1>1, SiteInvariance, PTL

\* A judgment that is returned is one the question denotes, whatever the site
\* shows or changes on the way (JudgmentProvider!FoundIsAsked).
THEOREM FoundIsWhatWasAsked == SiteSpec => []FoundIsAsked
  <1>1. SiteInv => FoundIsAsked
    BY DEF SiteInv
  <1>2. QED
    BY <1>1, SiteInvariance, PTL

\* A miss is never made of a failed request, and the end of the budget is
\* never reported as anything else (JudgmentProvider!CauseIsKept).
THEOREM CausesAreKept == SiteSpec => []CauseIsKept
  <1>1. SiteInv => CauseIsKept
    BY DEF SiteInv
  <1>2. QED
    BY <1>1, SiteInvariance, PTL

\* A search called complete shows all that was published all the time, unless
\* something was added meanwhile (JudgmentProvider!CompleteSearch).
THEOREM SearchesAreComplete == SiteSpec => []CompleteSearch
  <1>1. SiteInv => CompleteSearch
    BY DEF SiteInv
  <1>2. QED
    BY <1>1, SiteInvariance, PTL
=============================================================================
