------------------------- MODULE ResearchRunProofs -------------------------
(***************************************************************************)
(* Proofs about ResearchRun, for every plan, every proposal, every set of  *)
(* sources and every failure code.                                         *)
(*                                                                         *)
(* The properties of the runs are not inductive.  IInv adds what makes     *)
(* them so: nothing happens before a client's plan is reviewed             *)
(* (ReviewedFirst), a transient error in the coverage is one that the next *)
(* attempt clears (ErrorsRetried), and a kept answer was backed when it    *)
(* was given (AnswersKept).                                                *)
(*                                                                         *)
(* HybridIsScreened needs to know the whole plan, not only the obligation   *)
(* that is next: a screen is ahead or has been decided (Screened), and a   *)
(* client's proposal, which is inserted before the last obligation, adds   *)
(* no screen and no recall before one (RegisterScreened).                  *)
(*                                                                         *)
(* The handlers differ only in the outcome they report.  AttemptSafe is    *)
(* proved once for every outcome that is GoodOutcome, and every handler's  *)
(* outcome is shown to be one.                                             *)
(***************************************************************************)
EXTENDS ResearchRun, SequenceTheorems, TLAPS

\* A transient error that a handler reports is one it asks to retry; it
\* leaves the errors in the coverage to continue_run.
GoodOutcome(out) ==
    /\ out.cov \in Coverage /\ out.cov.errors = cov.errors
    /\ out.partial \in Codes /\ out.errors \in Codes
    /\ out.retry \in Codes /\ out.marks \in Codes
    /\ out.mode \in {"hybrid", "official"} /\ out.degraded \in BOOLEAN
    /\ out.errors \cap Transient \subseteq out.retry

ReviewedFirst == assisted /\ ~registered => pos = 1 /\ state = "planning"
ErrorsRetried ==
    /\ cov.errors \cap Transient \subseteq retry
    /\ retry # {} => pos <= Len(plan)
AnswersKept ==
    \A a \in answer :
        /\ receipt # {} => a.cites \subseteq receipt
        /\ a.decision = "validated" => a.posture = "ordinary"

IInv ==
    /\ TypeOK /\ plan # <<>>
    /\ ReadyMeansDone /\ ReviewedFirst
    /\ ErrorsRetried
    /\ AnswersKept
    /\ AnswersAreBacked /\ UnqualifiedHasNoGap

-----------------------------------------------------------------------------
LEMMA InitSafe == Init => IInv
<1> SUFFICES ASSUME Init PROVE IInv
  OBVIOUS
<1>1. PICK p \in Profiles : plan = p.plan /\ assisted = p.assisted
  BY DEF Init
<1>2. plan \in Seq(Kinds) /\ plan # <<>> /\ assisted \in BOOLEAN
  BY <1>1, ProfilesAssumption
<1>3. Len(plan) \in Nat \ {0}
  BY <1>2, EmptySeq
<1>4. TypeOK
  <2>1. cov \in Coverage
    BY DEF Init, Coverage, Codes
  <2>2. /\ registered \in BOOLEAN /\ degraded \in BOOLEAN /\ incomplete \in BOOLEAN
        /\ exhausted \in BOOLEAN
    BY Zenon DEF Init
  <2>3. /\ state \in States /\ pos \in 1..(Len(plan) + 1)
        /\ retry \in Codes /\ settled \in Codes
        /\ mode \in {"hybrid", "official"}
        /\ privacy \in {"not_required", "uncertain", "safe", "blocked"}
    BY <1>3 DEF Init, States, Codes
  <2>4. /\ candidates \in SUBSET (Identities \cup {"external"})
        /\ stored \subseteq Sources /\ stale \subseteq stored /\ receipt \subseteq stored
        /\ \A r \in answer \cup reply : r.cites \subseteq stored
    BY DEF Init
  <2> QED
    BY <1>2, <2>1, <2>2, <2>3, <2>4, Zenon DEF TypeOK
<1>5. ReadyMeansDone /\ ReviewedFirst /\ ErrorsRetried
  BY <1>3 DEF Init, ReadyMeansDone, WorkflowComplete, ReviewedFirst, ErrorsRetried
<1>6. AnswersKept /\ AnswersAreBacked /\ UnqualifiedHasNoGap
  BY DEF Init, AnswersKept, AnswersAreBacked, UnqualifiedHasNoGap
<1> QED
  BY <1>2, <1>4, <1>5, <1>6 DEF IInv

\* What a stored answer keeps when records are only added and the answer is
\* dropped as soon as the receipts change.
LEMMA MaterialSafe ==
    ASSUME IInv, NEW got, Obtained(got), stale' = stale, KeepAnswer, reply' = {},
           receipt' = receipt \/ SyncReceipts
    PROVE  /\ stored' \subseteq Sources /\ stale' \subseteq stored'
           /\ receipt' \subseteq stored'
           /\ \A r \in answer' \cup reply' : r.cites \subseteq stored'
           /\ AnswersKept' /\ AnswersAreBacked' /\ UnqualifiedHasNoGap'
<1>1. stored' \subseteq Sources /\ stored \subseteq stored'
  BY DEF IInv, TypeOK, Obtained
<1>2. stale' \subseteq stored' /\ receipt' \subseteq stored'
  BY <1>1 DEF IInv, TypeOK, SyncReceipts
<1>3. answer' \subseteq answer /\ (answer' # {} => receipt' = receipt)
  BY DEF KeepAnswer
<1>4. \A r \in answer' \cup reply' : r.cites \subseteq stored'
  BY <1>1, <1>3 DEF IInv, TypeOK
<1>5. AnswersKept'
  BY <1>3 DEF IInv, AnswersKept
<1>6. AnswersAreBacked' /\ UnqualifiedHasNoGap'
  BY DEF AnswersAreBacked, UnqualifiedHasNoGap
<1> QED
  BY <1>1, <1>2, <1>4, <1>5, <1>6

LEMMA AttemptSafe ==
    ASSUME IInv, NEW k, NEW got, NEW out, GoodOutcome(out), Attempt(k, got, out),
           privacy' \in {"not_required", "uncertain", "safe", "blocked"},
           incomplete' \in BOOLEAN, candidates' \in SUBSET (Identities \cup {"external"})
    PROVE  IInv'
<1> DEFINE again == IF out.retry = {} THEN {}
                    ELSE out.retry
                         \cup ((out.cov.limits \ cov.limits) \cap DerivedTransient)
                         \cup (IF degraded THEN {} ELSE out.partial \cap {Degraded})
           done == again = {}
           covNext == [out.cov EXCEPT !.limits = @ \ retry,
                                      !.partial = (@ \ retry) \cup out.partial,
                                      !.errors = (@ \ retry) \cup out.errors]
<1>1. /\ pos' = IF done THEN pos + 1 ELSE pos
      /\ retry' = IF done THEN {} ELSE again \cup out.marks
      /\ settled' = IF done THEN settled \cup out.partial \cup out.errors ELSE settled
      /\ cov' = covNext
      /\ state' = IF done /\ pos = Len(plan) THEN "ready"
                  ELSE IF done /\ plan[pos] = "verify" THEN "verifying"
                  ELSE IF state = "planning" THEN "researching"
                  ELSE state
  BY Zenon DEF Attempt, Settle
<1>2. degraded' \in BOOLEAN /\ mode' \in {"hybrid", "official"}
  <2>1. degraded' \in BOOLEAN
    BY Zenon DEF Attempt, Settle
  <2>2. mode' \in {"hybrid", "official"}
    BY DEF Attempt, Settle, GoodOutcome
  <2> QED
    BY <2>1, <2>2
<1>3. /\ pos <= Len(plan) /\ (assisted => registered) /\ ~exhausted
      /\ Obtained(got) /\ stale' = stale /\ SyncReceipts /\ KeepAnswer /\ reply' = {}
      /\ plan' = plan /\ assisted' = assisted /\ registered' = registered
      /\ exhausted' = exhausted
  BY DEF Attempt, Pending, orderVars
<1>4. Len(plan) \in Nat /\ pos \in Nat /\ pos >= 1
  BY DEF IInv, TypeOK
<1>5. again \in Codes
  BY DEF GoodOutcome, Coverage, Codes
<1>6. cov' \in Coverage
  <2>1. /\ out.cov.limits \ retry \in Codes
        /\ (out.cov.partial \ retry) \cup out.partial \in Codes
        /\ (out.cov.errors \ retry) \cup out.errors \in Codes
    BY DEF GoodOutcome, Coverage, Codes
  <2>2. covNext = [out.cov EXCEPT
                      !.limits = out.cov.limits \ retry,
                      !.partial = (out.cov.partial \ retry) \cup out.partial,
                      !.errors = (out.cov.errors \ retry) \cup out.errors]
    BY DEF GoodOutcome, Coverage
  <2>3. out.cov \in Coverage
    BY DEF GoodOutcome
  <2> HIDE DEF covNext
  <2>4. covNext \in Coverage
    BY <2>1, <2>2, <2>3 DEF Coverage
  <2> QED
    BY <1>1, <2>4
<1>7. cov'.errors = (cov.errors \ retry) \cup out.errors
  BY <1>1 DEF GoodOutcome, Coverage
<1>8. TypeOK'
  <2>1. pos' \in 1..(Len(plan') + 1)
    BY <1>1, <1>3, <1>4
  <2>2. retry' \in Codes /\ settled' \in Codes
    BY <1>1, <1>5 DEF GoodOutcome, IInv, TypeOK, Codes
  <2>3. state' \in States
    BY <1>1 DEF IInv, TypeOK, States
  <2>4. /\ stored' \subseteq Sources /\ stale' \subseteq stored'
        /\ receipt' \subseteq stored'
        /\ \A r \in answer' \cup reply' : r.cites \subseteq stored'
    BY <1>3, MaterialSafe
  <2> QED
    BY <1>2, <1>3, <1>6, <2>1, <2>2, <2>3, <2>4, Zenon DEF IInv, TypeOK
<1>9. ReadyMeansDone' /\ ReviewedFirst'
  <2>1. state \notin {"ready", "validated", "qualified", "blocked"}
    BY <1>3, <1>4 DEF IInv, ReadyMeansDone, WorkflowComplete
  <2>2. state' = "ready" <=> pos' > Len(plan)
    <3>1. CASE done
      BY <1>1, <1>3, <1>4, <2>1, <3>1
    <3>2. CASE ~done
      BY <1>1, <1>3, <1>4, <2>1, <3>2
    <3> QED
      BY <3>1, <3>2
  <2>3. state' \notin {"validated", "qualified", "blocked"}
    BY <1>1, <2>1
  <2> QED
    BY <1>3, <2>2, <2>3 DEF ReadyMeansDone, WorkflowComplete, ReviewedFirst
<1>10. ErrorsRetried'
  <2>1. out.errors \cap Transient \subseteq retry'
    BY <1>1 DEF GoodOutcome
  <2>2. cov'.errors \cap Transient \subseteq retry'
    BY <1>7, <2>1 DEF IInv, ErrorsRetried
  <2>3. retry' # {} => pos' <= Len(plan')
    BY <1>1, <1>3
  <2> QED
    BY <2>2, <2>3 DEF ErrorsRetried
<1> QED
  BY <1>3, <1>8, <1>9, <1>10, MaterialSafe DEF IInv

-----------------------------------------------------------------------------
\* What a handler may change in the coverage it hands on.
LEMMA ReportGood ==
    ASSUME IInv, NEW c \in Coverage, c.errors = cov.errors,
           NEW partial \in Codes, NEW errors \in Codes, NEW again \in Codes,
           errors \cap Transient \subseteq again
    PROVE  GoodOutcome(Report(c, partial, errors, again))
<1>1. mode \in {"hybrid", "official"} /\ degraded \in BOOLEAN /\ {} \in Codes
  BY DEF IInv, TypeOK, Codes
<1> QED
  BY <1>1 DEF GoodOutcome, Report

LEMMA ScreensSafe == IInv /\ (Understand \/ PrivacySafe \/ PrivacyRefused) => IInv'
<1> SUFFICES ASSUME IInv PROVE (Understand \/ PrivacySafe \/ PrivacyRefused) => IInv'
  OBVIOUS
<1>1. /\ privacy \in {"not_required", "uncertain", "safe", "blocked"}
      /\ incomplete \in BOOLEAN /\ candidates \in SUBSET (Identities \cup {"external"})
      /\ cov \in Coverage /\ {} \in Codes
  BY DEF IInv, TypeOK, Codes
<1>2. GoodOutcome(Nothing)
  BY <1>1, ReportGood DEF Nothing
<1>3. ASSUME Understand PROVE IInv'
  BY <1>1, <1>2, <1>3, AttemptSafe DEF Understand
<1>4. ASSUME PrivacySafe PROVE IInv'
  BY <1>1, <1>2, <1>4, AttemptSafe DEF PrivacySafe
<1>5. ASSUME PrivacyRefused PROVE IInv'
  <2> DEFINE out == [cov |-> cov, partial |-> {}, errors |-> {PrivacyBlocked},
                     retry |-> {}, marks |-> {}, mode |-> "official",
                     degraded |-> TRUE]
  <2>1. {PrivacyBlocked} \in Codes /\ {PrivacyBlocked} \cap Transient \subseteq {}
    BY DEF PrivacyBlocked, Transient, Unavailable, TlrUnavailable, CounterRetry, Codes
  <2>2. GoodOutcome(out)
    BY <1>1, <2>1 DEF GoodOutcome
  <2> QED
    BY <1>1, <1>5, <2>2, AttemptSafe DEF PrivacyRefused
<1> QED
  BY <1>3, <1>4, <1>5

LEMMA FailedCodes ==
    ASSUME NEW k \in Kinds, NEW failed \in SUBSET Failures[k]
    PROVE  /\ failed \in Codes
           /\ failed \ Errors \in Codes /\ failed \cap Errors \in Codes
           /\ failed \cap Transient \in Codes
           /\ (failed \cap Errors) \cap Transient \subseteq failed \cap Transient
BY DEF Codes

LEMMA CoverageGood ==
    ASSUME IInv, NEW c \in SUBSET Flags, NEW l \in Codes
    PROVE  /\ [cov EXCEPT !.checked = c] \in Coverage
           /\ [cov EXCEPT !.checked = c].errors = cov.errors
           /\ [cov EXCEPT !.checked = c, !.limits = l] \in Coverage
           /\ [cov EXCEPT !.checked = c, !.limits = l].errors = cov.errors
BY DEF IInv, TypeOK, Coverage

LEMMA TypesKept ==
    IInv => /\ privacy \in {"not_required", "uncertain", "safe", "blocked"}
            /\ incomplete \in BOOLEAN /\ candidates \in SUBSET (Identities \cup {"external"})
            /\ cov \in Coverage /\ {} \in Codes
            /\ cov.limits \in Codes /\ cov.checked \subseteq Flags
BY DEF IInv, TypeOK, Codes, Coverage

LEMMA ExactlySafe ==
    ASSUME IInv, NEW k \in {"law", "constitutional"}, NEW gap, {gap} \in Codes,
           Exactly(k, gap) \/ ByKeyword(k),
           UNCHANGED <<privacy, incomplete, candidates>>
    PROVE  IInv'
<1>1. k \in Kinds /\ FlagOf[k] \in Flags
  BY DEF Kinds, FlagOf, Flags
<1>2. /\ cov.checked \ {FlagOf[k]} \in SUBSET Flags
      /\ cov.checked \cup {FlagOf[k]} \in SUBSET Flags
      /\ cov.limits \cup {gap} \in Codes
      /\ {KeywordOnly} \in Codes /\ cov.limits \cup {KeywordOnly} \in Codes
  BY <1>1, TypesKept DEF Codes
<1>3. ASSUME NEW got \in SUBSET Sources, NEW failed \in SUBSET Failures[k],
             Attempt(k, got,
                Report(IF got = {}
                       THEN [cov EXCEPT !.checked = @ \ {FlagOf[k]},
                                        !.limits = @ \cup {gap}]
                       ELSE [cov EXCEPT !.checked = @ \cup {FlagOf[k]}],
                       failed \ Errors, failed \cap Errors, failed \cap Transient))
      PROVE  IInv'
  <2> DEFINE c == IF got = {}
                  THEN [cov EXCEPT !.checked = @ \ {FlagOf[k]},
                                   !.limits = @ \cup {gap}]
                  ELSE [cov EXCEPT !.checked = @ \cup {FlagOf[k]}]
  <2>1. c \in Coverage /\ c.errors = cov.errors
    BY <1>2, CoverageGood
  <2>2. GoodOutcome(Report(c, failed \ Errors, failed \cap Errors, failed \cap Transient))
    BY <1>1, <2>1, FailedCodes, ReportGood
  <2> QED
    BY <1>3, <2>2, TypesKept, AttemptSafe
<1>4. ASSUME NEW failed \in SUBSET Failures[k],
             Attempt(k, {},
                Report([cov EXCEPT !.checked = @ \ {FlagOf[k]},
                                   !.limits = @ \cup {KeywordOnly}],
                       {KeywordOnly} \cup (failed \ Errors),
                       failed \cap Errors, failed \cap Transient))
      PROVE  IInv'
  <2> DEFINE c == [cov EXCEPT !.checked = @ \ {FlagOf[k]},
                              !.limits = @ \cup {KeywordOnly}]
  <2>1. c \in Coverage /\ c.errors = cov.errors
    BY <1>2, CoverageGood
  <2>2. {KeywordOnly} \cup (failed \ Errors) \in Codes
    BY <1>1, <1>2, FailedCodes DEF Codes
  <2>3. GoodOutcome(Report(c, {KeywordOnly} \cup (failed \ Errors),
                           failed \cap Errors, failed \cap Transient))
    BY <1>1, <2>1, <2>2, FailedCodes, ReportGood
  <2> QED
    BY <1>4, <2>3, TypesKept, AttemptSafe
<1> QED
  BY <1>3, <1>4 DEF Exactly, ByKeyword

LEMMA LawsSafe == IInv /\ (Laws \/ Constitutional) => IInv'
<1>1. {LawIncomplete} \in Codes /\ {ConstitutionalIncomplete} \in Codes
  BY DEF Codes
<1> QED
  BY <1>1, ExactlySafe DEF Laws, Constitutional

LEMMA TimeSafe == IInv /\ (TimeContext \/ EvidenceSufficiency) => IInv'
<1> SUFFICES ASSUME IInv PROVE (TimeContext \/ EvidenceSufficiency) => IInv'
  OBVIOUS
<1>1. ASSUME TimeContext PROVE IInv'
  <2> DEFINE c == [cov EXCEPT !.checked = @ \cup {"time"},
                              !.limits = @ \cup {Historical}]
  <2>1. /\ {Historical} \in Codes /\ cov.limits \cup {Historical} \in Codes
        /\ cov.checked \cup {"time"} \in SUBSET Flags
    BY TypesKept DEF Codes, Flags
  <2>2. c \in Coverage /\ c.errors = cov.errors
    BY <2>1, CoverageGood
  <2>3. GoodOutcome(Report(c, {Historical}, {}, {}))
    BY <2>1, <2>2, TypesKept, ReportGood
  <2> QED
    BY <1>1, <2>3, TypesKept, AttemptSafe DEF TimeContext
<1>2. ASSUME EvidenceSufficiency PROVE IInv'
  <2> DEFINE e == IF stored = {} THEN {NoEvidence} ELSE {}
  <2>1. e \in Codes /\ e \cap Transient \subseteq {}
    BY DEF Codes, NoEvidence, Transient, Unavailable, TlrUnavailable, CounterRetry
  <2>2. GoodOutcome(Report(cov, {}, e, {}))
    BY <2>1, TypesKept, ReportGood
  <2> QED
    BY <1>2, <2>2, TypesKept, AttemptSafe DEF EvidenceSufficiency
<1> QED
  BY <1>1, <1>2

LEMMA RecallOutcomeGood ==
    ASSUME IInv, NEW official \in {"found", "none"} \cup Failures["recall"],
           NEW external \in {"found", "none", TlrUnavailable}, NEW usable \in BOOLEAN
    PROVE  GoodOutcome(RecallOutcome(official, external, usable))
<1> DEFINE failed == {official, external} \ {"found", "none"}
           lost == external = TlrUnavailable
           partial == (IF usable THEN failed ELSE failed \ Errors)
                      \cup (IF lost THEN {Degraded} ELSE {})
           errors == IF usable THEN {} ELSE failed \cap Errors
           again == IF usable THEN {}
                    ELSE (failed \cap Transient) \ {TlrUnavailable}
<1>1. failed \in Codes
  BY DEF Codes, Kinds
<1>2. partial \in Codes /\ errors \in Codes /\ again \in Codes
  BY <1>1 DEF Codes
<1>3. errors \cap Transient \subseteq again
  BY DEF Errors, Unavailable, ParseError, SourceBlocked, PrivacyBlocked,
         NoEvidence, CounterRetry, CounterBlocked, TlrUnavailable
<1>4. mode \in {"hybrid", "official"} /\ (degraded \/ lost) \in BOOLEAN
  BY DEF IInv, TypeOK
<1> HIDE DEF partial, errors, again, lost
<1>5. GoodOutcome([cov |-> cov, partial |-> partial, errors |-> errors,
                   retry |-> again, marks |-> {},
                   mode |-> IF lost THEN "official" ELSE mode,
                   degraded |-> degraded \/ lost])
  BY <1>2, <1>3, <1>4, TypesKept DEF GoodOutcome
<1> QED
  BY <1>5, Zenon DEF RecallOutcome, partial, errors, again, lost

LEMMA RecallSafe == IInv /\ (JudgmentRecall \/ PlannedRecall) => IInv'
<1> SUFFICES ASSUME IInv PROVE (JudgmentRecall \/ PlannedRecall) => IInv'
  OBVIOUS
<1>1. ASSUME JudgmentRecall PROVE IInv'
  <2>1. PICK official \in {"found", "none"} \cup Failures["recall"],
             external \in {"found", "none", TlrUnavailable}, found \in SUBSET Identities :
          /\ Attempt("recall", {},
                     RecallOutcome(official, external, "resolvable" \in found))
          /\ incomplete' = ("resolvable" \notin found)
          /\ candidates' = candidates \cup found
                \cup (IF external = "found" THEN {"external"} ELSE {})
    BY <1>1 DEF JudgmentRecall
  <2>2. incomplete' \in BOOLEAN /\ ("resolvable" \in found) \in BOOLEAN
    <3>1. CASE "resolvable" \in found
      BY <2>1, <3>1
    <3>2. CASE "resolvable" \notin found
      BY <2>1, <3>2
    <3> QED
      BY <3>1, <3>2
  <2>3. privacy' = privacy
    BY <1>1, Zenon DEF JudgmentRecall
  <2>4. candidates' \in SUBSET (Identities \cup {"external"})
    BY <2>1, TypesKept
  <2>5. GoodOutcome(RecallOutcome(official, external, "resolvable" \in found))
    BY <2>2, RecallOutcomeGood
  <2> QED
    BY <2>1, <2>2, <2>3, <2>4, <2>5, TypesKept, AttemptSafe
<1>2. ASSUME PlannedRecall PROVE IInv'
  <2>1. {CandidateOnly} \in Codes
    BY DEF Codes
  <2>2. GoodOutcome(Report(cov, {CandidateOnly}, {}, {}))
    BY <2>1, TypesKept, ReportGood
  <2> QED
    BY <1>2, <2>2, TypesKept, AttemptSafe DEF PlannedRecall
<1> QED
  BY <1>1, <1>2

LEMMA VerifySafe == IInv /\ (NothingToVerify \/ VerifyJudgment) => IInv'
<1> SUFFICES ASSUME IInv PROVE (NothingToVerify \/ VerifyJudgment) => IInv'
  OBVIOUS
<1>1. ASSUME NothingToVerify PROVE IInv'
  <2> DEFINE c == [cov EXCEPT !.checked = @ \ {"judgment"},
                              !.limits = @ \cup {RecallIncomplete}]
  <2>1. {RecallIncomplete} \in Codes /\ cov.limits \cup {RecallIncomplete} \in Codes
    BY TypesKept DEF Codes
  <2>2. c \in Coverage /\ c.errors = cov.errors
    BY <2>1, TypesKept, CoverageGood
  <2>3. GoodOutcome(Report(c, {RecallIncomplete}, {}, {}))
    BY <2>1, <2>2, TypesKept, ReportGood
  <2> QED
    BY <1>1, <2>3, TypesKept, AttemptSafe DEF NothingToVerify
<1>2. ASSUME VerifyJudgment PROVE IInv'
  <2>1. PICK got \in SUBSET Sources, failed \in SUBSET Failures["verify"] :
          LET gap == IF failed = {} /\ "unresolved" \notin candidates THEN {}
                     ELSE {VerifyIncomplete}
          IN
          /\ Attempt("verify", got,
                Report([cov EXCEPT !.checked = @ \cup {"judgment"},
                                   !.limits = @ \cup gap],
                       gap \cup (IF got = {} THEN failed \ Errors ELSE failed),
                       IF got = {} THEN failed \cap Errors ELSE {},
                       failed \cap Transient))
          /\ incomplete' = (got = {})
    BY <1>2 DEF VerifyJudgment
  <2> DEFINE gap == IF failed = {} /\ "unresolved" \notin candidates THEN {}
                    ELSE {VerifyIncomplete}
             c == [cov EXCEPT !.checked = @ \cup {"judgment"},
                              !.limits = @ \cup gap]
             partial == gap \cup (IF got = {} THEN failed \ Errors ELSE failed)
             errors == IF got = {} THEN failed \cap Errors ELSE {}
             again == failed \cap Transient
  <2>2. failed \in Codes /\ gap \in Codes
    BY DEF Codes, Kinds
  <2>3. /\ partial \in Codes /\ errors \in Codes /\ again \in Codes
        /\ errors \cap Transient \subseteq again
        /\ cov.limits \cup gap \in Codes /\ cov.checked \cup {"judgment"} \in SUBSET Flags
    BY <2>2, TypesKept DEF Codes, Flags
  <2>4. c \in Coverage /\ c.errors = cov.errors
    BY <2>3, CoverageGood
  <2>5. GoodOutcome(Report(c, partial, errors, again))
    BY <2>3, <2>4, ReportGood
  <2>6. incomplete' \in BOOLEAN /\ candidates' = candidates /\ privacy' = privacy
    BY <1>2, <2>1, Zenon DEF VerifyJudgment
  <2> QED
    BY <2>1, <2>5, <2>6, TypesKept, AttemptSafe
<1> QED
  BY <1>1, <1>2

\* The five ends of the counter-authority search report codes of one shape.
LEMMA CounterOutcomeGood ==
    ASSUME IInv,
           NEW status \in {"not_found_in_scope", "partial", "retry_required", "blocked"},
           NEW checked \in BOOLEAN, NEW complete \in BOOLEAN,
           NEW codes \in Codes, NEW reported \in Codes
    PROVE  GoodOutcome(CounterOutcome(status, checked, complete, codes, reported))
<1> DEFINE flags == IF checked THEN cov.checked \cup {"counter"}
                    ELSE cov.checked \ {"counter"}
           c == [limits |-> cov.limits \cup codes, partial |-> cov.partial,
                 errors |-> cov.errors, checked |-> flags,
                 status |-> status, counterComplete |-> complete, scoped |-> TRUE]
<1>1. flags \in SUBSET Flags /\ cov.limits \cup codes \in Codes
  BY TypesKept DEF Flags, Codes
<1>2. cov.partial \in Codes /\ cov.errors \in Codes
  BY DEF IInv, TypeOK, Coverage
<1>3. c \in Coverage /\ c.errors = cov.errors
  <2> HIDE DEF flags
  <2> QED
    BY <1>1, <1>2 DEF Coverage
<1>4. /\ reported \ Errors \in Codes /\ reported \cap Errors \in Codes
      /\ reported \cap Transient \in Codes
      /\ (reported \cap Errors) \cap Transient \subseteq reported \cap Transient
      /\ mode \in {"hybrid", "official"} /\ degraded \in BOOLEAN
  BY DEF Codes, IInv, TypeOK
<1> HIDE DEF c
<1>5. GoodOutcome([cov |-> c, partial |-> reported \ Errors,
                   errors |-> reported \cap Errors,
                   retry |-> reported \cap Transient, marks |-> codes,
                   mode |-> mode, degraded |-> degraded])
  BY <1>3, <1>4 DEF GoodOutcome
<1> QED
  BY <1>5 DEF CounterOutcome, c

LEMMA CounterSafe == IInv /\ CounterAuthority => IInv'
<1> SUFFICES ASSUME IInv, CounterAuthority PROVE IInv'
  OBVIOUS
<1>1. \E got, out : GoodOutcome(out) /\ Attempt("counter", got, out)
  <2>1. ASSUME NEW failed \in SUBSET Failures["counter"], NEW missed \in {{}, {NotFound}}
        PROVE  /\ missed \in Codes /\ failed \in Codes
               /\ failed \cup {Unclassified, CounterPartial} \in Codes
               /\ failed \cup missed \cup {CounterPartial} \in Codes
               /\ failed \cup {CounterPartial} \in Codes
               /\ failed \cup {CounterRetry} \in Codes
               /\ failed \cup {SourceBlocked} \in Codes
               /\ failed \cup {SourceBlocked, CounterBlocked} \in Codes
    BY DEF Codes, Kinds
  <2>2. CASE CounterMiss
    <3>1. PICK missed \in {{}, {NotFound}} :
            Attempt("counter", {},
                CounterOutcome("not_found_in_scope", TRUE, TRUE, {}, missed))
      BY <2>2 DEF CounterMiss
    <3>2. missed \in Codes /\ {} \in Codes
      BY DEF Codes
    <3> QED
      BY <3>1, <3>2, CounterOutcomeGood
  <2>3. CASE CounterFound
    <3>1. PICK got \in SUBSET Sources, failed \in SUBSET Failures["counter"],
               missed \in {{}, {NotFound}} :
            Attempt("counter", got,
              CounterOutcome("partial", FALSE, failed = {},
                             failed \cup {Unclassified, CounterPartial},
                             failed \cup missed \cup {CounterPartial}))
      BY <2>3 DEF CounterFound
    <3>2. (failed = {}) \in BOOLEAN
      OBVIOUS
    <3> QED
      BY <2>1, <3>1, <3>2, CounterOutcomeGood
  <2>4. CASE CounterUnverified
    <3>1. PICK failed \in SUBSET Failures["counter"] :
            Attempt("counter", {},
              CounterOutcome("partial", FALSE, FALSE, failed \cup {CounterPartial},
                             failed \cup {CounterPartial}))
      BY <2>4 DEF CounterUnverified
    <3> QED
      BY <2>1, <3>1, CounterOutcomeGood
  <2>5. CASE CounterFailed
    <3>1. PICK failed \in SUBSET Failures["counter"] :
            Attempt("counter", {},
              CounterOutcome("retry_required", FALSE, FALSE,
                             failed \cup {CounterRetry}, failed \cup {CounterRetry}))
      BY <2>5 DEF CounterFailed
    <3> QED
      BY <2>1, <3>1, CounterOutcomeGood
  <2>6. CASE CounterRefused
    <3>1. PICK failed \in SUBSET Failures["counter"] :
            Attempt("counter", {},
              CounterOutcome("blocked", FALSE, FALSE, failed \cup {SourceBlocked},
                             failed \cup {SourceBlocked, CounterBlocked}))
      BY <2>6 DEF CounterRefused
    <3> QED
      BY <2>1, <3>1, CounterOutcomeGood
  <2> QED
    BY <2>2, <2>3, <2>4, <2>5, <2>6 DEF CounterAuthority
<1> QED
  BY <1>1, TypesKept, AttemptSafe DEF CounterAuthority

-----------------------------------------------------------------------------
(***************************************************************************)
(* The other operations of a run.                                          *)
(***************************************************************************)
\* Everything that neither completes an obligation nor decides on an answer.
LEMMA MaterialOnly ==
    ASSUME IInv, NEW got, Obtained(got), receipt' = receipt \/ SyncReceipts,
           KeepAnswer, reply' = {},
           UNCHANGED <<orderVars, progressVars, recallVars, stale>>,
           cov' \in Coverage, cov'.errors = cov.errors,
           exhausted' \in BOOLEAN, state' \in States,
           state' = state \/ (state' = "researching" /\ ~WorkflowComplete
                              /\ (assisted => registered))
    PROVE  IInv'
<1>1. /\ plan' = plan /\ assisted' = assisted /\ registered' = registered
      /\ pos' = pos /\ retry' = retry /\ settled' = settled /\ mode' = mode
      /\ privacy' = privacy /\ degraded' = degraded /\ incomplete' = incomplete
      /\ candidates' = candidates
  BY DEF orderVars, progressVars, recallVars
<1>2. TypeOK'
  <2>1. /\ stored' \subseteq Sources /\ stale' \subseteq stored'
        /\ receipt' \subseteq stored'
        /\ \A r \in answer' \cup reply' : r.cites \subseteq stored'
    BY MaterialSafe
  <2> QED
    BY <1>1, <2>1, Zenon DEF IInv, TypeOK
<1>3. ReadyMeansDone' /\ ReviewedFirst'
  BY <1>1 DEF IInv, ReadyMeansDone, WorkflowComplete, ReviewedFirst
<1>4. ErrorsRetried'
  BY <1>1 DEF IInv, ErrorsRetried
<1> QED
  BY <1>1, <1>2, <1>3, <1>4, MaterialSafe DEF IInv

LEMMA CutShortSafe == IInv /\ (BudgetSpent \/ AttemptLost) => IInv'
<1> SUFFICES ASSUME IInv, BudgetSpent \/ AttemptLost PROVE IInv'
  OBVIOUS
<1>1. PICK got \in SUBSET Sources : CutShort(got)
  BY DEF BudgetSpent, AttemptLost
<1>2. exhausted' \in BOOLEAN
  BY Zenon DEF BudgetSpent, AttemptLost, IInv, TypeOK
<1>3. /\ cov' = cov /\ cov \in Coverage /\ state \in States
      /\ (assisted => registered) /\ pos <= Len(plan) /\ Len(plan) \in Nat /\ pos \in Nat
  BY <1>1 DEF CutShort, Pending, IInv, TypeOK
<1>4. /\ state' \in States
      /\ state' = state \/ (state' = "researching" /\ ~WorkflowComplete
                            /\ (assisted => registered))
  BY <1>1, <1>3 DEF CutShort, States, WorkflowComplete
<1> QED
  BY <1>1, <1>2, <1>3, <1>4, MaterialOnly DEF CutShort

LEMMA LookupSafe == IInv /\ (Lookup \/ LookupLost \/ InspectLineage) => IInv'
<1> SUFFICES ASSUME IInv PROVE (Lookup \/ LookupLost \/ InspectLineage) => IInv'
  OBVIOUS
<1>1. cov \in Coverage /\ state \in States
  BY DEF IInv, TypeOK
<1>2. ASSUME Lookup \/ LookupLost \/ InspectLineage PROVE exhausted' \in BOOLEAN
  BY <1>2, Zenon DEF Lookup, LookupLost, InspectLineage, IInv, TypeOK
<1>3. ASSUME Lookup PROVE IInv'
  <2>1. PICK got : Obtained(got)
    BY <1>3 DEF Lookup
  <2> QED
    BY <1>1, <1>2, <1>3, <2>1, MaterialOnly DEF Lookup
<1>4. ASSUME LookupLost PROVE IInv'
  <2>1. PICK got : Obtained(got)
    BY <1>4 DEF LookupLost
  <2> QED
    BY <1>1, <1>2, <1>4, <2>1, MaterialOnly DEF LookupLost
<1>5. ASSUME InspectLineage PROVE IInv'
  <2>1. PICK got : Obtained(got)
    BY <1>5 DEF InspectLineage
  <2>2. cov.limits \cup {Lineage} \in Codes
    BY <1>1 DEF Coverage, Codes
  <2>3. cov' \in Coverage /\ cov'.errors = cov.errors
    BY <1>1, <1>5, <2>2 DEF InspectLineage, Coverage
  <2> QED
    BY <1>1, <1>2, <1>5, <2>1, <2>3, MaterialOnly DEF InspectLineage
<1> QED
  BY <1>3, <1>4, <1>5

LEMMA RegisterSafe == IInv /\ RegisterPlan => IInv'
<1> SUFFICES ASSUME IInv, RegisterPlan PROVE IInv'
  OBVIOUS
<1>1. PICK proposed \in Proposals :
        LET Added(k) == IF k \in proposed /\ ~Required(k) THEN <<k>> ELSE <<>>
        IN plan' = SubSeq(plan, 1, Len(plan) - 1) \o Added("recall")
                   \o Added("verify") \o Added("constitutional")
                   \o Added("counter") \o Added("time") \o <<plan[Len(plan)]>>
  BY DEF RegisterPlan
<1> DEFINE Added(k) == IF k \in proposed /\ ~Required(k) THEN <<k>> ELSE <<>>
           front == SubSeq(plan, 1, Len(plan) - 1)
           last == <<plan[Len(plan)]>>
<1>2. plan \in Seq(Kinds) /\ Len(plan) \in Nat \ {0}
  BY EmptySeq DEF IInv, TypeOK
<1>3. front \in Seq(Kinds) /\ last \in Seq(Kinds) /\ Len(last) = 1
  BY <1>2
<1>4. ASSUME NEW k \in Kinds PROVE Added(k) \in Seq(Kinds)
  OBVIOUS
<1>5. plan' = front \o Added("recall") \o Added("verify") \o Added("constitutional")
              \o Added("counter") \o Added("time") \o last
  BY <1>1
<1> HIDE DEF Added, front, last
<1>6. plan' \in Seq(Kinds) /\ Len(plan') \in Nat \ {0} /\ plan' # <<>>
  <2> DEFINE init == front \o Added("recall") \o Added("verify")
                     \o Added("constitutional") \o Added("counter") \o Added("time")
  <2>1. init \in Seq(Kinds)
    BY <1>3, <1>4, ConcatProperties DEF Kinds
  <2> HIDE DEF init
  <2>2. init \o last \in Seq(Kinds) /\ Len(init \o last) = Len(init) + Len(last)
    BY <1>3, <2>1, ConcatProperties
  <2>3. Len(init) \in Nat
    BY <2>1, LenProperties
  <2>4. plan' = init \o last
    BY <1>5 DEF init
  <2> QED
    BY <1>3, <2>2, <2>3, <2>4, EmptySeq
<1>7. /\ assisted' = assisted /\ registered' = TRUE /\ state' = state
      /\ state = "planning" /\ reply' = {} /\ pos' = pos /\ retry' = retry
      /\ settled' = settled /\ cov' = cov /\ mode' = mode /\ privacy' = privacy
      /\ degraded' = degraded /\ incomplete' = incomplete
      /\ candidates' = candidates /\ exhausted' = exhausted /\ stored' = stored
      /\ stale' = stale /\ receipt' = receipt /\ answer' = answer /\ pos = 1
  BY DEF RegisterPlan, progressVars, recallVars, materialVars, IInv, ReviewedFirst
<1>8. TypeOK'
  <2>1. pos' \in 1..(Len(plan') + 1)
    BY <1>6, <1>7
  <2>2. \A r \in answer' \cup reply' : r.cites \subseteq stored'
    BY <1>7 DEF IInv, TypeOK
  <2> QED
    BY <1>6, <1>7, <2>1, <2>2, Zenon DEF IInv, TypeOK
<1>9. ReadyMeansDone' /\ ReviewedFirst'
  BY <1>6, <1>7 DEF ReadyMeansDone, WorkflowComplete, ReviewedFirst
<1>10. ErrorsRetried'
  BY <1>6, <1>7 DEF IInv, ErrorsRetried
<1>11. AnswersKept' /\ AnswersAreBacked' /\ UnqualifiedHasNoGap'
  BY <1>7 DEF IInv, AnswersKept, AnswersAreBacked, UnqualifiedHasNoGap
<1> QED
  BY <1>6, <1>8, <1>9, <1>10, <1>11 DEF IInv

LEMMA ClassifySafe == IInv /\ ClassifyOpposing => IInv'
<1> SUFFICES ASSUME IInv, ClassifyOpposing PROVE IInv'
  OBVIOUS
<1> DEFINE classified == {Unclassified, CounterPartial}
<1>1. /\ plan' = plan /\ assisted' = assisted /\ registered' = registered
      /\ state' = state /\ pos' = pos /\ retry' = retry /\ mode' = mode
      /\ privacy' = privacy /\ degraded' = degraded /\ incomplete' = incomplete
      /\ candidates' = candidates /\ exhausted' = exhausted /\ stored' = stored
      /\ stale' = stale /\ receipt' = receipt /\ KeepAnswer /\ reply' = {}
      /\ settled' = settled \ classified
      /\ cov' = [cov EXCEPT !.checked = @ \cup {"counter"},
                            !.status = "found_verified",
                            !.limits = @ \ classified,
                            !.partial = @ \ classified]
  BY DEF ClassifyOpposing, orderVars, recallVars, materialVars
<1>2. cov \in Coverage /\ settled' \in Codes
  BY <1>1 DEF IInv, TypeOK, Codes
<1>3. /\ cov.checked \cup {"counter"} \in SUBSET Flags
      /\ cov.limits \ classified \in Codes /\ cov.partial \ classified \in Codes
  BY <1>2 DEF Coverage, Codes, Flags
<1>4. cov' \in Coverage /\ cov'.errors = cov.errors
  BY <1>1, <1>2, <1>3 DEF Coverage
<1>5. answer' \subseteq answer
  BY <1>1 DEF KeepAnswer
<1>6. \A r \in answer' \cup reply' : r.cites \subseteq stored'
  BY <1>1, <1>5 DEF IInv, TypeOK
<1>7. TypeOK'
  BY <1>1, <1>2, <1>4, <1>6, Zenon DEF IInv, TypeOK
<1>8. ReadyMeansDone' /\ ReviewedFirst' /\ ErrorsRetried'
  BY <1>1, <1>4 DEF IInv, ReadyMeansDone, WorkflowComplete, ReviewedFirst, ErrorsRetried
<1>9. AnswersKept' /\ AnswersAreBacked' /\ UnqualifiedHasNoGap'
  BY <1>1, <1>5 DEF IInv, AnswersKept, AnswersAreBacked, UnqualifiedHasNoGap
<1> QED
  BY <1>1, <1>7, <1>8, <1>9 DEF IInv

LEMMA ExpireSafe == ASSUME IInv, NEW s \in Sources, Expire(s) PROVE IInv'
<1>1. /\ plan' = plan /\ assisted' = assisted /\ registered' = registered
      /\ state' = state /\ pos' = pos /\ retry' = retry /\ settled' = settled
      /\ cov' = cov /\ mode' = mode /\ privacy' = privacy /\ degraded' = degraded
      /\ incomplete' = incomplete /\ candidates' = candidates
      /\ exhausted' = exhausted /\ stored' = stored /\ receipt' = receipt
      /\ answer' = answer /\ reply' = {}
  BY DEF Expire, orderVars, progressVars, recallVars
<1>2. stale' \subseteq stored'
  BY <1>1 DEF Expire, Eligible, IInv, TypeOK
<1>3. \A r \in answer' \cup reply' : r.cites \subseteq stored'
  BY <1>1 DEF IInv, TypeOK
<1>4. TypeOK'
  BY <1>1, <1>2, <1>3, Zenon DEF IInv, TypeOK
<1>5. ReadyMeansDone' /\ ReviewedFirst' /\ ErrorsRetried'
  BY <1>1 DEF IInv, ReadyMeansDone, WorkflowComplete, ReviewedFirst, ErrorsRetried
<1>6. AnswersKept' /\ AnswersAreBacked' /\ UnqualifiedHasNoGap'
  BY <1>1 DEF IInv, AnswersKept, AnswersAreBacked, UnqualifiedHasNoGap
<1> QED
  BY <1>1, <1>4, <1>5, <1>6 DEF IInv

-----------------------------------------------------------------------------
(***************************************************************************)
(* Final validation.                                                       *)
(***************************************************************************)
\* A posture other than refusal needs a finished research; the ordinary one
\* leaves nothing open, and its receipts cover every stored record.
LEMMA PostureMeans ==
    /\ Posture # "refusal_only" => WorkflowComplete /\ ReceiptsMatch
    /\ Posture = "ordinary" =>
          /\ NoCodes /\ Unchecked = {} /\ stale = {} /\ "external" \notin candidates
          /\ ~degraded /\ ~incomplete
          /\ receipt = stored
<1>1. Sufficiency \notin {"retry_required", "insufficient"} => WorkflowComplete
  BY DEF Sufficiency
<1>2. Sufficiency = "sufficient" => CoverageComplete
  BY DEF Sufficiency
<1>3. Posture = "ordinary" => CoverageComplete /\ receipt # {} /\ ReceiptsMatch
  BY <1>2 DEF Posture
<1>4. Posture = "ordinary" => receipt = stored
  BY <1>3 DEF CoverageComplete, ReceiptsMatch, Eligible
<1> QED
  BY <1>1, <1>3, <1>4 DEF Posture, CoverageComplete

LEMMA DecisionMeans ==
    ASSUME NEW cites, NEW supported,
           Decision(cites, supported) # "blocked", Posture # "refusal_only"
    PROVE  /\ cites \subseteq Eligible
           /\ Decision(cites, supported) = "validated" => Posture = "ordinary"
BY DEF Decision, Posture

LEMMA RefusedSafe == IInv /\ ValidateRefused => IInv'
<1> SUFFICES ASSUME IInv, ValidateRefused PROVE IInv'
  OBVIOUS
<1>1. /\ plan' = plan /\ assisted' = assisted /\ registered' = registered
      /\ pos' = pos /\ retry' = retry /\ settled' = settled
      /\ cov' = cov /\ mode' = mode /\ privacy' = privacy /\ degraded' = degraded
      /\ incomplete' = incomplete /\ candidates' = candidates
      /\ exhausted' = exhausted /\ stored' = stored /\ stale' = stale
      /\ receipt' = receipt /\ answer' = answer /\ reply' = {}
      /\ state' = state \/ (state = "ready" /\ state' = "blocked")
  BY DEF ValidateRefused, orderVars, progressVars, recallVars, materialVars
<1>2. state' \in States
  BY <1>1 DEF IInv, TypeOK, States
<1>3. \A r \in answer' \cup reply' : r.cites \subseteq stored'
  BY <1>1 DEF IInv, TypeOK
<1>4. TypeOK'
  BY <1>1, <1>2, <1>3, Zenon DEF IInv, TypeOK
<1>5. ReadyMeansDone' /\ ReviewedFirst' /\ ErrorsRetried'
  BY <1>1 DEF IInv, ReadyMeansDone, WorkflowComplete, ReviewedFirst, ErrorsRetried
<1>6. AnswersKept' /\ AnswersAreBacked' /\ UnqualifiedHasNoGap'
  BY <1>1 DEF IInv, AnswersKept, AnswersAreBacked, UnqualifiedHasNoGap
<1> QED
  BY <1>1, <1>4, <1>5, <1>6 DEF IInv

LEMMA ValidateSafe ==
    ASSUME IInv, NEW cites, NEW supported \in BOOLEAN, Validate(cites, supported)
    PROVE  IInv'
<1> DEFINE decision == Decision(cites, supported)
           safe == decision # "blocked"
           kept == [cites |-> cites, decision |-> decision,
                    posture |-> Posture, qualification |-> Qualification]
           given == [cites |-> cites, decision |-> decision]
<1>1. /\ plan' = plan /\ assisted' = assisted /\ registered' = registered
      /\ pos' = pos /\ retry' = retry /\ settled' = settled
      /\ cov' = cov /\ mode' = mode /\ privacy' = privacy /\ degraded' = degraded
      /\ incomplete' = incomplete /\ candidates' = candidates
      /\ exhausted' = exhausted /\ stored' = stored /\ stale' = stale
      /\ receipt' = receipt /\ Posture # "refusal_only"
      /\ state \in {"ready", "validated", "qualified", "blocked"}
      /\ state' = decision
      /\ reply' = IF safe THEN {given} ELSE {}
      /\ answer' = IF safe THEN {kept} ELSE answer
  BY DEF Validate, orderVars, progressVars, recallVars, materialVars
<1>2. decision \in {"blocked", "qualified", "validated"}
  BY DEF Decision
<1>3. WorkflowComplete /\ ReceiptsMatch
  BY <1>1, PostureMeans
<1>4. ASSUME safe
      PROVE  cites \subseteq Eligible /\ (decision = "validated" => Posture = "ordinary")
  BY <1>1, <1>4, DecisionMeans
<1>5. Eligible \subseteq stored
  BY DEF Eligible
<1>6. receipt # {} => receipt = Eligible
  BY <1>3 DEF ReceiptsMatch
<1> HIDE DEF decision
<1>7. \A r \in answer' \cup reply' : r.cites \subseteq stored'
  BY <1>1, <1>4, <1>5 DEF IInv, TypeOK
<1>8. state' \in States
  BY <1>1, <1>2 DEF States
<1>9. TypeOK'
  <2> HIDE DEF kept, given, safe
  <2> QED
    BY <1>1, <1>7, <1>8, Zenon DEF IInv, TypeOK
<1>10. ReadyMeansDone' /\ ReviewedFirst' /\ ErrorsRetried'
  BY <1>1, <1>2, <1>3
     DEF IInv, ReadyMeansDone, WorkflowComplete, ReviewedFirst, ErrorsRetried
<1>11. AnswersKept'
  BY <1>1, <1>4, <1>6 DEF IInv, AnswersKept
<1>12. AnswersAreBacked'
  BY <1>1, <1>3, <1>4 DEF AnswersAreBacked, WorkflowComplete, Eligible
<1>13. UnqualifiedHasNoGap'
  <2>1. ASSUME NEW r \in reply', r.decision = "validated"
        PROVE  Posture = "ordinary"
    BY <1>1, <1>4, <2>1
  <2>2. Unchecked' = Unchecked /\ NoCodes' = NoCodes
    BY <1>1 DEF Unchecked, NoCodes, Required
  <2> QED
    BY <1>1, <2>1, <2>2, PostureMeans DEF UnqualifiedHasNoGap
<1> QED
  BY <1>1, <1>9, <1>10, <1>11, <1>12, <1>13 DEF IInv

LEMMA ReplaySafe == IInv /\ Replay => IInv'
<1> SUFFICES ASSUME IInv, Replay PROVE IInv'
  OBVIOUS
<1>1. PICK a \in answer :
        /\ Posture # "refusal_only" /\ a.posture = Posture
        /\ reply' = {[cites |-> a.cites, decision |-> a.decision]}
  BY DEF Replay
<1>2. /\ plan' = plan /\ assisted' = assisted /\ registered' = registered
      /\ state' = state /\ pos' = pos /\ retry' = retry /\ settled' = settled
      /\ cov' = cov /\ mode' = mode /\ privacy' = privacy /\ degraded' = degraded
      /\ incomplete' = incomplete /\ candidates' = candidates
      /\ exhausted' = exhausted /\ stored' = stored /\ stale' = stale
      /\ receipt' = receipt /\ answer' = answer
  BY DEF Replay, orderVars, progressVars, recallVars, materialVars
<1>3. WorkflowComplete /\ ReceiptsMatch
  BY <1>1, PostureMeans
<1>4. /\ a.cites \subseteq stored
      /\ receipt # {} => a.cites \subseteq receipt
      /\ a.decision = "validated" => a.posture = "ordinary"
  BY DEF IInv, TypeOK, AnswersKept
<1>5. \A r \in answer' \cup reply' : r.cites \subseteq stored'
  BY <1>1, <1>2, <1>4 DEF IInv, TypeOK
<1>6. TypeOK'
  BY <1>2, <1>5, Zenon DEF IInv, TypeOK
<1>7. ReadyMeansDone' /\ ReviewedFirst' /\ ErrorsRetried' /\ AnswersKept'
  BY <1>2 DEF IInv, ReadyMeansDone, WorkflowComplete, ReviewedFirst, ErrorsRetried,
              AnswersKept
<1>8. AnswersAreBacked'
  BY <1>1, <1>2, <1>3, <1>4
     DEF AnswersAreBacked, WorkflowComplete, ReceiptsMatch, Eligible
<1>9. UnqualifiedHasNoGap'
  <2>1. ASSUME NEW r \in reply', r.decision = "validated"
        PROVE  Posture = "ordinary"
    BY <1>1, <1>4, <2>1
  <2>2. Unchecked' = Unchecked /\ NoCodes' = NoCodes
    BY <1>2 DEF Unchecked, NoCodes, Required
  <2> QED
    BY <1>2, <2>1, <2>2, PostureMeans DEF UnqualifiedHasNoGap
<1> QED
  BY <1>2, <1>6, <1>7, <1>8, <1>9 DEF IInv

LEMMA StutterSafe == IInv /\ UNCHANGED vars => IInv'
<1> SUFFICES ASSUME IInv, UNCHANGED vars PROVE IInv'
  OBVIOUS
<1>1. TypeOK'
  BY Zenon DEF IInv, TypeOK, vars
<1>2. ReadyMeansDone' /\ ReviewedFirst' /\ ErrorsRetried' /\ AnswersKept'
  BY DEF IInv, ReadyMeansDone, WorkflowComplete, ReviewedFirst, ErrorsRetried,
         AnswersKept, vars
<1>3. AnswersAreBacked'
  BY DEF IInv, AnswersAreBacked, WorkflowComplete, Eligible, vars
<1>4. UnqualifiedHasNoGap'
  <2>1. Unchecked' = Unchecked /\ NoCodes' = NoCodes
    BY DEF Unchecked, NoCodes, Required, vars
  <2> QED
    BY <2>1 DEF IInv, UnqualifiedHasNoGap, vars
<1> QED
  BY <1>1, <1>2, <1>3, <1>4 DEF IInv, vars

-----------------------------------------------------------------------------
\* The invariant of a run.
THEOREM Invariant == Spec => []IInv
<1>1. IInv /\ [Next]_vars => IInv'
  <2> SUFFICES ASSUME IInv, [Next]_vars PROVE IInv'
    OBVIOUS
  <2>1. CASE Understand \/ PrivacySafe \/ PrivacyRefused
    BY <2>1, ScreensSafe
  <2>2. CASE Laws \/ Constitutional
    BY <2>2, LawsSafe
  <2>3. CASE JudgmentRecall \/ PlannedRecall
    BY <2>3, RecallSafe
  <2>4. CASE NothingToVerify \/ VerifyJudgment
    BY <2>4, VerifySafe
  <2>5. CASE CounterAuthority
    BY <2>5, CounterSafe
  <2>6. CASE TimeContext \/ EvidenceSufficiency
    BY <2>6, TimeSafe
  <2>7. CASE BudgetSpent \/ AttemptLost
    BY <2>7, CutShortSafe
  <2>8. CASE RegisterPlan
    BY <2>8, RegisterSafe
  <2>9. CASE Lookup \/ LookupLost \/ InspectLineage
    BY <2>9, LookupSafe
  <2>10. CASE ClassifyOpposing
    BY <2>10, ClassifySafe
  <2>11. CASE \E s \in Sources : Expire(s)
    BY <2>11, ExpireSafe
  <2>12. CASE ValidateRefused
    BY <2>12, RefusedSafe
  <2>13. CASE \E cites \in (SUBSET Sources) \ {{}}, supported \in BOOLEAN :
                 Validate(cites, supported)
    BY <2>13, ValidateSafe
  <2>14. CASE Replay
    BY <2>14, ReplaySafe
  <2>15. CASE UNCHANGED vars
    BY <2>15, StutterSafe
  <2> QED
    BY <2>1, <2>2, <2>3, <2>4, <2>5, <2>6, <2>7, <2>8, <2>9, <2>10, <2>11,
       <2>12, <2>13, <2>14, <2>15 DEF Next
<1> QED
  BY <1>1, InitSafe, PTL DEF Spec

\* A run keeps well-formed values (ResearchRun, CoverageState).
THEOREM RunTypeCorrect == Spec => []TypeOK
BY Invariant, PTL DEF IInv

\* The drafting and final states are exactly those of a finished research
\* (ResearchRun.validate_timestamps_and_modes).
THEOREM ReadyIsDone == Spec => []ReadyMeansDone
BY Invariant, PTL DEF IInv

\* A posture that asks for a retry always has an obligation to continue
\* (continue_run, evaluate_research_sufficiency).
THEOREM RetriesHaveWork == Spec => []RetryHasWork
<1>1. IInv => RetryHasWork
  BY DEF IInv, ErrorsRetried, RetryHasWork, Sufficiency
<1> QED
  BY <1>1, Invariant, PTL

\* An answer that is handed out, also by a replay, rests on a finished
\* research and on live records (validate_answer).
THEOREM AnswersBacked == Spec => []AnswersAreBacked
BY Invariant, PTL DEF IInv

\* An unqualified answer is handed out only while nothing is missing
\* (validate_answer, build_finalization_contract).
THEOREM UnqualifiedComplete == Spec => []UnqualifiedHasNoGap
BY Invariant, PTL DEF IInv

\* After the budget is exhausted nothing is fetched and no obligation
\* completes, whatever operation is called (BudgetScope).
THEOREM BudgetIsFinal == Spec => BudgetStops
<1>1. [Next]_vars => [exhausted => exhausted' /\ pos' = pos /\ stored' = stored]_vars
  <2> SUFFICES ASSUME Next, exhausted
               PROVE  exhausted' /\ pos' = pos /\ stored' = stored
    BY DEF vars
  <2>1. \A k, got, out : ~Attempt(k, got, out)
    BY DEF Attempt
  <2>2. /\ ~Understand /\ ~PrivacySafe /\ ~PrivacyRefused
        /\ ~JudgmentRecall /\ ~PlannedRecall /\ ~NothingToVerify /\ ~VerifyJudgment
        /\ ~TimeContext /\ ~EvidenceSufficiency
    BY <2>1 DEF Understand, PrivacySafe, PrivacyRefused, JudgmentRecall,
                PlannedRecall, NothingToVerify, VerifyJudgment, TimeContext,
                EvidenceSufficiency
  <2>3. ~Laws /\ ~Constitutional
    BY <2>1 DEF Laws, Constitutional, Exactly, ByKeyword
  <2>4. ~CounterAuthority
    BY <2>1 DEF CounterAuthority, CounterMiss, CounterFound, CounterUnverified,
                CounterFailed, CounterRefused
  <2>5. CASE BudgetSpent \/ AttemptLost
    BY <2>5 DEF BudgetSpent, AttemptLost, CutShort, Obtained, progressVars
  <2>6. CASE Lookup \/ LookupLost \/ InspectLineage
    BY <2>6 DEF Lookup, LookupLost, InspectLineage, Obtained, progressVars
  <2>7. CASE RegisterPlan \/ ClassifyOpposing \/ (\E s \in Sources : Expire(s))
    BY <2>7 DEF RegisterPlan, ClassifyOpposing, Expire, progressVars, materialVars
  <2>8. CASE \/ ValidateRefused \/ Replay
             \/ \E cites \in (SUBSET Sources) \ {{}}, supported \in BOOLEAN :
                   Validate(cites, supported)
    BY <2>8 DEF ValidateRefused, Replay, Validate, progressVars, materialVars
  <2> QED
    BY <2>2, <2>3, <2>4, <2>5, <2>6, <2>7, <2>8 DEF Next
<1> QED
  BY <1>1, PTL DEF Spec, BudgetStops

-----------------------------------------------------------------------------
(***************************************************************************)
(* The privacy screen.  The mode is hybrid only while the screen is still  *)
(* ahead or has passed, and once it has passed it is not ahead any more.   *)
(***************************************************************************)
\* A plan with its privacy screen before any recall (ScreenAssumption).
InOrder(p) ==
    \A i, j \in 1..Len(p) : p[i] = "privacy" =>
        /\ i < Len(p)
        /\ p[j] = "privacy" => j = i
        /\ p[j] = "recall" => i < j
ScreenAhead == \E i \in pos..Len(plan) : plan[i] = "privacy"
Screened ==
    /\ InOrder(plan)
    /\ mode = "hybrid" => privacy = "safe" \/ ScreenAhead
    /\ privacy = "safe" => ~ScreenAhead

LEMMA InitScreened == Init => Screened
<1> SUFFICES ASSUME Init PROVE Screened
  OBVIOUS
<1>1. PICK p \in Profiles : plan = p.plan
  BY DEF Init
<1>2. InOrder(plan)
  BY <1>1, ScreenAssumption DEF InOrder
<1>3. pos = 1 /\ privacy # "safe"
  BY DEF Init
<1>4. mode = "hybrid" => ScreenAhead
  BY <1>3 DEF Init, HybridRequested, Required, ScreenAhead
<1> QED
  BY <1>2, <1>3, <1>4 DEF Screened

\* An attempt that is not the screen, and does not enter the hybrid mode.
LEMMA AttemptScreened ==
    ASSUME IInv, Screened, NEW k, k # "privacy", NEW got, NEW out,
           Attempt(k, got, out), out.mode = "hybrid" => mode = "hybrid",
           privacy' = privacy
    PROVE  Screened'
<1>1. /\ plan' = plan /\ plan[pos] = k /\ pos' \in {pos, pos + 1}
  BY DEF Attempt, Settle, orderVars
<1>2. mode' = "hybrid" => privacy = "safe" \/ out.mode = "hybrid"
  BY DEF Attempt, Settle
<1>3. Len(plan) \in Nat /\ pos \in Nat
  BY DEF IInv, TypeOK
<1>4. ScreenAhead' <=> ScreenAhead
  <2>1. \A i \in pos..Len(plan) : plan[i] = "privacy" => i \in pos'..Len(plan)
    BY <1>1, <1>3
  <2>2. pos'..Len(plan) \subseteq pos..Len(plan)
    BY <1>1, <1>3
  <2> QED
    BY <1>1, <2>1, <2>2 DEF ScreenAhead
<1> QED
  BY <1>1, <1>2, <1>4 DEF Screened

LEMMA ScreenScreened == IInv /\ Screened /\ (PrivacySafe \/ PrivacyRefused) => Screened'
<1> SUFFICES ASSUME IInv, Screened, PrivacySafe \/ PrivacyRefused PROVE Screened'
  OBVIOUS
<1> DEFINE safe == Nothing
           refused == [cov |-> cov, partial |-> {}, errors |-> {PrivacyBlocked}, retry |-> {},
                       marks |-> {}, mode |-> "official", degraded |-> TRUE]
<1>1. PICK out \in {safe, refused} : /\ Attempt("privacy", {}, out)
                                     /\ \/ out = safe /\ privacy' = "safe"
                                        \/ out = refused /\ privacy' = "blocked"
  BY DEF PrivacySafe, PrivacyRefused
<1>2. out.retry = {}
  BY <1>1 DEF Nothing, Report
<1>3. plan' = plan /\ pos <= Len(plan) /\ plan[pos] = "privacy" /\ pos' = pos + 1
  BY <1>1, <1>2 DEF Attempt, Settle, Pending, orderVars
<1>4. Len(plan) \in Nat /\ pos \in Nat /\ pos >= 1
  BY DEF IInv, TypeOK
<1>5. privacy # "safe"
  BY <1>3, <1>4 DEF Screened, ScreenAhead
<1>6. ~ScreenAhead'
  <2>1. \A i \in (pos + 1)..Len(plan) : plan[i] # "privacy"
    BY <1>3, <1>4 DEF Screened, InOrder
  <2> QED
    BY <1>3, <2>1 DEF ScreenAhead
<1>7. mode' = "hybrid" => out # refused
  <2>1. SUFFICES ASSUME out = refused PROVE mode' = "official"
    OBVIOUS
  <2>2. out.mode = "official"
    BY <2>1
  <2> QED
    BY <1>1, <1>5, <2>2 DEF Attempt, Settle
<1>8. mode' = "hybrid" => privacy' = "safe"
  BY <1>1, <1>7
<1> QED
  BY <1>3, <1>6, <1>8 DEF Screened

\* No other handler reports the hybrid mode unless it has found it.
Found(out) == out.mode = "hybrid" => mode = "hybrid"

LEMMA HandlersScreened ==
    ASSUME IInv, Screened,
           \/ Understand \/ Laws \/ Constitutional \/ JudgmentRecall \/ PlannedRecall
           \/ NothingToVerify \/ VerifyJudgment \/ CounterAuthority \/ TimeContext
           \/ EvidenceSufficiency
    PROVE  Screened'
<1>1. privacy' = privacy
  BY DEF Understand, Laws, Constitutional, JudgmentRecall, PlannedRecall, NothingToVerify,
         VerifyJudgment, CounterAuthority, TimeContext, EvidenceSufficiency
<1>2. SUFFICES ASSUME \A k, got, out : k # "privacy" /\ Found(out) => ~Attempt(k, got, out)
               PROVE  FALSE
  BY <1>1, AttemptScreened DEF Found
<1>3. \A c, partial, errors, again : Found(Report(c, partial, errors, again))
  BY DEF Report, Found
<1>4. \A official, external, usable : Found(RecallOutcome(official, external, usable))
  BY DEF RecallOutcome, Found
<1>5. \A status, checked, complete, codes, reported :
        Found(CounterOutcome(status, checked, complete, codes, reported))
  BY DEF CounterOutcome, Found
<1>6. ~Understand /\ ~PlannedRecall /\ ~TimeContext /\ ~EvidenceSufficiency /\ ~NothingToVerify
  BY <1>2, <1>3 DEF Understand, PlannedRecall, TimeContext, EvidenceSufficiency, NothingToVerify,
                    Nothing
<1>7. ~Laws /\ ~Constitutional
  BY <1>2, <1>3 DEF Laws, Constitutional, Exactly, ByKeyword
<1>8. ~JudgmentRecall
  BY <1>2, <1>4 DEF JudgmentRecall
<1>9. ~VerifyJudgment
  BY <1>2, <1>3 DEF VerifyJudgment
<1>10. ~CounterAuthority
  BY <1>2, <1>5 DEF CounterAuthority, CounterMiss, CounterFound, CounterUnverified,
                    CounterFailed, CounterRefused
<1> QED
  BY <1>6, <1>7, <1>8, <1>9, <1>10

\* p begins with the plan up to its last obligation and adds no screen.
Lengthens(p) ==
    /\ p \in Seq(Kinds) /\ Len(p) >= Len(plan) - 1
    /\ \A i \in 1..Len(p) : IF i <= Len(plan) - 1 THEN p[i] = plan[i] ELSE p[i] # "privacy"

LEMMA LengthensMore ==
    ASSUME NEW p, Lengthens(p), plan \in Seq(Kinds), NEW k \in Kinds \ {"privacy"},
           NEW more \in {<<>>, <<k>>}
    PROVE  Lengthens(p \o more) /\ Len(p \o more) = Len(p) + Len(more)
<1>1. p \in Seq(Kinds) /\ more \in Seq(Kinds) /\ Len(more) \in {0, 1}
      /\ \A i \in 1..Len(more) : more[i] # "privacy"
  <2>1. p \in Seq(Kinds)
    BY DEF Lengthens
  <2>2. CASE more = <<>>
    BY <2>1, <2>2, EmptySeq
  <2>3. CASE more = <<k>>
    BY <2>1, <2>3
  <2> QED
    BY <2>2, <2>3
<1>2. /\ p \o more \in Seq(Kinds) /\ Len(p \o more) = Len(p) + Len(more)
      /\ \A i \in 1..(Len(p) + Len(more)) :
            (p \o more)[i] = IF i <= Len(p) THEN p[i] ELSE more[i - Len(p)]
  BY <1>1, ConcatProperties
<1>3. Len(p) \in Nat /\ Len(plan) \in Nat /\ Len(p) >= Len(plan) - 1
  BY <1>1 DEF Lengthens
<1>4. \A i \in 1..Len(p \o more) : IF i <= Len(plan) - 1 THEN (p \o more)[i] = plan[i]
                                                         ELSE (p \o more)[i] # "privacy"
  <2> SUFFICES ASSUME NEW i \in 1..Len(p \o more)
               PROVE  IF i <= Len(plan) - 1 THEN (p \o more)[i] = plan[i]
                                            ELSE (p \o more)[i] # "privacy"
    OBVIOUS
  <2>1. CASE i <= Len(p)
    BY <1>2, <1>3, <2>1 DEF Lengthens
  <2>2. CASE i > Len(p)
    <3>1. i - Len(p) \in 1..Len(more)
      BY <1>1, <1>2, <1>3, <2>2
    <3> QED
      BY <1>1, <1>2, <1>3, <2>2, <3>1
  <2> QED
    BY <1>3, <2>1, <2>2
<1> QED
  BY <1>1, <1>2, <1>3, <1>4 DEF Lengthens

LEMMA RegisterScreened == IInv /\ Screened /\ RegisterPlan => Screened'
<1> SUFFICES ASSUME IInv, Screened, RegisterPlan PROVE Screened'
  OBVIOUS
<1>1. PICK proposed \in Proposals :
        LET Added(k) == IF k \in proposed /\ ~Required(k) THEN <<k>> ELSE <<>>
        IN plan' = SubSeq(plan, 1, Len(plan) - 1) \o Added("recall")
                   \o Added("verify") \o Added("constitutional")
                   \o Added("counter") \o Added("time") \o <<plan[Len(plan)]>>
  BY DEF RegisterPlan
<1> DEFINE Added(k) == IF k \in proposed /\ ~Required(k) THEN <<k>> ELSE <<>>
           front == SubSeq(plan, 1, Len(plan) - 1)
           last == plan[Len(plan)]
<1>2. plan \in Seq(Kinds) /\ Len(plan) \in Nat \ {0}
  BY EmptySeq DEF IInv, TypeOK
<1>3. last \in Kinds \ {"privacy"}
  BY <1>2 DEF Screened, InOrder
<1>4. Lengthens(front) /\ Len(front) = Len(plan) - 1
  <2>1. /\ front \in Seq(Kinds) /\ Len(front) = Len(plan) - 1
        /\ \A i \in 1..(Len(plan) - 1) : front[i] = plan[i]
    <3>1. Len(plan) - 1 \in 0..Len(plan)
      BY <1>2
    <3>2. \A i \in 1..((Len(plan) - 1) - 1 + 1) : front[i] = plan[1 + i - 1]
      BY <1>2, <3>1, SubSeqProperties
    <3>3. front \in Seq(Kinds) /\ Len(front) = Len(plan) - 1
      <4>1. \A i \in 1..(Len(plan) - 1) : plan[i] \in Kinds
        BY <1>2
      <4>2. /\ front \in Seq(Kinds)
            /\ Len(front) = IF 1 <= Len(plan) - 1 THEN (Len(plan) - 1) - 1 + 1 ELSE 0
        BY <3>1, <4>1, SubSeqProperties
      <4> HIDE DEF front
      <4>3. CASE 1 <= Len(plan) - 1
        <5>1. (Len(plan) - 1) - 1 + 1 = Len(plan) - 1
          BY <1>2
        <5> QED
          BY <4>2, <4>3, <5>1, Zenon
      <4>4. CASE ~(1 <= Len(plan) - 1)
        <5>1. Len(plan) - 1 = 0
          <6>1. \A n \in Nat \ {0} : ~(1 <= n - 1) => n - 1 = 0
            OBVIOUS
          <6> QED
            BY <1>2, <4>4, <6>1, Zenon
        <5> QED
          BY <4>2, <4>4, <5>1, Zenon
      <4> QED
        BY <4>3, <4>4
    <3>4. ASSUME NEW i \in 1..(Len(plan) - 1) PROVE front[i] = plan[i]
      <4>1. i \in 1..((Len(plan) - 1) - 1 + 1) /\ 1 + i - 1 = i
        BY <1>2
      <4> QED
        BY <3>2, <4>1
    <3> QED
      BY <3>3, <3>4
  <2> HIDE DEF front
  <2> QED
    BY <1>2, <2>1 DEF Lengthens
<1>5. \A k : Added(k) \in {<<>>, <<k>>}
  OBVIOUS
<1>6. /\ "recall" \in Kinds \ {"privacy"} /\ "verify" \in Kinds \ {"privacy"}
      /\ "constitutional" \in Kinds \ {"privacy"} /\ "counter" \in Kinds \ {"privacy"}
      /\ "time" \in Kinds \ {"privacy"}
  BY DEF Kinds
<1>7. plan' = front \o Added("recall") \o Added("verify") \o Added("constitutional")
              \o Added("counter") \o Added("time") \o <<last>>
  BY <1>1
<1> HIDE DEF Added, front, last
<1>8. Lengthens(plan') /\ Len(plan') >= Len(plan)
  <2>1. Lengthens(front \o Added("recall"))
    BY <1>2, <1>4, <1>5, <1>6, LengthensMore
  <2>2. Lengthens(front \o Added("recall") \o Added("verify"))
    BY <1>2, <1>5, <1>6, <2>1, LengthensMore
  <2>3. Lengthens(front \o Added("recall") \o Added("verify") \o Added("constitutional"))
    BY <1>2, <1>5, <1>6, <2>2, LengthensMore
  <2>4. Lengthens(front \o Added("recall") \o Added("verify") \o Added("constitutional")
                  \o Added("counter"))
    BY <1>2, <1>5, <1>6, <2>3, LengthensMore
  <2>5. Lengthens(front \o Added("recall") \o Added("verify") \o Added("constitutional")
                  \o Added("counter") \o Added("time"))
    BY <1>2, <1>5, <1>6, <2>4, LengthensMore
  <2> DEFINE most == front \o Added("recall") \o Added("verify") \o Added("constitutional")
                     \o Added("counter") \o Added("time")
  <2> HIDE DEF most
  <2>6. Lengthens(most)
    BY <2>5 DEF most
  <2>7. Lengthens(most \o <<last>>) /\ Len(most \o <<last>>) = Len(most) + 1
    BY <1>2, <1>3, <2>6, LengthensMore
  <2>8. Len(most) \in Nat /\ Len(most) >= Len(plan) - 1
    BY <2>6 DEF Lengthens
  <2>9. plan' = most \o <<last>>
    BY <1>7 DEF most
  <2> QED
    BY <1>2, <2>7, <2>8, <2>9
<1>9. pos' = pos /\ mode' = mode /\ privacy' = privacy /\ pos \in Nat /\ pos >= 1
  BY DEF RegisterPlan, progressVars, recallVars, IInv, TypeOK
<1>10. Len(plan') \in Nat
  BY <1>8 DEF Lengthens
<1>11. \A i \in 1..Len(plan') : plan'[i] = "privacy" => i <= Len(plan) - 1 /\ plan[i] = "privacy"
  BY <1>2, <1>8 DEF Lengthens
<1>12. \A i \in 1..Len(plan) : plan[i] = "privacy" => i <= Len(plan) - 1 /\ plan'[i] = "privacy"
  BY <1>2, <1>8, <1>10 DEF Lengthens, Screened, InOrder
<1>13. InOrder(plan')
  <2> SUFFICES ASSUME NEW i \in 1..Len(plan'), NEW j \in 1..Len(plan'), plan'[i] = "privacy"
               PROVE  /\ i < Len(plan')
                      /\ plan'[j] = "privacy" => j = i
                      /\ plan'[j] = "recall" => i < j
    BY DEF InOrder
  <2>1. i <= Len(plan) - 1 /\ i \in 1..Len(plan) /\ plan[i] = "privacy"
    BY <1>2, <1>10, <1>11
  <2>2. i < Len(plan')
    BY <1>2, <1>8, <1>10, <2>1
  <2>3. plan'[j] = "privacy" => j = i
    <3>1. SUFFICES ASSUME plan'[j] = "privacy" PROVE j = i
      OBVIOUS
    <3>2. j \in 1..Len(plan) /\ plan[j] = "privacy"
      BY <1>2, <1>10, <1>11, <3>1
    <3> QED
      BY <2>1, <3>2 DEF Screened, InOrder
  <2>4. plan'[j] = "recall" => i < j
    <3>1. CASE j <= Len(plan) - 1
      <4>1. j \in 1..Len(plan) /\ plan'[j] = plan[j]
        BY <1>2, <1>8, <1>10, <3>1 DEF Lengthens
      <4> QED
        BY <2>1, <4>1 DEF Screened, InOrder
    <3>2. CASE j > Len(plan) - 1
      BY <1>2, <1>10, <2>1, <3>2
    <3> QED
      BY <1>2, <1>10, <3>1, <3>2
  <2> QED
    BY <2>2, <2>3, <2>4
<1>14. ScreenAhead' <=> ScreenAhead
  <2>1. ASSUME NEW i \in pos..Len(plan), plan[i] = "privacy"
        PROVE  i \in pos'..Len(plan') /\ plan'[i] = "privacy"
    BY <1>2, <1>8, <1>9, <1>10, <1>12, <2>1
  <2>2. ASSUME NEW i \in pos'..Len(plan'), plan'[i] = "privacy"
        PROVE  i \in pos..Len(plan) /\ plan[i] = "privacy"
    BY <1>2, <1>9, <1>10, <1>11, <2>2
  <2> QED
    BY <2>1, <2>2 DEF ScreenAhead
<1> QED
  BY <1>9, <1>13, <1>14 DEF Screened

LEMMA StepScreened == IInv /\ Screened /\ [Next]_vars => Screened'
<1> SUFFICES ASSUME IInv, Screened, [Next]_vars PROVE Screened'
  OBVIOUS
<1>1. ASSUME UNCHANGED <<plan, pos, mode, privacy>> PROVE Screened'
  BY <1>1 DEF Screened, InOrder, ScreenAhead
<1>2. CASE PrivacySafe \/ PrivacyRefused
  BY <1>2, ScreenScreened
<1>3. CASE \/ Understand \/ Laws \/ Constitutional \/ JudgmentRecall \/ PlannedRecall
           \/ NothingToVerify \/ VerifyJudgment \/ CounterAuthority \/ TimeContext
           \/ EvidenceSufficiency
  BY <1>3, HandlersScreened
<1>4. CASE RegisterPlan
  BY <1>4, RegisterScreened
<1>5. CASE \/ BudgetSpent \/ AttemptLost \/ Lookup \/ LookupLost \/ InspectLineage
           \/ ClassifyOpposing \/ ValidateRefused \/ Replay
           \/ \E s \in Sources : Expire(s)
           \/ \E cites \in (SUBSET Sources) \ {{}}, supported \in BOOLEAN :
                 Validate(cites, supported)
  <2>1. UNCHANGED <<plan, pos, mode, privacy>>
    BY <1>5 DEF BudgetSpent, AttemptLost, CutShort, Lookup, LookupLost, InspectLineage,
                ClassifyOpposing, ValidateRefused, Replay, Expire, Validate,
                orderVars, progressVars, recallVars
  <2> QED
    BY <1>1, <2>1
<1>6. CASE UNCHANGED vars
  BY <1>1, <1>6 DEF vars
<1> QED
  BY <1>2, <1>3, <1>4, <1>5, <1>6 DEF Next

\* External recall runs only after the privacy screen has passed, whatever
\* the plan, and a mode that is restored after a degraded recall bypasses no
\* refusal (continue_run, _plan_obligations).
THEOREM RecallIsScreened == Spec => []HybridIsScreened
<1>1. IInv /\ Screened => HybridIsScreened
  <2> SUFFICES ASSUME IInv, Screened, mode = "hybrid", pos <= Len(plan), plan[pos] = "recall",
                      privacy # "safe"
               PROVE  FALSE
    BY DEF HybridIsScreened
  <2>1. PICK i \in pos..Len(plan) : plan[i] = "privacy"
    BY DEF Screened, ScreenAhead
  <2>2. Len(plan) \in Nat /\ pos \in 1..Len(plan) /\ i \in 1..Len(plan)
    BY DEF IInv, TypeOK
  <2> QED
    BY <2>1, <2>2 DEF Screened, InOrder
<1>2. Init /\ [][Next]_vars => []Screened
  BY InitScreened, StepScreened, Invariant, PTL DEF Spec
<1> QED
  BY <1>1, <1>2, Invariant, PTL DEF Spec
=============================================================================
