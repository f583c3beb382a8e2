# A TLA+ verification of ALR-TW

ALR-TW researches questions of Taiwanese law for a language-model client.  The
client drives a *managed run* over MCP or a command line: the server plans
obligations, fetches statutes, judgments and constitutional decisions from
official sites, keeps what it verified in a SQLite store, and says whether an
answer drafted from it may be shown.  Its promise is not that it finds
everything but that it never hides what it did not find, and that promise has
to survive retries, crashes, expiring sources and several processes on one
storage directory.  This directory models the parts that carry it.

All paths below are relative to `src/src/alr_tw/` unless they say otherwise.

## 1. The system

### Components, state, operations

| Component | State it keeps | Operations |
|---|---|---|
| Managed store (`storage/sqlite_store.py`, `storage/path_identity.py`) | one database: runs, operations, sources, evidence, cache entries, candidates, receipts; per instance the identity of the file it opened and a `_purged` flag; an RLock and an exclusive `flock` on the directory | open, create/save run, record/complete operation, recovery sweep, purge of a run, of expired runs, of everything |
| Research service (`research/service.py`, `research/state_machine.py`, `budget.py`) | a run: state, obligations, coverage buckets, recall mode, HTTP budget; one lock per process | create_run, continue_run, register_research_plan, lookup_source, inspect_judgment_lineage, validate_legal_analysis, get_finalization_contract, validate_answer, purge |
| Sufficiency and finalization (`contracts/research.py`, `contracts/finalization.py`) | none: functions of a run | evaluate_research_sufficiency, build_finalization_contract |
| Snapshot receipts (`contracts/provider_snapshot.py`, `research/snapshot_receipts.py`) | receipts that bind the exact eligible materials of a run | issue, check |
| Provider executor (`research/provider_executor.py`) | none of its own; writes sources, evidence and cache through the store | one handler per obligation, exact lookup, lineage inspection |
| Counter-authority search (`research/counter_authority.py`) | resumable progress, kept on the obligation | plan, execute, resume |
| Judgment lineage (`research/judgment_lineage.py`) | nodes and edges of the instances of a case | bounded traversal |
| Official providers (`providers/official`) | the law dataset and its term, the court's index, both in memory between calls | exact lookup, search, resolution of citations |
| External recall (`providers/tlr`) | none; the provider's handles expire | search, reading of a text page by page, case history |
| Public-law material (`providers/legislative_yuan.py`, `providers/sdk.py`, `contracts/public_law.py`) | none | request, adaptation, promotion of sources, validation at the time of use |
| Portal and packs (`providers/local_portal.py`, `providers/*_pack.py`) | installed packs | lookup, verification of a pack |
| Verification (`verification/`, `research/citation_identity.py`, `research/draft_workspace.py`) | none | grading of claims, coverage of an answer by its bindings, output privacy, validation of an analysis |
| MCP server (`src/src/tw_legal_rag_mcp/mcp_server`) | the handshake, the tool profile, the recorded run of an external client, the service instance | JSON-RPC tools over stdio |
| Legacy pipeline and trust gates (`src/src/tw_legal_rag_mcp`) | none between calls | query understanding, search, citation gates |
| Harness, evaluation, command line | recorded traces | drive or score the service |

`PROJECT.json` lists all of them with what is and what is not modelled.

### Interactions

* A client calls a service operation with a `run_id` and an `operation_id`.  The
  service enters `operation_attempt` of the store (coordinator held, recovery
  sweep), then takes its own lock, records the claim, works, saves the run and
  completes the operation.  The same `operation_id` again replays the stored
  result.
* During an operation the executor calls providers, each call charged to the
  run's budget by a callback that writes to the store in the middle of the
  operation.
* The outcome of an obligation comes back as codes.  The service sorts them into
  buckets of the coverage, decides whether the obligation is complete or waits
  for a retry, and derives sufficiency and the answer posture from the buckets.
* Receipts and eligibility connect the store to the posture: a record that
  expires, or one stored after the receipts were issued, changes what may be
  answered without any call touching the run.
* A lookup goes through the cache, which all runs share: a source another run has
  fetched is linked to this one, with its evidence, and a purge of either run must
  leave the other's intact.
* What an external provider says (a candidate, a case history, a marker) is a hint:
  only what the official provider returns for it is stored as evidence.
* The counter-authority search reads the materials other operations stored, and
  its progress travels through the obligation from one operation to the next.

### What is hard

* Interleaving: threads of one process share two locks taken in opposite orders;
  processes share only the directory lock; saves of a run compare no version.
* Crashes between any two transactions: between a claim and its completion,
  between the final answer and the purge of an ephemeral run, between a stored
  source and its receipt.
* Retries: under the same identity (replay), under a new one (a pending
  obligation), with codes of earlier attempts to be cleared and others not.
* Ordering: search results that change rank between two attempts, codes of one
  obligation that another one clears.
* Limits: the HTTP budget may run out inside any operation; the search has a
  bound on exact lookups over all its resumptions.
* Stale state: expired sources, stored answers replayed after the research moved
  on, a database file replaced under an open instance, a dataset downloaded before
  an amendment, a public-law result kept past the term of its metadata.
* A changing world: the site publishes, withdraws and reorders between two requests
  of one call, a provider replaces a text between two of its pages, and any page
  may be blocked, cut or not recognised.
* Untrusted input: drafts, bindings, analyses and recorded runs come from a client;
  nothing in them counts but what the server resolves itself.

The `hazards` in `PROJECT.json` list these at their lines, with the properties
that would catch each, or the reason why none does yet.

### What makes each component correct

* Store: a claim belongs to one living worker until it ends; recovery fails
  claims of the dead and of nobody else; an operation is executed at most once;
  no writer overwrites another's write; nobody is stuck in a lock.
* Service: every answer rests on finished research and live sources; an answer
  without qualification is given only if nothing at all is missing; a run that
  asks for a retry can be retried; an exhausted budget stops everything.
* Search: resuming neither spends more than the bound, nor forgets, nor turns a
  judgment that could not be verified into "nothing found".
* Receipts: an answer is never backed by a record they do not cover.
* Materials: nothing stays that no run owns, a lookup answers with all of its
  evidence, whatever was purged, cleaned up or died in the middle.
* Providers: what is found is what was asked for; a miss is what the source said;
  complete means complete; nothing private leaves.
* Lineage and public law: hints are confirmed officially or not reported; a stored
  result is used only while it is current; an absence is earned.
* Answers and analyses: each claim rests on a passage that may support it, each
  conclusion on a binding source in force.

## 2. Modules

| Module | What it is |
|---|---|
| `OperationLedger` | abstract: what the store promises about runs and operation identities |
| `ManagedStore` | the store, its locks, processes and crashes, and the claim protocol of the service |
| `MCManagedStore`, `Store*.cfg` | instances of it for TLC |
| `ManagedStoreProofs` | type correctness and safety of `ManagedStore`, and that it implements `OperationLedger`, proved |
| `ResearchRun` | the workflow of one run: obligations, coverage, sufficiency, receipts, answers |
| `MCResearchRun`, `Run*.cfg` | instances of it |
| `ResearchRunProofs` | type correctness and safety of `ResearchRun`, proved |
| `CounterAuthority` | the bounded, resumable search for opposing judgments |
| `CounterAuthorityProofs` | that it says no false miss, loses no progress, keeps its bound and claims completeness rightly, proved |
| `SourceMaterials` | sources, evidence, cache and receipts of the store; the cached lookup that fills them |
| `JudgmentLineage` | the inspection of a judgment's history, its contract and its replay |
| `RecordProofs` | the safety properties of the last two, proved |
| `JudgmentProvider` | lookups and searches on the Judicial Yuan's site, the portal before it, the budget around it |
| `JudgmentProviderProofs` | its safety properties, proved |
| `LawSources` | the law dataset and the Constitutional Court's index, kept in memory over changing sources |
| `TlrRecall` | the external recall provider behind its privacy screen |
| `LawAndRecallProofs` | the safety properties of the last two, proved |
| `PublicLaw` | the Legislative Yuan's data and other backends, the adapter, the gate, the validation |
| `PublicLawProofs` | its safety properties, proved; and that the subjects of `MCRecords` are separate |
| `ClaimSupport` | operators: how a claim is graded against segments of text, and the trust gate |
| `McpSession` | a session of the server, with the recorded run of an external client |
| `AnswerValidation` | the check of a drafted answer against the passages it is bound to |
| `LegalAnalysis` | the check of a structured analysis, over the same sources |
| `SubmissionProofs` | the safety properties of sessions, drafts and analyses, proved; and that the subjects of `MCSources` are separate |
| `MCSources`, `Sources.cfg` | an instance of the search, the four provider modules, the session, drafts and analyses |
| `MCRecords`, `Records.cfg`, `RemovedForgotten.cfg` | an instance of the materials, the lineage and public law |

The modules meet at interfaces rather than in one product.  `ManagedStore` shows
that managed operations of a run exclude one another and compute with the stored
run; `ResearchRun` therefore makes each operation one action, and an operation
that ends half way another.  The statuses `CounterAuthority` can report are the
branches of the action `CounterAuthority` in `ResearchRun`; the results of the
provider modules are the outcomes of `Fetch` in `SourceMaterials`, of `VerifyEntry`
in `JudgmentLineage` and of the search's lookups.  `SourceMaterials` keeps its steps
between two transactions apart, since time and death come in between; that no other
operation does is what `ManagedStore` shows.  `McpSession` uses `ClaimSupport`,
`AnswerValidation` extends it, and `LegalAnalysis` extends `AnswerValidation`, whose
sources and passages it shares.

Each of the two MC modules that hold several subjects chooses one in its initial
state; the others stay as they are, so that the run is the disjoint union of
their state graphs.  `RecordsAreSeparate` and `SourcesAreSeparate` prove that such a
union behaves as each of its modules does, for any instance.

Operators called a mutant or a variant in their comment are not part of any
specification.  Each states a plausible slip in the definition after it (a lock
not taken, a code not cleared), and is there to show that a property notices.

### ManagedStore and the code

| TLA+ | Code |
|---|---|
| `holder` | `_storage_attempt`: the instance's RLock and the exclusive `flock`, taken without waiting and held for the same stretch |
| `svc` | `ResearchService._lock` of the process |
| `known`, `dbFile`, `retired` | the file identity an instance remembers, the one on disk, `_purged` |
| `Begin`, `Swept` | `operation_attempt` and the sweep in `_writer_attempt` that fails managed rows in progress |
| `ClaimOp`, `ReplayOp`, `RefuseOp` | `record_operation` after the run was read under the service lock |
| `Charge` | `BudgetScope.request` with its persist callback |
| `SaveRun`, `CompleteOp`, `PurgeEphemeral` | the last writes of an operation, each a transaction |
| `Raise`, `CloseClaim`, `CloseGivenUp` | an exception: locks released first, then `_close_failed_operations` through a new connection, whose own failure is swallowed |
| `Interrupt` | a BaseException, which skips the closing |
| `ReadRun`, `SaveProjection`, `EndRead` | `get_finalization_contract`, a read and a write in two connections |
| `OpenStore`, `Crash`, `PurgeAll`, `CleanupExpired`, `Expire` | instances, process death, deletion, time |

Abstractions.  A run's payload is two counters, its decisions and its spent
budget: enough to see a lost update.  The six managed operations are represented
by three that differ in locks and writes.  Run ids are fresh UUIDs, so a run is
created at most once.  Operations of different requests are told apart by their
kind; whether a stored result is stale is left open (`RefuseOp` may refuse any
repetition but that of `continue_run`).  A step between two transactions is one
action, because SQLite makes each transaction atomic and the coordinator keeps
other connections out of it.

### ResearchRun and the code

| TLA+ | Code |
|---|---|
| `plan`, `pos`, `retry` | the obligations in order, the first pending one, the codes its next attempt clears |
| `cov` | `CoverageState`: limitations, partial and error/timeout buckets, the flags, the counter-authority fields |
| `Attempt`, `Settle` | `continue_run` after the claim: fetch, outcome, codes, state transition, receipts |
| `Laws`, `Constitutional`, `JudgmentRecall`, `VerifyJudgment`, `CounterAuthority`, ... | the handlers of `ProviderResearchExecutor` |
| `BudgetSpent`, `AttemptLost` | `_budgeted_call` stopped by the budget; an attempt that ends without an outcome |
| `RegisterPlan`, `Lookup`, `InspectLineage`, `ClassifyOpposing` | the other managed operations |
| `Sufficiency`, `CoverageComplete`, `Posture`, `Qualification` | `evaluate_research_sufficiency`, `_refresh_sufficiency`, `build_finalization_contract` |
| `ReceiptsMatch`, `SyncReceipts` | `check_run_snapshot_receipts`, `_sync_snapshot_receipts` |
| `ValidateRefused`, `Validate`, `Replay` | `validate_answer` |

Abstractions.  A source record with its evidence and its payload digest is one
value; every fetch makes a new record, so an expired one stays expired.  The
error and time-out buckets are one, since both are read together.  The provider
scopes of the coverage receipt are left out: a provider that only failed has left
a code behind.  Codes treated alike are represented by one of them; which calls
can fail with which codes is the constant `Failures`.  Whether a text is
supported by the evidence it cites is a nondeterministic input of `Validate`.
`settled` has no counterpart in the code: it remembers what completed
obligations reported, so that a property can say whether it is still disclosed.
`candidates` keeps which kinds of candidate the recall has left: with a canonical
identifier, without one, and "external" for those of TLR, each of which is saved as
a source record of the run (`EXTERNAL_CANDIDATE`) that is never eligible.  Such a
record alone makes every later posture conditional (`_run_with_eligible_refs`).

### CounterAuthority and the code

| TLA+ | Code |
|---|---|
| `saved` | `counter_authority_progress` of the obligation |
| `op`, `cur` | the locals of `execute_bounded_counter_authority` and of its loop body |
| `material` | the official judgments of the run (`existing_verified`) |
| `Begin`, `PriorAttempts`, `PriorVerified` | the set-up of a resumed execution |
| `KeepClean`, `SearchFailed`, `Searched` | the three ways a query starts |
| `NeedsLookup`, `Outcomes` | the executor's `verification_cost` and `verify` closures |
| `Truncated`, `Verify`, `EndQuery` | the candidate loop and the merge of the query's progress |
| `Status`, `Finish` | the overall status, and `continue_run` keeping or dropping the progress |
| `Lost`, `OtherLookup` | an operation that dies or exhausts its budget; another operation of the run |

Abstractions.  A judgment stands for its canonical identifier.  The order of a
result list is left open: any order may be the one the site returns.  A search
either lists judgments, fully or in part, or has none, as the official provider's
does; a page without recognisable content is an error.  `query_failures` is
dropped, because whatever counts as a failure also keeps its query from being
clean.  `fetched` and `listed` are ghosts for the properties.  A record's expiry
is left out: the search reuses a record whether it has expired or not, and
`ResearchRun` decides what an expired record is worth.

### SourceMaterials and the code

| TLA+ | Code |
|---|---|
| `records`, `links`, `held`, `cached`, `receipts` | the tables `source_records`, `run_sources`, `evidence_spans`, `cache_entries`, `provider_snapshot_receipts` |
| `BeginLookup`, `ReadCache`, `Fetch` | `_cached_lookup` up to the provider's answer; the entry is noted before it is known to be fresh |
| `SaveSource`, `SaveEvidence`, `SaveCacheEntry`, `FinishLookup` | the transactions that store a source, each span, the entry, and the receipts with the answer |
| `PurgeRun`, `PurgeAll`, `CleanUp` | the deletions, with the rows that go with a record |
| `CheckReceipts` | `check_run_snapshot_receipts` behind a finalization contract |

A record is its key, the instant of its fetch and its text; a digest is the set it
is taken of.  Time and death come between any two transactions.

### JudgmentLineage and the code

`BeginInspection` to `FinishInspection` are `inspect_judgment_lineage` of the
executor and the service: the root, the case history with a handle that may have to
be refreshed, the entries one by one with an official lookup and two transactions
each, the contract and the end of the operation.  `ReplayInspection` compares the
material digest of the stored result with the run's.  `StoreJudgment`,
`ForgetExpired` and `MomentPasses` are what happens in between.  Directions and
markers are the provider's free choice; a page's disposition is "vacates" or
"other".

### The provider modules and the code

| TLA+ | Code |
|---|---|
| `call`, `answer` of `JudgmentProvider` | one call of `OfficialJudgmentProvider` or of the portal in front of it, step by step between requests |
| `Publish`, `Withdraw` | the site, between two requests |
| `HandedOut`, `TimeOut`, `NextBudget` | `bounded_provider` and the budget scope |
| `Download`, `UseArticle`, `CheckPage` | the dataset of `OfficialLawProvider`, the catalogue and the web page of an article |
| `ReadListPage`, `ReadDecision`, `CancelCourt` | the index of `OfficialConstitutionalProvider`, built once |
| `ScreenStatus`, `sent` | `screen_external_query` and the texts that leave the process |
| `ReadPage`, `Replace` | the reading of a candidate's text, and the provider replacing it |
| `LyFetch`, `LyRow`, `LyReturn` | the datasets of `LegislativeYuanHistoricalLawBackend` |
| `Promote`, `Adapt`, `Resolve`, `Validate` | the source gate of the server, `GenericPublicLawProviderAdapter`, `HistoricalLawProviderAdapter`, `validate_historical_law_resolution` |

The web page checked against an article is that of its whole law, and the check looks
for the text anywhere in it.  The constant `Shows` gives the texts such a page contains
while the article says one thing; in the instance an amendment adds to the old text, and
the page of a repealed law still shows what it said.

A page is what its parser reads of it: the judgment shown, the identifiers in its
links, whether it has a text, or that it is not recognised.  A text that goes out is
what the screen looks at.  `shown`, `throughout`, `grew`, `troubled`, `courtGap` and
`courtBase` are ghosts for the properties.

### McpSession, AnswerValidation, LegalAnalysis and the code

| TLA+ | Code |
|---|---|
| `handshake`, `profile`, `service` | the protocol's states, the tool profile, the store the session has opened |
| `recorded`, `FinalizeAgenticRun` | the recorded run of an external client and the trace it ends with |
| `SupportStatus`, `GateAction` (`ClaimSupport`) | `_check_single_claim_support`, `_trust_gate_trace` |
| `ValidateAnswer`, `ReviewDraft` | `validate_answer` after its gates, `review_draft` |
| `Clauses`, `Unbound`, `Annotated` | the clauses of the answer, those no binding covers, the citations taken out of them |
| `Sentences`, `Extracted` | `extract_answer_claims` of an answer without bindings: its sentences of three characters or more |
| `Equivalent` | `judgment_name_equivalent` |
| `ValidateLegalAnalysis`, `Blockers`, `Qualifications` | `validate_legal_analysis` of the verification and of the service |

A message that is refused or only answers changes nothing and is no action.  An
answer is a sequence of words and marks: a binding's place, overlaps and what two
texts share are computed from the words, and the polarity of a word pair or the
kind of an anchor is given with the word; of single words only "guilty" is shorter than
three characters.  The drafts and analyses of the instance
are one that is right and variants with one thing changed.

## 3. What is checked

Passing runs.

| Run | Instance | What it shows |
|---|---|---|
| `store_processes` | two processes with one worker each, two runs (one ephemeral, one with a row an older version left in progress), two operation ids, two file identities | `OwnedClaim`: a worker past its claim still owns it, on the file it opened.  `SoleClaim`: the sweep never fails a living operation.  `SnapshotCurrent`: unversioned saves of a claimant overwrite nothing.  `LedgerSpec`: the store implements the ledger |
| `store_threads` | three threads of one process, which is started again when it dies, with clients that retry | `DecisionsKept`: the service lock keeps a projection from taking back a decision.  `LocksReleased`: neither lock is kept for ever.  `OrphanResolved`: an orphaned claim ends, without an administrator |
| `run_workflow` | four profiles (laws, judgments and counter-authority from official sources; judgments with external recall; an earlier version of the law; a client's plan), two records | `AnswersAreBacked`, `UnqualifiedHasNoGap`, `ReadyMeansDone`, `RetryHasWork`, `HybridIsScreened`, `BudgetStops` |
| `sources` | in turn: a search with two queries, two judgments and three lookups; a site with three judgments, two of which share an identifier and a case; one article whose new text contains the old one; three decisions on three list pages; a text in three versions on two pages; a session; drafts; analyses | the search: `LookupsBounded`, `NoFalseMiss`, `CompleteMeansVerified`, `ProgressKept`.  Providers: `FoundIsAsked`, `CauseIsKept`, `CompleteSearch`, `LawEvidenceIsCurrent`, `CourtMissIsExplained`, `NothingPrivateLeaves`, `FulltextIsWhole`.  What a client submits: `RetainedIsGrounded`, `PresentedIsBound`, `AcceptedIsBacked` |
| `records` | in turn: two runs that share the material of one key, with a text that has evidence and one that has none; a root with two relatives; two datasets and a deployer's backend | materials: `NothingOrphaned`, `LookupIsWhole`, `RevalidationIsOfExpired`, `ReceiptsAreCurrent`.  Lineage: `ContractBuilds`, `ReversalIsOfficial`, `ReplayIsCurrent`.  Public law: `AbsenceIsEarned`, `UsableIsPromoted` |

The store and workflow runs check deadlock.  `sources` does not, because a search
ends when its obligation is completed, nor does `records`, whose clocks are bounded.

Violated on purpose: each checks a sentence of the repository that the code does
not keep.  `PROJECT.json` quotes the sentence under `findings`.

| Run | Sentence | What the trace shows |
|---|---|---|
| `store_lost_update` | the budget accumulates across processes | a projection of one process reads the run, another process charges an attempt, the projection writes the old budget back |
| `store_ephemeral` | an ephemeral run is purged synchronously after its final validation | a crash after the answer is stored and before the purge; the retry replays the answer and does not purge |
| `run_privacy_refused` | a refused external query falls back to official sources, whose evidence stays usable | the refusal's code lands in the error bucket for good, and every later posture is a refusal |
| `run_retry_erases` | a successful retry cannot erase an unrelated limitation | recall demotes an outage to a partial code and completes; verification meets the same outage, retries, and clears both: the recall is settled, and the coverage names its outage no more |
| `run_clean_miss` | a clean bounded miss is no gap | the provider call of the miss carries a not-found code, which becomes a partial gap |
| `run_absence` | verified hits invalidate an absence claim | an analysis names an opposing judgment, which sets the flag that allows the claim |
| `removed_is_forgotten` | the managed copy of a judgment the court has removed goes with the answer | a judgment is stored, its term ends, the court has it no more: the lookup says so under another code and keeps the copy |

### Bounds, and why they are enough

* Two workers of two processes: every hazard of the store between processes is
  between a worker inside the coordinator and one outside.  A third adds another
  outsider, and the proofs hold for any number.  Three threads of one process: one
  inside the coordinator, one inside the service lock, one that wants either.
* Two runs and two operation ids: enough for an operation to be refused because
  of another one of its run, and for a purge of one run beside work on another.
* Two file identities: one to be replaced by the other.
* `MaxDone`, `MaxUsed` of 1 or 2: a counter that is set back needs one step up;
  the limit of the budget is met at once.
* Two records: one live and one expired, one covered by the receipts and one not.
* The profiles contain every kind of obligation, with failure codes that a retry
  lifts and codes that it does not.
* Two queries and two judgments: a judgment that both queries list, one that only
  one lists.  Three lookups let both fail once and the bound still be met in
  the middle of a list; a limit of one or two meets it earlier, in fewer states.
* `Requests` 5: more than the longest call makes when nothing is redirected (form,
  submission, list, page), fewer than it makes with redirections, so that a call ends
  by itself or by the budget at any of its requests.  Two entries on a page and three judgments: one
  is always on another page; two hits: a search may be cut.
* `LawTTL` 1, `MaxTime` 2: the term of the archive ends before, in the middle of and
  after a lookup.  Old and new text: the dataset is behind the page or ahead of it, and
  what the dataset says is or is not on the page.
* Two pages of two characters and versions of length 3 and 2: a replacement between
  the pages may keep the length or not.
* `SourceTTL`, `RunTTL` and `Horizon` 2: a run opened later outlives a source, a source
  fetched later its run, and a key is fetched anew while its old record can still be
  used.  `MaxRecords` 2: the old record of a key and the new one.
* Two relatives, two entries, three records of the run: a judgment named twice or in
  both directions, a history without any, a root fetched anew.
* Two datasets (one with dates, one searched by name alone), two rows, a limit of one:
  skipped, failed, cut and empty datasets in either order.
* Two claims of a check and two outcomes of citations: a good one beside a bad one.

### Symmetry

`StoreProcesses.cfg` permutes file identities and swaps the processes together
with their workers, `RunWorkflow.cfg` permutes records, `Sources.cfg` the judgments
of the search, `Records.cfg` runs and relatives.  All of these are used in invariants
and properties of steps only, and no definition chooses among the permuted values;
the run with fairness uses no symmetry.

### Fairness

* `FairSpec` asks that a thread inside a call takes its next step if it can
  (`WF(Step(w))`).  The interpreter schedules every runnable thread and every
  provider call has a timeout.  Nothing is assumed about calls being made.
* `RetrySpec` adds that clients told `OPERATION_IN_PROGRESS`
  try again until they get in, and that a dead process is started
  again (strong fairness of `Begin` and `OpenStore`).  That is an assumption about
  the users of the program, not about its code: recovery runs only inside somebody's
  call, and without another call an orphaned claim stays for ever.  `LocksReleased`
  needs none of it; it is checked in the same run.

The provider calls, the lineage inspection and the checks of answers have no
liveness property: whether one ends depends on its timeout, which `TimeOut`,
`BudgetEnds` and `CancelCourt` only allow, and nothing waits for it.

## 4. What is proved

The proofs hold for every value of the constants that meets the named
assumptions: any number of processes, threads, runs, operations, files, records,
any budget and any plans, proposals, failure codes, drafts and analyses.  TLC
checks each of these formulas on an instance as well.

**The store** (`ManagedStoreProofs`, from `NamesAssumption`, `BoundsAssumption`,
`RunsAssumption`, `OpsAssumption`).  `TypeCorrect`, `ClaimsAreOwned`,
`ClaimsAreSole` and `SnapshotsAreCurrent` follow from one inductive invariant.
None of the last three is inductive by itself.  A claim stays its worker's because
whatever could take it away needs the coordinator, which the worker has; so the
invariant says who has it (`LocksAgree`: exactly the worker between sweep and last
write), that its instance sees the file on disk (`HolderUsable`: else a purge and
a new file would leave it working on a ghost) and that a worker has a job
(`JobsPresent`).  The sweep left no other claim open, so the claim is the only one;
nobody else writes the run meanwhile, so the copy in memory is current.

`DecisionsAreKept` is about threads of one process, its hypothesis `OneProcess`; across
processes `store_lost_update` shows that the like is false.  Beside the invariant
it needs who has the service lock (`ServiceHeld`) and that a projection between its
read and its write is not behind the stored run (`ReadCurrent`).

`StoreImplementsLedger`: under that invariant every step of the store is a step of
`OperationLedger` or a stutter.  The sweep and a purge of everything are single steps
of the ledger (`Fail` of a set, `Delete` of a set); the late closing of a claim needs
the invariant to show that it fails an operation that is still in progress or changes
nothing.

**The run** (`ResearchRunProofs`, from `ProfilesAssumption`, `ScreenAssumption`,
`ProposalsAssumption`, `FailuresAssumption`).  `RunTypeCorrect`, `ReadyIsDone`,
`RetriesHaveWork`, `AnswersBacked`, `UnqualifiedComplete`, `BudgetIsFinal` and
`RecallIsScreened`.  The strengthening of the first six has three parts beside the
checked properties.  `ReviewedFirst`: no obligation moves before a client's plan is
registered, so a registration never adds work to a run that was ready.
`ErrorsRetried`: every transient error in the coverage is on the pending obligation's
list of codes to clear, so that the last one to complete leaves none, which is why a
posture that asks for a retry has something to retry.  `AnswersKept`: while there are
receipts, a stored answer cites only records they cover, and an unqualified one was
given in the ordinary posture; a replay compares the posture and the receipts again,
so it inherits what the validation established.  Every handler is shown to produce a
`GoodOutcome` (well typed, and each transient error also a retry code), and one lemma,
`AttemptSafe`, carries any good outcome through `Settle`.
`RecallIsScreened` rests on the order of the plan: the privacy screen is planned once
and before any recall (`ScreenAssumption`, what `_plan_obligations` builds), so that a
recall that runs, or a mode that is restored after one, comes after a screen that passed
(`Screened`).

**The search** (`CounterAuthorityProofs`, from `CounterAssumption`).  `CounterTypes`,
`NoFalseMisses`, `ProgressIsKept`, `LookupsAreBounded` and `CompleteIsVerified`, for any
judgments, queries and bounds.  The invariant has three layers.  Once a judgment was
listed, some query has one on record, over all resumptions (`Recorded`); a query with a
judgment on record that it has not verified is not called empty (`GoodItem`), so a miss,
which needs every query empty, was preceded by no hit; what an execution hands over
extends what it was given (`Extended`).  Second the numbers (`Numbers`): the lookups a
resumed search counts are a sum over its queries, a recursive function whose prefix sums
exist by the least number principle (`PrefixSums`), and an execution fetches no more than
the bound leaves of them.  Third the coverage (`Coverage`): a judgment that was listed is on
some query's record, waits in the query under way, or was left when the lookups ended
(`Accounted`), and the run holds what a finished query has on record (`Held`); so complete
means verified.

**The materials and the lineage** (`RecordProofs`, from `SourceMaterialsAssumption`,
`JudgmentLineageAssumption`).  `MaterialTypeCorrect`, `NothingIsOrphaned`,
`LookupsAreWhole`, `RevalidationsAreOfExpired` and `BoundReceiptsAreCurrent`, for any
runs, keys, texts and terms.  A lookup stores in several transactions with deletions in
between, so the invariant says of every instant between them that a record in the making
is linked to its run once it is stored, and that the spans it has and those still to be
stored make up its evidence.  `LineageTypeCorrect`, `ContractsBuild`,
`ReversalsAreOfficial` and `ReplaysAreCurrent`: the verified entries are one record per
judgment, none of them the root (`DistinctOK`), whatever the history repeats; the root is
the newest record of its judgment throughout an inspection (`RootOK`), which is what a
later replay compares.

**Public law** (`PublicLawProofs`, from `PublicLawAssumption`: one of the datasets, that of
the proposals, carries no dates).  `PublicTypes`, `AbsencesAreEarned` and
`UsableArePromoted`.  What a validation says is decided long after the backend answered,
so the invariant carries the reasons along: an undated dataset that was passed is among
the incomplete ones (`Covered`), so that what the Legislative Yuan returns for a history is
never complete (`RawHonest`); a result found empty in its scope was made of a clean
answer, and without metadata there is no result (`OutcomeEarned`); an accepted absence is
that of the result (`VerdictEarned`).

**The site** (`JudgmentProviderProofs`, from `JudgmentProviderAssumption`).
`SiteTypeCorrect`, `FoundIsWhatWasAsked`, `CausesAreKept` and `SearchesAreComplete`.
A call carries from request to request which judgment it is after (`TargetOK`), the
count the site gave (`CountOK`) and that nothing has gone wrong (`Quiet`).  Its
result is good for the question when it is made and remains so until it is handed
out, although the site goes on changing.

**Laws, court, recall** (`LawAndRecallProofs`, from `LawSourcesAssumption`,
`ListPagesAssumption`, `TlrRecallAssumption`).  `LawEvidenceStaysCurrent`: the term
counts from before the download, so that what a snapshot says was shown no earlier
(`SnapshotOK`), and the page check is the last look at the clock, after which the page
of the law, if it was read, is known to contain the text (whatever pages contain: `Shows`).
`CourtMissesAreExplained`: while no page was missed, the index holds what the pages
before the current one showed of the decisions there at its start (`BuildOK`), and
holds all of them when it is finished.  `NothingPrivateIsSent`: what a search will
send is safe before its first attempt.  `WholeTextsAreWhole`: the pages of a text
follow one another, all of one length (`ReadingOK`).  Beside them the three type
theorems.

**What a client submits** (`SubmissionProofs`, from `McpSessionAssumption`,
`AnswerAssumption` and `LegalAnalysisAssumption`).  `RetainedAreGrounded`,
`PresentedAreBound` and `AcceptedAreBacked`, with the types of the session and of the
analyses, for any claims, passages, drafts, analyses and legal contexts.  The assumptions
say what the parsers and contracts guarantee before any of these modules is reached:
texts are sequences, a passage has an identifier of its own, a binding has a text and names
evidence, a relation is of a kind the contract knows.  All three rest on one lemma about the
grading: a claim called supported was decided by a segment that can ground it
(`SupportedIsGrounded`), which needs that a best segment exists at all
(`GreatestExists`) and that overlaps are percentages (`OverlapBounds`).  A recorded run
keeps only what the server resolved itself (`RunOK`); a draft found safe has each clause
covered by a supported binding, or each sentence that is long enough graded
(`SafeIsHeld`); of an analysis that nothing blocks each
conclusion has its source in force (`UnblockedIsBacked`), and as a refused source stays
refused, the relations a run keeps go on resting on what was received (`MoveSafe`).

**The types of the joint runs.**  `RecordsTypes` and `SourcesTypes` follow from the type
theorems of the modules, since the union behaves as each of them.

Recursion is written as recursive functions, never as RECURSIVE operators, and the
operands of `UNION` and `SUBSET` are parenthesised when another set operator follows:
the parsers of TLC and of the prover bind them differently.

### Only model-checked

Liveness (`LocksReleased`, `OrphanResolved`) is beyond the prover, which has neither
fairness nor ENABLED.  Every other property of the passing runs is proved.  What the
modules take from one another at their interfaces (that the statuses of `CounterAuthority`
are the branches `ResearchRun` has) is by inspection.  The violated sentences are, of course,
only refuted.

## 5. Things met on the way

Behaviours that look surprising and that the models contain.  No run refutes a
sentence with them, unless it is named here.

The store and the run:

* Expired runs are deleted only when somebody calls `cleanup_expired`, which nothing
  in the program does.
* A row an old version left in progress is never recovered: it blocks its run until
  a purge (`LegacyOps`).
* After another process purged everything, an instance raises
  `STORAGE_PATH_CHANGED` until it is opened again.
* A run without any snapshot receipt passes the receipt check as a legacy run, so a
  stored answer may be replayed after a source it cites has expired.  It is then
  conditional.
* An expired cache entry turns an outage into `SOURCE_REVALIDATION_FAILED`, which no
  retry lifts, and it does so for a judgment that was really removed
  (`removed_is_forgotten`).
* Receipts that would be issued past the end of their run raise (`Issuable`), after
  the sources have been stored.
* `NO_ELIGIBLE_EVIDENCE` stays an error even if a later lookup finds evidence.

The search and the providers:

* The lookups of a search that dies are not counted by its next execution.
* A resumed search counts the judgments of its clean hits as a floor of the lookups
  spent, also those it had reused without a lookup; it may stop early.
* A partial query whose list contains a judgment another query has handled never
  becomes clean, however often it is retried.
* The court's index counts a list page that failed, or a build that was cut, as
  complete, and a search of it claims complete coverage.  `CourtMissIsExplained`
  therefore excuses a miss with such a gap.
* A result page with the words of an empty result, or a citation that is only on a
  later list page, is answered with "not found".
* A snapshot of the local portal is not compared with the identifier asked for.
* An article passes its web check if its text stands anywhere on the page of its law
  (`laws.py:364`): an amendment that only added words, or the same words in another
  article, passes as `webpage_verified`, with the old text as evidence.
  `LawEvidenceIsCurrent` claims the containment and the term, not that the article
  still reads so.
* A request to the Legislative Yuan that no dataset can answer is `not_found`, and
  complete, without any request (`LySkip`).
* A public-law backend that reports a find without candidates or sources makes the
  adapter raise (`Unbuilt`); one that reports an error with a truncated page comes out
  as partial.
* The direction of a lineage edge is the external provider's; only the disposition
  is confirmed officially.

Answers, analyses, sessions:

* An externally driven run whose last claim check lists no claim has no failing
  reason, and its answer is kept, although the summary of that check says it is not
  safe to present.  The check does not see the answer's text, so the answer finalized
  need not be the one that was checked, nor does a later extraction of claims drop
  the old check.
* Among compatible segments that tie, the first one decides a claim's verdict.
* An answer without bindings whose sentences are all introduced as supplements is
  graded against every passage of the run.
* In an answer without bindings a sentence of fewer than three characters (`有罪`, say)
  is no claim and graded by nobody (`claim_support.py:495`), whereas one with bindings
  has such a clause graded (`service.py:200`).  `PresentedIsBound` therefore says nothing
  of short sentences of the first kind, and the instance has a draft with one.  An answer
  of such sentences alone has no claims and is refused; every answer without bindings
  that is accepted is qualified as `legacy_unbound`.
* The bundled provider of legal contexts knows fixtures only, so that every analysis
  of live sources is blocked unless a deployer installs another one; the service
  passes no states of facts, so that any reference to a fact blocks.
* The issue a relation to counter-authority names is not compared with the issues of
  the analysis.

## 6. Plan

Done: all modules above, and the proof of every safety property the runs check.  Left, in
this order:

1. The interfaces as theorems: the statuses of `CounterAuthority` are those `ResearchRun`
   assumes, the results of the provider modules are the outcomes of `Fetch`.
2. More of the drafting helpers, the planner and the evaluation, where they have state.
3. Remote packs: the order of manifest, digest and replacement.

## 7. Not modelled

* Text processing: query preparation, HTML parsers, the patterns of the privacy gate,
  of identifiers and of polarity.  Regular expressions over Chinese text, of which
  the models keep the result classes.
* Data packs, their builder and the remote pack client: each loads, verifies and
  answers in one call without a concurrent party, and a property would repeat the
  comparison of a digest.
* Search candidates in the store, WAL files, the tmp directory.
* Planning of a question into obligations, ranking, wording in two languages, the
  provider scopes of the coverage receipt.
* Guidance, the semantic advisor and its gateway, the optional semantic verifier: what
  they say is shown beside a run and decides nothing in it.
* Schemas no operation decides by; the evaluation suites, which score recorded runs
  offline; the harness's fixture graph and reports; argument parsing.
* SQLite itself and the operating system's locks are taken to work: transactions are
  atomic and durable, an `flock` dies with its process.

## 8. Running it

    tlc -workers 2 -config StoreProcesses.cfg MCManagedStore.tla
    tlc -workers 2 -config RunWorkflow.cfg MCResearchRun.tla
    tlc -workers 2 -config Sources.cfg MCSources.tla
    tlc -workers 2 -config Records.cfg MCRecords.tla
    tlapm ManagedStoreProofs.tla
    tlapm ResearchRunProofs.tla
    tlapm CounterAuthorityProofs.tla
    tlapm RecordProofs.tla
    tlapm PublicLawProofs.tla
    tlapm JudgmentProviderProofs.tla
    tlapm LawAndRecallProofs.tla
    tlapm SubmissionProofs.tla
