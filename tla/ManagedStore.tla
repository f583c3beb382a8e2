---------------------------- MODULE ManagedStore ----------------------------
(***************************************************************************)
(* The managed SQLite store and the claim protocol the research service    *)
(* runs on it (storage/sqlite_store.py, research/service.py).              *)
(*                                                                         *)
(* A store instance (Stores) belongs to one process; its workers are that  *)
(* process's threads.  Every connection takes the store coordinator        *)
(* without waiting: the instance's RLock, then an exclusive flock on the   *)
(* storage directory.  Both are held for the same stretch, so one variable *)
(* "holder" stands for the pair.  A managed operation keeps the            *)
(* coordinator from its recovery sweep to its last write; everything else  *)
(* takes it once per connection.  The service lock (svc) is a second,      *)
(* blocking lock of the process; exact lookups do without it.              *)
(*                                                                         *)
(* Run ids are fresh UUIDs, so each member of Runs is created at most once *)
(* and stands for one generation (run_id, created_at).  Of a run's payload *)
(* the model keeps two counters: the decisions recorded so far and the     *)
(* HTTP budget spent.  Of the six managed operations it keeps three that   *)
(* differ in the locks they take and the rows they write: "continue_run"   *)
(* also stands for register_research_plan, inspect_judgment_lineage and    *)
(* validate_legal_analysis.                                                *)
(***************************************************************************)
EXTENDS Naturals

CONSTANTS
    Workers, Stores,
    StoreOf,        \* the store instance each worker uses
    Runs,
    EphemeralRuns,  \* runs created with retention "ephemeral"
    Ops,
    LegacyOps,      \* <<run, op>> rows left in progress by a version
                    \* without the recovery_managed column
    FileIds,        \* identities (device, inode) a database file can have
    MaxDone,        \* bound on the decisions recorded in a run
    MaxUsed,        \* max_http_requests of a run's budget
    None            \* no worker, no file, no run

ASSUME NamesAssumption ==
    /\ None \notin Workers
    /\ None \notin FileIds
    /\ StoreOf \in [Workers -> Stores]
ASSUME BoundsAssumption == MaxDone \in Nat /\ MaxUsed \in Nat
ASSUME RunsAssumption ==
    EphemeralRuns \subseteq Runs /\ LegacyOps \subseteq Runs \X Ops
ASSUME OpsAssumption == Ops # {}

VARIABLES
    dbFile,     \* identity of the database file on disk, or None
    life,       \* life[r]: "unborn", "live" (a research_runs row) or "gone"
    row,        \* row[r]: payload of r's row
    ops,        \* ops[r][o]: the operations row, status "unused" if absent
    expired,    \* runs whose expires_at has passed
    holder,     \* worker inside the store coordinator, or None
    svc,        \* svc[s]: worker holding the service lock of s's process
    known,      \* known[s]: database identity the instance remembers
    retired,    \* retired[s]: the instance's _purged flag
    pc,         \* where each worker is
    cur,        \* cur[w]: the run, operation and request w works on
    mem,        \* mem[w]: the payload w has in memory
    answered    \* runs whose final validation was returned to a caller

dbVars   == <<dbFile, life, row, ops, expired>>
lockVars == <<holder, svc, known, retired>>
workVars == <<pc, cur, mem>>
vars == <<dbFile, life, row, ops, expired, holder, svc, known, retired,
          pc, cur, mem, answered>>

-----------------------------------------------------------------------------
(***************************************************************************)
(* Rows                                                                    *)
(***************************************************************************)
Row == [done : 0..MaxDone, used : 0..MaxUsed]
NewRow == [done |-> 0, used |-> 0]

Requests == {"continue_run", "lookup_source", "validate_answer"}
\* Operations that run inside "with self._lock".
Serialised == {"continue_run", "validate_answer"}
\* Operations that call providers under the run's budget.
Budgeted == {"continue_run", "lookup_source"}
Ended == {"completed", "failed", "interrupted"}

\* request "none": a row older than the request_digest column.  final: the
\* stored result ends an ephemeral run (an answer that may be shown, or a
\* refusal no retry can change).
OpRow == [status  : {"unused", "in_progress"} \cup Ended,
          managed : BOOLEAN,
          request : Requests \cup {"none"},
          final   : BOOLEAN]
Unused == [status |-> "unused", managed |-> FALSE, request |-> "none",
           final |-> FALSE]
LegacyRow == [status |-> "in_progress", managed |-> FALSE, request |-> "none",
              final |-> FALSE]
NoOps == [o \in Ops |-> Unused]

InProgress(r, o) == ops[r][o].status = "in_progress"
ManagedClaim(r, o) == InProgress(r, o) /\ ops[r][o].managed

WithStatus(x, status) == [x EXCEPT !.status = status]

Job == [run : Runs, op : Ops, request : Requests]
\* Past the sweep a lookup has "begun"; the other requests are "waiting" for the
\* service lock.
Points == {"idle", "begun", "waiting", "claimed", "saved", "purging", "closing",
           "reading"}
\* Points at which a worker is inside the coordinator.
Holding == {"begun", "waiting", "claimed", "saved", "purging"}

LegacyRuns == {r \in Runs : \E o \in Ops : <<r, o>> \in LegacyOps}

Init ==
    /\ dbFile \in (IF LegacyRuns = {} THEN FileIds \cup {None} ELSE FileIds)
    /\ life = [r \in Runs |-> IF r \in LegacyRuns THEN "live" ELSE "unborn"]
    /\ row = [r \in Runs |-> NewRow]
    /\ ops = [r \in Runs |-> [o \in Ops |->
                IF <<r, o>> \in LegacyOps THEN LegacyRow ELSE Unused]]
    /\ expired = {}
    /\ holder = None
    /\ svc = [s \in Stores |-> None]
    /\ known = [s \in Stores |-> None]
    /\ retired = [s \in Stores |-> FALSE]
    /\ pc = [w \in Workers |-> "idle"]
    /\ cur = [w \in Workers |-> None]
    /\ mem = [w \in Workers |-> NewRow]
    /\ answered = {}

-----------------------------------------------------------------------------
(***************************************************************************)
(* The coordinator and the instances                                       *)
(***************************************************************************)
\* _check_paths: the file the instance opened is still the file on disk.
Usable(s) == ~retired[s] /\ known[s] # None /\ known[s] = dbFile

\* _storage_attempt lets w in; otherwise it raises and nothing changes.
Attempt(w) == holder = None /\ Usable(StoreOf[w])

Idle(w) ==
    /\ pc' = [pc EXCEPT ![w] = "idle"]
    /\ cur' = [cur EXCEPT ![w] = None]
    /\ mem' = [mem EXCEPT ![w] = NewRow]

FreeSvc(w) ==
    svc' = [s \in Stores |-> IF svc[s] = w THEN None ELSE svc[s]]

\* Mutant: the service lock is not released with the coordinator.
LeaveServiceLocked(w) ==
    /\ holder' = None
    /\ UNCHANGED <<svc, known, retired>>

\* w leaves operation_attempt: service lock, then coordinator.
Leave(w) ==
    /\ holder' = None
    /\ FreeSvc(w)
    /\ UNCHANGED <<known, retired>>

\* SqliteStore(root): a new process, or the next request after a purge of
\* everything retired the instance.  It creates the file if there is none, with
\* whatever identity the file system hands out.  Workers still reading through
\* the retired instance can only raise, so they are back at idle.
OpenStore(s) ==
    /\ holder = None
    /\ known[s] = None \/ retired[s]
    /\ \E f \in FileIds :
          /\ dbFile # None => f = dbFile
          /\ dbFile' = f
          /\ known' = [known EXCEPT ![s] = f]
    /\ retired' = [retired EXCEPT ![s] = FALSE]
    /\ svc' = [svc EXCEPT ![s] = None]
    /\ pc' = [w \in Workers |-> IF StoreOf[w] = s THEN "idle" ELSE pc[w]]
    /\ cur' = [w \in Workers |-> IF StoreOf[w] = s THEN None ELSE cur[w]]
    /\ mem' = [w \in Workers |-> IF StoreOf[w] = s THEN NewRow ELSE mem[w]]
    /\ UNCHANGED <<life, row, ops, expired, holder, answered>>

\* The process of s dies: its threads stop, the operating system drops its
\* flock, what it committed stays.
Crash(s) ==
    /\ known[s] # None
    /\ holder' = IF holder # None /\ StoreOf[holder] = s THEN None ELSE holder
    /\ svc' = [svc EXCEPT ![s] = None]
    /\ known' = [known EXCEPT ![s] = None]
    /\ retired' = [retired EXCEPT ![s] = FALSE]
    /\ pc' = [w \in Workers |-> IF StoreOf[w] = s THEN "idle" ELSE pc[w]]
    /\ cur' = [w \in Workers |-> IF StoreOf[w] = s THEN None ELSE cur[w]]
    /\ mem' = [w \in Workers |-> IF StoreOf[w] = s THEN NewRow ELSE mem[w]]
    /\ UNCHANGED <<dbFile, life, row, ops, expired, answered>>

-----------------------------------------------------------------------------
(***************************************************************************)
(* Creating and deleting runs                                              *)
(***************************************************************************)
\* ResearchService.create_run: one INSERT, outside any managed operation.
CreateRun(w, r) ==
    /\ pc[w] = "idle"
    /\ Attempt(w)
    /\ life[r] = "unborn"
    /\ life' = [life EXCEPT ![r] = "live"]
    /\ UNCHANGED <<dbFile, row, ops, expired, lockVars, workVars, answered>>

\* DELETE FROM research_runs with its cascades.
DeleteRuns(R) ==
    /\ life' = [r \in Runs |-> IF r \in R /\ life[r] = "live" THEN "gone" ELSE life[r]]
    /\ row' = [r \in Runs |-> IF r \in R THEN NewRow ELSE row[r]]
    /\ ops' = [r \in Runs |-> IF r \in R THEN NoOps ELSE ops[r]]

\* Mutant: the purge does not take the coordinator.
PurgeRunUncoordinated(w, r) ==
    /\ pc[w] = "idle"
    /\ Usable(StoreOf[w])
    /\ life[r] = "live"
    /\ DeleteRuns({r})
    /\ UNCHANGED <<dbFile, expired, lockVars, workVars, answered>>

PurgeRun(w, r) ==
    /\ pc[w] = "idle"
    /\ Attempt(w)
    /\ life[r] = "live"
    /\ DeleteRuns({r})
    /\ UNCHANGED <<dbFile, expired, lockVars, workVars, answered>>

\* expires_at passes.
Expire(r) ==
    /\ life[r] = "live"
    /\ expired' = expired \cup {r}
    /\ UNCHANGED <<dbFile, life, row, ops, lockVars, workVars, answered>>

CleanupExpired(w) ==
    /\ pc[w] = "idle"
    /\ Attempt(w)
    /\ DeleteRuns(expired)
    /\ UNCHANGED <<dbFile, expired, lockVars, workVars, answered>>

\* Unlinks the database and its side files.  Each unlink may fail, and only a
\* clean sweep retires the instance.
PurgeAll(w) ==
    /\ pc[w] = "idle"
    /\ Attempt(w)
    /\ \E unlinked, clean \in BOOLEAN :
          /\ clean => unlinked
          /\ IF unlinked
                THEN dbFile' = None /\ DeleteRuns(Runs)
                ELSE UNCHANGED <<dbFile, life, row, ops>>
          /\ retired' = [retired EXCEPT ![StoreOf[w]] = clean]
    /\ UNCHANGED <<expired, holder, svc, known, workVars, answered>>

-----------------------------------------------------------------------------
(***************************************************************************)
(* A managed operation: operation_attempt around a service method          *)
(***************************************************************************)
\* Mutant: nothing is recovered.
SweptNothing(r, o) == ops[r][o]

\* The recovery sweep: managed rows still in progress belong to nobody, since
\* their claimant would be holding the coordinator.
Swept(r, o) ==
    IF ManagedClaim(r, o) THEN WithStatus(ops[r][o], "interrupted") ELSE ops[r][o]

Begin(w) ==
    /\ pc[w] = "idle"
    /\ Attempt(w)
    /\ holder' = w
    /\ ops' = [r \in Runs |-> [o \in Ops |-> Swept(r, o)]]
    /\ \E p \in {"begun", "waiting"} : pc' = [pc EXCEPT ![w] = p]
    /\ UNCHANGED <<dbFile, life, row, expired, svc, known, retired, cur, mem,
                   answered>>

\* Inside "with self._lock", if q takes it: the run is read, its expiry checked.
Entered(w, q) ==
    \/ pc[w] = "begun" /\ q \notin Serialised
    \/ pc[w] = "waiting" /\ q \in Serialised /\ svc[StoreOf[w]] = None
Workable(r) == life[r] = "live" /\ r \notin expired

\* record_operation inserts the claim.
ClaimOp(w, r, o, q) ==
    /\ Entered(w, q)
    /\ Workable(r)
    /\ ops[r][o] = Unused
    /\ \A p \in Ops : ~InProgress(r, p)
    /\ ops' = [ops EXCEPT ![r][o] = [status |-> "in_progress", managed |-> TRUE,
                                     request |-> q, final |-> FALSE]]
    /\ svc' = IF q \in Serialised THEN [svc EXCEPT ![StoreOf[w]] = w] ELSE svc
    /\ pc' = [pc EXCEPT ![w] = "claimed"]
    /\ cur' = [cur EXCEPT ![w] = [run |-> r, op |-> o, request |-> q]]
    /\ mem' = [mem EXCEPT ![w] = row[r]]
    /\ UNCHANGED <<dbFile, life, row, expired, holder, known, retired, answered>>

\* record_operation returns the stored result of the same request.
ReplayOp(w, r, o, q) ==
    /\ Entered(w, q)
    /\ Workable(r)
    /\ ops[r][o].status = "completed"
    /\ ops[r][o].request = q
    /\ answered' = IF ops[r][o].final THEN answered \cup {r} ELSE answered
    /\ Leave(w)
    /\ Idle(w)
    /\ UNCHANGED dbVars

\* Run missing or expired, identity used for another request, operation failed
\* or in progress, another operation of the run in progress; or a request with
\* the identity of an earlier one for another text, answer or materials, or
\* whose stored result is stale.
RefuseOp(w, r, o, q) ==
    /\ Entered(w, q)
    /\ \/ ~Workable(r)
       \/ ops[r][o] # Unused
          /\ \/ ops[r][o].request # q
             \/ ops[r][o].status # "completed"
             \/ q # "continue_run"
       \/ ops[r][o] = Unused /\ \E p \in Ops : InProgress(r, p)
    /\ Leave(w)
    /\ Idle(w)
    /\ UNCHANGED <<dbVars, answered>>

\* BudgetScope.request: the scope counts in memory, then its persist callback
\* reads the stored run again and replaces its budget.
Spend(w) ==
    /\ mem' = [mem EXCEPT ![w].used = @ + 1]
    /\ row' = [row EXCEPT ![cur[w].run].used = mem[w].used + 1]
    /\ UNCHANGED <<dbFile, life, ops, expired, lockVars, pc, cur, answered>>

\* Mutant: the limit is not checked.
ChargePastLimit(w) ==
    /\ pc[w] = "claimed"
    /\ cur[w].request \in Budgeted
    /\ Spend(w)

Charge(w) ==
    /\ pc[w] = "claimed"
    /\ cur[w].request \in Budgeted
    /\ mem[w].used < MaxUsed
    /\ Spend(w)

\* save_run of the in-memory run, with the budget read back from the store.
\* A retryable outcome, a spent budget, an open refusal or a lookup records no
\* decision.
SaveRun(w) ==
    /\ pc[w] = "claimed"
    /\ LET r == cur[w].run IN
          /\ life[r] = "live"
          /\ \E d \in (IF cur[w].request = "lookup_source" THEN {0} ELSE {0, 1}) :
                /\ mem[w].done + d <= MaxDone
                /\ row' = [row EXCEPT ![r] = [done |-> mem[w].done + d,
                                              used |-> row[r].used]]
    /\ pc' = [pc EXCEPT ![w] = "saved"]
    /\ UNCHANGED <<dbFile, life, ops, expired, lockVars, cur, mem, answered>>

\* complete_operation stores the result; continue_run with nothing left to do
\* stores one without saving the run.
CompleteOp(w) ==
    LET r == cur[w].run
        o == cur[w].op
        validating == cur[w].request = "validate_answer"
    IN  /\ pc[w] = "saved" \/ (pc[w] = "claimed" /\ cur[w].request = "continue_run")
        /\ InProgress(r, o)
        /\ \E final \in (IF validating /\ r \in EphemeralRuns THEN BOOLEAN ELSE {FALSE}) :
              /\ ops' = [ops EXCEPT ![r][o] =
                            [WithStatus(ops[r][o], "completed") EXCEPT !.final = final]]
              /\ IF final
                    THEN /\ pc' = [pc EXCEPT ![w] = "purging"]
                         /\ UNCHANGED <<holder, svc, known, retired, cur, mem>>
                    ELSE Leave(w) /\ Idle(w)
        /\ UNCHANGED <<dbFile, life, row, expired, answered>>

\* The ephemeral run is purged in the same call, then the answer is returned.
PurgeEphemeral(w) ==
    /\ pc[w] = "purging"
    /\ DeleteRuns({cur[w].run})
    /\ answered' = answered \cup {cur[w].run}
    /\ Leave(w)
    /\ Idle(w)
    /\ UNCHANGED <<dbFile, expired>>

\* An Exception unwinds: both locks are released first, the claim is closed
\* afterwards by a connection of its own.
Raise(w) ==
    /\ pc[w] \in {"claimed", "saved", "purging"}
    /\ Leave(w)
    /\ pc' = [pc EXCEPT ![w] = "closing"]
    /\ UNCHANGED <<dbVars, cur, mem, answered>>

CloseClaim(w) ==
    /\ pc[w] = "closing"
    /\ Attempt(w)
    /\ LET r == cur[w].run
           o == cur[w].op
       IN  ops' = IF InProgress(r, o)
                    THEN [ops EXCEPT ![r][o] = WithStatus(ops[r][o], "failed")]
                    ELSE ops
    /\ Idle(w)
    /\ UNCHANGED <<dbFile, life, row, expired, lockVars, answered>>

\* The store is busy or gone: the error is swallowed, the claim stays open.
CloseGivenUp(w) ==
    /\ pc[w] = "closing"
    /\ ~Attempt(w)
    /\ Idle(w)
    /\ UNCHANGED <<dbVars, lockVars, answered>>

\* A BaseException (KeyboardInterrupt, cancellation) skips the closing.
Interrupt(w) ==
    /\ pc[w] \in Holding
    /\ Leave(w)
    /\ Idle(w)
    /\ UNCHANGED <<dbVars, answered>>

-----------------------------------------------------------------------------
(***************************************************************************)
(* get_finalization_contract: a projection that may write what it read.    *)
(* It holds the service lock, and the coordinator only per connection.     *)
(***************************************************************************)
StartRead(w, r) ==
    /\ pc' = [pc EXCEPT ![w] = "reading"]
    /\ cur' = [cur EXCEPT ![w] = [run |-> r, op |-> CHOOSE o \in Ops : TRUE,
                                  request |-> "continue_run"]]
    /\ mem' = [mem EXCEPT ![w] = row[r]]
    /\ UNCHANGED <<dbVars, holder, known, retired, answered>>

\* Mutant: the projection reads without the service lock.
ReadRunUnlocked(w, r) ==
    /\ pc[w] = "idle"
    /\ Attempt(w)
    /\ Workable(r)
    /\ StartRead(w, r)
    /\ UNCHANGED svc

ReadRun(w, r) ==
    /\ pc[w] = "idle"
    /\ svc[StoreOf[w]] = None
    /\ Attempt(w)
    /\ Workable(r)
    /\ svc' = [svc EXCEPT ![StoreOf[w]] = w]
    /\ StartRead(w, r)

\* Mutant: the write takes no coordinator.
SaveProjectionUncoordinated(w) ==
    /\ pc[w] = "reading"
    /\ Usable(StoreOf[w])
    /\ life[cur[w].run] = "live"
    /\ row' = [row EXCEPT ![cur[w].run] = mem[w]]
    /\ FreeSvc(w)
    /\ Idle(w)
    /\ UNCHANGED <<dbFile, life, ops, expired, holder, known, retired, answered>>

\* Mutant: the write is an upsert.
SaveProjectionUpsert(w) ==
    /\ pc[w] = "reading"
    /\ Attempt(w)
    /\ life' = [life EXCEPT ![cur[w].run] = "live"]
    /\ row' = [row EXCEPT ![cur[w].run] = mem[w]]
    /\ FreeSvc(w)
    /\ Idle(w)
    /\ UNCHANGED <<dbFile, ops, expired, holder, known, retired, answered>>

\* save_run(refreshed): UPDATE ... WHERE run_id AND created_at.
SaveProjection(w) ==
    /\ pc[w] = "reading"
    /\ Attempt(w)
    /\ life[cur[w].run] = "live"
    /\ row' = [row EXCEPT ![cur[w].run] = mem[w]]
    /\ FreeSvc(w)
    /\ Idle(w)
    /\ UNCHANGED <<dbFile, life, ops, expired, holder, known, retired, answered>>

\* Nothing to refresh, or the store is busy, gone or without the run.
EndRead(w) ==
    /\ pc[w] = "reading"
    /\ FreeSvc(w)
    /\ Idle(w)
    /\ UNCHANGED <<dbVars, holder, known, retired, answered>>

-----------------------------------------------------------------------------
\* What a worker inside a call does without being asked again.
Step(w) ==
    \/ \E r \in Runs, o \in Ops, q \in Requests :
          ClaimOp(w, r, o, q) \/ ReplayOp(w, r, o, q) \/ RefuseOp(w, r, o, q)
    \/ Charge(w) \/ SaveRun(w) \/ CompleteOp(w) \/ PurgeEphemeral(w)
    \/ CloseClaim(w) \/ CloseGivenUp(w)
    \/ SaveProjection(w) \/ EndRead(w)

\* Calls that clients make.
Call(w) ==
    \/ Begin(w) \/ PurgeAll(w) \/ CleanupExpired(w)
    \/ \E r \in Runs : CreateRun(w, r) \/ PurgeRun(w, r) \/ ReadRun(w, r)

Fault ==
    \/ \E w \in Workers : Raise(w) \/ Interrupt(w)
    \/ \E s \in Stores : Crash(s)

Next ==
    \/ \E w \in Workers : Step(w) \/ Call(w)
    \/ \E s \in Stores : OpenStore(s)
    \/ \E r \in Runs : Expire(r)
    \/ Fault

Spec == Init /\ [][Next]_vars

-----------------------------------------------------------------------------
(***************************************************************************)
(* Properties                                                              *)
(***************************************************************************)
\* Every variable stays within its tables, locks and program points.
TypeOK ==
    /\ dbFile \in FileIds \cup {None}
    /\ life \in [Runs -> {"unborn", "live", "gone"}]
    /\ row \in [Runs -> Row]
    /\ ops \in [Runs -> [Ops -> OpRow]]
    /\ expired \in SUBSET Runs
    /\ holder \in Workers \cup {None}
    /\ svc \in [Stores -> Workers \cup {None}]
    /\ known \in [Stores -> FileIds \cup {None}]
    /\ retired \in [Stores -> BOOLEAN]
    /\ pc \in [Workers -> Points]
    /\ cur \in [Workers -> Job \cup {None}]
    /\ mem \in [Workers -> Row]
    /\ answered \in SUBSET Runs

\* A worker past its claim still owns it: whatever purges, sweeps, crashes,
\* late claim closings and file replacements the other workers get up to, its
\* run is still there, on the file its instance opened, and its operation is
\* still the managed, unfinished one it recorded, for the request it recorded.
OwnedClaim ==
    \A w \in Workers : pc[w] \in {"claimed", "saved"} =>
        LET r == cur[w].run
            o == cur[w].op
        IN  /\ life[r] = "live"
            /\ ManagedClaim(r, o)
            /\ ops[r][o].request = cur[w].request
            /\ Usable(StoreOf[w])

\* While a worker is inside, no managed operation of any run is unfinished but
\* its own: what the sweep of _writer_attempt assumes when it fails every
\* managed row without asking whose it is.
SoleClaim ==
    \A r \in Runs, o \in Ops : ManagedClaim(r, o) /\ holder # None =>
        /\ pc[holder] \in {"claimed", "saved"}
        /\ cur[holder].run = r
        /\ cur[holder].op = o

\* The run and the budget a claimant computes with in memory are the stored
\* ones: saving them overwrites nobody's decision and refunds nobody's HTTP
\* attempt, although save_run and the persist callback compare no version.
SnapshotCurrent ==
    \A w \in Workers : pc[w] = "claimed" => mem[w] = row[cur[w].run]

\* No HTTP attempt charged to a live run is refunded.
NotRefunded(r) ==
    life[r] = "live" /\ life'[r] = "live" => row'[r].used >= row[r].used
NothingRefunded == [][\A r \in Runs : NotRefunded(r)]_vars

\* No decision recorded in a live run is taken back.  Between the read and the
\* write of a projection the store coordinator is free, so within one process
\* it is the service lock that keeps the decisions of other threads.
DecisionKept(r) ==
    life[r] = "live" /\ life'[r] = "live" => row'[r].done >= row[r].done
DecisionsKept == [][\A r \in Runs : DecisionKept(r)]_vars

\* The caller of an ephemeral run's final validation does not get the answer
\* while the run is still stored.
EphemeralPurgedOnReturn ==
    \A r \in EphemeralRuns : r \in answered => life[r] # "live"

\* The abstract ledger of operations.  An interrupted operation is a failed
\* one: the two differ in the error code only.
LedgerStatus(r, o) ==
    IF ops[r][o].status = "interrupted" THEN "failed" ELSE ops[r][o].status
Ledger == INSTANCE OperationLedger WITH
    ledger <- [r \in Runs |-> [o \in Ops |-> LedgerStatus(r, o)]]
LedgerSpec == Ledger!Spec

-----------------------------------------------------------------------------
(***************************************************************************)
(* Liveness                                                                *)
(***************************************************************************)
\* A thread inside a call keeps running: Python schedules every runnable
\* thread, and each step of a call is bounded by its timeout.
FairSpec == Spec /\ \A w \in Workers : WF_vars(Step(w))

\* Clients come back: one that is told OPERATION_IN_PROGRESS tries again until
\* it gets in, and a dead process is started again.
RetrySpec ==
    /\ FairSpec
    /\ \A w \in Workers : SF_vars(Begin(w))
    /\ \A s \in Stores : SF_vars(OpenStore(s))

\* The two locks are taken in opposite orders (a managed operation takes the
\* coordinator, then the service lock; the projection the service lock, then
\* the coordinator), yet no call is stuck in either: the coordinator is never
\* waited for.
LocksReleased ==
    \A w \in Workers :
        /\ holder = w ~> holder # w
        /\ \A s \in Stores : svc[s] = w ~> svc[s] # w

\* The run of a claim orphaned by a crash, an interruption or a failed closing
\* does not stay blocked: the claim ends, with no help but another call's.
OrphanResolved ==
    \A r \in Runs, o \in Ops : ManagedClaim(r, o) ~> ~ManagedClaim(r, o)
=============================================================================
