------------------------- MODULE ManagedStoreProofs -------------------------
(***************************************************************************)
(* Proofs about ManagedStore for any numbers of processes, threads, runs,  *)
(* operations and file identities, and any bounds.                         *)
(*                                                                         *)
(* The argument: the coordinator is held exactly by the worker between its *)
(* sweep and its last write (LocksAgree), on the file its instance opened  *)
(* (HolderUsable).  Everything that could take a claim away needs the      *)
(* coordinator, so a claim stays its worker's (OwnedClaim); the sweep left *)
(* no other claim open, so it is the only one (SoleClaim); and nobody else *)
(* can write the run meanwhile, so the copy in memory stays current        *)
(* (SnapshotCurrent).  None of the parts is inductive without the others.  *)
(*                                                                         *)
(* A projection keeps the coordinator only per connection.  Within one     *)
(* process it is the service lock (ServiceHeld) that keeps what it has     *)
(* read from growing old before it is written back (ReadCurrent).          *)
(***************************************************************************)
EXTENDS ManagedStore, TLAPS

\* The program counter and the coordinator tell the same story.
LocksAgree ==
    \A w \in Workers : pc[w] \in Holding <=> holder = w

\* The worker inside the coordinator uses an instance whose file is in place.
HolderUsable == holder # None => Usable(StoreOf[holder])

\* A worker beyond its claim, or reading, has a job.
JobsPresent ==
    \A w \in Workers :
        pc[w] \in {"claimed", "saved", "purging", "closing", "reading"} => cur[w] \in Job

IInv ==
    /\ TypeOK
    /\ LocksAgree
    /\ HolderUsable
    /\ JobsPresent
    /\ OwnedClaim
    /\ SoleClaim
    /\ SnapshotCurrent

-----------------------------------------------------------------------------
\* The initial states are well typed: nothing is open, nobody works, and only
\* legacy rows exist.
LEMMA InitTypeOK == Init => TypeOK
  BY NamesAssumption, BoundsAssumption, RunsAssumption
  DEF Init, TypeOK, Row, NewRow, OpRow, Unused, LegacyRow, Ended, Requests, Points

\* Leaving a call keeps the variables of locks and workers within their types.
LEMMA LeaveTypes ==
  ASSUME TypeOK, NEW w \in Workers
  PROVE  /\ Leave(w) => /\ holder' \in Workers \cup {None}
                        /\ svc' \in [Stores -> Workers \cup {None}]
                        /\ known' \in [Stores -> FileIds \cup {None}]
                        /\ retired' \in [Stores -> BOOLEAN]
         /\ FreeSvc(w) => svc' \in [Stores -> Workers \cup {None}]
         /\ Idle(w) => /\ pc' \in [Workers -> Points]
                       /\ cur' \in [Workers -> Job \cup {None}]
                       /\ mem' \in [Workers -> Row]
  <1>1. FreeSvc(w) => svc' \in [Stores -> Workers \cup {None}]
    BY DEF TypeOK, FreeSvc
  <1>2. Idle(w) => /\ pc' \in [Workers -> Points]
                   /\ cur' \in [Workers -> Job \cup {None}]
                   /\ mem' \in [Workers -> Row]
    BY BoundsAssumption DEF TypeOK, Idle, Points, Row, NewRow
  <1>3. QED
    BY <1>1, <1>2 DEF TypeOK, Leave

\* A row of the operations table stays one when its status or mark changes.
LEMMA OpRowUpdate ==
  ASSUME NEW x \in OpRow, NEW st \in Ended
  PROVE  /\ WithStatus(x, st) \in OpRow
         /\ \A f \in BOOLEAN : [WithStatus(x, st) EXCEPT !.final = f] \in OpRow
  BY DEF OpRow, WithStatus

\* Replacing one row leaves a well typed table.
LEMMA OpsUpdate ==
  ASSUME TypeOK, NEW r \in Runs, NEW o \in Ops, NEW x \in OpRow
  PROVE  [ops EXCEPT ![r][o] = x] \in [Runs -> [Ops -> OpRow]]
  <1>1. ops[r] \in [Ops -> OpRow]
    BY DEF TypeOK
  <1>2. [ops[r] EXCEPT ![o] = x] \in [Ops -> OpRow]
    BY <1>1
  <1>3. QED
    BY <1>2 DEF TypeOK

\* Deleting runs keeps the tables within their types.
LEMMA DeleteTypes ==
  ASSUME TypeOK, NEW R, DeleteRuns(R)
  PROVE  /\ life' \in [Runs -> {"unborn", "live", "gone"}]
         /\ row' \in [Runs -> Row]
         /\ ops' \in [Runs -> [Ops -> OpRow]]
  <1>1. NewRow \in Row /\ NoOps \in [Ops -> OpRow]
    BY BoundsAssumption DEF NewRow, Row, NoOps, Unused, OpRow, Requests, Ended
  <1>2. QED
    BY <1>1 DEF TypeOK, DeleteRuns

\* Every action keeps every variable within its type.
LEMMA NextTypeOK == TypeOK /\ JobsPresent /\ [Next]_vars => TypeOK'
  <1> SUFFICES ASSUME TypeOK, JobsPresent, [Next]_vars PROVE TypeOK'
    OBVIOUS
  <1> USE NamesAssumption, BoundsAssumption
  <1>a. /\ NewRow \in Row
        /\ NoOps \in [Ops -> OpRow]
        /\ Unused \in OpRow
    BY DEF NewRow, Row, NoOps, Unused, OpRow, Requests, Ended
  <1>1. ASSUME NEW w \in Workers, Step(w) PROVE TypeOK'
    <2>1. ASSUME NEW r \in Runs, NEW o \in Ops, NEW q \in Requests, ClaimOp(w, r, o, q)
          PROVE TypeOK'
      BY <2>1 DEF TypeOK, ClaimOp, Entered, Workable, InProgress, Points, Job, OpRow, Requests, Ended
    <2>2. ASSUME NEW r \in Runs, NEW o \in Ops, NEW q \in Requests,
                 ReplayOp(w, r, o, q) \/ RefuseOp(w, r, o, q)
          PROVE TypeOK'
      <3>1. CASE ReplayOp(w, r, o, q)
        <4>1. answered' \in SUBSET Runs
          BY <3>1 DEF TypeOK, ReplayOp
        <4>2. QED
          BY <3>1, <4>1, LeaveTypes DEF TypeOK, ReplayOp, dbVars
      <3>2. CASE RefuseOp(w, r, o, q)
        BY <3>2, LeaveTypes DEF TypeOK, RefuseOp, dbVars
      <3>3. QED
        BY <2>2, <3>1, <3>2
    <2>3. CASE Charge(w)
      <3>1. cur[w].run \in Runs
        BY <2>3 DEF Charge, JobsPresent, Job
      <3>2. mem[w] \in Row /\ mem[w].used + 1 \in 0..MaxUsed
        BY <2>3 DEF TypeOK, Charge, Row
      <3>3. row' \in [Runs -> Row]
        <4>1. row' = [row EXCEPT ![cur[w].run].used = mem[w].used + 1]
          BY <2>3 DEF Charge, Spend
        <4>2. [row[cur[w].run] EXCEPT !.used = mem[w].used + 1] \in Row
          BY <3>1, <3>2 DEF TypeOK, Row
        <4>3. QED
          BY <3>1, <4>1, <4>2 DEF TypeOK
      <3>4. mem' \in [Workers -> Row]
        <4>1. mem' = [mem EXCEPT ![w].used = @ + 1]
          BY <2>3 DEF Charge, Spend
        <4>2. [mem[w] EXCEPT !.used = @ + 1] \in Row
          BY <3>2 DEF Row
        <4>3. QED
          BY <4>1, <4>2 DEF TypeOK
      <3>5. QED
        BY <2>3, <3>3, <3>4 DEF TypeOK, Charge, Spend, lockVars
    <2>4. CASE SaveRun(w)
      BY <2>4 DEF TypeOK, SaveRun, JobsPresent, Job, Row, lockVars, Points
    <2>5. CASE CompleteOp(w)
      <3>1. cur[w].run \in Runs /\ cur[w].op \in Ops
        BY <2>5 DEF CompleteOp, JobsPresent, Job
      <3>2. PICK final \in BOOLEAN :
              /\ ops' = [ops EXCEPT ![cur[w].run][cur[w].op] =
                            [WithStatus(ops[cur[w].run][cur[w].op], "completed")
                               EXCEPT !.final = final]]
              /\ IF final
                    THEN /\ pc' = [pc EXCEPT ![w] = "purging"]
                         /\ UNCHANGED <<holder, svc, known, retired, cur, mem>>
                    ELSE Leave(w) /\ Idle(w)
        BY <2>5 DEF CompleteOp
      <3>3. ops' \in [Runs -> [Ops -> OpRow]]
        <4>1. ops[cur[w].run][cur[w].op] \in OpRow
          BY <3>1 DEF TypeOK
        <4>2. [WithStatus(ops[cur[w].run][cur[w].op], "completed")
                 EXCEPT !.final = final] \in OpRow
          BY <4>1, OpRowUpdate DEF Ended
        <4>3. QED
          BY <3>1, <3>2, <4>2, OpsUpdate
      <3>4. /\ holder' \in Workers \cup {None}
            /\ svc' \in [Stores -> Workers \cup {None}]
            /\ known' \in [Stores -> FileIds \cup {None}]
            /\ retired' \in [Stores -> BOOLEAN]
            /\ pc' \in [Workers -> Points]
            /\ cur' \in [Workers -> Job \cup {None}]
            /\ mem' \in [Workers -> Row]
        <4>1. CASE final
          BY <3>2, <4>1 DEF TypeOK, Points
        <4>2. CASE ~final
          BY <3>2, <4>2, LeaveTypes
        <4>3. QED
          BY <4>1, <4>2
      <3>5. QED
        BY <2>5, <3>3, <3>4 DEF TypeOK, CompleteOp
    <2>6. CASE PurgeEphemeral(w)
      BY <2>6, LeaveTypes, DeleteTypes DEF TypeOK, PurgeEphemeral, JobsPresent, Job
    <2>7. CASE CloseClaim(w)
      <3>1. cur[w].run \in Runs /\ cur[w].op \in Ops
        BY <2>7 DEF CloseClaim, JobsPresent, Job
      <3>2. ops' \in [Runs -> [Ops -> OpRow]]
        <4>1. \/ ops' = ops
              \/ ops' = [ops EXCEPT ![cur[w].run][cur[w].op] =
                            WithStatus(ops[cur[w].run][cur[w].op], "failed")]
          BY <2>7 DEF CloseClaim
        <4>2. ops[cur[w].run][cur[w].op] \in OpRow /\ "failed" \in Ended
          BY <3>1 DEF TypeOK, Ended
        <4>3. WithStatus(ops[cur[w].run][cur[w].op], "failed") \in OpRow
          BY <4>2, OpRowUpdate
        <4>4. [ops EXCEPT ![cur[w].run][cur[w].op] =
                 WithStatus(ops[cur[w].run][cur[w].op], "failed")]
                 \in [Runs -> [Ops -> OpRow]]
          BY <3>1, <4>3, OpsUpdate
        <4>5. QED
          BY <4>1, <4>4 DEF TypeOK
      <3>3. QED
        BY <2>7, <3>2, LeaveTypes DEF TypeOK, CloseClaim, lockVars
    <2>8. CASE CloseGivenUp(w)
      BY <2>8, LeaveTypes DEF TypeOK, CloseGivenUp, lockVars, dbVars
    <2>9. CASE SaveProjection(w)
      BY <2>9, LeaveTypes DEF TypeOK, SaveProjection, JobsPresent, Job
    <2>10. CASE EndRead(w)
      BY <2>10, LeaveTypes DEF TypeOK, EndRead, dbVars
    <2>11. QED
      BY <1>1, <2>1, <2>2, <2>3, <2>4, <2>5, <2>6, <2>7, <2>8, <2>9, <2>10 DEF Step
  <1>2. ASSUME NEW w \in Workers, Call(w) PROVE TypeOK'
    <2>1. CASE Begin(w)
      <3>1. \A r \in Runs, o \in Ops : Swept(r, o) \in OpRow
        <4>1. SUFFICES ASSUME NEW r \in Runs, NEW o \in Ops
                       PROVE  Swept(r, o) \in OpRow
          OBVIOUS
        <4>2. ops[r][o] \in OpRow /\ "interrupted" \in Ended
          BY DEF TypeOK, Ended
        <4>3. QED
          BY <4>2, OpRowUpdate DEF Swept
      <3>2. QED
        BY <2>1, <3>1 DEF TypeOK, Begin, Points
    <2>2. CASE PurgeAll(w)
      <3>1. PICK unlinked \in BOOLEAN, clean \in BOOLEAN :
              /\ IF unlinked THEN dbFile' = None /\ DeleteRuns(Runs)
                             ELSE UNCHANGED <<dbFile, life, row, ops>>
              /\ retired' = [retired EXCEPT ![StoreOf[w]] = clean]
        BY <2>2 DEF PurgeAll
      <3>2. /\ dbFile' \in FileIds \cup {None}
            /\ life' \in [Runs -> {"unborn", "live", "gone"}]
            /\ row' \in [Runs -> Row]
            /\ ops' \in [Runs -> [Ops -> OpRow]]
        BY <3>1, DeleteTypes DEF TypeOK
      <3>3. retired' \in [Stores -> BOOLEAN]
        BY <3>1 DEF TypeOK
      <3>4. QED
        BY <2>2, <3>2, <3>3 DEF TypeOK, PurgeAll, workVars
    <2>3. CASE CleanupExpired(w)
      BY <2>3, DeleteTypes DEF TypeOK, CleanupExpired, workVars, lockVars
    <2>4. ASSUME NEW r \in Runs, CreateRun(w, r) PROVE TypeOK'
      BY <2>4 DEF TypeOK, CreateRun, workVars, lockVars
    <2>5. ASSUME NEW r \in Runs, PurgeRun(w, r) PROVE TypeOK'
      BY <2>5, DeleteTypes DEF TypeOK, PurgeRun, workVars, lockVars
    <2>6. ASSUME NEW r \in Runs, ReadRun(w, r) PROVE TypeOK'
      BY <2>6, OpsAssumption DEF TypeOK, ReadRun, StartRead, dbVars, Points, Job, Requests
    <2>7. QED
      BY <1>2, <2>1, <2>2, <2>3, <2>4, <2>5, <2>6 DEF Call
  <1>3. ASSUME NEW s \in Stores, OpenStore(s) PROVE TypeOK'
    BY <1>3, <1>a DEF TypeOK, OpenStore, Points
  <1>4. ASSUME NEW r \in Runs, Expire(r) PROVE TypeOK'
    BY <1>4 DEF TypeOK, Expire, workVars, lockVars
  <1>5. CASE Fault
    <2>1. ASSUME NEW w \in Workers, Raise(w) PROVE TypeOK'
      BY <2>1, LeaveTypes DEF TypeOK, Raise, dbVars, Points
    <2>2. ASSUME NEW w \in Workers, Interrupt(w) PROVE TypeOK'
      BY <2>2, LeaveTypes DEF TypeOK, Interrupt, dbVars
    <2>3. ASSUME NEW s \in Stores, Crash(s) PROVE TypeOK'
      BY <2>3, <1>a DEF TypeOK, Crash, Points
    <2>4. QED
      BY <1>5, <2>1, <2>2, <2>3 DEF Fault
  <1>6. CASE UNCHANGED vars
    BY <1>6 DEF TypeOK, vars
  <1>7. QED
    BY <1>1, <1>2, <1>3, <1>4, <1>5, <1>6 DEF Next

-----------------------------------------------------------------------------
\* In the initial states nobody works and no managed row exists.
LEMMA InitIInv == Init => IInv
  <1> SUFFICES ASSUME Init PROVE IInv
    OBVIOUS
  <1>1. \A w \in Workers : pc[w] = "idle"
    BY DEF Init
  <1>2. LocksAgree /\ HolderUsable /\ JobsPresent
    BY <1>1, NamesAssumption DEF Init, LocksAgree, HolderUsable, JobsPresent, Holding
  <1>3. OwnedClaim /\ SnapshotCurrent
    BY <1>1 DEF OwnedClaim, SnapshotCurrent
  <1>4. SoleClaim
    BY DEF Init, SoleClaim
  <1>5. QED
    BY InitTypeOK, <1>2, <1>3, <1>4 DEF IInv

\* Every action preserves the six parts of the invariant.
LEMMA NextIInv == IInv /\ [Next]_vars => IInv'
  <1> SUFFICES ASSUME IInv, [Next]_vars PROVE IInv'
    OBVIOUS
  <1> USE NamesAssumption, BoundsAssumption
      DEF Usable, ManagedClaim, InProgress, Holding, Points
  <1>a. TypeOK /\ LocksAgree /\ HolderUsable /\ JobsPresent
        /\ OwnedClaim /\ SoleClaim /\ SnapshotCurrent
    BY DEF IInv
  <1> USE <1>a
  <1>t. TypeOK'
    BY NextTypeOK
  <1>1. ASSUME NEW w \in Workers, NEW r \in Runs, NEW o \in Ops, NEW q \in Requests,
               ClaimOp(w, r, o, q) PROVE IInv'
    <2>1. LocksAgree' /\ HolderUsable' /\ JobsPresent'
      <3>1. [run |-> r, op |-> o, request |-> q] \in Job
        BY DEF Job
      <3>2. QED
        BY <1>1, <3>1 DEF TypeOK, LocksAgree, HolderUsable, JobsPresent, ClaimOp, Entered
    <2>2. OwnedClaim'
      BY <1>1 DEF TypeOK, LocksAgree, HolderUsable, OwnedClaim,
         ClaimOp, Entered, Workable
    <2>3. SoleClaim'
      BY <1>1 DEF TypeOK, LocksAgree, SoleClaim,
         ClaimOp, Entered, Workable
    <2>4. SnapshotCurrent'
      <3>1. row[r].used >= row[r].used
        BY DEF TypeOK, Row
      <3>2. QED
        BY <1>1, <3>1 DEF TypeOK, LocksAgree, SnapshotCurrent, ClaimOp, Entered
    <2>5. QED
      BY <1>t, <2>1, <2>2, <2>3, <2>4 DEF IInv
  <1>2. ASSUME NEW w \in Workers, NEW r \in Runs, NEW o \in Ops, NEW q \in Requests,
               ReplayOp(w, r, o, q) PROVE IInv'
    <2>1. LocksAgree' /\ HolderUsable' /\ JobsPresent'
      BY <1>2 DEF TypeOK, LocksAgree, HolderUsable, JobsPresent,
         ReplayOp, Entered, Leave, Idle, dbVars
    <2>2. OwnedClaim'
      BY <1>2 DEF TypeOK, LocksAgree, HolderUsable, OwnedClaim,
         ReplayOp, Entered, Leave, Idle, dbVars
    <2>3. SoleClaim'
      BY <1>2 DEF TypeOK, LocksAgree, SoleClaim,
         ReplayOp, Entered, Leave, Idle, dbVars
    <2>4. SnapshotCurrent'
      BY <1>2 DEF TypeOK, LocksAgree, SnapshotCurrent,
         ReplayOp, Entered, Leave, Idle, dbVars
    <2>5. QED
      BY <1>t, <2>1, <2>2, <2>3, <2>4 DEF IInv
  <1>3. ASSUME NEW w \in Workers, NEW r \in Runs, NEW o \in Ops, NEW q \in Requests,
               RefuseOp(w, r, o, q) PROVE IInv'
    <2>1. LocksAgree' /\ HolderUsable' /\ JobsPresent'
      BY <1>3 DEF TypeOK, LocksAgree, HolderUsable, JobsPresent,
         RefuseOp, Entered, Leave, Idle, dbVars
    <2>2. OwnedClaim'
      BY <1>3 DEF TypeOK, LocksAgree, HolderUsable, OwnedClaim,
         RefuseOp, Entered, Leave, Idle, dbVars
    <2>3. SoleClaim'
      BY <1>3 DEF TypeOK, LocksAgree, SoleClaim,
         RefuseOp, Entered, Leave, Idle, dbVars
    <2>4. SnapshotCurrent'
      BY <1>3 DEF TypeOK, LocksAgree, SnapshotCurrent,
         RefuseOp, Entered, Leave, Idle, dbVars
    <2>5. QED
      BY <1>t, <2>1, <2>2, <2>3, <2>4 DEF IInv
  <1>4. ASSUME NEW w \in Workers, Charge(w) PROVE IInv'
    <2>1. LocksAgree' /\ HolderUsable' /\ JobsPresent'
      BY <1>4 DEF TypeOK, LocksAgree, HolderUsable, JobsPresent,
         Charge, Spend, lockVars
    <2>2. OwnedClaim'
      BY <1>4 DEF TypeOK, LocksAgree, HolderUsable, OwnedClaim,
         Charge, Spend, lockVars
    <2>3. SoleClaim'
      BY <1>4 DEF TypeOK, LocksAgree, SoleClaim,
         Charge, Spend, lockVars
    <2>4. SnapshotCurrent'
      <3>1. SUFFICES ASSUME NEW v \in Workers, pc'[v] = "claimed"
                     PROVE  mem'[v] = row'[cur'[v].run]
        BY DEF SnapshotCurrent
      <3>2. pc[v] = "claimed" /\ pc[w] = "claimed" /\ cur' = cur
        BY <1>4, <3>1 DEF Charge, Spend
      <3>3. v = w
        BY <3>2 DEF LocksAgree, Holding
      <3>4. /\ mem[w] = row[cur[w].run]
            /\ cur[w].run \in Runs
        BY <3>2 DEF SnapshotCurrent, JobsPresent, Job
      <3>5. /\ mem'[w] = [mem[w] EXCEPT !.used = @ + 1]
            /\ row'[cur[w].run] = [row[cur[w].run] EXCEPT !.used = mem[w].used + 1]
        BY <1>4, <3>4 DEF Charge, Spend, TypeOK
      <3>6. QED
        BY <3>2, <3>3, <3>4, <3>5
    <2>5. QED
      BY <1>t, <2>1, <2>2, <2>3, <2>4 DEF IInv
  <1>5. ASSUME NEW w \in Workers, SaveRun(w) PROVE IInv'
    <2>1. LocksAgree' /\ HolderUsable' /\ JobsPresent'
      BY <1>5 DEF TypeOK, LocksAgree, HolderUsable, JobsPresent,
         SaveRun, lockVars
    <2>2. OwnedClaim'
      BY <1>5 DEF TypeOK, LocksAgree, HolderUsable, OwnedClaim,
         SaveRun, lockVars
    <2>3. SoleClaim'
      BY <1>5 DEF TypeOK, LocksAgree, SoleClaim,
         SaveRun, lockVars
    <2>4. SnapshotCurrent'
      BY <1>5 DEF TypeOK, LocksAgree, SnapshotCurrent,
         SaveRun, lockVars
    <2>5. QED
      BY <1>t, <2>1, <2>2, <2>3, <2>4 DEF IInv
  <1>6. ASSUME NEW w \in Workers, CompleteOp(w) PROVE IInv'
    <2>1. LocksAgree' /\ HolderUsable' /\ JobsPresent'
      <3>1. holder = w /\ pc[w] \in {"claimed", "saved"}
        BY <1>6 DEF LocksAgree, CompleteOp
      <3>2. UNCHANGED dbFile
        BY <1>6 DEF CompleteOp
      <3>3. \/ /\ pc' = [pc EXCEPT ![w] = "purging"]
               /\ UNCHANGED <<holder, svc, known, retired, cur, mem>>
            \/ Leave(w) /\ Idle(w)
        BY <1>6 DEF CompleteOp
      <3>4. CASE /\ pc' = [pc EXCEPT ![w] = "purging"]
                 /\ UNCHANGED <<holder, svc, known, retired, cur, mem>>
        BY <3>1, <3>2, <3>4 DEF TypeOK, LocksAgree, HolderUsable, JobsPresent
      <3>5. CASE Leave(w) /\ Idle(w)
        BY <3>1, <3>2, <3>5 DEF TypeOK, LocksAgree, HolderUsable, JobsPresent, Leave, Idle
      <3>6. QED
        BY <3>3, <3>4, <3>5
    <2>2. OwnedClaim'
      <3>1. \A v \in Workers : pc'[v] \notin {"claimed", "saved"}
        BY <1>6 DEF TypeOK, LocksAgree, CompleteOp, Idle
      <3>2. QED
        BY <3>1 DEF OwnedClaim
    <2>3. SoleClaim'
      <3>1. holder = w /\ pc[w] \in {"claimed", "saved"}
        BY <1>6 DEF LocksAgree, CompleteOp
      <3>2. \A r \in Runs, o \in Ops : ManagedClaim(r, o) => r = cur[w].run /\ o = cur[w].op
        BY <3>1 DEF SoleClaim
      <3>3. PICK x : /\ x.status = "completed"
                     /\ ops' = [ops EXCEPT ![cur[w].run][cur[w].op] = x]
        <4>1. PICK final \in BOOLEAN :
                ops' = [ops EXCEPT ![cur[w].run][cur[w].op] =
                          [WithStatus(ops[cur[w].run][cur[w].op], "completed")
                             EXCEPT !.final = final]]
          BY <1>6 DEF CompleteOp
        <4>2. ops[cur[w].run][cur[w].op] \in OpRow
          BY <1>6 DEF CompleteOp, TypeOK, JobsPresent, Job
        <4>3. [WithStatus(ops[cur[w].run][cur[w].op], "completed")
                 EXCEPT !.final = final].status = "completed"
          BY <4>2 DEF WithStatus, OpRow
        <4>4. QED
          BY <4>1, <4>3
      <3>4. \A r \in Runs, o \in Ops : ~ManagedClaim(r, o)'
        BY <3>2, <3>3 DEF TypeOK
      <3>5. QED
        BY <3>4 DEF SoleClaim
    <2>4. SnapshotCurrent'
      BY <1>6 DEF TypeOK, LocksAgree, SnapshotCurrent,
         CompleteOp, Leave, Idle
    <2>5. QED
      BY <1>t, <2>1, <2>2, <2>3, <2>4 DEF IInv
  <1>7. ASSUME NEW w \in Workers, PurgeEphemeral(w) PROVE IInv'
    <2>1. LocksAgree' /\ HolderUsable' /\ JobsPresent'
      BY <1>7 DEF TypeOK, LocksAgree, HolderUsable, JobsPresent,
         PurgeEphemeral, DeleteRuns, Leave, Idle, NoOps, Unused
    <2>2. OwnedClaim'
      <3>1. \A v \in Workers : pc'[v] \notin {"claimed", "saved"}
        BY <1>7 DEF TypeOK, LocksAgree, PurgeEphemeral, Idle
      <3>2. QED
        BY <3>1 DEF OwnedClaim
    <2>3. SoleClaim'
      BY <1>7 DEF TypeOK, LocksAgree, SoleClaim,
         PurgeEphemeral, DeleteRuns, Leave, Idle, NoOps, Unused
    <2>4. SnapshotCurrent'
      BY <1>7 DEF TypeOK, LocksAgree, SnapshotCurrent,
         PurgeEphemeral, DeleteRuns, Leave, Idle, NoOps, Unused
    <2>5. QED
      BY <1>t, <2>1, <2>2, <2>3, <2>4 DEF IInv
  <1>8. ASSUME NEW w \in Workers, CloseClaim(w) PROVE IInv'
    <2>1. LocksAgree' /\ HolderUsable' /\ JobsPresent'
      BY <1>8 DEF TypeOK, LocksAgree, HolderUsable, JobsPresent,
         CloseClaim, Attempt, Idle, lockVars
    <2>2. OwnedClaim'
      <3>1. \A v \in Workers : pc'[v] \notin {"claimed", "saved"}
        BY <1>8 DEF TypeOK, LocksAgree, CloseClaim, Attempt, Idle
      <3>2. QED
        BY <3>1 DEF OwnedClaim
    <2>3. SoleClaim'
      BY <1>8 DEF TypeOK, LocksAgree, SoleClaim,
         CloseClaim, Attempt, Idle, lockVars
    <2>4. SnapshotCurrent'
      BY <1>8 DEF TypeOK, LocksAgree, SnapshotCurrent,
         CloseClaim, Attempt, Idle, lockVars
    <2>5. QED
      BY <1>t, <2>1, <2>2, <2>3, <2>4 DEF IInv
  <1>9. ASSUME NEW w \in Workers, CloseGivenUp(w) PROVE IInv'
    <2>1. LocksAgree' /\ HolderUsable' /\ JobsPresent'
      BY <1>9 DEF TypeOK, LocksAgree, HolderUsable, JobsPresent,
         CloseGivenUp, Idle, lockVars, dbVars
    <2>2. OwnedClaim'
      BY <1>9 DEF TypeOK, LocksAgree, HolderUsable, OwnedClaim,
         CloseGivenUp, Idle, lockVars, dbVars
    <2>3. SoleClaim'
      BY <1>9 DEF TypeOK, LocksAgree, SoleClaim,
         CloseGivenUp, Idle, lockVars, dbVars
    <2>4. SnapshotCurrent'
      BY <1>9 DEF TypeOK, LocksAgree, SnapshotCurrent,
         CloseGivenUp, Idle, lockVars, dbVars
    <2>5. QED
      BY <1>t, <2>1, <2>2, <2>3, <2>4 DEF IInv
  <1>10. ASSUME NEW w \in Workers, SaveProjection(w) PROVE IInv'
    <2>1. LocksAgree' /\ HolderUsable' /\ JobsPresent'
      BY <1>10 DEF TypeOK, LocksAgree, HolderUsable, JobsPresent,
         SaveProjection, Attempt, Idle
    <2>2. OwnedClaim'
      BY <1>10 DEF TypeOK, LocksAgree, HolderUsable, OwnedClaim,
         SaveProjection, Attempt, Idle
    <2>3. SoleClaim'
      BY <1>10 DEF TypeOK, LocksAgree, SoleClaim,
         SaveProjection, Attempt, Idle
    <2>4. SnapshotCurrent'
      BY <1>10 DEF TypeOK, LocksAgree, SnapshotCurrent,
         SaveProjection, Attempt, Idle
    <2>5. QED
      BY <1>t, <2>1, <2>2, <2>3, <2>4 DEF IInv
  <1>11. ASSUME NEW w \in Workers, EndRead(w) PROVE IInv'
    <2>1. LocksAgree' /\ HolderUsable' /\ JobsPresent'
      BY <1>11 DEF TypeOK, LocksAgree, HolderUsable, JobsPresent,
         EndRead, Idle, dbVars
    <2>2. OwnedClaim'
      BY <1>11 DEF TypeOK, LocksAgree, HolderUsable, OwnedClaim,
         EndRead, Idle, dbVars
    <2>3. SoleClaim'
      BY <1>11 DEF TypeOK, LocksAgree, SoleClaim,
         EndRead, Idle, dbVars
    <2>4. SnapshotCurrent'
      BY <1>11 DEF TypeOK, LocksAgree, SnapshotCurrent,
         EndRead, Idle, dbVars
    <2>5. QED
      BY <1>t, <2>1, <2>2, <2>3, <2>4 DEF IInv
  <1>12. ASSUME NEW w \in Workers, Begin(w) PROVE IInv'
    <2>1. LocksAgree' /\ HolderUsable' /\ JobsPresent'
      BY <1>12 DEF TypeOK, LocksAgree, HolderUsable, JobsPresent,
         Begin, Attempt
    <2>2. OwnedClaim'
      <3>1. \A v \in Workers : pc'[v] \notin {"claimed", "saved"}
        BY <1>12 DEF TypeOK, LocksAgree, Begin, Attempt
      <3>2. QED
        BY <3>1 DEF OwnedClaim
    <2>3. SoleClaim'
      <3>1. SUFFICES ASSUME NEW r \in Runs, NEW o \in Ops PROVE ~ManagedClaim(r, o)'
        BY DEF SoleClaim
      <3>2. ops'[r][o] = Swept(r, o)
        BY <1>12 DEF Begin
      <3>3. ops[r][o] \in OpRow
        BY DEF TypeOK
      <3>4. CASE ManagedClaim(r, o)
        BY <3>2, <3>3, <3>4 DEF Swept, WithStatus, OpRow
      <3>5. CASE ~ManagedClaim(r, o)
        BY <3>2, <3>5 DEF Swept
      <3>6. QED
        BY <3>4, <3>5
    <2>4. SnapshotCurrent'
      BY <1>12 DEF TypeOK, LocksAgree, SnapshotCurrent,
         Begin, Attempt
    <2>5. QED
      BY <1>t, <2>1, <2>2, <2>3, <2>4 DEF IInv
  <1>13. ASSUME NEW w \in Workers, PurgeAll(w) PROVE IInv'
    <2>1. LocksAgree' /\ HolderUsable' /\ JobsPresent'
      BY <1>13 DEF TypeOK, LocksAgree, HolderUsable, JobsPresent,
         PurgeAll, Attempt, DeleteRuns, workVars, NoOps, Unused
    <2>2. OwnedClaim'
      BY <1>13 DEF TypeOK, LocksAgree, HolderUsable, OwnedClaim,
         PurgeAll, Attempt, DeleteRuns, workVars, NoOps, Unused
    <2>3. SoleClaim'
      BY <1>13 DEF TypeOK, LocksAgree, SoleClaim,
         PurgeAll, Attempt, DeleteRuns, workVars, NoOps, Unused
    <2>4. SnapshotCurrent'
      BY <1>13 DEF TypeOK, LocksAgree, SnapshotCurrent,
         PurgeAll, Attempt, DeleteRuns, workVars, NoOps, Unused
    <2>5. QED
      BY <1>t, <2>1, <2>2, <2>3, <2>4 DEF IInv
  <1>14. ASSUME NEW w \in Workers, CleanupExpired(w) PROVE IInv'
    <2>1. LocksAgree' /\ HolderUsable' /\ JobsPresent'
      BY <1>14 DEF TypeOK, LocksAgree, HolderUsable, JobsPresent,
         CleanupExpired, Attempt, DeleteRuns, workVars, lockVars
    <2>2. OwnedClaim'
      BY <1>14 DEF TypeOK, LocksAgree, HolderUsable, OwnedClaim,
         CleanupExpired, Attempt, DeleteRuns, workVars, lockVars
    <2>3. SoleClaim'
      BY <1>14 DEF TypeOK, LocksAgree, SoleClaim,
         CleanupExpired, Attempt, DeleteRuns, workVars, lockVars
    <2>4. SnapshotCurrent'
      BY <1>14 DEF TypeOK, LocksAgree, SnapshotCurrent,
         CleanupExpired, Attempt, DeleteRuns, workVars, lockVars
    <2>5. QED
      BY <1>t, <2>1, <2>2, <2>3, <2>4 DEF IInv
  <1>15. ASSUME NEW w \in Workers, NEW r \in Runs, CreateRun(w, r) PROVE IInv'
    <2>1. LocksAgree' /\ HolderUsable' /\ JobsPresent'
      BY <1>15 DEF TypeOK, LocksAgree, HolderUsable, JobsPresent,
         CreateRun, Attempt, workVars, lockVars
    <2>2. OwnedClaim'
      BY <1>15 DEF TypeOK, LocksAgree, HolderUsable, OwnedClaim,
         CreateRun, Attempt, workVars, lockVars
    <2>3. SoleClaim'
      BY <1>15 DEF TypeOK, LocksAgree, SoleClaim,
         CreateRun, Attempt, workVars, lockVars
    <2>4. SnapshotCurrent'
      BY <1>15 DEF TypeOK, LocksAgree, SnapshotCurrent,
         CreateRun, Attempt, workVars, lockVars
    <2>5. QED
      BY <1>t, <2>1, <2>2, <2>3, <2>4 DEF IInv
  <1>16. ASSUME NEW w \in Workers, NEW r \in Runs, PurgeRun(w, r) PROVE IInv'
    <2>1. LocksAgree' /\ HolderUsable' /\ JobsPresent'
      BY <1>16 DEF TypeOK, LocksAgree, HolderUsable, JobsPresent,
         PurgeRun, Attempt, DeleteRuns, workVars, lockVars
    <2>2. OwnedClaim'
      BY <1>16 DEF TypeOK, LocksAgree, HolderUsable, OwnedClaim,
         PurgeRun, Attempt, DeleteRuns, workVars, lockVars
    <2>3. SoleClaim'
      BY <1>16 DEF TypeOK, LocksAgree, SoleClaim,
         PurgeRun, Attempt, DeleteRuns, workVars, lockVars
    <2>4. SnapshotCurrent'
      BY <1>16 DEF TypeOK, LocksAgree, SnapshotCurrent,
         PurgeRun, Attempt, DeleteRuns, workVars, lockVars
    <2>5. QED
      BY <1>t, <2>1, <2>2, <2>3, <2>4 DEF IInv
  <1>17. ASSUME NEW w \in Workers, NEW r \in Runs, ReadRun(w, r) PROVE IInv'
    <2>1. LocksAgree' /\ HolderUsable' /\ JobsPresent'
      <3>1. [run |-> r, op |-> CHOOSE o \in Ops : TRUE, request |-> "continue_run"] \in Job
        BY OpsAssumption DEF Job, Requests
      <3>2. QED
        BY <1>17, <3>1 DEF TypeOK, LocksAgree, HolderUsable, JobsPresent, ReadRun, StartRead, Attempt, dbVars
    <2>2. OwnedClaim'
      BY <1>17 DEF TypeOK, LocksAgree, HolderUsable, OwnedClaim,
         ReadRun, StartRead, Attempt, dbVars
    <2>3. SoleClaim'
      BY <1>17 DEF TypeOK, LocksAgree, SoleClaim,
         ReadRun, StartRead, Attempt, dbVars
    <2>4. SnapshotCurrent'
      BY <1>17 DEF TypeOK, LocksAgree, SnapshotCurrent,
         ReadRun, StartRead, Attempt, dbVars
    <2>5. QED
      BY <1>t, <2>1, <2>2, <2>3, <2>4 DEF IInv
  <1>18. ASSUME NEW w \in Workers, Raise(w) PROVE IInv'
    <2>1. LocksAgree' /\ HolderUsable' /\ JobsPresent'
      BY <1>18 DEF TypeOK, LocksAgree, HolderUsable, JobsPresent,
         Raise, Leave, dbVars
    <2>2. OwnedClaim'
      BY <1>18 DEF TypeOK, LocksAgree, HolderUsable, OwnedClaim,
         Raise, Leave, dbVars
    <2>3. SoleClaim'
      BY <1>18 DEF TypeOK, LocksAgree, SoleClaim,
         Raise, Leave, dbVars
    <2>4. SnapshotCurrent'
      BY <1>18 DEF TypeOK, LocksAgree, SnapshotCurrent,
         Raise, Leave, dbVars
    <2>5. QED
      BY <1>t, <2>1, <2>2, <2>3, <2>4 DEF IInv
  <1>19. ASSUME NEW w \in Workers, Interrupt(w) PROVE IInv'
    <2>1. LocksAgree' /\ HolderUsable' /\ JobsPresent'
      BY <1>19 DEF TypeOK, LocksAgree, HolderUsable, JobsPresent,
         Interrupt, Leave, Idle, dbVars
    <2>2. OwnedClaim'
      BY <1>19 DEF TypeOK, LocksAgree, HolderUsable, OwnedClaim,
         Interrupt, Leave, Idle, dbVars
    <2>3. SoleClaim'
      BY <1>19 DEF TypeOK, LocksAgree, SoleClaim,
         Interrupt, Leave, Idle, dbVars
    <2>4. SnapshotCurrent'
      BY <1>19 DEF TypeOK, LocksAgree, SnapshotCurrent,
         Interrupt, Leave, Idle, dbVars
    <2>5. QED
      BY <1>t, <2>1, <2>2, <2>3, <2>4 DEF IInv
  <1>20. ASSUME NEW s \in Stores, OpenStore(s) PROVE IInv'
    <2>1. LocksAgree' /\ HolderUsable' /\ JobsPresent'
      BY <1>20 DEF TypeOK, LocksAgree, HolderUsable, JobsPresent,
         OpenStore
    <2>2. OwnedClaim'
      BY <1>20 DEF TypeOK, LocksAgree, HolderUsable, OwnedClaim,
         OpenStore
    <2>3. SoleClaim'
      BY <1>20 DEF TypeOK, LocksAgree, SoleClaim,
         OpenStore
    <2>4. SnapshotCurrent'
      BY <1>20 DEF TypeOK, LocksAgree, SnapshotCurrent,
         OpenStore
    <2>5. QED
      BY <1>t, <2>1, <2>2, <2>3, <2>4 DEF IInv
  <1>21. ASSUME NEW s \in Stores, Crash(s) PROVE IInv'
    <2>1. LocksAgree' /\ HolderUsable' /\ JobsPresent'
      BY <1>21 DEF TypeOK, LocksAgree, HolderUsable, JobsPresent,
         Crash
    <2>2. OwnedClaim'
      BY <1>21 DEF TypeOK, LocksAgree, HolderUsable, OwnedClaim,
         Crash
    <2>3. SoleClaim'
      BY <1>21 DEF TypeOK, LocksAgree, SoleClaim,
         Crash
    <2>4. SnapshotCurrent'
      BY <1>21 DEF TypeOK, LocksAgree, SnapshotCurrent,
         Crash
    <2>5. QED
      BY <1>t, <2>1, <2>2, <2>3, <2>4 DEF IInv
  <1>22. ASSUME NEW r \in Runs, Expire(r) PROVE IInv'
    <2>1. LocksAgree' /\ HolderUsable' /\ JobsPresent'
      BY <1>22 DEF TypeOK, LocksAgree, HolderUsable, JobsPresent,
         Expire, workVars, lockVars
    <2>2. OwnedClaim'
      BY <1>22 DEF TypeOK, LocksAgree, HolderUsable, OwnedClaim,
         Expire, workVars, lockVars
    <2>3. SoleClaim'
      BY <1>22 DEF TypeOK, LocksAgree, SoleClaim,
         Expire, workVars, lockVars
    <2>4. SnapshotCurrent'
      BY <1>22 DEF TypeOK, LocksAgree, SnapshotCurrent,
         Expire, workVars, lockVars
    <2>5. QED
      BY <1>t, <2>1, <2>2, <2>3, <2>4 DEF IInv
  <1>23. CASE UNCHANGED vars
    BY <1>t, <1>23 DEF vars, IInv, LocksAgree, HolderUsable, JobsPresent,
       OwnedClaim, SoleClaim, SnapshotCurrent
  <1>24. QED
    BY <1>1, <1>2, <1>3, <1>4, <1>5, <1>6, <1>7, <1>8, <1>9, <1>10, <1>11, <1>12, <1>13, <1>14, <1>15, <1>16, <1>17, <1>18, <1>19, <1>20, <1>21, <1>22, <1>23
    DEF Next, Step, Call, Fault

\* The store keeps its tables, locks and workers well typed, for any number of
\* processes, threads, runs and operations.
THEOREM TypeCorrect == Spec => []TypeOK
  <1>1. IInv => TypeOK
    BY DEF IInv
  <1>2. QED
    BY InitIInv, NextIInv, <1>1, PTL DEF Spec

\* No crash, purge, sweep, replacement of the database file or late closing of
\* a failed claim by another worker ever takes a running operation's claim away.
THEOREM ClaimsAreOwned == Spec => []OwnedClaim
  <1>1. IInv => OwnedClaim
    BY DEF IInv
  <1>2. QED
    BY InitIInv, NextIInv, <1>1, PTL DEF Spec

\* The recovery sweep is right to fail every managed row it finds open: while a
\* worker is inside the coordinator, no claim but its own is open.
THEOREM ClaimsAreSole == Spec => []SoleClaim
  <1>1. IInv => SoleClaim
    BY DEF IInv
  <1>2. QED
    BY InitIInv, NextIInv, <1>1, PTL DEF Spec

\* A managed operation never saves a run over a decision it has not read.
THEOREM SnapshotsAreCurrent == Spec => []SnapshotCurrent
  <1>1. IInv => SnapshotCurrent
    BY DEF IInv
  <1>2. QED
    BY InitIInv, NextIInv, <1>1, PTL DEF Spec

-----------------------------------------------------------------------------
(***************************************************************************)
(* Decisions: within one process, the service lock                         *)
(***************************************************************************)
\* A projection, and an operation that runs inside "with self._lock", hold the
\* service lock of their process.
LocksService(w) ==
    \/ pc[w] = "reading"
    \/ pc[w] = "claimed" /\ cur[w].request \in Serialised
ServiceHeld == \A w \in Workers : LocksService(w) => svc[StoreOf[w]] = w

\* The run a projection has read was there, and if it still is, it holds no
\* decision that the projection has not read.
ReadCurrent ==
    \A w \in Workers : pc[w] = "reading" =>
        LET r == cur[w].run IN
        /\ life[r] \in {"live", "gone"}
        /\ life[r] = "live" => mem[w].done >= row[r].done

OneProcess == \A v, w \in Workers : StoreOf[v] = StoreOf[w]

\* The service lock passes from None to its taker and back.
LEMMA NextServiceHeld == IInv /\ ServiceHeld /\ [Next]_vars => ServiceHeld'
  <1> SUFFICES ASSUME IInv, ServiceHeld, [Next]_vars, NEW v \in Workers, LocksService(v)'
               PROVE  svc'[StoreOf[v]] = v
    BY DEF ServiceHeld
  <1> USE NamesAssumption
  <1>a. TypeOK /\ StoreOf[v] \in Stores /\ v # None /\ "continue_run" \in Serialised
    BY DEF IInv, Serialised
  <1>b. LocksService(v) => svc[StoreOf[v]] = v
    BY DEF ServiceHeld
  <1>1. ASSUME UNCHANGED <<pc, cur, svc>> PROVE svc'[StoreOf[v]] = v
    BY <1>1, <1>b DEF LocksService
  <1>2. ASSUME NEW w \in Workers, FreeSvc(w), Idle(w) PROVE svc'[StoreOf[v]] = v
    BY <1>2, <1>a, <1>b DEF LocksService, FreeSvc, Idle, TypeOK
  <1>3. ASSUME NEW w \in Workers, NEW r \in Runs, NEW o \in Ops, NEW q \in Requests,
               ClaimOp(w, r, o, q) PROVE svc'[StoreOf[v]] = v
    BY <1>3, <1>a, <1>b DEF LocksService, ClaimOp, Entered, TypeOK
  <1>4. ASSUME NEW w \in Workers, NEW r \in Runs, ReadRun(w, r) PROVE svc'[StoreOf[v]] = v
    BY <1>4, <1>a, <1>b DEF LocksService, ReadRun, StartRead, TypeOK
  <1>5. ASSUME NEW s \in Stores, OpenStore(s) \/ Crash(s) PROVE svc'[StoreOf[v]] = v
    BY <1>5, <1>a, <1>b DEF LocksService, OpenStore, Crash, TypeOK
  <1>6. ASSUME NEW w \in Workers, NEW p \in Points \ {"claimed", "reading"},
               pc' = [pc EXCEPT ![w] = p], cur' = cur, svc' = svc \/ FreeSvc(w)
        PROVE  svc'[StoreOf[v]] = v
    BY <1>6, <1>a, <1>b DEF LocksService, FreeSvc, TypeOK
  <1>7. ASSUME NEW w \in Workers, Step(w) PROVE svc'[StoreOf[v]] = v
    <2>1. ASSUME NEW r \in Runs, NEW o \in Ops, NEW q \in Requests,
                 ReplayOp(w, r, o, q) \/ RefuseOp(w, r, o, q)
          PROVE  svc'[StoreOf[v]] = v
      BY <2>1, <1>2 DEF ReplayOp, RefuseOp, Leave
    <2>2. CASE Charge(w)
      BY <2>2, <1>1 DEF Charge, Spend, lockVars
    <2>3. CASE SaveRun(w)
      BY <2>3, <1>6 DEF SaveRun, lockVars, Points
    <2>4. CASE CompleteOp(w)
      <3>1. \/ pc' = [pc EXCEPT ![w] = "purging"] /\ UNCHANGED <<svc, cur>>
            \/ FreeSvc(w) /\ Idle(w)
        BY <2>4 DEF CompleteOp, Leave
      <3> QED
        BY <3>1, <1>2, <1>6 DEF Points
    <2>5. CASE PurgeEphemeral(w) \/ SaveProjection(w) \/ EndRead(w)
      BY <2>5, <1>2 DEF PurgeEphemeral, SaveProjection, EndRead, Leave
    <2>6. CASE CloseClaim(w) \/ CloseGivenUp(w)
      BY <2>6, <1>a, <1>b DEF CloseClaim, CloseGivenUp, Idle, lockVars, LocksService, TypeOK
    <2> QED
      BY <1>7, <1>3, <2>1, <2>2, <2>3, <2>4, <2>5, <2>6 DEF Step
  <1>8. ASSUME NEW w \in Workers, Call(w) PROVE svc'[StoreOf[v]] = v
    <2>1. CASE Begin(w)
      BY <2>1, <1>6 DEF Begin, Points
    <2>2. PurgeAll(w) \/ CleanupExpired(w) => UNCHANGED <<pc, cur, svc>>
      BY DEF PurgeAll, CleanupExpired, lockVars, workVars
    <2>3. \A r \in Runs : CreateRun(w, r) \/ PurgeRun(w, r) => UNCHANGED <<pc, cur, svc>>
      BY DEF CreateRun, PurgeRun, lockVars, workVars
    <2> QED
      BY <1>8, <1>1, <1>4, <2>1, <2>2, <2>3 DEF Call
  <1>9. CASE Fault
    <2>1. ASSUME NEW w \in Workers, Raise(w) PROVE svc'[StoreOf[v]] = v
      BY <2>1, <1>6 DEF Raise, Leave, Points
    <2>2. ASSUME NEW w \in Workers, Interrupt(w) PROVE svc'[StoreOf[v]] = v
      BY <2>2, <1>2 DEF Interrupt, Leave
    <2> QED
      BY <1>9, <1>5, <2>1, <2>2 DEF Fault
  <1>10. (\E r \in Runs : Expire(r)) \/ UNCHANGED vars => UNCHANGED <<pc, cur, svc>>
    BY DEF Expire, lockVars, workVars, vars
  <1> QED
    BY <1>1, <1>5, <1>7, <1>8, <1>9, <1>10 DEF Next

\* Deletions end runs, and no step but a creation begins one.
RunsEnd == \A r \in Runs : life[r] # "unborn" =>
    life'[r] # "unborn" /\ (life'[r] = "live" => life[r] = "live")
DecisionsStand == \A r \in Runs :
    life[r] = "live" /\ life'[r] = "live" => row'[r].done = row[r].done
ReadersStay == \A v \in Workers : pc'[v] = "reading" =>
    pc[v] = "reading" /\ cur'[v] = cur[v] /\ mem'[v] = mem[v]

\* Decisions are written by the saves only, and only ReadRun makes a reader.
LEMMA DecisionWriters ==
  ASSUME IInv, [Next]_vars,
         \A w \in Workers : ~SaveRun(w) /\ ~SaveProjection(w) /\ \A r \in Runs : ~ReadRun(w, r)
  PROVE  RunsEnd /\ DecisionsStand /\ ReadersStay
  <1> DEFINE Goal == RunsEnd /\ DecisionsStand /\ ReadersStay
  <1>a. TypeOK /\ JobsPresent
    BY DEF IInv
  <1>1. ASSUME UNCHANGED <<life, row>> PROVE RunsEnd /\ DecisionsStand
    BY <1>1 DEF RunsEnd, DecisionsStand
  <1>2. ASSUME NEW R, DeleteRuns(R) PROVE RunsEnd /\ DecisionsStand
    BY <1>2, <1>a DEF RunsEnd, DecisionsStand, DeleteRuns, TypeOK
  <1>3. ASSUME UNCHANGED <<pc, cur, mem>> PROVE ReadersStay
    BY <1>3 DEF ReadersStay
  <1>4. ASSUME NEW w \in Workers, Idle(w) PROVE ReadersStay
    BY <1>4, <1>a DEF ReadersStay, Idle, TypeOK
  <1>5. ASSUME NEW w \in Workers, NEW p \in Points \ {"reading"}, pc' = [pc EXCEPT ![w] = p],
               \A v \in Workers \ {w} : cur'[v] = cur[v] /\ mem'[v] = mem[v]
        PROVE  ReadersStay
    BY <1>5, <1>a DEF ReadersStay, TypeOK
  <1>6. ASSUME NEW s \in Stores, OpenStore(s) \/ Crash(s) PROVE Goal
    <2>1. UNCHANGED <<life, row>>
      BY <1>6 DEF OpenStore, Crash
    <2>2. ReadersStay
      BY <1>6, <1>a DEF ReadersStay, OpenStore, Crash, TypeOK
    <2> QED
      BY <1>1, <2>1, <2>2
  <1>7. ASSUME NEW w \in Workers, Step(w) PROVE Goal
    <2>1. ASSUME NEW r \in Runs, NEW o \in Ops, NEW q \in Requests, ClaimOp(w, r, o, q)
          PROVE  Goal
      <3>1. UNCHANGED <<life, row>> /\ pc' = [pc EXCEPT ![w] = "claimed"]
            /\ \A v \in Workers \ {w} : cur'[v] = cur[v] /\ mem'[v] = mem[v]
        BY <2>1, <1>a DEF ClaimOp, TypeOK
      <3> QED
        BY <1>1, <1>5, <3>1 DEF Points
    <2>2. ASSUME NEW r \in Runs, NEW o \in Ops, NEW q \in Requests,
                 ReplayOp(w, r, o, q) \/ RefuseOp(w, r, o, q)
          PROVE  Goal
      BY <2>2, <1>1, <1>4 DEF ReplayOp, RefuseOp, dbVars
    <2>3. CASE Charge(w)
      <3>1. pc[w] = "claimed" /\ cur[w].run \in Runs
        BY <2>3, <1>a DEF Charge, JobsPresent, Job
      <3>2. RunsEnd /\ DecisionsStand
        BY <2>3, <3>1, <1>a DEF RunsEnd, DecisionsStand, Charge, Spend, TypeOK, Row
      <3>3. ReadersStay
        BY <2>3, <3>1, <1>a DEF ReadersStay, Charge, Spend, TypeOK
      <3> QED
        BY <3>2, <3>3
    <2>4. CASE CompleteOp(w)
      <3>1. \/ pc' = [pc EXCEPT ![w] = "purging"] /\ UNCHANGED <<cur, mem>>
            \/ Idle(w)
        BY <2>4 DEF CompleteOp
      <3>2. UNCHANGED <<life, row>>
        BY <2>4 DEF CompleteOp
      <3> QED
        BY <1>1, <1>4, <1>5, <3>1, <3>2 DEF Points
    <2>5. CASE PurgeEphemeral(w)
      BY <2>5, <1>2, <1>4 DEF PurgeEphemeral
    <2>6. CASE CloseClaim(w) \/ CloseGivenUp(w) \/ EndRead(w)
      BY <2>6, <1>1, <1>4 DEF CloseClaim, CloseGivenUp, EndRead, dbVars
    <2> QED
      BY <1>7, <2>1, <2>2, <2>3, <2>4, <2>5, <2>6 DEF Step
  <1>8. ASSUME NEW w \in Workers, Call(w) PROVE Goal
    <2>1. CASE Begin(w)
      <3>1. UNCHANGED <<life, row>>
        BY <2>1 DEF Begin
      <3>2. ReadersStay
        BY <2>1, <1>5 DEF Begin, Points
      <3> QED
        BY <1>1, <3>1, <3>2
    <2>2. CASE PurgeAll(w) \/ CleanupExpired(w)
      <3>1. (\E R : DeleteRuns(R)) \/ UNCHANGED <<life, row>>
        BY <2>2 DEF PurgeAll, CleanupExpired
      <3>2. UNCHANGED <<pc, cur, mem>>
        BY <2>2 DEF PurgeAll, CleanupExpired, workVars
      <3> QED
        BY <1>1, <1>2, <1>3, <3>1, <3>2
    <2>3. ASSUME NEW r \in Runs, PurgeRun(w, r) PROVE Goal
      BY <2>3, <1>2, <1>3 DEF PurgeRun, workVars
    <2>4. ASSUME NEW r \in Runs, CreateRun(w, r) PROVE Goal
      <3>1. RunsEnd /\ DecisionsStand
        BY <2>4, <1>a DEF RunsEnd, DecisionsStand, CreateRun, TypeOK
      <3> QED
        BY <2>4, <1>3, <3>1 DEF CreateRun, workVars
    <2> QED
      BY <1>8, <2>1, <2>2, <2>3, <2>4 DEF Call
  <1>9. CASE Fault
    <2>1. ASSUME NEW w \in Workers, Raise(w) PROVE Goal
      <3>1. UNCHANGED <<life, row, cur, mem>> /\ pc' = [pc EXCEPT ![w] = "closing"]
        BY <2>1 DEF Raise, dbVars
      <3> QED
        BY <1>1, <1>5, <3>1 DEF Points
    <2>2. ASSUME NEW w \in Workers, Interrupt(w) PROVE Goal
      BY <2>2, <1>1, <1>4 DEF Interrupt, dbVars
    <2> QED
      BY <1>9, <1>6, <2>1, <2>2 DEF Fault
  <1>10. (\E r \in Runs : Expire(r)) \/ UNCHANGED vars => UNCHANGED <<life, row, pc, cur, mem>>
    BY DEF Expire, workVars, vars
  <1> QED
    BY <1>1, <1>3, <1>6, <1>7, <1>8, <1>9, <1>10 DEF Next

DecisionInv == IInv /\ ServiceHeld /\ ReadCurrent

\* In one process nobody writes a decision between the read and the write of a
\* projection, and a save writes what it has read or one decision more.
LEMMA DecisionStep ==
  ASSUME OneProcess, DecisionInv, [Next]_vars
  PROVE  ReadCurrent' /\ \A r \in Runs : DecisionKept(r)
  <1> USE NamesAssumption
  <1>a. TypeOK /\ JobsPresent /\ SnapshotCurrent /\ ServiceHeld /\ ReadCurrent
    BY DEF DecisionInv, IInv
  <1>b. \A r \in Runs : row[r].done \in Nat
    BY <1>a, BoundsAssumption DEF TypeOK, Row
  <1>c. \A v \in Workers : pc[v] = "reading" => cur[v].run \in Runs
    BY <1>a DEF JobsPresent, Job
  <1>d. \A v, w \in Workers : LocksService(v) /\ LocksService(w) => v = w
    BY <1>a DEF OneProcess, ServiceHeld
  <1>1. CASE \A w \in Workers :
               ~SaveRun(w) /\ ~SaveProjection(w) /\ \A r \in Runs : ~ReadRun(w, r)
    <2>1. RunsEnd /\ DecisionsStand /\ ReadersStay
      BY <1>1, DecisionWriters DEF DecisionInv
    <2>2. ASSUME NEW r \in Runs PROVE DecisionKept(r)
      BY <2>1, <1>b DEF DecisionsStand, DecisionKept
    <2>3. ASSUME NEW v \in Workers, pc'[v] = "reading"
          PROVE  /\ life'[cur'[v].run] \in {"live", "gone"}
                 /\ life'[cur'[v].run] = "live" => mem'[v].done >= row'[cur'[v].run].done
      <3>1. /\ pc[v] = "reading" /\ cur'[v] = cur[v] /\ mem'[v] = mem[v] /\ cur[v].run \in Runs
            /\ life[cur[v].run] \in {"live", "gone"}
            /\ life[cur[v].run] = "live" => mem[v].done >= row[cur[v].run].done
        BY <2>1, <2>3, <1>a, <1>c DEF ReadersStay, ReadCurrent
      <3>2. life'[cur[v].run] \in {"live", "gone"}
        BY <2>1, <3>1, NextTypeOK, <1>a DEF RunsEnd, TypeOK
      <3> QED
        BY <2>1, <3>1, <3>2 DEF RunsEnd, DecisionsStand
    <2> QED
      BY <2>2, <2>3 DEF ReadCurrent
  <1>2. ASSUME NEW w \in Workers, SaveRun(w)
        PROVE  ReadCurrent' /\ \A r \in Runs : DecisionKept(r)
    <2>1. pc[w] = "claimed" /\ cur[w].run \in Runs /\ mem[w] = row[cur[w].run]
      BY <1>2, <1>a DEF SaveRun, JobsPresent, Job, SnapshotCurrent
    <2>2. PICK d \in {0, 1} :
            /\ cur[w].request = "lookup_source" => d = 0
            /\ row' = [row EXCEPT ![cur[w].run] = [done |-> mem[w].done + d,
                                                   used |-> row[cur[w].run].used]]
      BY <1>2 DEF SaveRun
    <2>3. \A r \in Runs : \/ row'[r].done = row[r].done
                          \/ r = cur[w].run /\ row'[r].done = row[r].done + d
      BY <1>a, <2>1, <2>2 DEF TypeOK
    <2>4. \A r \in Runs : DecisionKept(r)
      BY <1>b, <2>3 DEF DecisionKept
    <2>5. UNCHANGED <<life, cur, mem>> /\ pc' = [pc EXCEPT ![w] = "saved"]
      BY <1>2 DEF SaveRun
    <2>6. ASSUME NEW v \in Workers, pc[v] = "reading" PROVE d = 0
      <3>1. cur[w].request \notin Serialised
        BY <1>d, <2>1, <2>6 DEF LocksService
      <3>2. cur[w].request \in Requests
        BY <1>a, <2>1 DEF JobsPresent, Job
      <3> QED
        BY <2>2, <3>1, <3>2 DEF Serialised, Requests
    <2>7. ASSUME NEW v \in Workers, pc'[v] = "reading"
          PROVE  /\ life'[cur'[v].run] \in {"live", "gone"}
                 /\ life'[cur'[v].run] = "live" => mem'[v].done >= row'[cur'[v].run].done
      <3>1. pc[v] = "reading"
        BY <1>a, <2>5, <2>7 DEF TypeOK
      <3>2. row'[cur[v].run].done = row[cur[v].run].done
        BY <1>b, <1>c, <2>3, <2>6, <3>1
      <3> QED
        BY <1>a, <2>5, <3>1, <3>2 DEF ReadCurrent
    <2> QED
      BY <2>4, <2>7 DEF ReadCurrent
  <1>3. ASSUME NEW w \in Workers, SaveProjection(w)
        PROVE  ReadCurrent' /\ \A r \in Runs : DecisionKept(r)
    <2>1. pc[w] = "reading" /\ cur[w].run \in Runs /\ UNCHANGED life
      BY <1>3, <1>c DEF SaveProjection
    <2>2. row' = [row EXCEPT ![cur[w].run] = mem[w]]
      BY <1>3 DEF SaveProjection
    <2>3. ASSUME NEW r \in Runs PROVE DecisionKept(r)
      BY <1>a, <1>b, <2>1, <2>2 DEF DecisionKept, ReadCurrent, TypeOK
    <2>4. ASSUME NEW v \in Workers, pc'[v] = "reading" PROVE FALSE
      <3>1. v # w /\ pc[v] = "reading"
        BY <1>3, <1>a, <2>4 DEF SaveProjection, Idle, TypeOK
      <3> QED
        BY <1>d, <2>1, <3>1 DEF LocksService
    <2> QED
      BY <2>3, <2>4 DEF ReadCurrent
  <1>4. ASSUME NEW w \in Workers, NEW r \in Runs, ReadRun(w, r)
        PROVE  ReadCurrent' /\ \A x \in Runs : DecisionKept(x)
    <2>1. UNCHANGED <<life, row>> /\ life[r] = "live"
      BY <1>4 DEF ReadRun, StartRead, dbVars, Workable
    <2>2. \A x \in Runs : DecisionKept(x)
      BY <1>b, <2>1 DEF DecisionKept
    <2>3. ASSUME NEW v \in Workers, pc'[v] = "reading"
          PROVE  /\ life'[cur'[v].run] \in {"live", "gone"}
                 /\ life'[cur'[v].run] = "live" => mem'[v].done >= row'[cur'[v].run].done
      <3>1. CASE v = w
        <4>1. cur'[v].run = r /\ mem'[v] = row[r]
          BY <1>4, <1>a, <3>1 DEF ReadRun, StartRead, TypeOK
        <4> QED
          BY <1>b, <2>1, <4>1
      <3>2. CASE v # w
        <4>1. pc[v] = "reading" /\ cur'[v] = cur[v] /\ mem'[v] = mem[v]
          BY <1>4, <1>a, <2>3, <3>2 DEF ReadRun, StartRead, TypeOK
        <4> QED
          BY <1>a, <2>1, <4>1 DEF ReadCurrent
      <3> QED
        BY <3>1, <3>2
    <2> QED
      BY <2>2, <2>3 DEF ReadCurrent
  <1> QED
    BY <1>1, <1>2, <1>3, <1>4

\* Within one process no decision recorded in a live run is taken back by the
\* projection of another thread (get_finalization_contract, save_run): the
\* service lock is held from its read to its write, and whoever records a
\* decision holds it too.
THEOREM DecisionsAreKept == OneProcess /\ Spec => DecisionsKept
  <1> SUFFICES ASSUME OneProcess PROVE Spec => DecisionsKept
    OBVIOUS
  <1>1. Init => DecisionInv
    BY InitIInv DEF Init, DecisionInv, ServiceHeld, LocksService, ReadCurrent
  <1>2. DecisionInv /\ [Next]_vars => DecisionInv'
    BY NextIInv, NextServiceHeld, DecisionStep DEF DecisionInv
  <1>3. DecisionInv /\ [Next]_vars => [\A r \in Runs : DecisionKept(r)]_vars
    BY DecisionStep
  <1> QED
    BY <1>1, <1>2, <1>3, PTL DEF Spec, DecisionsKept

-----------------------------------------------------------------------------
(***************************************************************************)
(* ManagedStore implements OperationLedger.  A step of the store is either *)
(* invisible in the ledger (locks, processes, files, budgets, replays) or  *)
(* one step of it: a creation, a claim, a completion, the failure of one   *)
(* claim or of all that a crash left, or the deletion of some runs.        *)
(***************************************************************************)
LedgerView == [r \in Runs |-> [o \in Ops |-> LedgerStatus(r, o)]]

\* A step that writes neither runs nor operations is a stutter of the ledger.
LEMMA Stutter == UNCHANGED <<life, ops>> => UNCHANGED Ledger!vars
  BY DEF Ledger!vars, LedgerStatus

\* Deleting the rows of some runs is a deletion in the ledger.
LEMMA DeletionRefines ==
  ASSUME NEW R \in SUBSET Runs, DeleteRuns(R)
  PROVE  Ledger!Delete(R)
  <1>1. LedgerView' = [r \in Runs |->
                         IF r \in R THEN [o \in Ops |-> "unused"] ELSE LedgerView[r]]
    BY DEF DeleteRuns, LedgerView, LedgerStatus, NoOps, Unused
  <1>2. QED
    BY <1>1 DEF DeleteRuns, Ledger!Delete, LedgerView

\* The initial states show the ledger's initial states.
LEMMA InitRefines == Init => Ledger!Init
  BY RunsAssumption
  DEF Init, Ledger!Init, LegacyRuns, Ledger!LegacyRuns, LedgerStatus, LegacyRow, Unused

\* Every step of the store is a step of the ledger or none.
LEMMA NextRefines == IInv /\ [Next]_vars => [Ledger!Next]_(Ledger!vars)
  <1> SUFFICES ASSUME IInv, [Next]_vars PROVE [Ledger!Next]_(Ledger!vars)
    OBVIOUS
  <1>a. TypeOK /\ LocksAgree /\ JobsPresent /\ OwnedClaim
    BY DEF IInv
  <1>b. \A r \in Runs, o \in Ops : ops[r][o] \in OpRow
    BY <1>a DEF TypeOK
  <1>1. ASSUME NEW w \in Workers, NEW r \in Runs, NEW o \in Ops, NEW q \in Requests,
               ClaimOp(w, r, o, q)
        PROVE  Ledger!Claim(r, o)
    <2>1. /\ ops[r][o].status = "unused"
          /\ \A p \in Ops : ops[r][p].status # "in_progress"
      BY <1>1 DEF ClaimOp, Unused, InProgress
    <2>2. \A p \in Ops : LedgerStatus(r, p) # "in_progress"
      BY <2>1 DEF LedgerStatus
    <2>3. ops' = [ops EXCEPT ![r][o] = [status |-> "in_progress", managed |-> TRUE,
                                        request |-> q, final |-> FALSE]]
      BY <1>1 DEF ClaimOp
    <2>4. LedgerView' = [LedgerView EXCEPT ![r][o] = "in_progress"]
      BY <2>3, <1>a DEF LedgerView, LedgerStatus, TypeOK
    <2>5. QED
      BY <1>1, <2>1, <2>2, <2>4 DEF ClaimOp, Workable, Ledger!Claim, LedgerView, LedgerStatus
  <1>2. ASSUME NEW w \in Workers, CompleteOp(w)
        PROVE  Ledger!Complete(cur[w].run, cur[w].op)
    <2>1. cur[w].run \in Runs /\ cur[w].op \in Ops
      BY <1>2, <1>a DEF CompleteOp, JobsPresent, Job
    <2>2. ops[cur[w].run][cur[w].op].status = "in_progress" /\ UNCHANGED life
      BY <1>2 DEF CompleteOp, InProgress
    <2>3. PICK x : /\ x.status = "completed"
                   /\ ops' = [ops EXCEPT ![cur[w].run][cur[w].op] = x]
      <3>1. PICK final \in BOOLEAN :
              ops' = [ops EXCEPT ![cur[w].run][cur[w].op] =
                        [WithStatus(ops[cur[w].run][cur[w].op], "completed")
                           EXCEPT !.final = final]]
        BY <1>2 DEF CompleteOp
      <3>2. [WithStatus(ops[cur[w].run][cur[w].op], "completed")
               EXCEPT !.final = final].status = "completed"
        BY <1>b, <2>1 DEF WithStatus, OpRow
      <3>3. QED
        BY <3>1, <3>2
    <2>4. LedgerView' = [LedgerView EXCEPT ![cur[w].run][cur[w].op] = "completed"]
      BY <2>1, <2>3, <1>a DEF LedgerView, LedgerStatus, TypeOK
    <2>5. QED
      BY <2>1, <2>2, <2>4 DEF Ledger!Complete, LedgerView, LedgerStatus
  <1>3. ASSUME NEW w \in Workers, CloseClaim(w)
        PROVE  [Ledger!Next]_(Ledger!vars)
    <2>1. cur[w].run \in Runs /\ cur[w].op \in Ops /\ UNCHANGED life
      BY <1>3, <1>a DEF CloseClaim, JobsPresent, Job
    <2>2. CASE ~InProgress(cur[w].run, cur[w].op)
      BY <1>3, <2>1, <2>2, Stutter DEF CloseClaim
    <2>3. CASE InProgress(cur[w].run, cur[w].op)
      <3>1. PICK x : /\ x.status = "failed"
                     /\ ops' = [ops EXCEPT ![cur[w].run][cur[w].op] = x]
        <4>1. ops' = [ops EXCEPT ![cur[w].run][cur[w].op] =
                        WithStatus(ops[cur[w].run][cur[w].op], "failed")]
          BY <1>3, <2>3 DEF CloseClaim
        <4>2. WithStatus(ops[cur[w].run][cur[w].op], "failed").status = "failed"
          BY <1>b, <2>1 DEF WithStatus, OpRow
        <4>3. QED
          BY <4>1, <4>2
      <3>2. LedgerView' = [r \in Runs |-> [o \in Ops |->
              IF <<r, o>> \in {<<cur[w].run, cur[w].op>>} THEN "failed" ELSE LedgerView[r][o]]]
        BY <2>1, <3>1, <1>a DEF LedgerView, LedgerStatus, TypeOK
      <3>3. Ledger!Fail({<<cur[w].run, cur[w].op>>})
        BY <2>1, <2>3, <3>2 DEF Ledger!Fail, LedgerView, LedgerStatus, InProgress
      <3>4. {<<cur[w].run, cur[w].op>>} \in SUBSET (Runs \X Ops)
        BY <2>1
      <3>5. QED
        BY <3>3, <3>4 DEF Ledger!Next
    <2>4. QED
      BY <2>2, <2>3
  <1>4. ASSUME NEW w \in Workers, Begin(w)
        PROVE  [Ledger!Next]_(Ledger!vars)
    <2> DEFINE S == {x \in Runs \X Ops : ManagedClaim(x[1], x[2])}
    <2>1. \A r \in Runs, o \in Ops :
            ops'[r][o].status = IF <<r, o>> \in S THEN "interrupted" ELSE ops[r][o].status
      <3>1. SUFFICES ASSUME NEW r \in Runs, NEW o \in Ops
                     PROVE  ops'[r][o].status = IF <<r, o>> \in S THEN "interrupted"
                                                ELSE ops[r][o].status
        OBVIOUS
      <3>2. ops'[r][o] = Swept(r, o)
        BY <1>4 DEF Begin
      <3>3. <<r, o>> \in S <=> ManagedClaim(r, o)
        OBVIOUS
      <3>4. WithStatus(ops[r][o], "interrupted").status = "interrupted"
        BY <1>b DEF WithStatus, OpRow
      <3>5. QED
        BY <3>2, <3>3, <3>4 DEF Swept
    <2>2. LedgerView' = [r \in Runs |-> [o \in Ops |->
            IF <<r, o>> \in S THEN "failed" ELSE LedgerView[r][o]]]
      <3>1. \A r \in Runs, o \in Ops :
              LedgerStatus(r, o)' = IF <<r, o>> \in S THEN "failed" ELSE LedgerStatus(r, o)
        BY <2>1 DEF LedgerStatus
      <3>2. QED
        BY <3>1 DEF LedgerView
    <2>3. \A r \in Runs, o \in Ops : <<r, o>> \in S => LedgerView[r][o] = "in_progress"
      BY DEF ManagedClaim, InProgress, LedgerView, LedgerStatus
    <2>4. Ledger!Fail(S)
      BY <1>4, <2>2, <2>3 DEF Begin, Ledger!Fail, LedgerView
    <2>5. S \in SUBSET (Runs \X Ops)
      OBVIOUS
    <2>6. QED
      BY <2>4, <2>5 DEF Ledger!Next
  <1>5. ASSUME NEW w \in Workers, NEW r \in Runs, CreateRun(w, r)
        PROVE  Ledger!Create(r)
    BY <1>5 DEF CreateRun, Ledger!Create, LedgerStatus
  <1>6. ASSUME NEW R \in SUBSET Runs, DeleteRuns(R) PROVE Ledger!Next
    BY <1>6, DeletionRefines DEF Ledger!Next
  <1>7. ASSUME NEW w \in Workers, Step(w) PROVE [Ledger!Next]_(Ledger!vars)
    <2>1. CASE PurgeEphemeral(w)
      <3>1. {cur[w].run} \in SUBSET Runs
        BY <2>1, <1>a DEF PurgeEphemeral, JobsPresent, Job
      <3>2. QED
        BY <2>1, <3>1, <1>6 DEF PurgeEphemeral
    <2>2. CASE CompleteOp(w)
      <3>1. cur[w].run \in Runs /\ cur[w].op \in Ops
        BY <2>2, <1>a DEF CompleteOp, JobsPresent, Job
      <3>2. QED
        BY <2>2, <3>1, <1>2 DEF Ledger!Next
    <2>3. ASSUME NEW r \in Runs, NEW o \in Ops, NEW q \in Requests, ClaimOp(w, r, o, q)
          PROVE  Ledger!Next
      BY <2>3, <1>1 DEF Ledger!Next
    <2>4. ASSUME NEW r \in Runs, NEW o \in Ops, NEW q \in Requests,
                 ReplayOp(w, r, o, q) \/ RefuseOp(w, r, o, q)
          PROVE  UNCHANGED <<life, ops>>
      BY <2>4 DEF ReplayOp, RefuseOp, dbVars
    <2>5. Charge(w) \/ SaveRun(w) \/ CloseGivenUp(w) \/ SaveProjection(w) \/ EndRead(w)
            => UNCHANGED <<life, ops>>
      BY DEF Charge, Spend, SaveRun, CloseGivenUp, SaveProjection, EndRead, dbVars
    <2>6. QED
      BY <1>7, <1>3, <2>1, <2>2, <2>3, <2>4, <2>5, Stutter DEF Step
  <1>8. ASSUME NEW w \in Workers, Call(w) PROVE [Ledger!Next]_(Ledger!vars)
    <2>1. CASE PurgeAll(w)
      <3>1. DeleteRuns(Runs) \/ UNCHANGED <<life, ops>>
        BY <2>1 DEF PurgeAll
      <3>2. QED
        BY <3>1, <1>6, Stutter
    <2>2. CASE CleanupExpired(w)
      BY <2>2, <1>a, <1>6 DEF CleanupExpired, TypeOK
    <2>3. ASSUME NEW r \in Runs, CreateRun(w, r) PROVE Ledger!Next
      BY <2>3, <1>5 DEF Ledger!Next
    <2>4. ASSUME NEW r \in Runs, PurgeRun(w, r) PROVE Ledger!Next
      BY <2>4, <1>6 DEF PurgeRun
    <2>5. ASSUME NEW r \in Runs, ReadRun(w, r) PROVE UNCHANGED <<life, ops>>
      BY <2>5 DEF ReadRun, StartRead, dbVars
    <2>6. QED
      BY <1>8, <1>4, <2>1, <2>2, <2>3, <2>4, <2>5, Stutter DEF Call
  <1>9. (\E s \in Stores : OpenStore(s)) \/ (\E r \in Runs : Expire(r)) \/ Fault
        \/ UNCHANGED vars => UNCHANGED <<life, ops>>
    BY DEF OpenStore, Expire, Fault, Raise, Interrupt, Crash, dbVars, vars
  <1>10. QED
    BY <1>7, <1>8, <1>9, Stutter DEF Next

\* Seen as a ledger of operations, the store with all its processes, crashes
\* and purges is the abstract one: operations execute at most once, results and
\* failures are final, deleted runs never come back.
THEOREM StoreImplementsLedger == Spec => LedgerSpec
  <1>1. Spec => []IInv
    BY InitIInv, NextIInv, PTL DEF Spec
  <1>2. QED
    BY InitRefines, NextRefines, <1>1, PTL DEF Spec, LedgerSpec, Ledger!Spec
=============================================================================
