-------------------------- MODULE OperationLedger --------------------------
(***************************************************************************)
(* What the managed store promises about research runs and the operation   *)
(* identities of its clients, with no lock, process, file or crash in it:  *)
(*                                                                         *)
(*   - a run is created once, and once it is gone it stays gone;           *)
(*   - an operation is claimed at most once, on a live run that has no     *)
(*     other unfinished operation, and ends completed or failed for as     *)
(*     long as its run lives: a retry with the same identity can neither   *)
(*     execute it again nor turn a failure into a success;                 *)
(*   - deleting a run takes its operations with it.                        *)
(*                                                                         *)
(* ManagedStore implements this specification (LedgerSpec there).          *)
(***************************************************************************)
CONSTANTS
    Runs,       \* identities of research runs
    Ops,        \* operation identities a client may use within a run
    LegacyOps   \* <<run, op>> pairs an older version left unfinished

Statuses == {"unused", "in_progress", "completed", "failed"}

VARIABLES
    life,       \* life[r]: "unborn", "live" or "gone"
    ledger      \* ledger[r][o]: the status of operation o of run r

vars == <<life, ledger>>

TypeOK ==
    /\ life \in [Runs -> {"unborn", "live", "gone"}]
    /\ ledger \in [Runs -> [Ops -> Statuses]]

LegacyRuns == {r \in Runs : \E o \in Ops : <<r, o>> \in LegacyOps}

Init ==
    /\ life = [r \in Runs |-> IF r \in LegacyRuns THEN "live" ELSE "unborn"]
    /\ ledger = [r \in Runs |-> [o \in Ops |->
                    IF <<r, o>> \in LegacyOps THEN "in_progress" ELSE "unused"]]

Create(r) ==
    /\ life[r] = "unborn"
    /\ life' = [life EXCEPT ![r] = "live"]
    /\ UNCHANGED ledger

Claim(r, o) ==
    /\ life[r] = "live"
    /\ ledger[r][o] = "unused"
    /\ \A p \in Ops : ledger[r][p] # "in_progress"
    /\ ledger' = [ledger EXCEPT ![r][o] = "in_progress"]
    /\ UNCHANGED life

Complete(r, o) ==
    /\ ledger[r][o] = "in_progress"
    /\ ledger' = [ledger EXCEPT ![r][o] = "completed"]
    /\ UNCHANGED life

\* One failure (a caught exception) or many at once (recovery after a crash).
Fail(S) ==
    /\ \A r \in Runs, o \in Ops : <<r, o>> \in S => ledger[r][o] = "in_progress"
    /\ ledger' = [r \in Runs |-> [o \in Ops |->
                    IF <<r, o>> \in S THEN "failed" ELSE ledger[r][o]]]
    /\ UNCHANGED life

\* Purge of one run, expiry clean-up of several, purge of the whole store.
Delete(R) ==
    /\ life' = [r \in Runs |->
                  IF r \in R /\ life[r] = "live" THEN "gone" ELSE life[r]]
    /\ ledger' = [r \in Runs |->
                    IF r \in R THEN [o \in Ops |-> "unused"] ELSE ledger[r]]

Next ==
    \/ \E r \in Runs : Create(r)
    \/ \E r \in Runs, o \in Ops : Claim(r, o) \/ Complete(r, o)
    \/ \E S \in SUBSET (Runs \X Ops) : Fail(S)
    \/ \E R \in SUBSET Runs : Delete(R)

Spec == Init /\ [][Next]_vars
=============================================================================
