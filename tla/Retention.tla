------------------------------ MODULE Retention ------------------------------
(***************************************************************************)
(* The evidence retention sweep: the fee owner dispatches one bounded      *)
(* sweep after a committed cycle (fee_scheduler.rs), the store actor runs  *)
(* it one batch, one transaction at a time (revops-db/src/fee_runway.rs),  *)
(* the result returns to the owner, and readiness judges what the owner    *)
(* remembers of it (lifecycle.rs).                                         *)
(*                                                                         *)
(* The store is one actor: nothing else writes while a sweep runs.  A      *)
(* table holds rows inside the horizon (`young') and past it (`old'); the  *)
(* snapshot table keeps its newest rows whatever their age.                *)
(***************************************************************************)
EXTENDS Integers

CONSTANTS
  HorizonTables,  \* number of tables swept by age; the snapshots come last
  BatchRows,      \* RETENTION_BATCH_ROWS
  MaxBatches,     \* RETENTION_MAX_BATCHES_PER_SWEEP
  KeepLast,       \* SNAPSHOT_KEEP_LAST
  MaxSilence,     \* RETENTION_MAX_SILENCE_SECONDS
  Tolerance,      \* RETENTION_TRUNCATION_TOLERANCE_SECONDS
  MaxRows,        \* bound: old rows of a table
  MaxYoung,       \* bound: young rows of a table
  MaxFaults       \* bound: failed sweeps and restarts

ASSUME RetentionAssumption ==
  /\ HorizonTables \in Nat /\ BatchRows \in Nat \ {0} /\ MaxBatches \in Nat \ {0}
  /\ KeepLast \in Nat /\ MaxSilence \in Nat /\ Tolerance \in Nat
  /\ MaxRows \in Nat /\ MaxYoung \in Nat /\ MaxFaults \in Nat

Targets == HorizonTables + 1
Table == 0 .. Targets - 1
Snapshots == HorizonTables

VARIABLES
  rows,    \* per table [young, old]; a snapshot is always old
  sweep,   \* the sweep in the store actor
  keeper,  \* what the owner keeps: cursor, in flight, failures and two ages
  faults   \* history: faults so far

retVars == <<rows, sweep, keeper, faults>>

Never == -1
NoSweep == [at |-> "none", index |-> 0, batches |-> 0, empty |-> 0, next |-> 0]
FreshKeeper == [cursor |-> 0, inFlight |-> FALSE, failures |-> 0, silent |-> 0, truncated |-> Never]

RetTypeOK ==
  /\ rows \in [Table -> [young : 0 .. MaxYoung, old : 0 .. MaxRows]]
  /\ sweep \in [at : {"none", "running", "swept", "failed", "lost"}, index : Table,
                batches : 0 .. MaxBatches, empty : 0 .. Targets, next : Table]
  /\ keeper \in [cursor : Table, inFlight : BOOLEAN, failures : 0 .. MaxFaults,
                 silent : 0 .. MaxSilence + 1, truncated : Never .. Tolerance + 1]
  /\ faults \in 0 .. MaxFaults

RetInit ==
  /\ rows = [t \in Table |-> [young |-> 0, old |-> 0]]
  /\ sweep = NoSweep /\ keeper = FreshKeeper /\ faults = 0

-----------------------------------------------------------------------------
(* The rows.                                                               *)
Lesser(a, b) == IF a < b THEN a ELSE b

Record(t) ==
  /\ sweep.at # "running"
  /\ IF t = Snapshots
       THEN rows[t].old < MaxRows /\ rows' = [rows EXCEPT ![t].old = @ + 1]
       ELSE rows[t].young < MaxYoung /\ rows' = [rows EXCEPT ![t].young = @ + 1]
  /\ UNCHANGED <<sweep, keeper, faults>>

Expire(t) ==
  /\ t # Snapshots /\ sweep.at # "running" /\ rows[t].young > 0 /\ rows[t].old < MaxRows
  /\ rows' = [rows EXCEPT ![t] = [young |-> @.young - 1, old |-> @.old + 1]]
  /\ UNCHANGED <<sweep, keeper, faults>>

Eligible(t) ==
  IF t = Snapshots THEN (IF rows[t].old > KeepLast THEN rows[t].old - KeepLast ELSE 0)
                   ELSE rows[t].old

-----------------------------------------------------------------------------
(* The owner.                                                              *)

\* schedule_retention_sweep, after a committed scheduled cycle.
ScheduleSweep(ok) ==
  /\ ~keeper.inFlight
  /\ IF ok THEN /\ sweep' = [NoSweep EXCEPT !.at = "running", !.index = keeper.cursor,
                                            !.next = keeper.cursor]
                /\ keeper' = [keeper EXCEPT !.inFlight = TRUE]
                /\ UNCHANGED faults
           ELSE /\ faults < MaxFaults /\ faults' = faults + 1
                /\ keeper' = [keeper EXCEPT !.failures = @ + 1]
                /\ UNCHANGED sweep
  /\ UNCHANGED rows

\* Mutant: every sweep starts at the first table.
AfterNothing(index) == 0

\* RetentionCursor::after
After(index) == (index + 1) % Targets

\* One turn of the loop in run_retention_sweep, one transaction.
SweepBatch ==
  /\ sweep.at = "running" /\ sweep.batches < MaxBatches /\ sweep.empty < Targets
  /\ LET t == sweep.index
         gone == Lesser(Eligible(t), BatchRows)
         on == [sweep EXCEPT !.index = (t + 1) % Targets]
     IN /\ rows' = [rows EXCEPT ![t].old = @ - gone]
        /\ sweep' = IF gone = 0 THEN [on EXCEPT !.empty = @ + 1]
                    ELSE [on EXCEPT !.empty = 0, !.batches = @ + 1, !.next = After(t)]
  /\ UNCHANGED <<keeper, faults>>

SweepEnds ==
  /\ sweep.at = "running" /\ (sweep.batches = MaxBatches \/ sweep.empty = Targets)
  /\ sweep' = [sweep EXCEPT !.at = "swept"]
  /\ UNCHANGED <<rows, keeper, faults>>

\* A batch's transaction fails: the earlier ones stay committed.  Or the
\* actor dies with the callback and no result ever comes.
SweepFails(how) ==
  /\ sweep.at = "running" /\ faults < MaxFaults
  /\ faults' = faults + 1
  /\ sweep' = [sweep EXCEPT !.at = how]
  /\ UNCHANGED <<rows, keeper>>

\* InitialFeeStoreResult::Retention
SweepResult ==
  /\ sweep.at \in {"swept", "failed"}
  /\ sweep' = NoSweep
  /\ keeper' =
       IF sweep.at = "failed"
         THEN [keeper EXCEPT !.inFlight = FALSE, !.failures = @ + 1]
         ELSE [keeper EXCEPT !.inFlight = FALSE, !.cursor = sweep.next, !.silent = 0,
                 !.truncated = IF sweep.batches # MaxBatches THEN Never
                               ELSE IF @ = Never THEN 0 ELSE @]
  /\ UNCHANGED <<rows, faults>>

\* The wall clock; ages past their limit are all alike.
Tick ==
  /\ keeper' = [keeper EXCEPT
       !.silent = Lesser(@ + 1, MaxSilence + 1),
       !.truncated = IF @ = Never THEN Never ELSE Lesser(@ + 1, Tolerance + 1)]
  /\ UNCHANGED <<rows, sweep, faults>>

\* A new process starts at the first table with clean counters.
RestartKeeper ==
  /\ faults < MaxFaults
  /\ faults' = faults + 1
  /\ sweep' = NoSweep /\ keeper' = FreshKeeper
  /\ UNCHANGED rows

\* retention_is_healthy
RetentionIsHealthy ==
  /\ keeper.failures = 0
  /\ keeper.silent <= MaxSilence
  /\ keeper.truncated = Never \/ keeper.truncated <= Tolerance

-----------------------------------------------------------------------------
RetNext ==
  \/ \E t \in Table : Record(t) \/ Expire(t)
  \/ \E ok \in BOOLEAN : ScheduleSweep(ok)
  \/ \E how \in {"failed", "lost"} : SweepFails(how)
  \/ SweepBatch \/ SweepEnds \/ SweepResult \/ Tick \/ RestartKeeper

\* Cycles keep committing, the actor and the owner take their turns, time
\* passes; nothing bounds how fast rows arrive.
RetFairness ==
  /\ WF_retVars(ScheduleSweep(TRUE)) /\ WF_retVars(SweepBatch \/ SweepEnds)
  /\ WF_retVars(SweepResult) /\ WF_retVars(Tick)
RetSpec == RetInit /\ [][RetNext]_retVars /\ RetFairness

-----------------------------------------------------------------------------
\* A sweep takes no row inside the horizon and none of the newest snapshots.
SweepTakesOnlyExpired ==
  [][sweep.at = "running" =>
       /\ \A t \in Table : rows'[t].young = rows[t].young
       /\ rows'[Snapshots].old < rows[Snapshots].old => rows'[Snapshots].old >= KeepLast]_retVars

\* However fast the other tables fill, a table that keeps having expired
\* rows keeps being swept (fee_runway.rs:2044: round-robin with a carried
\* cursor), unless the actor is lost.
EveryTableIsSwept ==
  \A t \in Table :
    <>[](Eligible(t) > 0 /\ sweep.at # "lost") => []<><<rows'[t].old < rows[t].old>>_retVars

\* A sweep whose result never comes holds the in-flight flag for good, with
\* no failure counted: readiness still turns red.
LostSweepIsSeen ==
  sweep.at = "lost" ~> ~RetentionIsHealthy \/ sweep.at # "lost"
=============================================================================
