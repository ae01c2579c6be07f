------------------------------ MODULE Lifecycle ------------------------------
(***************************************************************************)
(* The lifecycle kernel (revops/src/lifecycle.rs): store identity, the     *)
(* six startup phases and the current-boot receipt, then the bounded       *)
(* shutdown: one spawned drain that reports owner by owner into a ledger   *)
(* that outlives the call, and a verdict taken from that ledger when the   *)
(* drain ends, panics or exceeds its bound.                                *)
(***************************************************************************)
EXTENDS Naturals, Sequences, SequencesExt

CONSTANTS
  ActionOwners, ObserverOwners,  \* Owner::ALL by class, each in roster order
  MaxProcess                     \* bound: processes

DrainSteps == {"stop_intake", "persist_cursors", "flush"}

ASSUME LifecycleAssumption ==
  /\ MaxProcess \in Nat \ {0}
  /\ ActionOwners \in Seq(Range(ActionOwners)) /\ ObserverOwners \in Seq(Range(ObserverOwners))
  /\ IsInjective(ObserverOwners \o ActionOwners)
  /\ Range(ObserverOwners \o ActionOwners) \cap DrainSteps = {}

StartupPhases == <<"identified", "opened", "hydrated", "owners", "intake", "receipt">>

\* Action owners drain before observer owners; joins follow the roster.
Owner == Range(ActionOwners \o ObserverOwners)
\* Mutant: the drain walks the roster as it stands.
RosterOrder == ObserverOwners \o ActionOwners
DrainOrder == ActionOwners \o ObserverOwners
JoinOrder == ObserverOwners \o ActionOwners

DrainAcks == {"not_spawned", "drained", "left_work", "unreachable", "no_ack"}
JoinAcks == {"not_spawned", "joined", "timeout", "panicked"}

\* The drain task's program: two steps, the roster, the flush, the roster.
Program ==
  <<"stop_intake", "persist_cursors">> \o DrainOrder \o <<"flush">> \o JoinOrder
DoneAt == Len(Program) + 1
PanicAt == Len(Program) + 2  \* the drain task was lost

VARIABLES
  process,  \* boot id
  up,       \* startup: phases reached, failure, and whether the stores are one
  receipt,  \* boot id of the durable startup receipt, 0 when absent
  pc,       \* next instruction of the drain task, 0 before shutdown
  failures, \* steps of the drain that reported an error
  drain, join,  \* the DrainLedger
  verdict   \* the ShutdownOutcome returned

lifeVars == <<process, up, receipt, pc, failures, drain, join, verdict>>

NoVerdict == "none"
LifeTypeOK ==
  /\ process \in 0 .. MaxProcess
  /\ up \in [reached : 0 .. Len(StartupPhases), failed : BOOLEAN, live : BOOLEAN, alias : BOOLEAN]
  /\ receipt \in 0 .. MaxProcess
  /\ pc \in 0 .. PanicAt
  /\ failures \in 0 .. 3
  /\ drain \in [Owner -> DrainAcks \union {"unreported"}]
  /\ join \in [Owner -> JoinAcks \union {"unreported"}]
  /\ verdict \in {NoVerdict, "completed", "failed", "timed_out"}

Unreported == [o \in Owner |-> "unreported"]
Down == [reached |-> 0, failed |-> FALSE, live |-> FALSE, alias |-> FALSE]
LifeInit ==
  /\ process = 0 /\ up = Down /\ receipt = 0
  /\ pc = 0 /\ failures = 0 /\ drain = Unreported /\ join = Unreported
  /\ verdict = NoVerdict

-----------------------------------------------------------------------------
(* Startup                                                                 *)

\* What metadata() and the parents' resolution say of the two paths.
StorePaths ==
  [production : {"unset", "absent", "unreadable", "same", "other"},
   observer : {"absent", "unreadable", "exists"}, parent : BOOLEAN]

\* Whether opening the observer path read-write would open the production
\* database: one inode, or a path that lands on it through its directory.
Aliased(f) ==
  \/ f.production = "same" /\ f.observer = "exists"
  \/ f.production # "unset" /\ f.observer = "absent" /\ f.parent

\* assert_distinct_stores.  `same' is a production path with the observer's
\* (device, inode); `parent' that both resolve to one path by their parents.
DistinctStores(f) ==
  \/ f.production = "unset"
  \/ /\ f.production # "unreadable"
     /\ \/ f.observer = "exists" /\ f.production # "same"
        \/ f.observer = "absent" /\ ~f.parent

Begin ==
  /\ ~up.live /\ process < MaxProcess
  /\ process' = process + 1
  /\ up' = [Down EXCEPT !.live = TRUE]
  /\ UNCHANGED <<receipt, pc, failures, drain, join, verdict>>

\* startup: the phases in order; the phase that fails is reached, and stops it.
IdentifyStores(f) ==
  /\ up.live /\ up.reached = 0
  /\ up' = [up EXCEPT !.reached = 1, !.failed = ~DistinctStores(f), !.alias = Aliased(f)]
  /\ UNCHANGED <<process, receipt, pc, failures, drain, join, verdict>>

StartupStep(ok) ==
  /\ up.live /\ ~up.failed /\ up.reached \in 1 .. Len(StartupPhases) - 1
  /\ up' = [up EXCEPT !.reached = @ + 1, !.failed = ~ok]
  /\ receipt' = IF StartupPhases[up.reached + 1] = "receipt" /\ ok THEN process ELSE receipt
  /\ UNCHANGED <<process, pc, failures, drain, join, verdict>>

CrashProcess ==
  /\ up.live
  /\ up' = Down
  /\ pc' = 0 /\ failures' = 0 /\ drain' = Unreported /\ join' = Unreported
  /\ verdict' = NoVerdict
  /\ UNCHANGED <<process, receipt>>

\* classify_startup_receipt
ClassifyStartupReceipt(r, p) == r # 0 /\ r = p

Completed == up.reached = Len(StartupPhases) /\ ~up.failed

-----------------------------------------------------------------------------
(* shutdown                                                                *)
ShutdownCall ==
  /\ up.live /\ Completed /\ pc = 0 /\ verdict = NoVerdict
  /\ pc' = 1
  /\ UNCHANGED <<process, up, receipt, failures, drain, join, verdict>>

\* A step of the spawned task; an error is noted and the task goes on.
DrainStep(ok) ==
  /\ up.live /\ pc \in DOMAIN Program
  /\ Program[pc] \in DrainSteps
  /\ failures' = IF ok THEN failures ELSE failures + 1
  /\ pc' = pc + 1
  /\ UNCHANGED <<process, up, receipt, drain, join, verdict>>

DrainOwner(ack) ==
  /\ up.live /\ pc \in DOMAIN Program /\ pc <= 2 + Len(DrainOrder) /\ Program[pc] \in Owner
  /\ drain' = [drain EXCEPT ![Program[pc]] = ack]
  /\ pc' = pc + 1
  /\ UNCHANGED <<process, up, receipt, failures, join, verdict>>

JoinOwner(ack) ==
  /\ up.live /\ pc \in DOMAIN Program /\ pc > 3 + Len(DrainOrder)
  /\ join' = [join EXCEPT ![Program[pc]] = ack]
  /\ pc' = pc + 1
  /\ UNCHANGED <<process, up, receipt, failures, drain, verdict>>

\* A panic in an owner's future ends the task.
DrainPanics ==
  /\ up.live /\ pc \in DOMAIN Program
  /\ pc' = PanicAt
  /\ UNCHANGED <<process, up, receipt, failures, drain, join, verdict>>

DrainIsClean == \A o \in Owner : drain[o] \in {"not_spawned", "drained"}
JoinIsClean == \A o \in Owner : join[o] \in {"not_spawned", "joined"}

\* shutdown_acks_are_consistent; an owner that left work did answer.
AcksConsistent ==
  \A o \in Owner :
    /\ join[o] = "joined" => drain[o] \in {"drained", "left_work"}
    /\ join[o] = "not_spawned" => drain[o] \notin {"drained", "left_work"}

Clean == DrainIsClean /\ JoinIsClean /\ AcksConsistent

Outcome(expired) ==
  IF expired THEN "timed_out"
  ELSE IF pc = DoneAt /\ failures = 0 /\ Clean THEN "completed" ELSE "failed"

\* The task ended, or the bound expired first; in that case it goes on.
ShutdownReturns ==
  /\ up.live /\ pc > 0 /\ verdict = NoVerdict
  /\ \/ pc >= DoneAt /\ verdict' = Outcome(FALSE)
     \/ pc < DoneAt /\ verdict' = Outcome(TRUE)
  /\ UNCHANGED <<process, up, receipt, pc, failures, drain, join>>

DrainTask ==
  \/ \E ok \in BOOLEAN : DrainStep(ok)
  \/ \E a \in DrainAcks : DrainOwner(a)
  \/ \E a \in JoinAcks : JoinOwner(a)
  \/ DrainPanics

LifeNext ==
  \/ Begin \/ CrashProcess \/ ShutdownCall \/ ShutdownReturns \/ DrainTask
  \/ \E ok \in BOOLEAN : StartupStep(ok)
  \/ \E f \in StorePaths : IdentifyStores(f)

\* Only the bound is fair: an owner may never answer.
LifeFairness == WF_lifeVars(ShutdownReturns)
LifeSpec == LifeInit /\ [][LifeNext]_lifeVars /\ LifeFairness

-----------------------------------------------------------------------------
\* A process that reads the receipt as its own went through all six phases,
\* so it took no notification before its stores were identified and opened.
ReceiptProvesStartup ==
  up.live /\ ClassifyStartupReceipt(receipt, process) => Completed

\* No phase past the first runs on stores that are one file.
NeverOpensAlias == up.reached > 1 => ~up.alias

\* A completed shutdown stays true although the ledger outlives the call:
\* every step ran, every owner that existed drained all its work and ended.
CompletedIsComplete ==
  verdict = "completed" =>
    /\ pc = DoneAt /\ failures = 0
    /\ \A o \in Owner : <<drain[o], join[o]>> \in {<<"not_spawned", "not_spawned">>, <<"drained", "joined">>}

\* No observer is asked to stop before every action owner has answered.
ObserversOutliveActions ==
  \A o \in Range(ObserverOwners), a \in Range(ActionOwners) :
    drain[a] = "unreported" => drain[o] = "unreported"

\* shutdown returns even when an owner is wedged.
ShutdownBounded == pc > 0 /\ up.live ~> verdict # NoVerdict \/ ~up.live

\* What a receipt or a verdict of the process says is so (lifecycle.rs): the
\* stores are distinct, startup was whole, shutdown reached every owner in order.
LifecycleIsHonest ==
  LifeTypeOK /\ ReceiptProvesStartup /\ NeverOpensAlias /\ CompletedIsComplete /\ ObserversOutliveActions
=============================================================================
