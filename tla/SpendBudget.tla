---------------------------- MODULE SpendBudget ----------------------------
(***************************************************************************)
(* The unified spend budget (revops-db/src/budget.rs): reservations, spend *)
(* events and the sweeps, together with their callers: the operator's      *)
(* revenue-spend RPCs and the rebalance engine, whose payment runs between *)
(* the reservation and its settlement.                                     *)
(*                                                                         *)
(* Every row carries its AGE instead of a timestamp.  Tick makes all rows  *)
(* one unit older and ages saturate at Cap, which lies beyond every window *)
(* the code compares with, so "timestamp >= now - w" is "age <= w" and     *)
(* "reserved_at < now - w" is "age > w".                                   *)
(***************************************************************************)
EXTENDS Integers, FiniteSets, Functions

CONSTANTS
  Rid,          \* reservation ids of spend_reservations
  Rebalance,    \* the ids of category 'rebalance' (the engine's)
  Operator,     \* the ids the revenue-spend RPCs use
  OnChain,      \* the ids of the committed on-chain categories
  LegacyRid,    \* rows of the transition-only table budget_reservations
  Event,        \* ids of events recorded outside a reservation
  Caller,       \* concurrent revenue-spend-reserve calls
  Amounts,      \* amounts a caller may ask for or spend
  Budgets,      \* values the effective budget takes over time
  WeeklyLimit,  \* weekly_budget_sats
  DayWindow, WeekWindow,
  StaleAge,     \* reservation_timeout_hours
  PayBound,     \* longest a payment runs before the executor gives up
  Overruns      \* how many events/overspends the environment may add

Cap == WeekWindow + 1
Ages == 0 .. Cap

ASSUME SpendBudgetAssumption ==
  /\ IsFiniteSet(Rid) /\ IsFiniteSet(LegacyRid) /\ IsFiniteSet(Event)
  /\ Rebalance \subseteq Rid /\ OnChain \subseteq Rid
  /\ Operator \subseteq Rid /\ Rebalance \intersect (OnChain \union Operator) = {}
  /\ Amounts \subseteq Nat /\ Budgets \subseteq Nat /\ WeeklyLimit \in Nat
  /\ DayWindow \in Nat /\ WeekWindow \in Nat /\ DayWindow <= WeekWindow
  /\ StaleAge \in Nat /\ PayBound \in Nat /\ PayBound <= StaleAge
  /\ StaleAge <= WeekWindow
  /\ Overruns \in Nat

VARIABLES
  resv,    \* spend_reservations: status, reserved_sats, age of reserved_at
  legacy,  \* budget_reservations, same shape
  settled, \* spend_events 'resv:<rid>': amount (0 = no row) and age
  event,   \* the other spend_events
  cost,    \* rebalance_costs of the payment made under an id
  pay,     \* the payment using a reservation, and the age of its reservation
           \* when it started (the executor's view)
  call,    \* a revenue-spend-reserve call between its gate and its write
  forced,  \* ids an operator released by hand or by an explicit sweep
  over     \* history: sats added outside the reservation rail

spendVars == <<resv, legacy, settled, event, cost, pay, call, forced, over>>

Status == {"none", "active", "released", "spent"}
Row == [status : Status, sats : Nat, age : Ages]
NoRow == [status |-> "none", sats |-> 0, age |-> 0]
Entry == [sats : Nat, age : Ages]
NoEntry == [sats |-> 0, age |-> 0]
Payment == {"idle", "running", "parked"}
NoCall == [rid |-> "none", sats |-> 0, budget |-> 0, lag |-> 0]
Call == [rid : Rid \union {"none"}, sats : Nat, budget : Nat, lag : Ages]

TypeOK ==
  /\ resv \in [Rid -> Row]
  /\ legacy \in [LegacyRid -> Row]
  /\ settled \in [Rid -> Entry]
  /\ event \in [Event -> Entry]
  /\ cost \in [Rid -> Entry]
  /\ pay \in [Rid -> Payment]
  /\ call \in [Caller -> Call]
  /\ forced \subseteq Rid
  /\ over \in Nat

Init ==
  /\ resv = [r \in Rid |-> NoRow]
  /\ legacy \in [LegacyRid -> {NoRow, [status |-> "active", sats |-> 1, age |-> 0]}]
  /\ settled = [r \in Rid |-> NoEntry]
  /\ event = [e \in Event |-> NoEntry]
  /\ cost = [r \in Rid |-> NoEntry]
  /\ pay = [r \in Rid |-> "idle"]
  /\ call = [c \in Caller |-> NoCall]
  /\ forced = {}
  /\ over = 0

(***************************************************************************)
(* The sums of reserve_spend_body: active holds of both tables without a   *)
(* time filter, committed costs and events inside the window.              *)
(***************************************************************************)
ActiveSats(row) == IF row.status = "active" THEN row.sats ELSE 0
TotalHeld(rows, S) == SumFunctionOnSet([x \in S |-> ActiveSats(rows[x])], S)
Reserved == TotalHeld(resv, Rid)
Inherited == TotalHeld(legacy, LegacyRid)
Holds == Reserved + Inherited

Within(entry, w) == IF entry.age <= w THEN entry.sats ELSE 0
InWindow(f, S, w) == SumFunctionOnSet([x \in S |-> Within(f[x], w)], S)
Committed(w) == InWindow(cost, Rid, w) + InWindow(settled, Rid, w) + InWindow(event, Event, w)

Terminal(s) == s \in {"spent", "released"}
Replaced(r) == ActiveSats(resv[r])

Remaining(r, limit, w) == limit - (Holds + Committed(w) - Replaced(r))

\* INSERT OR REPLACE ... 'active', reserved_at = now.
Hold(r, a) == resv' = [resv EXCEPT ![r] = [status |-> "active", sats |-> a, age |-> 0]]

\* reserve_spend_body: the terminal guard, then the daily and the weekly cap.
Grantable(r, a, budget, w, weekly) ==
  /\ a > 0
  /\ ~Terminal(resv[r].status)
  /\ a <= Remaining(r, budget, w)
  /\ weekly => a <= Remaining(r, WeeklyLimit, WeekWindow)

-----------------------------------------------------------------------------
(***************************************************************************)
(* revenue-spend-reserve.  The gate reads the budget status, whose         *)
(* reserved figure counts only holds YOUNGER than the window; the budget   *)
(* it carries into the transaction may be stale when the write runs.       *)
(***************************************************************************)
YoungHolds(rows, S) ==
  SumFunctionOnSet([x \in S |-> IF rows[x].age <= DayWindow THEN ActiveSats(rows[x]) ELSE 0], S)
FriendlyRemaining(b) ==
  b - Committed(DayWindow) - YoungHolds(resv, Rid) - YoungHolds(legacy, LegacyRid)

SpendReserveGate(c, r, a, b) ==
  /\ call[c] = NoCall
  /\ r \in Operator
  /\ a > 0 /\ a <= FriendlyRemaining(b)
  /\ call' = [call EXCEPT ![c] = [rid |-> r, sats |-> a, budget |-> b, lag |-> 0]]
  /\ UNCHANGED <<resv, legacy, settled, event, cost, pay, forced, over>>

SpendReserve(c) ==
  LET k == call[c] IN
  /\ k # NoCall
  /\ call' = [call EXCEPT ![c] = NoCall]
  /\ IF Grantable(k.rid, k.sats, k.budget, DayWindow + k.lag, FALSE)
       THEN Hold(k.rid, k.sats)
       ELSE UNCHANGED resv
  /\ UNCHANGED <<legacy, settled, event, cost, pay, forced, over>>

\* The engine's reservation (category 'rebalance', daily and weekly caps) and
\* the start of the payment it pays for.
ReserveBudget(r, a, b) ==
  /\ r \in Rebalance /\ pay[r] = "idle"
  /\ Grantable(r, a, b, DayWindow, TRUE)
  /\ Hold(r, a)
  /\ pay' = [pay EXCEPT ![r] = "running"]
  /\ UNCHANGED <<legacy, settled, event, cost, call, forced, over>>

\* An operator's tool starts spending under a granted generic reservation
\* that is young enough (external: the caller of revenue-spend-reserve).
StartSpend(r) ==
  /\ r \in Operator /\ pay[r] = "idle"
  /\ resv[r].status = "active" /\ resv[r].age = 0
  /\ pay' = [pay EXCEPT ![r] = "running"]
  /\ UNCHANGED <<resv, legacy, settled, event, cost, call, forced, over>>

-----------------------------------------------------------------------------
(***************************************************************************)
(* Settlement.  mark_spent_in_tx flips active -> spent and writes the      *)
(* event 'resv:<rid>' in one transaction; a non-positive amount rejects    *)
(* the event and rolls the flip back.  The rebalance path records no event *)
(* (its cost row is written first, in the same step of the engine).        *)
(***************************************************************************)
Spent(r) == resv' = [resv EXCEPT ![r].status = "spent"]
Released(R) == resv' = [r \in Rid |-> IF r \in R THEN [resv[r] EXCEPT !.status = "released"]
                                                  ELSE resv[r]]
Excess(r, a) == IF a > resv[r].sats THEN a - resv[r].sats ELSE 0
Budgeted(r, a) == over + Excess(r, a) <= Overruns

MarkSpendReservationSpent(r, a) ==
  /\ r \notin Rebalance /\ pay[r] = "running"
  /\ Budgeted(r, a)
  /\ IF resv[r].status = "active" /\ a > 0
       THEN /\ Spent(r)
            /\ settled' = [settled EXCEPT ![r] = [sats |-> a, age |-> 0]]
            /\ over' = over + Excess(r, a)
            /\ pay' = [pay EXCEPT ![r] = "idle"]
       ELSE /\ UNCHANGED <<resv, settled, over>>
            /\ pay' = IF resv[r].status = "active" THEN pay ELSE [pay EXCEPT ![r] = "idle"]
  /\ UNCHANGED <<legacy, event, cost, call, forced>>

\* _finish_execution_budget, success: cost row, then the settle without event.
FinishSuccess(r, a) ==
  /\ r \in Rebalance /\ pay[r] \in {"running", "parked"}
  /\ Budgeted(r, a)
  /\ cost' = [cost EXCEPT ![r] = [sats |-> a, age |-> 0]]
  /\ IF resv[r].status = "active"
       THEN Spent(r) /\ over' = over + Excess(r, a)
       ELSE UNCHANGED resv /\ over' = over + a
  /\ over' <= Overruns
  /\ pay' = [pay EXCEPT ![r] = "idle"]
  /\ UNCHANGED <<legacy, settled, event, call, forced>>

\* _finish_execution_budget, pending with a hash: the hold stays and the
\* history row is parked as 'pending_settlement'.
FinishPending(r) ==
  /\ r \in Rebalance /\ pay[r] = "running"
  /\ pay' = [pay EXCEPT ![r] = "parked"]
  /\ UNCHANGED <<resv, legacy, settled, event, cost, call, forced, over>>

\* Failure (of the payment or, later, of the parked one): release the hold.
FinishFailed(r) ==
  /\ pay[r] \in {"running", "parked"}
  /\ IF resv[r].status = "active" THEN Released({r}) ELSE UNCHANGED resv
  /\ pay' = [pay EXCEPT ![r] = "idle"]
  /\ UNCHANGED <<legacy, settled, event, cost, call, forced, over>>

\* The process dies with payments running: nobody finishes them, the holds stay.
\* A parked payment survives (its row is durable).
Crash ==
  /\ \E r \in Rid : pay[r] = "running"
  /\ pay' = [r \in Rid |-> IF pay[r] = "running" THEN "idle" ELSE pay[r]]
  /\ call' = [c \in Caller |-> NoCall]
  /\ UNCHANGED <<resv, legacy, settled, event, cost, forced, over>>

\* record_spend_event for spend outside any reservation (INSERT OR REPLACE).
RecordSpendEvent(e, a) ==
  /\ a > 0 /\ over + a <= Overruns
  /\ event' = [event EXCEPT ![e] = [sats |-> a, age |-> 0]]
  /\ over' = over + a
  /\ UNCHANGED <<resv, legacy, settled, cost, pay, call, forced>>

-----------------------------------------------------------------------------
(***************************************************************************)
(* Sweeps.                                                                 *)
(***************************************************************************)
Stale(R) == {r \in R : resv[r].status = "active" /\ resv[r].age > StaleAge}
ReleaseLegacy(L) ==
  legacy' = [l \in LegacyRid |-> IF l \in L /\ legacy[l].status = "active"
                                   THEN [legacy[l] EXCEPT !.status = "released"]
                                   ELSE legacy[l]]

\* Mutant: the sweep of the rebalance rows without the parked carve-out.
CleanupIgnoringParked ==
  /\ Stale(Rebalance) # {}
  /\ Released(Stale(Rebalance))
  /\ UNCHANGED <<legacy, settled, event, cost, pay, call, forced, over>>

\* cleanup_stale_reservations: both tables, rebalance rows only, never a
\* parked payment's.
CleanupStaleReservations ==
  LET L == {l \in LegacyRid : legacy[l].status = "active" /\ legacy[l].age > StaleAge}
      R == {r \in Stale(Rebalance) : pay[r] # "parked"}
  IN /\ L # {} \/ R # {}
     /\ ReleaseLegacy(L) /\ Released(R)
     /\ UNCHANGED <<settled, event, cost, pay, call, forced, over>>

\* cleanup_stale_spend_reservations without a category: skips the on-chain
\* ones, and, unlike the sweep above, does not look for parked payments.
CleanupStaleSpendReservations ==
  LET R == Stale(Rid \ OnChain) IN
  /\ R # {}
  /\ Released(R)
  /\ forced' = forced \union {r \in R : pay[r] = "parked"}
  /\ UNCHANGED <<legacy, settled, event, cost, pay, call, over>>

\* revenue-spend-release and revenue-spend-release-stale: the operator names
\* the reservation, or a category and an age of one unit or more; neither
\* looks at what is running.
OperatorRelease(R) ==
  /\ R # {}
  /\ \/ Cardinality(R) = 1
     \/ \A r \in R : resv[r].age >= 1
  /\ \A r \in R : resv[r].status = "active"
  /\ Released(R)
  /\ forced' = forced \union R
  /\ UNCHANGED <<legacy, settled, event, cost, pay, call, over>>

\* clear_all_reservations: the legacy table only.
ClearAllReservations ==
  /\ \E l \in LegacyRid : legacy[l].status = "active"
  /\ ReleaseLegacy(LegacyRid)
  /\ UNCHANGED <<resv, settled, event, cost, pay, call, forced, over>>

\* The dual-path wrappers fall back to the legacy row when the unified ledger
\* has no active row under the id.
LegacyTransition(l, to) ==
  /\ legacy[l].status = "active"
  /\ legacy' = [legacy EXCEPT ![l].status = to]
  /\ UNCHANGED <<resv, settled, event, cost, pay, call, forced, over>>

-----------------------------------------------------------------------------

\* Ages matter only where a row is live: an entry with an amount, an active row.
Plus(n) == IF n < Cap THEN n + 1 ELSE n
OlderRows(f) == [x \in DOMAIN f |-> IF f[x].status = "active"
                                      THEN [f[x] EXCEPT !.age = Plus(@)] ELSE f[x]]
OlderEntries(f) == [x \in DOMAIN f |-> IF f[x].sats > 0
                                      THEN [f[x] EXCEPT !.age = Plus(@)] ELSE f[x]]

\* One unit passes.  A running payment ends within PayBound of its start, and
\* starts within one unit of its reservation: the executor's timeouts.
Tick ==
  /\ \A r \in Rid : pay[r] = "running" /\ r \notin OnChain => resv[r].age < PayBound
  /\ resv' = OlderRows(resv) /\ legacy' = OlderRows(legacy)
  /\ settled' = OlderEntries(settled) /\ event' = OlderEntries(event)
  /\ cost' = OlderEntries(cost)
  /\ call' = [c \in Caller |-> IF call[c] = NoCall THEN NoCall
                               ELSE [call[c] EXCEPT !.lag = Plus(@)]]
  /\ UNCHANGED <<pay, forced, over>>

\* The callers of the rail, and what acts on it beside them.
CallerStep ==
  \/ \E c \in Caller, r \in Rid, a \in Amounts, b \in Budgets : SpendReserveGate(c, r, a, b)
  \/ \E c \in Caller : SpendReserve(c)
  \/ \E r \in Rid, a \in Amounts, b \in Budgets : ReserveBudget(r, a, b)
  \/ \E r \in Rid : StartSpend(r)
  \/ \E r \in Rid, a \in Amounts : MarkSpendReservationSpent(r, a)
  \/ \E r \in Rid, a \in Amounts : FinishSuccess(r, a)
  \/ \E r \in Rid : FinishPending(r)
  \/ \E r \in Rid : FinishFailed(r)
  \/ Crash
  \/ \E e \in Event, a \in Amounts : RecordSpendEvent(e, a)

SweepStep ==
  \/ CleanupStaleReservations
  \/ CleanupStaleSpendReservations
  \/ \E R \in SUBSET Rid : OperatorRelease(R)
  \/ ClearAllReservations
  \/ \E l \in LegacyRid, to \in {"released", "spent"} : LegacyTransition(l, to)

-----------------------------------------------------------------------------
\* Correctness of the budget rail.

\* Whatever the friendly gates of concurrent callers saw, the reservations and
\* the spend of the current window never exceed the budget, except by what was
\* spent beyond or outside a reservation; where holds of the legacy table alone
\* exceed it, the rail has granted nothing on top of them.
ExposureBounded ==
  \/ \E b \in Budgets : Holds + Committed(DayWindow) <= b + over
  \/ Reserved + Committed(DayWindow) <= over

\* A payment that can still take money holds its reservation, unless an
\* operator or the blind sweep released it: no sweep, crash or settlement of
\* another takes the hold of a payment the rail knows to be in flight.
InFlightIsHeld ==
  \A r \in Rid : pay[r] # "idle" => resv[r].status = "active" \/ r \in forced

\* A generic reservation is 'spent' exactly when its settlement event is
\* there: the flip and the event are one transaction.
SpentHasEvent ==
  \A r \in Rid \ Rebalance : resv[r].status = "spent" <=> settled[r].sats > 0

\* A terminal reservation id is never used again, however the callers race.
TerminalForever ==
  [][\A r \in Rid : Terminal(resv[r].status) => resv'[r].status = resv[r].status]_resv
=============================================================================
