---------------------------- MODULE EconGovernor ----------------------------
(***************************************************************************)
(* The economic governor (revops-econ): the live intent registry, the      *)
(* authorize/release facade over the spend budget, the append-only ledger  *)
(* and the sweep that reconciles the ledger to the database.               *)
(*                                                                         *)
(* The ledger is kept as the projection replay() computes; replay is a     *)
(* left fold over the stream, so an append is one step of that fold.       *)
(***************************************************************************)
EXTENDS SpendBudget

CONSTANTS
  Intent,      \* idempotency keys
  TypeOf, TargetOf, RidOf, CostOf,   \* the envelope of an intent, by key
  Ttl,         \* expires_at - created_at
  Extended     \* econ_conflict_rules_extended

Absent == -1
LifeAges == {Absent} \union 0 .. Ttl

ASSUME EconAssumption ==
  /\ Ttl \in Nat \ {0} /\ Extended \in BOOLEAN
  /\ TypeOf \in [Intent -> {"REBALANCE", "CLOSE_CHANNEL", "OPEN_CHANNEL", "SWAP_OUT", "SET_FEE"}]
  /\ RidOf \in [Intent -> Rid] /\ CostOf \in [Intent -> Nat]
  /\ DOMAIN TargetOf = Intent
  /\ \A i, j \in Intent : CostOf[i] > 0 /\ CostOf[j] > 0 /\ RidOf[i] = RidOf[j] => i = j
  /\ \A i \in Intent : RidOf[i] \notin Operator \union Rebalance

VARIABLES
  env,      \* age of the caller's envelope for a key
  slot,     \* registry: age of the envelope registered under a key
  token,    \* progress of authorize, and the granted token
  lres,     \* ledger replay: reserved_msat per reservation id (in sats)
  started,  \* ledger: keys with an execution_started event
  ended,    \* ledger: keys with one of STARTED_TERMINAL_EVENTS
  sweep,    \* reconciliation: the holds read from the database, the report
  route     \* whether this process spends through the governor or directly

econVars == <<env, slot, token, lres, started, ended, sweep, route>>
vars == <<spendVars, econVars>>

NoSweep == [step |-> "idle", db |-> [r \in Rid |-> 0], due |-> {}]
EconTypeOK ==
  /\ env \in [Intent -> LifeAges]
  /\ slot \in [Intent -> LifeAges]
  /\ token \in [Intent -> {"none", "logging", "granted", "executing"}]
  /\ lres \in [Rid -> Nat]
  /\ started \subseteq Rid /\ ended \subseteq Rid
  /\ sweep \in [step : {"idle", "read", "report"}, db : [Rid -> Nat], due : SUBSET Rid]
  /\ route \in {"direct", "governed"}

EconInit ==
  /\ env = [i \in Intent |-> Absent]
  /\ slot = [i \in Intent |-> Absent]
  /\ token = [i \in Intent |-> "none"]
  /\ lres = [r \in Rid |-> 0]
  /\ started = {} /\ ended = {}
  /\ sweep = NoSweep
  /\ route \in {"direct", "governed"}

-----------------------------------------------------------------------------
(***************************************************************************)
(* ActiveIntentRegistry.check_and_register                                 *)
(***************************************************************************)
Expired(age) == age >= Ttl
Pruned == [i \in Intent |-> IF Expired(slot[i]) THEN Absent ELSE slot[i]]

Blocks(active, i) ==
  /\ TargetOf[active] = TargetOf[i]
  /\ \/ TypeOf[i] = "REBALANCE" /\ TypeOf[active] = "CLOSE_CHANNEL"
     \/ Extended /\ TypeOf[i] = "OPEN_CHANNEL" /\ TypeOf[active] = "OPEN_CHANNEL"
     \/ Extended /\ {TypeOf[i], TypeOf[active]} = {"REBALANCE", "SWAP_OUT"}

Conflict(i) ==
  \/ Pruned[i] # Absent
  \/ \E j \in Intent : Pruned[j] # Absent /\ Blocks(j, i)

\* The caller builds the envelope (make_intent).  The key is a hash of the
\* snapshot, so the same intent may be proposed again, also while it is being
\* executed.  (Bound: not while authorize is under way or its token unused.)
Propose(i) ==
  /\ env[i] = Absent /\ token[i] \in {"none", "executing"}
  /\ env' = [env EXCEPT ![i] = 0]
  /\ UNCHANGED <<slot, token, lres, started, ended, sweep, route, spendVars>>

Drop(i) == env' = [env EXCEPT ![i] = Absent]

\* authorize: paused, authority or expiry refuse before the registry is touched.
AuthorizeRefused(i) ==
  /\ env[i] # Absent
  /\ Drop(i)
  /\ UNCHANGED <<slot, token, lres, started, ended, sweep, route, spendVars>>

\* The key an intent's own events are written under, where it is the key its
\* execution is journalled under too (no reservation_id given by the caller).
Keyed(i) == IF CostOf[i] > 0 THEN {RidOf[i]} ELSE {}

\* A conflict refuses, with a best-effort intent_rejected under the key.
AuthorizeConflict(i) ==
  /\ env[i] # Absent /\ ~Expired(env[i])
  /\ Conflict(i)
  /\ slot' = Pruned
  /\ Drop(i)
  /\ \/ ended' = ended \union Keyed(i)
     \/ UNCHANGED ended
  /\ UNCHANGED <<token, lres, started, sweep, route, spendVars>>

\* No conflict: the slot is taken, then the worst-case cost is reserved.  A
\* refusal or an error returns with the slot still taken.  (Bound: one token
\* per key at a time.)
AuthorizeReserve(i, b) ==
  /\ token[i] = "none" /\ env[i] # Absent /\ ~Expired(env[i])
  /\ ~Conflict(i)
  /\ slot' = [Pruned EXCEPT ![i] = env[i]]
  /\ Drop(i)
  /\ \/ /\ CostOf[i] = 0
        /\ token' = [token EXCEPT ![i] = "logging"]
        /\ UNCHANGED resv
     \/ /\ CostOf[i] > 0
        /\ Grantable(RidOf[i], CostOf[i], b, DayWindow, FALSE)
        /\ Hold(RidOf[i], CostOf[i])
        /\ token' = [token EXCEPT ![i] = "logging"]
     \/ /\ CostOf[i] > 0
        /\ UNCHANGED <<resv, token>>
  /\ UNCHANGED <<lres, started, ended, sweep, route, legacy, settled, event, cost, pay, call, forced, over>>

\* The two ledger appends; an error propagates with slot and hold kept.
AuthorizeLogged(i) ==
  /\ token[i] = "logging"
  /\ token' = [token EXCEPT ![i] = "granted"]
  /\ lres' = IF CostOf[i] > 0 THEN [lres EXCEPT ![RidOf[i]] = CostOf[i]] ELSE lres
  /\ UNCHANGED <<env, slot, started, ended, sweep, route, spendVars>>

AuthorizeLogFailed(i) ==
  /\ token[i] = "logging"
  /\ token' = [token EXCEPT ![i] = "none"]
  /\ UNCHANGED <<env, slot, lres, started, ended, sweep, route, spendVars>>

\* release: registry slot, then release_spend, then reservation_released; the
\* two later writes may each fail and stop the call.
ReleaseToken(i, dbOk, logOk) ==
  /\ token[i] \in {"granted", "executing"}
  /\ token' = [token EXCEPT ![i] = "none"]
  /\ slot' = [slot EXCEPT ![i] = Absent]
  /\ IF dbOk /\ resv[RidOf[i]].status = "active"
       THEN Released({RidOf[i]}) ELSE UNCHANGED resv
  /\ lres' = IF dbOk /\ logOk THEN [lres EXCEPT ![RidOf[i]] = 0] ELSE lres
  /\ UNCHANGED <<env, started, ended, sweep, route, legacy, settled, event, cost, pay, call, forced, over>>

\* The executor journals execution_started and spends under the token.
ExecutionStarted(i) ==
  /\ token[i] = "granted" /\ CostOf[i] > 0
  /\ resv[RidOf[i]].status = "active"
  /\ token' = [token EXCEPT ![i] = "executing"]
  /\ started' = started \union {RidOf[i]}
  /\ UNCHANGED <<env, slot, lres, ended, sweep, route, spendVars>>

\* note_spend_settled: cost_recorded, execution_succeeded, reservation_released
\* are three appends; n of them are written before a crash.
SpendSettled(i, n) ==
  /\ token[i] = "executing"
  /\ token' = [token EXCEPT ![i] = "none"]
  /\ IF resv[RidOf[i]].status = "active"
       THEN Spent(RidOf[i]) /\ settled' = [settled EXCEPT ![RidOf[i]] = [sats |-> CostOf[i], age |-> 0]]
       ELSE UNCHANGED <<resv, settled>>
  /\ lres' = IF n >= 1 THEN [lres EXCEPT ![RidOf[i]] = 0] ELSE lres
  /\ ended' = IF n >= 2 THEN ended \union {RidOf[i]} ELSE ended
  /\ UNCHANGED <<env, slot, started, sweep, route, legacy, event, cost, pay, call, forced, over>>

-----------------------------------------------------------------------------
(***************************************************************************)
(* reconcile + apply.  The database is read first; the ledger is replayed  *)
(* and a report drawn up; the corrections are appended one by one after    *)
(* that.  Each step may find the step before it stale.                     *)
(***************************************************************************)

\* started_without_terminal: a key is in flight (quarantined) when it has an
\* execution_started and no terminal event ANYWHERE in the stream: a rejection,
\* a deferral or a correction bars it for ever, also when it came first.
InFlight == started \ ended

\* The ids an execution may be journalled under; of the others no start is
\* ever written, so their terminal events tell nothing and are left out.
Journalled == UNION {Keyed(i) : i \in Intent}

ReconcileRead ==
  /\ sweep.step = "idle"
  /\ sweep' = [step |-> "read", db |-> [r \in Rid |-> Replaced(r)], due |-> {}]
  /\ UNCHANGED <<env, slot, token, lres, started, ended, route, spendVars>>

\* Mutants: only active rows are looked at; keys in flight are corrected too.
DivergentActive == {r \in Rid \ InFlight : sweep.db[r] # 0 /\ lres[r] # sweep.db[r]}
DivergentEverywhere == {r \in Rid : lres[r] # sweep.db[r]}

\* The resolvable divergences (db_missing, ledger_stale, ledger_missing,
\* amount_mismatch): the ledger's hold is not the database's, where a missing
\* or terminal row holds nothing.
Divergent == {r \in Rid \ InFlight : lres[r] # sweep.db[r]}

ReconcileReport ==
  /\ sweep.step = "read"
  /\ sweep' = [step |-> "report", due |-> Divergent,
               db |-> [r \in Rid |-> IF r \in Divergent THEN sweep.db[r] ELSE 0]]
  /\ UNCHANGED <<env, slot, token, lres, started, ended, route, spendVars>>

\* apply: a reconciliation_completed per divergence; an append that fails
\* leaves the rest undone.
ReconcileApply(done) ==
  /\ sweep.step = "report" /\ done \subseteq sweep.due
  /\ lres' = [r \in Rid |-> IF r \in done THEN sweep.db[r] ELSE lres[r]]
  /\ ended' = ended \union (done \intersect Journalled)
  /\ sweep' = NoSweep
  /\ UNCHANGED <<env, slot, token, started, route, spendVars>>

\* Fail-open: a failed database or ledger read abandons the sweep.
ReconcileFailed ==
  /\ sweep.step = "read"
  /\ sweep' = NoSweep
  /\ UNCHANGED <<env, slot, token, lres, started, ended, route, spendVars>>

-----------------------------------------------------------------------------
Life(age) == IF age = Absent \/ age = Ttl THEN age ELSE age + 1

GovernorTick ==
  /\ Tick
  /\ env' = [i \in Intent |-> Life(env[i])]
  /\ slot' = [i \in Intent |-> Life(slot[i])]
  /\ UNCHANGED <<token, lres, started, ended, sweep, route>>

Govern(i) ==
  \/ Propose(i)
  \/ AuthorizeRefused(i)
  \/ AuthorizeConflict(i)
  \/ \E b \in Budgets : AuthorizeReserve(i, b)
  \/ AuthorizeLogged(i)
  \/ AuthorizeLogFailed(i)
  \/ \E dbOk, logOk \in BOOLEAN : ReleaseToken(i, dbOk, logOk)
  \/ ExecutionStarted(i)
  \/ \E n \in 0 .. 3 : SpendSettled(i, n)

GovernedInit == Init /\ EconInit
GovernedNext ==
  \/ route = "direct" /\ CallerStep /\ UNCHANGED econVars
  \/ SweepStep /\ UNCHANGED econVars
  \/ route = "governed" /\ \E i \in Intent : Govern(i)
  \/ route = "governed" /\ ReconcileRead
  \/ ReconcileReport
  \/ \E done \in SUBSET Rid : ReconcileApply(done)
  \/ ReconcileFailed
  \/ GovernorTick

\* Time passes; payments end (the executor's timeouts); the rebalance cycle
\* sweeps stale reservations before each pass; the hourly reconciliation runs
\* again and again and does not fail for ever.
GovernedFairness ==
  /\ WF_vars(GovernorTick)
  /\ \A r \in Rid : WF_vars(FinishFailed(r) /\ UNCHANGED econVars)
  /\ WF_vars(CleanupStaleReservations /\ UNCHANGED econVars)
  /\ WF_vars(route = "governed" /\ ReconcileRead)
  /\ SF_vars(ReconcileReport)
  /\ SF_vars(ReconcileApply(sweep.due))

GovernedSpec == GovernedInit /\ [][GovernedNext]_vars /\ GovernedFairness

-----------------------------------------------------------------------------
AllTypeOK == TypeOK /\ EconTypeOK

\* While a close intent is live on a channel no rebalance of that channel
\* enters the registry, by whatever mixture of expiry, pruning and release; a
\* close may still arrive after a rebalance.
NoRebalanceJoinsClose ==
  [][\A i, j \in Intent :
       /\ TypeOf[i] = "REBALANCE" /\ TypeOf[j] = "CLOSE_CHANNEL"
       /\ TargetOf[i] = TargetOf[j]
       /\ slot[j] \in 0 .. Ttl - 1 /\ slot[i] \notin 0 .. Ttl - 1
       => slot'[i] \notin 0 .. Ttl - 1]_slot

\* A hold leaked by a crash or by an authorize that failed half-way is given
\* back: the sweep of the rebalance cycle reaches every rebalance reservation
\* no payment is using.
LeakedHoldReleased ==
  \A r \in Rebalance :
    (resv[r].status = "active" /\ pay[r] = "idle")
      ~> (resv[r].status # "active" \/ pay[r] # "idle")

\* Once a reservation has ended in the database the ledger stops counting it,
\* whichever append was lost and however stale a correction was, unless its
\* execution is quarantined.
LedgerConverges ==
  \A r \in Rid : Terminal(resv[r].status) ~> (lres[r] = 0 \/ r \in InFlight)

\* A key in flight never enters a correction report, and neither leaves
\* quarantine nor has its ledger hold moved, except by its own execution (the
\* token), by the rejection of a second proposal of the same intent, or by a
\* report drawn up before the execution started.
QuarantineKept ==
  [][\A r \in InFlight :
       /\ r \notin sweep.due => r \notin sweep'.due
       /\ lres'[r] # lres[r] \/ r \notin InFlight' =>
            \/ r \in sweep.due
            \/ \E i \in Intent : RidOf[i] = r /\ <<env'[i], token'[i]>> # <<env[i], token[i]>>]_vars

\* What reconcile.rs:10-14 and tests/reconcile.rs:200-203 say: an execution that
\* has started and not ended is quarantined, so no report proposes to resolve
\* its key while it is under way.  The code excludes it only where no terminal
\* event of the key came before.
UnfinishedIsQuarantined ==
  [][\A i \in Intent : token[i] = "executing" /\ RidOf[i] \notin sweep.due
        => RidOf[i] \notin sweep'.due]_vars

\* What holds of the budget in every state (reserve_spend and everything that
\* ends a hold): commitments stay within the budget, money in flight is held,
\* and a spent hold has its event.
BudgetIsSound == AllTypeOK /\ ExposureBounded /\ InFlightIsHeld /\ SpentHasEvent

\* What no step does: reuse a finished id, correct a quarantined execution,
\* admit a rebalance of a channel being closed.
EndsAreFinal == TerminalForever /\ QuarantineKept /\ NoRebalanceJoinsClose

\* What was leaked comes back: a hold that nobody ends is released, and the
\* ledger stops counting what has ended.
LedgerRecovers == LeakedHoldReleased /\ LedgerConverges
=============================================================================
