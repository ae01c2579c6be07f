--------------------------- MODULE RebalanceEngine ---------------------------
(***************************************************************************)
(* The rebalance engine (crates/revops-rebalance/src/engine.rs) and the      *)
(* facade that owns the operator entry points (facade.rs), over the store    *)
(* the repository implements for them (engine.rs, DryRunStore).              *)
(*                                                                         *)
(* Concurrent actors: the cycle, which holds the engine lock while it sweeps *)
(* parked payments, selects pairs and collects its workers; one thread per   *)
(* worker, which outlives a cycle that gives up on it; and the callers of    *)
(* execute_rebalance, manual_rebalance and diagnostic_rebalance, which take  *)
(* the same lock for the engine's part only.  Inside one execution the       *)
(* retries are reduced to "another payment or none": RebalanceOwner follows  *)
(* them one by one.                                                          *)
(***************************************************************************)
EXTENDS Naturals, FiniteSets, Functions

CONSTANTS
    Sources, Dests,      \* channels to drain and to fill
    Planned,             \* pairs the planner may propose
    Requests,            \* pairs the callers of the facade ask for
    Fees,                \* authorized fee of an execution (pair_max_fee_sats)
    RequestFees,         \* those a caller authorizes; the diagnostic's is never 0
    DailyBudget,         \* daily_budget_sats
    AllowZeroCost,       \* allow_zero_cost_auto_rebalance_when_budget_zero
    MaxConcurrentJobs,   \* max_concurrent_jobs
    Threshold,           \* PairFutility::THRESHOLD
    MaxSources,          \* DIAGNOSTIC_MAX_SOURCE_ATTEMPTS
    \* Bounds: executions in a behaviour, payments in an execution.
    MaxJobs, MaxTries

ASSUME EngineAssumption ==
    /\ Sources # {} /\ Dests # {} /\ Fees # {}
    /\ Planned \subseteq Sources \X Dests /\ Requests \subseteq Sources \X Dests
    /\ Fees \subseteq Nat /\ RequestFees \subseteq Fees /\ DailyBudget \in Nat /\ AllowZeroCost \in BOOLEAN
    /\ {MaxConcurrentJobs, Threshold, MaxSources, MaxJobs, MaxTries} \subseteq Nat

VARIABLES
    jobs,      \* each execution: its thread, its history row, reservation, payment
    inflight,  \* InflightDests: executions registered per destination
    lock,      \* cycle_lock: held by nobody, the cycle or an explicit execution
    cycle,     \* what run_cycle is doing
    parked,    \* pending_settlement_rows left to sweep
    awaited,   \* workers whose result the cycle still collects
    strikes,   \* PairFutility: fresh failures of a pair, capped at the threshold
    cooling    \* pairs whose persisted cooldown_until lies ahead

vars == <<jobs, inflight, lock, cycle, parked, awaited, strikes, cooling>>
cycleVars == <<cycle, parked, awaited>>
pairVars  == <<strikes, cooling>>

Jobs  == 1..MaxJobs
Pairs == Sources \X Dests

Modes == {"cycle", "execute", "manual", "diagnostic"}

\* The window is what lies between register and the guard's drop.
Window == {"reserve", "pay", "wait", "record", "finish", "leave"}
Phases == {"unused", "call", "policy", "sent", "returned", "retry", "done"} \cup Window

\* One execution.  The history id names its row and its reservation, so the
\* three are one record.  status, reservation, cost: the store's row, its
\* reservation, and how many cost entries were recorded for it.  wire, paid:
\* the payment last tried and the fee it took.  tries: payments tried so far
\* while the executor runs; attempted: whether one was.  class, route:
\* ExecutionResult, and whether its error text holds a
\* SOURCE_ROUTE_FAILURE_MARKER.  tried: sources the diagnostic has used.
\* late: it is in the window and registered after its cycle had given it up.
\* cut: history, the payment's reply was lost and reported as a failure.
Job == [pair : Pairs, fee : Fees, mode : Modes, phase : Phases, late : BOOLEAN,
        tried : SUBSET Sources,
        status : {"none", "pending", "pending_settlement", "success", "failed", "skipped"},
        reservation : {"none", "active", "spent", "released"}, cost : Nat,
        wire : {"none", "inflight", "complete", "failed"}, paid : Nat, tries : Nat,
        attempted : BOOLEAN, cut : BOOLEAN,
        class : {"none", "success", "pending", "failed", "blocked"}, route : BOOLEAN]

\* Every field has its domain.
TypeOK ==
    /\ jobs \in [Jobs -> Job]
    /\ inflight \in [Dests -> Nat]
    /\ lock \in {"free", "cycle", "explicit"}
    /\ cycle \in {"idle", "sweep", "collect", "drain"}
    /\ parked \subseteq Jobs /\ awaited \subseteq Jobs
    /\ strikes \in [Pairs -> 0..Threshold] /\ cooling \subseteq Pairs

Dst(j) == jobs[j].pair[2]
At(j, phase) == jobs[j].phase = phase
InWindow(j) == jobs[j].phase \in Window
Set(j, job) == jobs' = [jobs EXCEPT ![j] = job]

-----------------------------------------------------------------------------
(* InflightDests and the modes. *)

register(dest) == [inflight EXCEPT ![dest] = @ + 1]

unregister(dest) == [inflight EXCEPT ![dest] = IF @ > 0 THEN @ - 1 ELSE 0]

reserve_on_rail(mode) == mode \in {"cycle", "diagnostic"}

\* Mutant: the engine accounts for manual executions too.
AccountAll(mode) == mode \in Modes

account_costs(mode) == mode \in {"cycle", "diagnostic"}

-----------------------------------------------------------------------------
(* DryRunStore: reservations. *)

Committed(job) ==
    CASE job.reservation = "active" -> job.fee
      [] job.reservation = "spent"  -> job.paid
      [] OTHER                      -> 0

committed_sats == SumFunctionOnSet([j \in Jobs |-> Committed(jobs[j])], Jobs)

Fits(fee, limit) == fee > 0 /\ committed_sats + fee <= limit

mark_budget_spent(job) ==
    IF job.reservation = "none" THEN "none" ELSE "spent"

release_reservation(job) ==
    IF job.reservation = "none" THEN "none" ELSE "released"

\* base_to_sats_ceil(fee_msat) > 0: a settled fee enters the cost ledger.
record_rebalance_cost(job) == IF job.paid > 0 THEN job.cost + 1 ELSE job.cost

-----------------------------------------------------------------------------
NewJob(pair, fee, mode, phase) ==
    [pair |-> pair, fee |-> fee, mode |-> mode, phase |-> phase, late |-> FALSE,
     tried |-> {pair[1]}, status |-> "none", reservation |-> "none", cost |-> 0,
     wire |-> "none", paid |-> 0, tries |-> 0, attempted |-> FALSE, cut |-> FALSE,
     class |-> "none", route |-> FALSE]

\* Executions are numbered in the order they are opened.
Opened == {j \in Jobs : jobs[j].phase # "unused"}
Next1  == Cardinality(Opened) + 1

AnyPair == CHOOSE p \in Pairs : TRUE
AnyFee  == CHOOSE f \in Fees : TRUE

Init ==
    /\ jobs = [j \in Jobs |-> NewJob(AnyPair, AnyFee, "cycle", "unused")]
    /\ inflight = [d \in Dests |-> 0]
    /\ lock = "free" /\ cycle = "idle" /\ parked = {} /\ awaited = {}
    /\ strikes = [p \in Pairs |-> 0] /\ cooling = {}

-----------------------------------------------------------------------------
(* run_cycle. *)

\* Mutant: rows closed as failed are swept again.
FailedRowsToo == {j \in Jobs : jobs[j].status \in {"pending_settlement", "failed"}}

\* Mutant: only the engine's own rows are swept.
EngineRowsOnly == {j \in Jobs : jobs[j].status = "pending_settlement" /\ jobs[j].mode = "cycle"}

pending_settlement_rows == {j \in Jobs : jobs[j].status = "pending_settlement"}

\* try_lock; a held lock only yields the cycle_already_running marker.  Time
\* has passed since the pairs were last read: failures have left the futility
\* window, cooldowns are over.
BeginCycle ==
    /\ lock = "free" /\ lock' = "cycle"
    /\ cycle' = "sweep"
    /\ parked' = pending_settlement_rows
    /\ strikes' \in {fresh \in [Pairs -> 0..Threshold] : \A p \in Pairs : fresh[p] <= strikes[p]}
    /\ cooling' \in SUBSET cooling
    /\ UNCHANGED <<jobs, inflight, awaited>>

\* listsendpays fails or answers pending: the row waits for another cycle.
SweepSkips(j) ==
    /\ j \in parked /\ parked' = parked \ {j}
    /\ UNCHANGED <<jobs, inflight, lock, cycle, awaited, pairVars>>

SweptComplete(job) ==
    [job EXCEPT !.status = "success", !.cost = record_rebalance_cost(job),
                !.reservation = mark_budget_spent(job)]

SweptFailed(job) ==
    [job EXCEPT !.status = "failed", !.reservation = release_reservation(job)]

\* complete: cost, spent reservation and the in-memory strikes cleared.
\* Neither complete nor pending: the payment failed or the node never had it.
reconcile_pending_row(j) ==
    /\ j \in parked /\ parked' = parked \ {j}
    /\ jobs[j].wire # "inflight"
    /\ IF jobs[j].wire = "complete"
          THEN /\ Set(j, SweptComplete(jobs[j]))
               /\ strikes' = [strikes EXCEPT ![jobs[j].pair] = 0]
          ELSE /\ Set(j, SweptFailed(jobs[j]))
               /\ UNCHANGED strikes
    /\ UNCHANGED <<inflight, lock, cycle, awaited, cooling>>

IsFutile(pair) == strikes[pair] >= Threshold

\* What the planner and the gates let through: sources and destinations are
\* used once, no destination is in flight, no pair cools or is futile.
Selectable(J, pick) ==
    /\ \A j \in J : /\ inflight[pick[j][2]] = 0
                    /\ pick[j] \notin cooling /\ ~IsFutile(pick[j])
    /\ \A i, j \in J : i # j => pick[i][1] # pick[j][1] /\ pick[i][2] # pick[j][2]

\* find_candidates, the policy gate and the arbiter leave some pairs, and one
\* worker is spawned for each.
SpawnWorkers(n) ==
    LET J == Next1 .. (Cardinality(Opened) + n)
    IN  /\ cycle = "sweep" /\ parked = {}
        /\ J \subseteq Jobs
        /\ \E pick \in [J -> Planned], fee \in [J -> Fees] :
              /\ Selectable(J, pick)
              /\ jobs' = [j \in Jobs |-> IF j \in J
                                         THEN NewJob(pick[j], fee[j], "cycle", "policy")
                                         ELSE jobs[j]]
        /\ awaited' = J /\ cycle' = "collect"
        /\ UNCHANGED <<inflight, lock, parked, pairVars>>

\* Nothing selected, or a pricing exception: the cycle is over.
NoCandidates ==
    /\ cycle = "sweep" /\ parked = {}
    /\ cycle' = "idle" /\ lock' = "free"
    /\ UNCHANGED <<jobs, inflight, parked, awaited, pairVars>>

\* A failure that says something about the pair; a budget block does not.
Struck(job) == job.class \notin {"success", "blocked"}

consume_worker_result(j) ==
    /\ cycle \in {"collect", "drain"} /\ j \in awaited /\ At(j, "sent")
    /\ jobs' = [jobs EXCEPT ![j].phase = "done"]
    /\ awaited' = awaited \ {j}
    /\ LET p == jobs[j].pair
       IN  CASE jobs[j].class = "success" ->
                    /\ strikes' = [strikes EXCEPT ![p] = 0]
                    /\ cooling' = cooling \ {p}
             [] Struck(jobs[j]) ->
                    /\ strikes' = [strikes EXCEPT ![p] = IF @ < Threshold THEN @ + 1 ELSE @]
                    /\ cooling' = cooling \cup {p}
             [] OTHER -> UNCHANGED pairVars
    /\ UNCHANGED <<inflight, lock, cycle, parked>>

\* recv_timeout times out: what has been sent is drained, the rest abandoned.
Deadline ==
    /\ cycle = "collect" /\ awaited # {} /\ cycle' = "drain"
    /\ UNCHANGED <<jobs, inflight, lock, parked, awaited, pairVars>>

CycleEnds ==
    /\ \/ cycle = "collect" /\ awaited = {}
       \/ cycle = "drain" /\ \A j \in awaited : ~At(j, "sent")
    /\ cycle' = "idle" /\ awaited' = {} /\ lock' = "free"
    /\ UNCHANGED <<jobs, inflight, parked, pairVars>>

-----------------------------------------------------------------------------
(* execute_pair. *)

\* A worker's result goes to the cycle if that still listens; an explicit
\* execution returns to the facade and the engine lock is dropped.
Leave(j) ==
    IF jobs[j].mode = "cycle"
    THEN /\ jobs' = [jobs EXCEPT ![j].phase = IF j \in awaited THEN "sent" ELSE "done",
                                 ![j].late = FALSE]
         /\ UNCHANGED lock
    ELSE jobs' = [jobs EXCEPT ![j].phase = "returned"] /\ lock' = "free"

\* The same with a result that ends the execution before the window.
LeaveWith(j, class, route) ==
    /\ jobs' = [jobs EXCEPT ![j].class = class, ![j].route = route,
                            ![j].phase = IF jobs[j].mode # "cycle" THEN "returned"
                                         ELSE IF j \in awaited THEN "sent" ELSE "done"]
    /\ lock' = IF jobs[j].mode = "cycle" THEN lock ELSE "free"

PolicyBlocks(j) ==
    /\ At(j, "policy") /\ LeaveWith(j, "failed", FALSE)
    /\ UNCHANGED <<inflight, cycleVars, pairVars>>

\* The row exists and the destination is registered; then the reservation.
Enter(j) ==
    /\ At(j, "policy")
    /\ inflight' = register(Dst(j))
    /\ jobs' = [jobs EXCEPT ![j].status = "pending",
                            ![j].late = (jobs[j].mode = "cycle" /\ j \notin awaited),
                            ![j].phase = IF reserve_on_rail(jobs[j].mode) THEN "reserve"
                                                                          ELSE "pay"]
    /\ UNCHANGED <<lock, cycleVars, pairVars>>

NothingToReserve(fee) == fee = 0 /\ (DailyBudget > 0 \/ AllowZeroCost)

reserve_execution_budget(j) ==
    /\ At(j, "reserve")
    /\ \/ /\ NothingToReserve(jobs[j].fee)
          /\ jobs' = [jobs EXCEPT ![j].phase = "pay"]
       \/ /\ DailyBudget > 0 /\ Fits(jobs[j].fee, DailyBudget)
          /\ jobs' = [jobs EXCEPT ![j].reservation = "active", ![j].phase = "pay"]
    /\ UNCHANGED <<inflight, lock, cycleVars, pairVars>>

\* Refused: the row is skipped, and the guard's drop comes next.
BudgetBlocks(j) ==
    /\ At(j, "reserve") /\ ~NothingToReserve(jobs[j].fee)
    /\ ~Fits(jobs[j].fee, DailyBudget)
    /\ jobs' = [jobs EXCEPT ![j].status = "skipped", ![j].class = "blocked",
                            ![j].phase = "leave"]
    /\ UNCHANGED <<inflight, lock, cycleVars, pairVars>>

\* Whether the error text can hold a marker of a missing route matters to the
\* diagnostic only.
Markers(j) == IF jobs[j].mode = "diagnostic" THEN BOOLEAN ELSE {FALSE}

\* The executor's result.
Ends(j, class, route) ==
    jobs' = [jobs EXCEPT ![j].class = class, ![j].route = route, ![j].tries = 0,
                         ![j].phase = "record"]

Rest == UNCHANGED <<inflight, lock, cycleVars, pairVars>>

\* No payment is tried: the route does not validate (a marker of a missing
\* route), costs too much, or cannot be invoiced.
StopsBeforeWrite(j) ==
    /\ At(j, "pay") /\ jobs[j].tries = 0
    /\ \E route \in Markers(j) : Ends(j, "failed", route)
    /\ Rest

\* The node takes the payment.
Sendpay(j) ==
    /\ At(j, "pay") /\ jobs[j].tries < MaxTries
    /\ jobs' = [jobs EXCEPT ![j].wire = "inflight", ![j].tries = @ + 1,
                            ![j].attempted = TRUE, ![j].phase = "wait"]
    /\ Rest

\* The validated route costs at most the authorized fee.
NodeDecides(j) ==
    /\ jobs[j].wire = "inflight"
    /\ \/ jobs' = [jobs EXCEPT ![j].wire = "failed"]
       \/ \E paid \in 0..jobs[j].fee :
             jobs' = [jobs EXCEPT ![j].wire = "complete", ![j].paid = paid]
    /\ Rest

\* waitsendpay (or sendpay) ends without an answer: the payment is pending
\* with its hash.
TimesOut(j) == At(j, "wait") /\ Ends(j, "pending", FALSE) /\ Rest

\* The node never took a sendpay whose reply timed out.
SendpayUnheard(j) ==
    /\ At(j, "pay") /\ jobs[j].tries < MaxTries
    /\ jobs' = [jobs EXCEPT ![j].wire = "none", ![j].tries = 0, ![j].attempted = TRUE,
                            ![j].class = "pending", ![j].phase = "record"]
    /\ Rest

\* The connection is lost: reported as a plain failure (see RebalanceOwner).
TransportFails(j) ==
    /\ At(j, "wait")
    /\ jobs' = [jobs EXCEPT ![j].cut = TRUE, ![j].class = "failed", ![j].tries = 0,
                            ![j].phase = "record"]
    /\ Rest

Completes(j) ==
    /\ At(j, "wait") /\ jobs[j].wire = "complete"
    /\ Ends(j, "success", FALSE) /\ Rest

\* The payment failed: another is tried, or the failure stands.  A retry that
\* finds no route appends retry_no_route or partial_retry_failed: no_route.
Fails(j) ==
    /\ At(j, "wait") /\ jobs[j].wire = "failed"
    /\ \/ jobs' = [jobs EXCEPT ![j].phase = "pay"] /\ jobs[j].tries < MaxTries
       \/ \E route \in Markers(j) : Ends(j, "failed", route)
    /\ Rest

record_rebalance_result(job) ==
    CASE job.class = "success" -> [job EXCEPT !.status = "success",
             !.cost = IF account_costs(job.mode) THEN record_rebalance_cost(job) ELSE @]
      [] job.class = "pending" -> [job EXCEPT !.status = "pending_settlement"]
      [] OTHER                 -> [job EXCEPT !.status = "failed"]

Record(j) ==
    /\ At(j, "record")
    /\ Set(j, [record_rebalance_result(jobs[j]) EXCEPT !.phase = "finish"])
    /\ Rest

\* The caller's reservation (execute_rebalance) is the caller's to finish.
finish_execution_budget(job) ==
    IF ~reserve_on_rail(job.mode) \/ job.class = "pending" THEN job.reservation
    ELSE IF job.class = "success" THEN mark_budget_spent(job)
    ELSE release_reservation(job)

Finish(j) ==
    /\ At(j, "finish")
    /\ jobs' = [jobs EXCEPT ![j].reservation = finish_execution_budget(jobs[j]),
                            ![j].phase = "leave"]
    /\ Rest

DropGuard(j) ==
    /\ At(j, "leave") /\ inflight' = unregister(Dst(j))
    /\ Leave(j)
    /\ UNCHANGED <<cycleVars, pairVars>>

-----------------------------------------------------------------------------
(* The facade. *)

\* manual_rebalance, execute_rebalance without enforce_budget, and each
\* attempt of diagnostic_rebalance: the row, then the engine.
OpenRow(pair, fee, mode, tried) ==
    [NewJob(pair, fee, mode, "call") EXCEPT !.status = "pending", !.tried = tried]

Open(pair, fee, mode) ==
    /\ Next1 \in Jobs
    /\ Set(Next1, OpenRow(pair, fee, mode, {pair[1]}))
    /\ UNCHANGED <<inflight, lock, cycleVars, pairVars>>

\* A capex candidate may spend its own authorized fee, within the daily limit
\* where there is one.
Limit(fee, capex) == IF capex /\ (DailyBudget = 0 \/ fee < DailyBudget) THEN fee ELSE DailyBudget

\* execute_rebalance reserves before it calls the engine.
execute_rebalance(pair, fee, capex) ==
    /\ Next1 \in Jobs
    /\ Set(Next1, IF Fits(fee, Limit(fee, capex))
                  THEN [OpenRow(pair, fee, "execute", {pair[1]}) EXCEPT !.reservation = "active"]
                  ELSE [OpenRow(pair, fee, "execute", {pair[1]}) EXCEPT
                            !.status = "failed", !.class = "blocked", !.phase = "done"])
    /\ UNCHANGED <<inflight, lock, cycleVars, pairVars>>

\* engine_busy or dest_inflight.
EngineRefuses(j) ==
    /\ At(j, "call") /\ (lock # "free" \/ inflight[Dst(j)] > 0)
    /\ jobs' = [jobs EXCEPT ![j].class = "failed", ![j].phase = "returned"]
    /\ Rest

Accepts(j) == lock = "free" /\ inflight[Dst(j)] = 0

\* The lock is taken and the destination is not in flight.
execute_candidate(j) ==
    /\ At(j, "call") /\ Accepts(j)
    /\ lock' = "explicit"
    /\ jobs' = [jobs EXCEPT ![j].phase = "policy"]
    /\ UNCHANGED <<inflight, cycleVars, pairVars>>

\* route_pricing_failed, a missing-route marker, or router_unavailable.
PricingFails(j) ==
    /\ At(j, "policy") /\ jobs[j].mode # "cycle"
    /\ \E route \in Markers(j) : LeaveWith(j, "failed", route)
    /\ UNCHANGED <<inflight, cycleVars, pairVars>>

\* is_source_route_failure: a marker anywhere in the error, sources left.
TriesNext(job) ==
    /\ job.mode = "diagnostic" /\ job.class = "failed" /\ job.route
    /\ Cardinality(job.tried) < MaxSources /\ Sources \ job.tried # {}

\* The caller accounts for what the engine did not, and leaves a pending
\* payment's row and reservation to the sweep.
FacadeSettled(job) ==
    CASE job.class = "success" /\ job.mode # "diagnostic" ->
             [job EXCEPT !.status = "success", !.cost = record_rebalance_cost(job),
                         !.reservation = mark_budget_spent(job)]
      [] job.class \in {"failed", "blocked"} /\ job.mode = "execute" ->
             [job EXCEPT !.status = "failed", !.reservation = release_reservation(job)]
      [] job.class \in {"failed", "blocked"} /\ job.mode # "execute" ->
             [job EXCEPT !.status = "failed"]
      [] OTHER -> job

FacadeSettles(j) ==
    /\ At(j, "returned")
    /\ Set(j, [FacadeSettled(jobs[j]) EXCEPT
                  !.phase = IF TriesNext(jobs[j]) THEN "retry" ELSE "done"])
    /\ Rest

\* The diagnostic's next ranked source, with a row of its own.
NextSource(j, source) ==
    /\ At(j, "retry") /\ source \notin jobs[j].tried /\ Next1 \in Jobs
    /\ jobs' = [jobs EXCEPT ![j].phase = "done",
                            ![Next1] = OpenRow(<<source, Dst(j)>>, jobs[j].fee, "diagnostic",
                                               jobs[j].tried \cup {source})]
    /\ Rest

-----------------------------------------------------------------------------
Worker(j) ==
    \/ PolicyBlocks(j) \/ Enter(j) \/ reserve_execution_budget(j) \/ BudgetBlocks(j)
    \/ StopsBeforeWrite(j) \/ Sendpay(j) \/ SendpayUnheard(j)
    \/ TimesOut(j) \/ TransportFails(j) \/ Completes(j) \/ Fails(j)
    \/ Record(j) \/ Finish(j) \/ DropGuard(j)

Caller(j) ==
    \/ EngineRefuses(j) \/ execute_candidate(j) \/ PricingFails(j)
    \/ FacadeSettles(j) \/ \E s \in Sources : NextSource(j, s)

Cycle ==
    \/ \E j \in Jobs : SweepSkips(j) \/ reconcile_pending_row(j) \/ consume_worker_result(j)
    \/ \E n \in 1..MaxConcurrentJobs : SpawnWorkers(n)
    \/ NoCandidates \/ Deadline \/ CycleEnds

Next ==
    \/ BeginCycle \/ Cycle
    \/ \E j \in Jobs : Worker(j) \/ Caller(j) \/ NodeDecides(j)
    \/ \E p \in Requests, f \in RequestFees :
          \/ \E mode \in {"manual", "diagnostic"} : Open(p, f, mode)
          \/ \E capex \in BOOLEAN : execute_rebalance(p, f, capex)

\* Threads keep running and every call has a deadline; a timer starts cycles;
\* the node decides each payment; and a sweep that keeps coming back to a
\* decided payment at some time gets listsendpays' answer.
Fairness ==
    /\ WF_vars(\E j \in Jobs : Worker(j) \/ Caller(j))
    /\ WF_vars(\E j \in Jobs : NodeDecides(j))
    /\ WF_vars(BeginCycle \/ Cycle)
    /\ \A j \in Jobs : SF_vars(reconcile_pending_row(j))

Spec == Init /\ [][Next]_vars /\ Fairness

-----------------------------------------------------------------------------
\* A reservation is let go only when its payment can no longer take the fee:
\* while a payment may still complete, and until a completed one is marked
\* spent, its reservation counts against the budget.  A payment whose reply
\* was lost with the connection is the exception (RebalanceOwner).
HeldWhileLive ==
    \A j \in Jobs : jobs[j].reservation = "released" /\ ~jobs[j].cut
                        => jobs[j].wire \in {"none", "failed"}

\* Each settled payment is charged once, whoever accounts for it: when the
\* engine, the facade or the sweep has closed an execution, its row tells what
\* the payment did, its fee was recorded exactly once, and its reservation was
\* settled with the row.
AccountedOnce ==
    \A j \in Jobs :
        /\ jobs[j].cost <= 1
        /\ At(j, "done") =>
            /\ jobs[j].status = "success" =>
                  /\ jobs[j].wire = "complete"
                  /\ jobs[j].cost = IF jobs[j].paid > 0 THEN 1 ELSE 0
                  /\ jobs[j].reservation \in {"none", "spent"}
            /\ jobs[j].status \in {"failed", "skipped"} =>
                  /\ jobs[j].cost = 0 /\ jobs[j].reservation \in {"none", "released"}
                  /\ jobs[j].wire \in {"inflight", "complete"} => jobs[j].cut

\* No reservation is forgotten: an active one belongs to an execution that is
\* still running or to a row the sweep will visit.
ReservationsAreOwned ==
    \A j \in Jobs : jobs[j].reservation = "active" /\ At(j, "done")
                        => jobs[j].status = "pending_settlement"

\* What is reserved and what was spent stay within the daily budget.
BudgetRespected == DailyBudget > 0 => committed_sats <= DailyBudget

\* Two executions are in the reserve-and-pay window of one destination only
\* when one of them is a worker its cycle had given up before it registered.
OverlapOnlyWhenLate ==
    \A i, j \in Jobs : i # j /\ InWindow(i) /\ InWindow(j) /\ Dst(i) = Dst(j)
                           => jobs[i].late \/ jobs[j].late

\* "Must never count as a routing failure": a pair has strikes or a cooldown
\* only if one of its workers failed for a reason other than the budget.
StrikesAreEarned ==
    \A p \in Pairs : strikes[p] > 0 \/ p \in cooling =>
        \E j \in Jobs : /\ jobs[j].pair = p /\ jobs[j].mode = "cycle" /\ At(j, "done")
                        /\ jobs[j].class \in {"failed", "pending"}

\* A closed row stays as it is: sweep, worker and facade never overwrite each
\* other's success or failure.
RowsAreFinal ==
    [][\A j \in Jobs : jobs[j].status \in {"success", "failed"}
                           => jobs'[j].status = jobs[j].status]_vars

\* An active reservation is at some time spent or released.
ReservationsResolve ==
    \A j \in Jobs : jobs[j].reservation = "active" ~> jobs[j].reservation # "active"

\* What holds of money, rows and strikes in every state (engine, facade and
\* sweep together): what may still be paid is held, what was paid is charged
\* once, holds have an owner, the budget is kept, and a pair's strikes are
\* failures it had.
MoneyIsAccounted ==
    TypeOK /\ HeldWhileLive /\ ReservationsAreOwned /\ AccountedOnce /\ BudgetRespected /\ OverlapOnlyWhenLate /\ StrikesAreEarned
=============================================================================
