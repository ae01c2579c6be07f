--------------------------- MODULE RebalanceOwner ---------------------------
(***************************************************************************)
(* The serialized rebalance owner (crates/revops/src/rebalance_owner.rs),    *)
(* the durable attempts and reservations it writes through the observer      *)
(* store (crates/revops-db/src/fee_runway.rs), and one submission's way      *)
(* through the native executor (crates/revops-rebalance/src/executor.rs) and *)
(* its CLN adapter (crates/revops/src/rebalance_adapters.rs) to the node.    *)
(*                                                                         *)
(* The owner handles one message at a time: a manual submission, a cycle, or *)
(* the reconciliation queued at start.  The store is a FIFO actor: a blocking*)
(* call is answered only after every write admitted before it.  The process  *)
(* may die between any two steps; the rows and the payments survive.         *)
(*                                                                         *)
(* deps.engine is any CandidateExecutor.  A cycle's payments are made inside *)
(* the engine and are not followed here: only the results it returns are.    *)
(***************************************************************************)
EXTENDS Naturals, Sequences, FiniteSets, Functions

CONSTANTS
    Pairs,           \* (from_channel, to_channel)
    Amounts,         \* requested amount_sats
    DailyBudget,     \* daily_budget_sats
    MaxAmount,       \* rebalance_max_amount, 0 = unset
    Window,          \* budget_window_hours in clock units
    PairCooldown,    \* pair_cooldown_seconds in clock units
    PaymentMode,     \* "DryRun" or "Live"
    \* Bounds: rows, submissions per process, retries, executions per cycle.
    MaxClock, MaxAttempts, MaxSubmissions, MaxTries, MaxExecutions, MaxCrashes

ASSUME OwnerAssumption ==
    /\ Amounts \subseteq Nat \ {0}
    /\ {DailyBudget, MaxAmount, Window, PairCooldown} \subseteq Nat
    /\ PaymentMode \in {"DryRun", "Live"}
    /\ {MaxClock, MaxAttempts, MaxSubmissions, MaxTries, MaxExecutions, MaxCrashes}
           \subseteq Nat

VARIABLES
    attempts,     \* rust_rebalance_attempts with their reservation, by request_id
    late,         \* intent writes admitted to the store and not yet executed
    wire,         \* the node's outgoing payments, by payment_hash
    cut,          \* history: hashes whose reply was lost other than by a deadline
    phase,        \* what the owner thread is doing
    request,      \* request_id of the submission or record under way
    stage,        \* execute_pair: "first" payment, "excluded" or "partial" retry
    step,         \* payments tried for this submission / index of the execution recorded
    result,       \* the ExecutionResult so far
    prior,        \* prior_result of the partial-amount retries
    executions,   \* results of the cycle being recorded
    orphans,      \* unresolved attempts being reconciled
    starting,     \* the ReconcileOnStart message is still queued
    suspended,    \* OwnerState.suspended
    cooldowns,    \* OwnerState.cooldowns (per pair, a set of at most one)
    submissions,  \* OwnerState.submissions
    clock,        \* unix seconds
    crashes       \* restarts so far

store == <<attempts, late>>
node  == <<wire, cut>>
job   == <<request, stage, step, result, prior, executions, orphans>>
mem   == <<starting, suspended, cooldowns, submissions>>
vars  == <<attempts, late, wire, cut, phase, request, stage, step, result, prior,
           executions, orphans, starting, suspended, cooldowns, submissions,
           clock, crashes>>

NoPair == "none"

\* request_id: manual-{now}-{submissions}-{from}-{to} or cycle-{now}-{index}.
Ids == [trigger : {"manual"}, at : Nat, n : Nat, pair : Pairs]
       \cup [trigger : {"cycle"}, at : Nat, n : Nat, pair : {NoPair}]
NoId == [trigger |-> "cycle", at |-> 0, n |-> 0, pair |-> NoPair]
Hashes == [id : Ids, try : Nat]

\* What ExecutionResult says: success, payment_pending, an error with a
\* pre-write prefix, with the sendpay prefix (and what the failure was about),
\* or any other error.
Classes == {"success", "pending", "prewrite", "sendpay_error", "other"}
Causes  == {"liquidity", "attributed", "plain"}
Results == [class : Classes, cause : Causes]
Plain(class) == [class |-> class, cause |-> "plain"]

Outcomes == {"none", "success", "rejected", "clean_failure_before_write",
             "outcome_unknown"}
Reservations == {"active", "settled", "released", "quarantined"}
\* payment_hash is the set of the recorded hashes: none or one.
Attempt == [amount : Nat, forced : BOOLEAN, boot : Nat, outcome : Outcomes,
            reservation : Reservations, hash : SUBSET Hashes]
Intent == [id : Ids, amount : Nat, forced : BOOLEAN, boot : Nat]

Phases == {"idle", "execute", "sendpay", "waitsendpay", "ended", "settle",
           "record", "recordSettle", "reconcile"}

TypeOK ==
    /\ attempts = [i \in DOMAIN attempts |-> attempts[i]]
    /\ DOMAIN attempts \subseteq Ids
    /\ \A i \in DOMAIN attempts : attempts[i] \in Attempt
    /\ late \in Seq(Intent)
    /\ wire = [h \in DOMAIN wire |-> wire[h]]
    /\ DOMAIN wire \subseteq Hashes
    /\ \A h \in DOMAIN wire : wire[h] \in {"inflight", "doomed", "complete", "failed"}
    /\ cut \subseteq Hashes
    /\ phase \in Phases /\ request \in Ids
    /\ stage \in {"first", "excluded", "partial"} /\ step \in Nat
    /\ result \in Results /\ prior \in Results
    /\ executions \in Seq(Results) /\ orphans \subseteq Ids
    /\ starting \in BOOLEAN /\ suspended \in BOOLEAN
    /\ cooldowns \in [Pairs -> SUBSET Nat]
    /\ submissions \in Nat /\ clock \in Nat /\ crashes \in Nat

-----------------------------------------------------------------------------
(* The store: fee_runway's rebalance functions. *)

NewRow(intent) ==
    [amount |-> intent.amount, forced |-> intent.forced, boot |-> intent.boot,
     outcome |-> "none", reservation |-> "active", hash |-> {}]

insert_rebalance_attempt(intent) ==
    [i \in DOMAIN attempts \cup {intent.id} |->
        IF i = intent.id THEN NewRow(intent) ELSE attempts[i]]

\* Mutant: the settle without its `outcome IS NULL` guard.
SettleableAgain(id) == id \in DOMAIN attempts

Settleable(id) == id \in DOMAIN attempts /\ attempts[id].outcome = "none"

\* The attempt's outcome and its active reservation flip together.
SettledRow(row, outcome, reservation, hash) ==
    [row EXCEPT !.outcome = outcome,
                !.reservation = IF row.reservation = "active" THEN reservation
                                                              ELSE row.reservation,
                !.hash = IF hash = {} THEN row.hash ELSE hash]

settle_rebalance_attempt(id, outcome, reservation, hash) ==
    [attempts EXCEPT ![id] = SettledRow(attempts[id], outcome, reservation, hash)]

unresolved_rebalance_attempts == {i \in DOMAIN attempts : attempts[i].outcome = "none"}

IsHold(i) == attempts[i].reservation \in {"active", "quarantined"}

TotalOf(ids) == SumFunctionOnSet([i \in DOMAIN attempts |-> attempts[i].amount], ids)

active_rebalance_reserved_sats ==
    TotalOf({i \in DOMAIN attempts : IsHold(i) /\ i.at + Window >= clock})

-----------------------------------------------------------------------------
(* rebalance_execution.rs: the typed outcome and its settlement. *)

classify_execution(r) ==
    CASE r.class = "success"       -> "success"
      [] r.class = "prewrite"      -> "clean_failure_before_write"
      [] r.class = "sendpay_error" -> "rejected"
      [] OTHER                     -> "outcome_unknown"

settlement_for(outcome) ==
    CASE outcome = "success"         -> "settled"
      [] outcome = "outcome_unknown" -> "quarantined"
      [] OTHER                       -> "released"

HashOf(id, n) == [id |-> id, try |-> n]

\* Only a pending result carries its payment_hash.
ResultHash == IF result.class = "pending" THEN {HashOf(request, step)} ELSE {}

SettledWith(r) ==
    LET outcome == classify_execution(r)
    IN  settle_rebalance_attempt(request, outcome, settlement_for(outcome), ResultHash)

-----------------------------------------------------------------------------
\* A handler returns, or dies with the process: its locals are gone.
Return ==
    /\ phase' = "idle" /\ request' = NoId /\ stage' = "first" /\ step' = 0
    /\ result' = Plain("other") /\ prior' = Plain("other")
    /\ executions' = <<>> /\ orphans' = {}

Init ==
    /\ attempts = [i \in {} |-> {}] /\ late = <<>> /\ wire = [h \in {} |-> {}]
    /\ cut = {}
    /\ phase = "idle" /\ request = NoId /\ stage = "first" /\ step = 0
    /\ result = Plain("other") /\ prior = Plain("other")
    /\ executions = <<>> /\ orphans = {}
    /\ starting = TRUE /\ suspended = FALSE
    /\ cooldowns = [p \in Pairs |-> {}] /\ submissions = 0
    /\ clock = 0 /\ crashes = 0

\* The hard cap binds whatever `force` says; the pair cooldown and the budget
\* window bind unless forced.  The window is read through the store's queue.
MaySubmit(pair, amount, force) ==
    /\ phase = "idle" /\ ~suspended
    /\ MaxAmount > 0 => amount <= MaxAmount
    /\ ~force =>
        /\ \A last \in cooldowns[pair] : clock - last >= PairCooldown
        /\ late = <<>>
        /\ active_rebalance_reserved_sats + amount <= DailyBudget

ManualIntent(pair, amount, force) ==
    [id     |-> [trigger |-> "manual", at |-> clock, n |-> submissions + 1, pair |-> pair],
     amount |-> amount, forced |-> force, boot |-> crashes]

RoomFor(n) == Cardinality(DOMAIN attempts) + Len(late) + n <= MaxAttempts

CountSubmission ==
    /\ submissions < MaxSubmissions /\ RoomFor(1)
    /\ submissions' = submissions + 1
    /\ UNCHANGED <<starting, suspended, node, clock, crashes>>

\* The intent is durable: the submission goes on to the engine.
SubmitAccepted(pair, amount, force) ==
    LET intent == ManualIntent(pair, amount, force)
    IN  /\ MaySubmit(pair, amount, force) /\ CountSubmission
        /\ late = <<>> /\ intent.id \notin DOMAIN attempts
        /\ attempts' = insert_rebalance_attempt(intent)
        /\ cooldowns' = [cooldowns EXCEPT ![pair] = {clock}]
        /\ phase' = "execute" /\ request' = intent.id /\ stage' = "first" /\ step' = 0
        /\ UNCHANGED <<late, result, prior, executions, orphans>>

\* Not admitted (QueueFull, ActorGone), or the store answered an error (a
\* repeated request_id too).
SubmitRefused(pair, amount, force) ==
    /\ MaySubmit(pair, amount, force) /\ CountSubmission
    /\ UNCHANGED <<store, phase, job, cooldowns>>

\* Admitted, no answer within OWNER_STORE_BUDGET: the write may still happen.
SubmitUnknown(pair, amount, force) ==
    /\ MaySubmit(pair, amount, force) /\ CountSubmission
    /\ late' = Append(late, ManualIntent(pair, amount, force))
    /\ UNCHANGED <<attempts, phase, job, cooldowns>>

\* The store actor executes the oldest late write, or fails it.
StoreLands ==
    /\ late # <<>>
    /\ late' = Tail(late)
    /\ \/ /\ Head(late).id \notin DOMAIN attempts
          /\ attempts' = insert_rebalance_attempt(Head(late))
       \/ UNCHANGED attempts
    /\ UNCHANGED <<node, phase, job, mem, clock, crashes>>

-----------------------------------------------------------------------------
(* The engine and the native executor.                                       *)

\* A refusal before any pricing or payment: engine_busy, missing_peer_ids (what
\* RebalanceEngine says of every manual_candidate, whose peer ids are empty),
\* dest_inflight, route_pricing_failed, policy_blocked, a budget block.
EngineRefuses ==
    /\ phase = "execute" /\ stage = "first"
    /\ result' = Plain("other") /\ phase' = "settle"
    /\ UNCHANGED <<store, node, request, stage, step, prior, executions, orphans,
                   mem, clock, crashes>>

EndTry(r) ==
    /\ result' = r /\ phase' = "ended"
    /\ UNCHANGED <<store, request, stage, step, prior, executions, orphans,
                   mem, clock, crashes>>

\* validate_route refuses, the DryRun gate cuts, or the invoice is malformed.
ExecuteStopsBeforeWrite ==
    /\ phase = "execute"
    /\ EndTry(Plain("prewrite")) /\ UNCHANGED node

\* The invoice call fails: the same prefix as a failed sendpay.
InvoiceFails ==
    /\ phase = "execute" /\ PaymentMode = "Live"
    /\ EndTry(Plain("sendpay_error")) /\ UNCHANGED node

Invoiced ==
    /\ phase = "execute" /\ PaymentMode = "Live"
    /\ phase' = "sendpay"
    /\ UNCHANGED <<store, node, job, mem, clock, crashes>>

Hash == HashOf(request, step)
SentAs(status) ==
    [h \in DOMAIN wire \cup {Hash} |-> IF h = Hash THEN status ELSE wire[h]]

SendpayAccepted ==
    /\ phase = "sendpay"
    /\ wire' = SentAs("inflight") /\ phase' = "waitsendpay"
    /\ UNCHANGED <<store, cut, job, mem, clock, crashes>>

\* A CLN error response: nothing was sent.
SendpayRejected ==
    /\ phase = "sendpay"
    /\ \E cause \in Causes : EndTry([class |-> "sendpay_error", cause |-> cause])
    /\ UNCHANGED node

\* "rpc timeout": the node may have sent it.
SendpayTimesOut ==
    /\ phase = "sendpay" /\ EndTry(Plain("pending"))
    /\ \/ wire' = SentAs("inflight")
       \/ UNCHANGED wire
    /\ UNCHANGED cut

\* No connection, a closed one or an unreadable reply: plain text without "rpc
\* timeout", whether the node had sent the payment or not.  The cleanup may
\* delete the unpaid invoice, which dooms a payment under way.
TransportFails ==
    /\ phase \in {"sendpay", "waitsendpay"} /\ EndTry(Plain("sendpay_error"))
    /\ cut' = cut \cup {Hash}
    /\ \/ UNCHANGED wire
       \/ phase = "sendpay" /\ wire' = SentAs("inflight")
       \/ /\ phase = "waitsendpay" => wire[Hash] = "inflight"
          /\ wire' = SentAs("doomed")

WaitCompletes ==
    /\ phase = "waitsendpay" /\ wire[Hash] = "complete"
    /\ EndTry(Plain("success")) /\ UNCHANGED node

WaitFails ==
    /\ phase = "waitsendpay" /\ wire[Hash] = "failed"
    /\ \E cause \in Causes : EndTry([class |-> "sendpay_error", cause |-> cause])
    /\ UNCHANGED node

\* Mutant: code 200 is taken for a failure.
WaitUnresolvedFails ==
    /\ phase = "waitsendpay"
    /\ EndTry([class |-> "sendpay_error", cause |-> "liquidity"]) /\ UNCHANGED node

\* Code 200, "rpc timeout" or waitsendpay_status=pending (is_payment_unresolved).
WaitUnresolved ==
    /\ phase = "waitsendpay" /\ EndTry(Plain("pending")) /\ UNCHANGED node

\* The node decides a payment under way; a doomed one can only fail.
NodeDecides(h) ==
    /\ \/ wire[h] = "inflight" /\ \E status \in {"complete", "failed"} :
                                     wire' = [wire EXCEPT ![h] = status]
       \/ wire[h] = "doomed" /\ wire' = [wire EXCEPT ![h] = "failed"]
    /\ UNCHANGED <<store, cut, phase, job, mem, clock, crashes>>

Final(r) == r.class \in {"success", "pending"}

Retry(nextStage) ==
    /\ phase = "ended" /\ ~Final(result) /\ step < MaxTries
    /\ stage' = nextStage /\ step' = step + 1 /\ phase' = "execute"
    /\ UNCHANGED <<store, node, request, result, executions, orphans, mem, clock, crashes>>

\* A failure that names or implies excluded channels is retried around them.
retry_with_exclusions ==
    /\ stage = "first"
    /\ result.class = "sendpay_error" /\ result.cause \in {"liquidity", "attributed"}
    /\ Retry("excluded") /\ UNCHANGED prior

\* A liquidity failure is retried with smaller amounts, each after whatever
\* the one before ended with, until one succeeds or is pending.
retry_with_partial_amounts ==
    /\ \/ stage = "partial"
       \/ result.class = "sendpay_error" /\ result.cause = "liquidity"
    /\ Retry("partial")
    /\ prior' = IF stage = "partial" THEN prior ELSE result

\* No further route: failed partial amounts leave the prior result standing.
FinishExecution ==
    /\ phase = "ended" /\ phase' = "settle"
    /\ result' = IF stage = "partial" /\ ~Final(result) THEN prior ELSE result
    /\ UNCHANGED <<store, node, request, stage, step, prior, executions, orphans,
                   mem, clock, crashes>>

Settle ==
    /\ phase = "settle" /\ late = <<>> /\ Settleable(request)
    /\ attempts' = SettledWith(result)
    /\ Return
    /\ UNCHANGED <<late, node, mem, clock, crashes>>

\* The settlement could not be made durable: no further submission in this process.
Suspend ==
    /\ suspended' = TRUE /\ Return
    /\ UNCHANGED <<store, node, starting, cooldowns, submissions, clock, crashes>>

SettleFails == phase \in {"settle", "recordSettle"} /\ late = <<>> /\ Suspend

-----------------------------------------------------------------------------
(* run_cycle: the engine executes first, each result is recorded after. *)

CycleResults ==
    {Plain(class) : class \in IF PaymentMode = "DryRun" THEN {"prewrite", "other"}
                                                        ELSE Classes}

run_cycle ==
    /\ phase = "idle" /\ ~suspended
    /\ \E n \in 1..MaxExecutions :
        RoomFor(n) /\ executions' \in [1..n -> CycleResults]
    /\ phase' = "record" /\ step' = 0
    /\ UNCHANGED <<store, node, request, stage, result, prior, orphans, mem, clock, crashes>>

\* The result of the insert is not looked at unless the settle fails too.
RecordInsert(amount) ==
    LET intent == [id |-> [trigger |-> "cycle", at |-> clock, n |-> step, pair |-> NoPair],
                   amount |-> amount, forced |-> FALSE, boot |-> crashes]
    IN  /\ phase = "record"
        /\ request' = intent.id /\ result' = executions[step + 1]
        /\ phase' = "recordSettle"
        /\ \/ /\ late = <<>> /\ intent.id \notin DOMAIN attempts
              /\ attempts' = insert_rebalance_attempt(intent) /\ UNCHANGED late
           \/ late' = Append(late, intent) /\ UNCHANGED attempts
           \/ UNCHANGED store
        /\ UNCHANGED <<node, stage, step, prior, executions, orphans, mem, clock, crashes>>

RecordSettle ==
    /\ phase = "recordSettle" /\ late = <<>> /\ Settleable(request)
    /\ attempts' = SettledWith(result)
    /\ \/ step + 1 = Len(executions) /\ Return
       \/ /\ step + 1 < Len(executions)
          /\ step' = step + 1 /\ phase' = "record"
          /\ UNCHANGED <<request, stage, result, prior, executions, orphans>>
    /\ UNCHANGED <<late, node, mem, clock, crashes>>

\* "already terminal (or unknown); refusing a second terminal write".
RecordRefused ==
    phase = "recordSettle" /\ late = <<>> /\ ~Settleable(request) /\ Suspend

-----------------------------------------------------------------------------
(* reconcile_on_start *)

ReconcileStart ==
    /\ phase = "idle" /\ starting /\ late = <<>>
    /\ starting' = FALSE
    /\ orphans' = unresolved_rebalance_attempts
    /\ phase' = "reconcile"
    /\ UNCHANGED <<store, node, request, stage, step, result, prior, executions,
                   suspended, cooldowns, submissions, clock, crashes>>

\* listsendpays on the recorded payment hash; without a hash, an answer or a
\* final status, the reservation is quarantined.
Reconciled(id, answered) ==
    LET listed == {wire[h] : h \in attempts[id].hash \cap DOMAIN wire}
    IN  CASE answered /\ "complete" \in listed -> "success"
          [] answered /\ listed = {"failed"}   -> "rejected"
          [] OTHER                             -> "outcome_unknown"

ReconcileOrphan(id) ==
    /\ phase = "reconcile" /\ late = <<>> /\ Settleable(id)
    /\ \E answered \in BOOLEAN :
        LET outcome == Reconciled(id, answered)
        IN  attempts' = settle_rebalance_attempt(id, outcome, settlement_for(outcome), {})
    /\ orphans' = orphans \ {id}
    /\ UNCHANGED <<late, node, phase, request, stage, step, result, prior, executions,
                   mem, clock, crashes>>

\* Every orphan is settled, or the store failed one and the rest are left.
ReconcileEnds ==
    /\ phase = "reconcile" /\ Return
    /\ UNCHANGED <<store, node, mem, clock, crashes>>

-----------------------------------------------------------------------------
Tick ==
    /\ clock < MaxClock /\ clock' = clock + 1
    /\ UNCHANGED <<store, node, phase, job, mem, crashes>>

\* The process dies and starts again: its memory and the queued writes are gone.
Crash ==
    /\ crashes < MaxCrashes /\ crashes' = crashes + 1
    /\ late' = <<>> /\ Return /\ starting' = TRUE /\ suspended' = FALSE
    /\ cooldowns' = [p \in Pairs |-> {}] /\ submissions' = 0
    /\ UNCHANGED <<attempts, node, clock>>

Execution ==
    \/ EngineRefuses \/ ExecuteStopsBeforeWrite \/ InvoiceFails \/ Invoiced
    \/ SendpayAccepted \/ SendpayRejected \/ SendpayTimesOut \/ TransportFails
    \/ WaitCompletes \/ WaitFails \/ WaitUnresolved
    \/ retry_with_exclusions \/ retry_with_partial_amounts \/ FinishExecution

Next ==
    \/ \E pair \in Pairs, amount \in Amounts, force \in BOOLEAN :
        \/ SubmitAccepted(pair, amount, force)
        \/ SubmitRefused(pair, amount, force)
        \/ SubmitUnknown(pair, amount, force)
    \/ StoreLands
    \/ Execution
    \/ \E h \in DOMAIN wire : NodeDecides(h)
    \/ Settle \/ SettleFails
    \/ run_cycle \/ (\E amount \in Amounts : RecordInsert(amount))
    \/ RecordSettle \/ RecordRefused
    \/ ReconcileStart \/ (\E id \in orphans : ReconcileOrphan(id)) \/ ReconcileEnds
    \/ Tick \/ Crash

Spec == Init /\ [][Next]_vars

-----------------------------------------------------------------------------
(* Properties *)

\* No payment is ever on the wire without its durable attempt row, through lost
\* store answers, retries and restarts: step 5 of the submission rail writes the
\* intent before step 6 executes, and an unanswered intent never executes.
IntentBeforeWire == \A h \in DOMAIN wire : h.id \in DOMAIN attempts

\* Has completed, or still can.
Live(h) == wire[h] \in {"inflight", "complete"}

\* A released reservation moved nothing, unless the transport failed in the
\* middle of its payment: classify_execution releases only proven failures.
ReleasedMovedNothing ==
    \A h \in DOMAIN wire \ cut :
        h.id \in DOMAIN attempts /\ attempts[h.id].reservation = "released" => ~Live(h)

\* Of an attempt's payments, over the exclusion retry and the partial-amount
\* retries of execute_pair, at most one has completed or still can, unless the
\* transport failed in the middle of one.
OneLivePayment ==
    \A g, h \in DOMAIN wire \ cut : g.id = h.id /\ Live(g) /\ Live(h) => g = h

\* One process never leaves two attempts with payments unsettled: a settlement
\* that could not be persisted suspends the owner until restart.
Unsettled(h) ==
    h.id \in DOMAIN attempts /\ attempts[h.id].outcome = "none"
OneUnsettled ==
    \A g, h \in DOMAIN wire :
        Unsettled(g) /\ Unsettled(h) /\ attempts[g.id].boot = attempts[h.id].boot
            => g.id = h.id

\* The unforced manual holds of any budget window stay within the daily budget,
\* late intent writes and quarantined outcomes included.
UnforcedHolds(t) ==
    {i \in DOMAIN attempts :
        /\ i.trigger = "manual" /\ ~attempts[i].forced /\ IsHold(i)
        /\ i.at <= t /\ i.at + Window >= t}
BudgetRespected == \A t \in 0..clock : TotalOf(UnforcedHolds(t)) <= DailyBudget

\* A recorded outcome is final: no later settlement, repeated request_id,
\* reconciliation or restart changes or removes it.
OutcomeIsFinal ==
    \A i \in DOMAIN attempts :
        /\ i \in DOMAIN attempts'
        /\ attempts[i].outcome # "none" => attempts'[i] = attempts[i]
SettledOnce == [][OutcomeIsFinal]_vars

\* What holds of an attempt and its payments in every state (the owner, the
\* native executor and reconciliation together): its row is there before the
\* wire, one payment is live, what was released moved nothing, and the budget
\* is kept.
PaymentsAreBacked ==
    TypeOK /\ IntentBeforeWire /\ ReleasedMovedNothing /\ OneLivePayment /\ OneUnsettled /\ BudgetRespected
=============================================================================
