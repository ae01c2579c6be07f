------------------------------- MODULE StoreActors -------------------------------
(***************************************************************************)
(* The two threads that own a database connection, and the requests their   *)
(* handles send them: the observer's store (revops-db/owner.rs, its own      *)
(* tables, read and written) and the production database (actor.rs, read     *)
(* only, written by another program).                                      *)
(*                                                                         *)
(* A handle's method sends one command into a bounded queue and waits for a  *)
(* reply.  There are three ways to send: "async" waits for room and may be    *)
(* cancelled by the caller's own bound, "blocking" waits for room and for the *)
(* reply without one, "try" is refused when there is no room.  A command in   *)
(* the queue runs whether or not its caller still waits.                    *)
(***************************************************************************)
EXTENDS Integers, Sequences, FiniteSets, SequencesExt

CONSTANTS
    StoreCallers,     \* tasks and threads holding a handle
    MaxProductionRows, \* bound: rows the other program writes
    QueueRoom,        \* capacity of a queue (64 and 32 in the code)
    StorePlans        \* what the callers ask for: caller -> sequence of requests and ways

VARIABLES
    asked,            \* what each caller asks for, in order
    store,            \* table -> rows, in the order of their row ids
    generation,       \* rust_fee_state_generation
    mailbox,          \* actor -> queued commands
    alive,            \* actor -> the thread is still running
    asks,             \* caller -> its pending request
    outcomes,         \* caller -> what its requests came back with, in order
    ran               \* history: the commands executed, with their replies

storeVars == <<asked, store, generation, mailbox, alive, asks, outcomes, ran>>

-----------------------------------------------------------------------------
(* What the methods of the handles send: the table, what the command does    *)
(* there, and the ways a method offers to send it.                          *)
EitherWay == {"async", "blocking"}
Request(table, does, ways) == [actor |-> "observer", table |-> table, does |-> does, ways |-> ways]

NotificationRequests ==
    [InsertForward |-> Request("forwards", "ignore", {"async"}), LastForwardTs |-> Request("forwards", "latest", {"async"}),
     InsertPeerConnectionEvent |-> Request("connections", "append", {"async"}),
     InsertChannelClosureEvent |-> Request("closures", "append", {"async"})]
FeeStateRequests ==
    [CommitFeeCycle |-> Request("cycles", "commit", EitherWay), LoadLatestFeeState |-> Request("cycles", "load", EitherWay),
     CycleExists |-> Request("cycles", "exists", EitherWay), CycleExistsWithGeneration |-> Request("cycles", "standing", {"blocking"}),
     CommitFeeCycleGuarded |-> Request("cycles", "guarded", {"blocking"}), CurrentStateGeneration |-> Request("cycles", "generation", EitherWay)]
MempoolRequests ==
    [RecordMempoolSample |-> Request("mempool", "append", EitherWay), RecordMempoolSamplePruned |-> Request("mempool", "pruned", EitherWay),
     RefreshMempoolWindow |-> Request("mempool", "refresh", EitherWay), QueryMempoolSamplesSince |-> Request("mempool", "since", EitherWay),
     MempoolSampleStats |-> Request("mempool", "since", EitherWay), RecordMempoolMaComparison |-> Request("comparisons", "append", EitherWay)]
RunwayRequests ==
    [RecordFeeTriggerEvent |-> Request("triggers", "append", EitherWay), FeeMutationCount |-> Request("requests", "count", EitherWay),
     FeeBroadcastAttemptCount |-> Request("attempts", "count", EitherWay), InsertExecutionQuarantine |-> Request("quarantine", "append", EitherWay),
     ActiveExecutionQuarantine |-> Request("quarantine", "open", EitherWay), RecordRunwaySnapshot |-> Request("runway", "append", EitherWay),
     LatestRunwaySnapshot |-> Request("runway", "newest", EitherWay)]
RebalanceRequests ==
    [RunRetentionSweep |-> Request("triggers", "sweep", EitherWay), InsertRebalanceAttempt |-> Request("rebalances", "unique", {"async", "try"}),
     SettleRebalanceAttempt |-> Request("rebalances", "settle", EitherWay), UnresolvedRebalanceAttempts |-> Request("rebalances", "open", EitherWay),
     ActiveRebalanceReservedSats |-> Request("rebalances", "held", EitherWay)]
ArmRequests == [InsertConsumedArmNonce |-> Request("nonces", "ignore", {"async"})]
SeedRequests ==
    [RecordSeedRefusal |-> Request("seeds", "refusal", EitherWay), VerifiedSeedBinding |-> Request("seeds", "binding", EitherWay),
     LatestFeeSeedEvent |-> Request("seeds", "newest", EitherWay), RecordFeeRestartMarker |-> Request("restarts", "append", EitherWay),
     LatestFeeRestartMarker |-> Request("restarts", "newest", EitherWay)]
BroadcastRequests ==
    [InsertBroadcastAttempt |-> Request("attempts", "unique", {"async", "try"}), RecordBroadcastAttemptResult |-> Request("attempts", "result", {"async"}),
     ReconcileQuarantineOnRestart |-> Request("attempts", "reconcile", {"async"})]
LoopRequests ==
    [RegisterLoop |-> Request("loops", "register", {"async"}), ReconcileIncompleteLoops |-> Request("loops", "incomplete", {"async"}),
     BeginLoopPass |-> Request("loops", "begin", {"async"}), FinishLoopPass |-> Request("loops", "settle", {"async"}),
     FailLoopPass |-> Request("loops", "settle", {"async"})]
AnalyticsRequests ==
    [UpsertChannelFlowState |-> Request("flow", "upsert", EitherWay), ChannelFlowStates |-> Request("flow", "list", EitherWay),
     FlowEvidenceSnapshot |-> Request("flow", "keyed", {"async"}), UpsertKalmanState |-> Request("kalman", "upsert", EitherWay),
     KalmanStates |-> Request("kalman", "list", EitherWay), UpsertTemporalProfile |-> Request("temporal", "upsert", EitherWay),
     TemporalProfiles |-> Request("temporal", "list", EitherWay)]
SnapshotRequests ==
    [InsertFinancialSnapshot |-> Request("financial", "append", EitherWay), CurrentBootFinancialSnapshot |-> Request("financial", "newestOf", {"async"}),
     FinancialSnapshots |-> Request("financial", "list", EitherWay)]
FlowRequests ==
    [DailyFlowBuckets |-> Request("forwards", "since", {"async"}), HourlyFlowHistogram |-> Request("forwards", "since", {"async"}),
     ContinuousNetFlow |-> Request("forwards", "since", {"async"}), PersistFlowPass |-> Request("flow", "replace", {"async"}),
     PeersWithRecentConnectionHistory |-> Request("connections", "since", {"async"}), RecordBootSession |-> Request("boots", "ignore", {"async"})]
LoopUpkeepRequests ==
    [IncrementLoopBackpressure |-> Request("loops", "bump", {"async"}), SuspendLoop |-> Request("loops", "suspend", {"async"}),
     ListLoopHealth |-> Request("loops", "list", {"async"})]
Query(does) == [actor |-> "production", table |-> "production", does |-> does, ways |-> {"async"}]
ProductionRequests ==
    [TableCount |-> Query("count"), QueryI64 |-> Query("count"), QueryOptionalString |-> Query("newest"),
     ChannelHistory |-> Query("keyed"), ProfitabilitySnapshot |-> Query("since"), BudgetStatus |-> Query("since")]
RowRequests == [QueryRow |-> Query("newest"), QueryRows |-> Query("list")]

RequestGroups ==
    {NotificationRequests, FeeStateRequests, MempoolRequests, RunwayRequests, RebalanceRequests, ArmRequests, SeedRequests, BroadcastRequests,
     LoopRequests, AnalyticsRequests, SnapshotRequests, FlowRequests, LoopUpkeepRequests, ProductionRequests, RowRequests}
StoreRequests == [ name \in UNION { DOMAIN g : g \in RequestGroups } |-> (CHOOSE g \in RequestGroups : name \in DOMAIN g)[name] ]

Actors == {"observer", "production"}
Tables == { StoreRequests[r].table : r \in DOMAIN StoreRequests }

\* One request of a caller: its method, the way it is sent and its arguments.
StoreAsk == [name : DOMAIN StoreRequests, way : {"async", "blocking", "try"}, key : STRING, at : Nat, since : Nat, seed : BOOLEAN]

ASSUME StoreAssumption ==
    /\ StorePlans \subseteq [StoreCallers -> Seq(StoreAsk)]
    /\ QueueRoom \in Nat \ {0} /\ MaxProductionRows \in Nat

-----------------------------------------------------------------------------
(* What a command does.  A row has a key, a time, whether it is settled and   *)
(* whether its loop is suspended; seed marks the provenance of an import.    *)
StoreRow(q) == [key |-> q.key, at |-> q.at, done |-> FALSE, halted |-> FALSE, seed |-> q.seed]
RowsOf(rows) == { rows[i] : i \in DOMAIN rows }
RowKeys(rows) == { rows[i].key : i \in DOMAIN rows }

\* The rows that are in kept, in their order.
Only(rows, kept) ==
    LET upTo[i \in 0..Len(rows)] ==
            IF i = 0 THEN <<>> ELSE IF rows[i] \in kept THEN Append(upTo[i - 1], rows[i]) ELSE upTo[i - 1]
    IN  upTo[Len(rows)]
Since(rows, at) == Only(rows, { r \in RowsOf(rows) : r.at >= at })
OpenRows(rows) == Only(rows, { r \in RowsOf(rows) : ~r.done })
Keyed(rows, key) == Only(rows, { r \in RowsOf(rows) : r.key = key })
NewestRow(rows) == IF rows = <<>> THEN {} ELSE {rows[Len(rows)]}
LatestTime(rows) == { t \in { rows[i].at : i \in DOMAIN rows } : \A i \in DOMAIN rows : rows[i].at <= t }
Edited(rows, key, Edit(_)) == [ i \in DOMAIN rows |-> IF rows[i].key = key THEN Edit(rows[i]) ELSE rows[i] ]
AllSettled(rows) == [ i \in DOMAIN rows |-> [rows[i] EXCEPT !.done = TRUE] ]

\* The tables a command writes, the generation it leaves and its reply.
Outcome(tables, gen, reply) == [ok |-> TRUE, tables |-> tables, gen |-> gen, reply |-> reply]
Wrote(q, rows, reply) == Outcome([t \in {q.table} |-> rows], generation, reply)
Answered(reply) == Outcome(<<>>, generation, reply)
Refused == [Answered("error") EXCEPT !.ok = FALSE]

\* INSERT OR IGNORE / ON CONFLICT DO NOTHING: the reply says whether the row is new.
InsertIgnore(rows, q) ==
    IF q.key \in RowKeys(rows) THEN Answered(FALSE) ELSE Wrote(q, Append(rows, StoreRow(q)), TRUE)

InsertRow(rows, q) == Wrote(q, Append(rows, StoreRow(q)), Len(rows) + 1)

\* An insert under a unique key is an error the second time.
InsertUnique(rows, q) == IF q.key \in RowKeys(rows) THEN Refused ELSE InsertRow(rows, q)

Upserted(rows, q) == IF q.key \in RowKeys(rows) THEN Edited(rows, q.key, LAMBDA r : StoreRow(q)) ELSE Append(rows, StoreRow(q))

\* Only an open row is settled; anything else is an error and changes nothing.
SettleRow(rows, q) ==
    IF \E i \in DOMAIN rows : rows[i].key = q.key /\ ~rows[i].done
    THEN Wrote(q, Edited(rows, q.key, LAMBDA r : [r EXCEPT !.done = TRUE]), TRUE) ELSE Refused

\* The result of an attempt is written to a row that exists, settled or not.
RecordResult(rows, q) ==
    IF q.key \in RowKeys(rows) THEN Wrote(q, Edited(rows, q.key, LAMBDA r : [r EXCEPT !.done = TRUE]), TRUE) ELSE Refused

(* reconcile_quarantine_on_restart: every unresolved attempt is settled as    *)
(* ambiguous, and one quarantine is opened unless one is.                   *)
ReconcileAttempts(rows, q) ==
    IF OpenRows(rows) = <<>> THEN Answered(0)
    ELSE LET held == OpenRows(store["quarantine"]) # <<>>
         IN  Outcome([attempts |-> AllSettled(rows),
                      quarantine |-> IF held THEN store["quarantine"] ELSE Append(store["quarantine"], StoreRow(q))],
                    generation, Len(OpenRows(rows)))

-----------------------------------------------------------------------------
(* The loops' health rows: the generations of passes are in LoopRuntime.     *)
Registered(rows, q) ==
    IF q.key \in RowKeys(rows) THEN Edited(rows, q.key, LAMBDA r : [r EXCEPT !.halted = FALSE])
    ELSE Append(rows, [StoreRow(q) EXCEPT !.done = TRUE])

LoopStep(rows, q) ==
    CASE q.does = "register"  -> Wrote(q, Registered(rows, q), TRUE)
      [] q.does = "incomplete" -> Wrote(q, AllSettled(rows), Len(OpenRows(rows)))
      [] q.does = "begin"     -> IF \E i \in DOMAIN rows : rows[i].key = q.key /\ ~rows[i].halted
                                 THEN Wrote(q, Edited(rows, q.key, LAMBDA r : [r EXCEPT !.done = FALSE]), TRUE) ELSE Refused
      [] q.does = "bump"      -> IF q.key \in RowKeys(rows) THEN Answered(TRUE) ELSE Refused
      [] q.does = "suspend"   -> IF q.key \in RowKeys(rows)
                                 THEN Wrote(q, Edited(rows, q.key, LAMBDA r : [r EXCEPT !.halted = TRUE]), TRUE) ELSE Refused

-----------------------------------------------------------------------------
(* The committed fee state.                                               *)

\* insert_successful_seed_locked: a virgin store.
SeedAllowed(q) == q.seed => generation = 0

(* commit_fee_cycle_locked: the cycle, its requests, its seed and the next    *)
(* generation in one transaction; an error rolls everything back.           *)
CommitLocked(rows, q) ==
    IF q.key \in RowKeys(rows) \/ ~SeedAllowed(q) THEN Refused
    ELSE Outcome([cycles |-> Append(rows, StoreRow(q)), requests |-> Append(store["requests"], StoreRow(q)),
                  seeds |-> IF q.seed THEN Append(store["seeds"], StoreRow(q)) ELSE store["seeds"]],
                generation + 1, [committed |-> TRUE, gen |-> generation + 1])

\* Mutant: the expected generation is not compared.
CommitUnguarded(rows, q) == CommitLocked(rows, q)

CommitGuarded(rows, q) ==
    IF generation # q.expected THEN Answered([committed |-> FALSE, gen |-> generation]) ELSE CommitLocked(rows, q)

\* cycle_exists_with_generation: both read in one transaction.
CycleStanding(rows, q) == Answered([exists |-> q.key \in RowKeys(rows), gen |-> generation])

(* verified_seed_binding: the state derives from the described import only if *)
(* one success is recorded, no refusal after it, and it is generation 1.     *)
Binding(rows) ==
    LET won == { i \in DOMAIN rows : rows[i].seed }
    IN  Answered(IF generation = 0 THEN (IF won = {} THEN "virgin" ELSE "invalid")
             ELSE IF \E i \in won : won = {i} /\ i = Len(rows) /\ store["cycles"][1].key = rows[i].key THEN "bound"
             ELSE "invalid")

FeeStateStep(rows, q) ==
    CASE q.does = "commit"     -> CommitLocked(rows, q)
      [] q.does = "guarded"    -> CommitGuarded(rows, q)
      [] q.does = "standing"   -> CycleStanding(rows, q)
      [] q.does = "exists"     -> Answered(q.key \in RowKeys(rows))
      [] q.does = "generation" -> Answered(generation)
      [] q.does = "load"       -> Answered([gen |-> generation, rows |-> rows])

-----------------------------------------------------------------------------
(* The window of mempool samples: one transaction each.                    *)
PruneBefore(rows, at) == Since(rows, at)

\* refresh_mempool_window: record, prune and read in one transaction.
RefreshWindow(rows, q) == LET kept == PruneBefore(Append(rows, StoreRow(q)), q.since) IN Wrote(q, kept, kept)

RecordPruned(rows, q) == Wrote(q, PruneBefore(Append(rows, StoreRow(q)), q.since), TRUE)

-----------------------------------------------------------------------------
(* The actors' match arms.                                                *)
WriteStep(rows, q) ==
    CASE q.does = "ignore"    -> InsertIgnore(rows, q)
      [] q.does = "append"    -> InsertRow(rows, q)
      [] q.does = "unique"    -> InsertUnique(rows, q)
      [] q.does = "upsert"    -> Wrote(q, Upserted(rows, q), TRUE)
      [] q.does = "settle"    -> SettleRow(rows, q)
      [] q.does = "result"    -> RecordResult(rows, q)
      [] q.does = "reconcile" -> ReconcileAttempts(rows, q)
      [] q.does = "refusal"   -> IF q.seed THEN Refused ELSE InsertRow(rows, q)
      [] q.does = "replace"   -> Wrote(q, Keyed(Upserted(rows, q), q.key), Cardinality(RowKeys(rows) \ {q.key}))
      [] q.does = "sweep"     -> Wrote(q, Since(rows, q.since), Len(rows) - Len(Since(rows, q.since)))
      [] q.does = "pruned"    -> RecordPruned(rows, q)
      [] q.does = "refresh"   -> RefreshWindow(rows, q)

ReadStep(rows, q) ==
    CASE q.does = "latest"   -> Answered(LatestTime(rows))
      [] q.does = "count"    -> Answered(Len(rows))
      [] q.does = "since"    -> Answered(Since(rows, q.since))
      [] q.does = "held"     -> Answered(Since(OpenRows(rows), q.since))
      [] q.does = "newest"   -> Answered(NewestRow(rows))
      [] q.does = "newestOf" -> Answered(NewestRow(Keyed(rows, q.key)))
      [] q.does = "keyed"    -> Answered(Keyed(rows, q.key))
      [] q.does = "list"     -> Answered(rows)
      [] q.does = "open"     -> Answered(OpenRows(rows))
      [] q.does = "binding"  -> Binding(rows)

FeeStateDoes == {"commit", "guarded", "standing", "exists", "generation", "load"}
LoopDoes == {"register", "incomplete", "begin", "bump", "suspend"}
WriteDoes == {"ignore", "append", "unique", "upsert", "settle", "result", "reconcile", "refusal", "replace", "sweep", "pruned", "refresh"}

Applied(q) ==
    LET rows == store[q.table]
    IN  IF q.does \in FeeStateDoes THEN FeeStateStep(rows, q)
        ELSE IF q.does \in LoopDoes THEN LoopStep(rows, q)
        ELSE IF q.does \in WriteDoes THEN WriteStep(rows, q) ELSE ReadStep(rows, q)

-----------------------------------------------------------------------------
(* A store that cannot be opened, is not in write-ahead mode or fails its     *)
(* first probe has no handle, and nobody asks it.                           *)
NoAsk == [state |-> "idle"]

StoreInit ==
    /\ asked \in StorePlans
    /\ store = [ t \in Tables |-> <<>> ]
    /\ generation = 0
    /\ mailbox = [ a \in Actors |-> <<>> ]
    /\ alive = [ a \in Actors |-> TRUE ]
    /\ asks = [ c \in StoreCallers |-> NoAsk ]
    /\ outcomes = [ c \in StoreCallers |-> <<>> ]
    /\ ran = <<>>

\* A caller decides on a request; a guarded commit expects the generation it last read.
CommandFor(c, s) ==
    LET r == StoreRequests[s.name]
        read == SelectSeq(outcomes[c], LAMBDA o : o.state = "ok" /\ o.q.does = "standing")
    IN  [does |-> r.does, table |-> r.table, actor |-> r.actor, way |-> s.way, name |-> s.name,
         key |-> s.key, at |-> s.at, since |-> s.since, seed |-> s.seed, who |-> c, n |-> Len(outcomes[c]) + 1,
         expected |-> IF read = <<>> THEN 0 ELSE (CHOOSE x \in read[Len(read)].reply : TRUE).gen]

Ended(c, state, q, reply) ==
    /\ asks' = [asks EXCEPT ![c] = NoAsk]
    /\ outcomes' = [outcomes EXCEPT ![c] = Append(@, [state |-> state, q |-> q, reply |-> reply])]

Wanted(c) == IF Len(outcomes[c]) < Len(asked[c]) THEN {asked[c][Len(outcomes[c]) + 1]} ELSE {}

\* An async or blocking method begins to send.
Call(c) ==
    /\ asks[c] = NoAsk
    /\ \E s \in Wanted(c) :
          /\ s.way \in StoreRequests[s.name].ways \ {"try"}
          /\ asks' = [asks EXCEPT ![c] = [state |-> "sending", q |-> CommandFor(c, s)]]
    /\ UNCHANGED <<asked, store, generation, mailbox, alive, outcomes, ran>>

Room(a) == Len(mailbox[a]) < QueueRoom

\* try_send: refused when the queue is full or the thread is gone, with nothing queued.
Admission(c, q) ==
    \/ /\ alive[q.actor] /\ Room(q.actor)
       /\ mailbox' = [mailbox EXCEPT ![q.actor] = Append(@, q)]
       /\ asks' = [asks EXCEPT ![c] = [state |-> "waiting", q |-> q]]
       /\ UNCHANGED outcomes
    \/ /\ ~(alive[q.actor] /\ Room(q.actor))
       /\ Ended(c, "refused", q, {}) /\ UNCHANGED mailbox

TryCall(c) ==
    /\ asks[c] = NoAsk
    /\ \E s \in Wanted(c) : s.way = "try" /\ "try" \in StoreRequests[s.name].ways /\ Admission(c, CommandFor(c, s))
    /\ UNCHANGED <<asked, store, generation, alive, ran>>

\* The sender waits for room; a queue without its thread is an error.
Enqueue(c) ==
    /\ asks[c].state = "sending"
    /\ LET q == asks[c].q
       IN  \/ /\ ~alive[q.actor]
              /\ Ended(c, "gone", q, {}) /\ UNCHANGED mailbox
           \/ /\ alive[q.actor] /\ Room(q.actor)
              /\ mailbox' = [mailbox EXCEPT ![q.actor] = Append(@, q)]
              /\ asks' = [asks EXCEPT ![c].state = "waiting"] /\ UNCHANGED outcomes
    /\ UNCHANGED <<asked, store, generation, alive, ran>>

(* The caller's bound expires (StoreReceipt::within, blocking_within, the    *)
(* timeout around an async method): a command not yet queued never runs, a   *)
(* queued one has an unknown outcome.                                      *)
GiveUp(c) ==
    /\ asks[c].state \in {"sending", "waiting"} /\ asks[c].q.way # "blocking"
    /\ Ended(c, IF asks[c].state = "sending" THEN "cancelled" ELSE "unknown", asks[c].q, {})
    /\ UNCHANGED <<asked, store, generation, mailbox, alive, ran>>

Served(a) == Head(mailbox[a])

\* One command is executed and answered; an answer nobody waits for is dropped.
Serve(a) ==
    /\ alive[a] /\ mailbox[a] # <<>>
    /\ LET q == Served(a)
           done == Applied(q)
           waited == asks[q.who].state = "waiting" /\ asks[q.who].q = q
       IN  /\ store' = [ t \in Tables |-> IF t \in DOMAIN done.tables THEN done.tables[t] ELSE store[t] ]
           /\ generation' = done.gen
           /\ ran' = Append(ran, [q |-> q, ok |-> done.ok, said |-> done.reply])
           /\ mailbox' = [mailbox EXCEPT ![a] = Tail(@)]
           /\ IF waited THEN Ended(q.who, IF done.ok THEN "ok" ELSE "error", q, {done.reply})
              ELSE UNCHANGED <<asks, outcomes>>
    /\ UNCHANGED <<asked, alive>>

Stranded(a) == { c \in StoreCallers : asks[c].state = "waiting" /\ asks[c].q.actor = a }

\* Only the actors this behaviour's requests go to are moved.
InUse(a) == \E c \in StoreCallers : \E i \in DOMAIN asked[c] : StoreRequests[asked[c][i].name].actor = a

\* The thread ends (it panicked, or the runtime shuts down): its queue is dropped, and every reply with it.
Die(a) ==
    /\ alive[a] /\ InUse(a)
    /\ alive' = [alive EXCEPT ![a] = FALSE]
    /\ mailbox' = [mailbox EXCEPT ![a] = <<>>]
    /\ asks' = [ c \in StoreCallers |-> IF c \in Stranded(a) THEN NoAsk ELSE asks[c] ]
    /\ outcomes' = [ c \in StoreCallers |-> IF c \in Stranded(a)
                        THEN Append(outcomes[c], [state |-> "dropped", q |-> asks[c].q, reply |-> {}]) ELSE outcomes[c] ]
    /\ UNCHANGED <<asked, store, generation, ran>>

\* The other program writes to its database while this one reads it (external).
ProductionWrites ==
    /\ InUse("production")
    /\ Len(store["production"]) < MaxProductionRows
    /\ store' = [store EXCEPT !["production"] = Append(@, [key |-> "x", at |-> Len(@) + 1, done |-> FALSE, halted |-> FALSE, seed |-> FALSE])]
    /\ UNCHANGED <<asked, generation, mailbox, alive, asks, outcomes, ran>>

StoreNext ==
    \/ \E c \in StoreCallers : Call(c) \/ TryCall(c) \/ Enqueue(c) \/ GiveUp(c)
    \/ \E a \in Actors : Serve(a) \/ Die(a)
    \/ ProductionWrites

StoreSpec == StoreInit /\ [][StoreNext]_storeVars

\* The threads serve their queues and a sender with room sends.
StoreProgress == (\E c \in StoreCallers : Enqueue(c)) \/ (\E a \in Actors : Serve(a))

-----------------------------------------------------------------------------
RanAs(c, n) == { i \in DOMAIN ran : ran[i].q.who = c /\ ran[i].q.n = n }

(* A command runs at most once; an answer a caller got is the answer of its   *)
(* run; and a request that was refused, found the thread gone or was          *)
(* cancelled before it was queued never runs, then or later, so repeating it  *)
(* is no duplicate (owner.rs, StoreAdmissionRefused).                        *)
RefusedNeverRuns ==
    \A c \in StoreCallers : \A n \in DOMAIN outcomes[c] :
        LET o == outcomes[c][n]
            queued == \E a \in Actors : \E i \in DOMAIN mailbox[a] : mailbox[a][i].who = c /\ mailbox[a][i].n = n
        IN  /\ Cardinality(RanAs(c, n)) + (IF queued THEN 1 ELSE 0) <= 1
            /\ o.state \in {"ok", "error"} => \E i \in RanAs(c, n) : {ran[i].said} = o.reply
            /\ o.state \in {"refused", "gone", "cancelled"} => RanAs(c, n) = {} /\ ~queued

\* A command that takes rows of other keys than its own out of its table.
Takes(q) == q.does \in {"replace", "sweep", "pruned", "refresh"}

(* What a caller wrote and had acknowledged is in what it reads later, unless *)
(* a sweep, a prune or a flow pass of another key took it in between: also    *)
(* when it gave up on a request in between (one queue per store).  The window *)
(* of a refresh holds its own sample.                                        *)
ReadsSeeOwnWrites ==
    \A c \in StoreCallers : \A n, m \in DOMAIN outcomes[c] :
        LET w == outcomes[c][n]
            r == outcomes[c][m]
            taken == \E i \in RanAs(c, n), j \in RanAs(c, m) : \E k \in (i + 1)..(j - 1) :
                        Takes(ran[k].q) /\ ran[k].q.table = w.q.table /\ ran[k].q.key # w.q.key
        IN  /\ ( /\ n < m /\ w.state = "ok" /\ w.q.does \in {"ignore", "append", "upsert"}
                 /\ r.state = "ok" /\ r.q.does = "list" /\ r.q.table = w.q.table )
                 => taken \/ \A x \in r.reply : w.q.key \in RowKeys(x)
            /\ (w.state = "ok" /\ w.q.does = "refresh" /\ w.q.since <= w.q.at) => \A x \in w.reply : w.q.key \in RowKeys(x)
            /\ \A i \in RanAs(c, n), j \in RanAs(c, m) : (n < m /\ w.q.actor = r.q.actor) => i < j

(* Of all requests to consume one arm nonce exactly one is told that it was   *)
(* new, the first that runs, also when its caller no longer waits.           *)
FirstNonceWins ==
    \A i, j \in DOMAIN ran :
        (ran[i].q.does = "ignore" /\ ran[j].q.does = "ignore" /\ ran[i].q.table = ran[j].q.table /\ ran[i].q.key = ran[j].q.key /\ i < j)
            => ran[j].said = FALSE

Committed(i) == ran[i].q.does \in {"commit", "guarded"} /\ ran[i].ok /\ ran[i].said.committed

(* A guarded commit that went through is the next generation after the one    *)
(* its caller read: nobody committed in between; and every generation has one  *)
(* commit (fee_runway.rs, commit_fee_cycle_guarded).                         *)
CommitsDoNotFork ==
    /\ \A i \in DOMAIN ran : Committed(i) /\ ran[i].q.does = "guarded" => ran[i].said.gen = ran[i].q.expected + 1
    /\ \A i, j \in DOMAIN ran : Committed(i) /\ Committed(j) /\ i < j => ran[i].said.gen < ran[j].said.gen
    /\ generation = Len(store["cycles"])

(* Only the first generation carries the provenance of an import, so a store  *)
(* that says its state derives from the import is never contradicted, nor     *)
(* was a refusal recorded after that import.                                *)
SeedDescribesFirst ==
    /\ \A i \in DOMAIN store["cycles"] : store["cycles"][i].seed => i = 1
    /\ \A i \in DOMAIN ran : ran[i].q.does = "binding" /\ ran[i].said = "bound" =>
          store["cycles"][1].seed /\ \A j \in 1..(i - 1) : (ran[j].q.does = "refusal" /\ ran[j].ok) => \E k \in j..i : Committed(k) /\ ran[k].q.seed

\* What the store's actors (owner.rs) promise their callers.
StoreIsSerial == RefusedNeverRuns /\ ReadsSeeOwnWrites /\ FirstNonceWins /\ CommitsDoNotFork /\ SeedDescribesFirst

(* Every request comes back: with a reply, or with an error once its thread   *)
(* is gone, while the thread serves its queue and a sender with room sends.   *)
(* A caller has finitely many requests, so each is over when, again and again, *)
(* none is pending.                                                         *)
EveryAskEnds == []<>(\A c \in StoreCallers : asks[c] = NoAsk)
================================================================================
