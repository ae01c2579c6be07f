---------------------------- MODULE FeeBroadcast ----------------------------
(***************************************************************************)
(* The guarded live broadcaster: the one component that may send a          *)
(* setchannel call (crates/revops/src/fee_execution.rs), together with the  *)
(* rows it keeps in the Rust-owned observer database                        *)
(* (crates/revops-db/src/fee_runway.rs) and the single-owner actor every     *)
(* store call goes through (crates/revops-db/src/owner.rs).                 *)
(*                                                                         *)
(* The store is reached through a bounded FIFO queue.  A caller waits for   *)
(* each reply with a budget; a caller that gives up cannot cancel a command *)
(* that was already enqueued, so its write may still land later.  A crash   *)
(* loses the queue and everything in memory and keeps the database rows.    *)
(***************************************************************************)
EXTENDS Naturals, Sequences, FiniteSets

CONSTANTS
    Callers,     \* concurrent callers of broadcast_batch (it takes &self)
    Requests,    \* request_ids; rust_broadcast_attempts has UNIQUE(request_id)
    Batches,     \* the request slices a caller may submit
    QueueCap     \* capacity of the owner's command channel (64 in the code)

ASSUME BatchesAssumption == Batches \subseteq Seq(Requests)
ASSUME QueueCapAssumption == QueueCap \in Nat \ {0}

Definite == {"success", "rejected", "clean_failure"}
Outcomes == Definite \cup {"ambiguous"}

VARIABLES
    attempts,    \* rust_broadcast_attempts: "none" = no row, "null" = intent only
    quarantine,  \* a rust_execution_quarantine row with cleared_at IS NULL exists
    acked,       \* requests whose unresolved outcome the operator settled by clearing
    proc,        \* "down", "starting" (before the broadcaster exists), "live"
    poisoned,    \* ClnFeeBroadcaster.poisoned
    queue,       \* commands admitted by the owner actor and not yet executed
    pc,          \* where each caller is inside broadcast_batch
    batch,       \* the requests a caller has still to attempt, current one first
    out,         \* SendOutcome of the current request
    enq,         \* the awaited store command has been enqueued
    reply,       \* reply of the awaited store command
    wire         \* history: how often attempt_send ran for a request

db   == <<attempts, quarantine, acked>>
call == <<pc, batch, out, enq, reply>>
vars == <<attempts, quarantine, acked, proc, poisoned, queue,
          pc, batch, out, enq, reply, wire>>

\* A command: its kind, the request it is about, the outcome it writes and the
\* caller still waiting for it (a singleton, or {} once the caller gave up).
Command == [op : {"insert_intent", "record_result", "insert_quarantine",
                  "active_quarantine", "other"},
            req : Requests \cup {"-"},
            outcome : Outcomes \cup {"-"},
            waiter : SUBSET Callers]

Waits == {"q_read", "intent", "record", "quar_amb", "quar_unk"}
PCs   == Waits \cup {"idle", "authorized", "loop", "send"}

TypeOK ==
    /\ attempts \in [Requests -> {"none", "null"} \cup Outcomes]
    /\ quarantine \in BOOLEAN
    /\ acked \subseteq Requests
    /\ proc \in {"down", "starting", "live"}
    /\ poisoned \in BOOLEAN
    /\ queue \in Seq(Command)
    /\ pc \in [Callers -> PCs]
    /\ batch \in [Callers -> Seq(Requests)]
    /\ out \in [Callers -> Outcomes \cup {"-"}]
    /\ enq \in [Callers -> BOOLEAN]
    /\ reply \in [Callers -> {"none", "ok", "active", "err"}]
    /\ wire \in [Requests -> Nat]

Init ==
    /\ attempts = [r \in Requests |-> "none"]
    /\ quarantine = FALSE
    /\ acked = {}
    /\ proc = "down"
    /\ poisoned = FALSE
    /\ queue = <<>>
    /\ pc = [c \in Callers |-> "idle"]
    /\ batch = [c \in Callers |-> <<>>]
    /\ out = [c \in Callers |-> "-"]
    /\ enq = [c \in Callers |-> FALSE]
    /\ reply = [c \in Callers |-> "none"]
    /\ wire = [r \in Requests |-> 0]

-----------------------------------------------------------------------------
(* Process life cycle *)

\* Mutants (never used by Next) stand before the definition they replace.

\* Mutant: the orphaned intents are marked but no quarantine is inserted.
reconcile_without_quarantine ==
    /\ attempts' = [r \in Requests |-> IF attempts[r] = "null" THEN "ambiguous"
                                                              ELSE attempts[r]]
    /\ UNCHANGED quarantine

\* Mutant: reconciliation marks every row, the resolved ones too.
reconcile_every_row ==
    /\ attempts' = [r \in Requests |-> IF attempts[r] # "none" THEN "ambiguous"
                                                              ELSE "none"]
    /\ quarantine' = (quarantine \/ \E r \in Requests : attempts[r] = "null")

\* restart reconciliation: every intent without a result becomes ambiguous, and
\* a quarantine is inserted unless one is already active (one transaction).
reconcile_quarantine_on_restart ==
    LET orphaned == {r \in Requests : attempts[r] = "null"}
    IN  /\ attempts' = [r \in Requests |-> IF r \in orphaned THEN "ambiguous"
                                                              ELSE attempts[r]]
        /\ quarantine' = (quarantine \/ orphaned # {})

\* The plugin starts in live mode: an arm was consumed, no broadcaster yet.
Start ==
    /\ proc = "down"
    /\ proc' = "starting"
    /\ UNCHANGED <<db, poisoned, queue, call, wire>>

\* ClnFeeBroadcaster::new: reconciliation first, then the broadcaster exists.
New ==
    /\ proc = "starting"
    /\ reconcile_quarantine_on_restart
    /\ proc' = "live"
    /\ poisoned' = FALSE
    /\ UNCHANGED <<acked, queue, call, wire>>

\* The reconciliation transaction fails and rolls back: construction is refused
\* and the plugin disables itself; only a restart brings it back.
NewRefused ==
    /\ proc = "starting"
    /\ proc' = "down"
    /\ UNCHANGED <<db, poisoned, queue, call, wire>>

\* The process dies at any point: memory and the owner's queue are gone.
Crash ==
    /\ proc # "down"
    /\ proc' = "down"
    /\ poisoned' = FALSE
    /\ queue' = <<>>
    /\ pc' = [c \in Callers |-> "idle"]
    /\ batch' = [c \in Callers |-> <<>>]
    /\ out' = [c \in Callers |-> "-"]
    /\ enq' = [c \in Callers |-> FALSE]
    /\ reply' = [c \in Callers |-> "none"]
    /\ UNCHANGED <<db, wire>>

\* The operator settles the unresolved attempts by hand and clears the
\* quarantine in the database; no code path of the plugin does.
OperatorClear ==
    /\ quarantine
    /\ quarantine' = FALSE
    /\ acked' = acked \cup {r \in Requests : attempts[r] \in {"null", "ambiguous"}}
    /\ UNCHANGED <<attempts, proc, poisoned, queue, call, wire>>

-----------------------------------------------------------------------------
(* The owner actor *)

\* Any other user of the handle (cycle commits, analytics) takes a queue slot.
OtherCommand ==
    /\ proc = "live"
    /\ Len(queue) < QueueCap
    /\ queue' = Append(queue, [op |-> "other", req |-> "-", outcome |-> "-",
                               waiter |-> {}])
    /\ UNCHANGED <<db, proc, poisoned, call, wire>>

\* The statement a command runs, when it succeeds.
Execute(cmd) ==
    CASE cmd.op = "insert_intent" ->
            /\ attempts' = [attempts EXCEPT ![cmd.req] = "null"]
            /\ UNCHANGED quarantine
      [] cmd.op = "record_result" ->
            /\ attempts' = [attempts EXCEPT ![cmd.req] = cmd.outcome]
            /\ UNCHANGED quarantine
      [] cmd.op = "insert_quarantine" ->
            /\ quarantine' = TRUE
            /\ UNCHANGED attempts
      [] OTHER -> UNCHANGED <<attempts, quarantine>>

\* Mutant: the attempts table has no UNIQUE(request_id).
ExecutableAlways(cmd) == TRUE

\* UNIQUE(request_id): the intent of a request that has a row is refused.
Executable(cmd) == cmd.op = "insert_intent" => attempts[cmd.req] = "none"

Answer(cmd, value) ==
    reply' = [c \in Callers |-> IF c \in cmd.waiter THEN value ELSE reply[c]]

\* The actor runs the oldest command and answers whoever still waits.
ActorExecute ==
    /\ queue # <<>>
    /\ Executable(Head(queue))
    /\ Execute(Head(queue))
    /\ Answer(Head(queue), IF Head(queue).op = "active_quarantine" /\ quarantine
                           THEN "active" ELSE "ok")
    /\ queue' = Tail(queue)
    /\ UNCHANGED <<acked, proc, poisoned, pc, batch, out, enq, wire>>

\* The statement fails (a full or locked database, or the UNIQUE constraint).
ActorFail ==
    /\ queue # <<>>
    /\ Answer(Head(queue), "err")
    /\ queue' = Tail(queue)
    /\ UNCHANGED <<db, proc, poisoned, pc, batch, out, enq, wire>>

-----------------------------------------------------------------------------
(* broadcast_batch *)

Current(c) == Head(batch[c])

\* The command a waiting caller submits.
CommandOf(c) ==
    CASE pc[c] = "q_read" ->
            [op |-> "active_quarantine", req |-> "-", outcome |-> "-", waiter |-> {c}]
      [] pc[c] = "record" ->
            [op |-> "record_result", req |-> Current(c), outcome |-> out[c],
             waiter |-> {c}]
      [] OTHER ->
            [op |-> "insert_quarantine", req |-> "-", outcome |-> "-", waiter |-> {c}]

\* Move caller c to the start of a store call (not enqueued, no reply yet).
Await(c, p) ==
    /\ pc' = [pc EXCEPT ![c] = p]
    /\ enq' = [enq EXCEPT ![c] = FALSE]
    /\ reply' = [reply EXCEPT ![c] = "none"]

\* broadcast_batch returns, successfully or with an error.
Return(c) ==
    /\ Await(c, "idle")
    /\ batch' = [batch EXCEPT ![c] = <<>>]
    /\ out' = [out EXCEPT ![c] = "-"]

\* LiveBatchAuthorization::authorize granted this caller a single-use
\* authorization (it read no active quarantine; module FeeAuthorization).
Authorize(c) ==
    /\ proc = "live"
    /\ pc[c] = "idle"
    /\ ~quarantine
    /\ Await(c, "authorized")
    /\ UNCHANGED <<db, proc, poisoned, queue, batch, out, wire>>

\* Entry of broadcast_batch: a poisoned broadcaster refuses.
RefusePoisoned(c) ==
    /\ pc[c] = "authorized"
    /\ poisoned
    /\ Return(c)
    /\ UNCHANGED <<db, proc, poisoned, queue, wire>>

\* The authorization is older than AUTHORIZATION_DISPATCH_FRESHNESS.
RefuseStale(c) ==
    /\ pc[c] = "authorized"
    /\ ~poisoned
    /\ Return(c)
    /\ UNCHANGED <<db, proc, poisoned, queue, wire>>

\* Neither: begin the send-path quarantine read.
Dispatch(c) ==
    /\ pc[c] = "authorized"
    /\ ~poisoned
    /\ \E b \in Batches : batch' = [batch EXCEPT ![c] = b]
    /\ Await(c, "q_read")
    /\ UNCHANGED <<db, proc, poisoned, queue, out, wire>>

\* A budgeted store call reaches the queue; it waits while the queue is full.
Submit(c) ==
    /\ pc[c] \in Waits
    /\ ~enq[c]
    /\ Len(queue) < QueueCap
    /\ queue' = Append(queue, CommandOf(c))
    /\ enq' = [enq EXCEPT ![c] = TRUE]
    /\ UNCHANGED <<db, proc, poisoned, pc, batch, out, reply, wire>>

\* The caller stops waiting; commands it enqueued stay and may still land.
Abandon(c) ==
    queue' = [i \in DOMAIN queue |->
                [queue[i] EXCEPT !.waiter = queue[i].waiter \ {c}]]

\* Mutant: the store calls are awaited without a budget.
FailedUnbudgeted(c) == reply[c] = "err" /\ UNCHANGED queue

\* The awaited call failed: an error reply, or the budget ran out.
Failed(c) ==
    \/ reply[c] = "err" /\ UNCHANGED queue
    \/ reply[c] = "none" /\ Abandon(c)

QuarantineRead(c) ==
    /\ pc[c] = "q_read"
    /\ \/ /\ reply[c] = "ok"
          /\ Await(c, "loop")
          /\ UNCHANGED <<queue, batch, out>>
       \/ /\ reply[c] = "active"
          /\ Return(c)
          /\ UNCHANGED queue
       \/ /\ Failed(c)
          /\ Return(c)
    /\ UNCHANGED <<db, proc, poisoned, wire>>

\* Every request was attempted.
BatchDone(c) ==
    /\ pc[c] = "loop"
    /\ batch[c] = <<>>
    /\ Return(c)
    /\ UNCHANGED <<db, proc, poisoned, queue, wire>>

\* try_insert_broadcast_attempt: admitted at once, or refused without a trace.
AdmitIntent(c) ==
    /\ pc[c] = "loop"
    /\ batch[c] # <<>>
    /\ Len(queue) < QueueCap
    /\ queue' = Append(queue, [op |-> "insert_intent", req |-> Current(c),
                               outcome |-> "-", waiter |-> {c}])
    /\ pc' = [pc EXCEPT ![c] = "intent"]
    /\ enq' = [enq EXCEPT ![c] = TRUE]
    /\ UNCHANGED <<db, proc, poisoned, batch, out, reply, wire>>

AdmissionRefused(c) ==
    /\ pc[c] = "loop"
    /\ batch[c] # <<>>
    /\ Len(queue) >= QueueCap
    /\ Return(c)
    /\ UNCHANGED <<db, proc, poisoned, queue, wire>>

\* The intent row is durable: the socket may be written.
IntentPersisted(c) ==
    /\ pc[c] = "intent"
    /\ reply[c] = "ok"
    /\ Await(c, "send")
    /\ UNCHANGED <<db, proc, poisoned, queue, batch, out, wire>>

IntentRejected(c) ==
    /\ pc[c] = "intent"
    /\ reply[c] = "err"
    /\ Return(c)
    /\ UNCHANGED <<db, proc, poisoned, queue, wire>>

\* OutcomeUnknown: poison first, then try to quarantine.
IntentUnknown(c) ==
    /\ pc[c] = "intent"
    /\ reply[c] = "none"
    /\ Abandon(c)
    /\ poisoned' = TRUE
    /\ Await(c, "quar_unk")
    /\ UNCHANGED <<db, proc, batch, out, wire>>

\* attempt_send and the arm its outcome selects: an ambiguous outcome is
\* quarantined before its result is recorded, any other is recorded.
AttemptSend(c) ==
    /\ pc[c] = "send"
    /\ wire' = [wire EXCEPT ![Current(c)] = @ + 1]
    /\ \E o \in Outcomes :
          /\ out' = [out EXCEPT ![c] = o]
          /\ Await(c, IF o = "ambiguous" THEN "quar_amb" ELSE "record")
    /\ UNCHANGED <<db, proc, poisoned, queue, batch>>

\* Mutant: the batch goes on to the next request whatever the outcome was.
ResultRecordedContinues(c) ==
    /\ pc[c] = "record"
    /\ reply[c] = "ok"
    /\ batch' = [batch EXCEPT ![c] = Tail(@)]
    /\ out' = [out EXCEPT ![c] = "-"]
    /\ Await(c, "loop")
    /\ UNCHANGED <<db, proc, poisoned, queue, wire>>

\* The terminal result is durable: a success goes on to the next request, any
\* other outcome ends the batch.
ResultRecorded(c) ==
    /\ pc[c] = "record"
    /\ reply[c] = "ok"
    /\ IF out[c] = "success"
       THEN /\ batch' = [batch EXCEPT ![c] = Tail(@)]
            /\ out' = [out EXCEPT ![c] = "-"]
            /\ Await(c, "loop")
       ELSE Return(c)
    /\ UNCHANGED <<db, proc, poisoned, queue, wire>>

\* The result write failed or did not answer: poison, then quarantine unless the
\* ambiguous arm already did (result_persistence_unknown).
ResultUnknown(c) ==
    /\ pc[c] = "record"
    /\ Failed(c)
    /\ poisoned' = TRUE
    /\ IF out[c] = "ambiguous"
       THEN Return(c)
       ELSE Await(c, "quar_unk") /\ UNCHANGED <<batch, out>>
    /\ UNCHANGED <<db, proc, wire>>

\* The quarantine of an ambiguous outcome landed: now record the result.
AmbiguousQuarantined(c) ==
    /\ pc[c] = "quar_amb"
    /\ reply[c] = "ok"
    /\ Await(c, "record")
    /\ UNCHANGED <<db, proc, poisoned, queue, batch, out, wire>>

\* It did not: poison and leave the intent without a result.
AmbiguousUnquarantined(c) ==
    /\ pc[c] = "quar_amb"
    /\ Failed(c)
    /\ poisoned' = TRUE
    /\ Return(c)
    /\ UNCHANGED <<db, proc, wire>>

\* The quarantine attempted after a poisoning: its outcome changes nothing.
PoisonedQuarantine(c) ==
    /\ pc[c] = "quar_unk"
    /\ \/ reply[c] = "ok" /\ UNCHANGED queue
       \/ Failed(c)
    /\ Return(c)
    /\ UNCHANGED <<db, proc, poisoned, wire>>

-----------------------------------------------------------------------------

Actor == ActorExecute \/ ActorFail

CallerStep(c) ==
    \/ RefusePoisoned(c) \/ RefuseStale(c) \/ Dispatch(c)
    \/ Submit(c) \/ QuarantineRead(c)
    \/ BatchDone(c) \/ AdmitIntent(c) \/ AdmissionRefused(c)
    \/ IntentPersisted(c) \/ IntentRejected(c) \/ IntentUnknown(c)
    \/ AttemptSend(c) \/ ResultRecorded(c) \/ ResultUnknown(c)
    \/ AmbiguousQuarantined(c) \/ AmbiguousUnquarantined(c)
    \/ PoisonedQuarantine(c)

Next ==
    \/ Start \/ New \/ NewRefused \/ Crash \/ OperatorClear
    \/ OtherCommand \/ Actor
    \/ \E c \in Callers : Authorize(c) \/ CallerStep(c)

Spec == Init /\ [][Next]_vars

\* Every wait of broadcast_batch is budgeted (tokio::time::timeout), so a caller
\* that can take a step eventually takes one; the actor thread drains its queue.
FairSpec == Spec /\ WF_vars(Actor) /\ \A c \in Callers : WF_vars(CallerStep(c))

-----------------------------------------------------------------------------
(* Properties *)

\* Requests with an intent whose outcome is neither durably definite nor settled
\* by the operator.
Unresolved == {r \in Requests : attempts[r] \in {"null", "ambiguous"}} \ acked

\* "sends zero calls while quarantined": no caller stands at the socket write
\* (attempt_send) while a quarantine row is active.
ZeroCallsWhileQuarantined ==
    \A c \in Callers : pc[c] = "send" => ~quarantine

\* attempt_send never runs over an unresolved earlier attempt, whether that
\* attempt was left by this process, by a crashed one, or landed late.
NoSendOverUnresolved ==
    \A c \in Callers : pc[c] = "send" => Unresolved = {Current(c)}

\* A request_id reaches the socket at most once, across retries, late intent
\* writes, crashes and restarts.
AtMostOnce == \A r \in Requests : wire[r] <= 1

\* Whatever reached the socket has its intent row (the audit trail is never
\* behind the wire).
SendsAreAudited == \A r \in Requests : wire[r] > 0 => attempts[r] # "none"

\* Each caller leaves at most one unresolved attempt behind, however many batches
\* it submits: an unknown outcome stops further batches until it is settled.
UnresolvedBounded == Cardinality(Unresolved) <= Cardinality(Callers)

\* A recorded outcome is final: record_broadcast_attempt_result has no guard on
\* the current outcome, yet neither a late write nor reconciliation replaces one.
ResultsAreFinal ==
    [][\A r \in Requests : attempts[r] \in Outcomes => attempts'[r] = attempts[r]]_vars

\* broadcast_batch always returns: a wedged store, a full queue or a silent
\* lightningd cannot keep it waiting.
BatchTerminates ==
    \A c \in Callers : pc[c] \notin {"idle", "authorized"} ~> pc[c] = "idle"

\* The broadcaster implements the abstract gate.
Gate == INSTANCE ExecutionGate
            WITH open <- Unresolved, sent <- {r \in Requests : wire[r] > 0}
GateSpec == Gate!GateSpec

\* What holds of the broadcaster in every state (broadcast_batch and the store
\* actor behind it): nothing is sent in a quarantine or over an unresolved
\* attempt, what was sent has its audit row, and few attempts are ever open.
SendsAreSafe ==
    TypeOK /\ ZeroCallsWhileQuarantined /\ NoSendOverUnresolved /\ SendsAreAudited /\ UnresolvedBounded
=============================================================================
