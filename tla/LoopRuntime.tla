----------------------------- MODULE LoopRuntime -----------------------------
(***************************************************************************)
(* One observer loop (revops/src/loop_health.rs): the bounded, coalescing  *)
(* ingress, the owner task that runs one pass at a time, the suspension on *)
(* a failed write, and the durable health row (revops-db/src/              *)
(* loop_health.rs) that survives restarts of the process.                  *)
(*                                                                         *)
(* Every step between two awaits, or under the ingress lock, is atomic.    *)
(* Any durable write may fail; a crash may come between any two steps.     *)
(***************************************************************************)
EXTENDS Naturals, Sequences, SequencesExt

CONSTANTS
  Key,            \* request keys
  Requester,      \* callers of LoopHandle::request
  MaxPendingKeys, \* MAX_PENDING_KEYS
  MaxRequests,    \* bound: requests per boot
  MaxGeneration,  \* bound: passes begun
  MaxBoot         \* bound: processes

ASSUME LoopAssumption ==
  /\ MaxPendingKeys \in Nat \ {0} /\ MaxRequests \in Nat
  /\ MaxGeneration \in Nat /\ MaxBoot \in Nat \ {0}

NoKey == "none"
ASSUME KeyAssumption == NoKey \notin Key

VARIABLES
  running, pending,  \* Ingress
  suspended,         \* the suspended flag
  permit,            \* the stored permit of the `work` Notify
  owner,             \* owner task: [at, key, gen, ok]
  req,               \* requesters: where each call is
  row,               \* the durable rust_loop_health row
  boot,              \* boot id of this process, 0 before start
  tally              \* history of this boot

loopVars == <<running, pending, suspended, permit, owner, req, row, boot, tally>>

Idle == [at |-> "idle", gen |-> 0, ok |-> TRUE]
Freshly == [accepted |-> 0, served |-> 0, abandoned |-> 0, finished |-> {}]
\* rust_loop_health
HealthRow ==
  [wired : BOOLEAN, active : BOOLEAN, generation : 0 .. MaxGeneration,
   terminal : 0 .. MaxGeneration, status : {"none", "passed", "error"},
   boot : 0 .. MaxBoot, tboot : 0 .. MaxBoot]
LoopTypeOK ==
  /\ running \in Key \union {NoKey}
  /\ pending \in Seq(Key) /\ Len(pending) <= MaxPendingKeys
  /\ suspended \in BOOLEAN /\ permit \in BOOLEAN
  /\ owner \in [at : {"idle", "check", "pop", "sleep", "wait", "begin", "pass", "terminal",
                      "clear", "mark", "ended"}, gen : 0 .. MaxGeneration, ok : BOOLEAN]
  /\ req \in [Requester -> {"idle", "notify", "record", "suspend", "clear", "mark"}]
  /\ row \in HealthRow
  /\ boot \in 0 .. MaxBoot
  /\ tally \in [accepted : Nat, served : Nat, abandoned : Nat, finished : SUBSET (0 .. MaxGeneration)]

LoopInit ==
  /\ running = NoKey /\ pending = <<>> /\ suspended = FALSE /\ permit = FALSE
  /\ owner = Idle /\ req = [r \in Requester |-> "idle"]
  /\ row = [wired |-> FALSE, active |-> TRUE, generation |-> 0, terminal |-> 0,
            status |-> "none", boot |-> 0, tboot |-> 0]
  /\ boot = 0 /\ tally = Freshly

At(p) == owner' = [owner EXCEPT !.at = p]

-----------------------------------------------------------------------------
(* The durable row.                                                        *)

\* register_loop: a ready loop is active again, whatever suspended it.
Registered(r) == [r EXCEPT !.wired = TRUE, !.active = TRUE]

\* reconcile_incomplete_on_restart; terminal_boot_id is left alone.
Reconciled(r) ==
  IF r.generation > r.terminal
    THEN [r EXCEPT !.terminal = r.generation, !.status = "error"] ELSE r

MayBegin(r) == r.wired /\ r.active

BeginPass(r) == [r EXCEPT !.generation = @ + 1, !.boot = boot]

\* terminal_update: one row changes, or the write is refused.
Terminates(r, gen) == r.generation = gen /\ r.terminal < gen
TerminalUpdate(r, gen, ok) ==
  [r EXCEPT !.terminal = gen, !.status = IF ok THEN "passed" ELSE "error", !.tboot = boot]

CurrentBootStatus(r, b) ==
  IF ~r.wired THEN "not_wired" ELSE IF ~r.active THEN "suspended"
  ELSE IF r.generation > r.terminal
    THEN IF r.boot = b THEN "incomplete" ELSE "never_run"
  ELSE IF r.tboot # b \/ r.status = "none" THEN "never_run" ELSE r.status

-----------------------------------------------------------------------------
(* Start of a process: every loop registered, the last process' open pass  *)
(* reconciled, then the owner task spawned.  A crash forgets all but row.  *)
Start ==
  /\ boot < MaxBoot /\ owner.at = "idle"
  /\ boot' = boot + 1
  /\ row' = Reconciled(Registered(row))
  /\ At("check")
  /\ tally' = Freshly
  /\ UNCHANGED <<running, pending, suspended, permit, req>>

CrashLoop ==
  /\ owner.at # "idle"
  /\ running' = NoKey /\ pending' = <<>> /\ suspended' = FALSE /\ permit' = FALSE
  /\ owner' = Idle /\ req' = [r \in Requester |-> "idle"]
  /\ UNCHANGED <<row, boot, tally>>

-----------------------------------------------------------------------------
(* LoopHandle::request                                                     *)
Coalesces(k) == running = k \/ k \in Range(pending)

\* Under the ingress lock.
Request(q, k) ==
  /\ owner.at # "idle" /\ req[q] = "idle" /\ tally.accepted < MaxRequests
  /\ IF suspended \/ Coalesces(k) \/ Len(pending) >= MaxPendingKeys
       THEN /\ req' = [req EXCEPT ![q] = "record"]
            /\ UNCHANGED <<pending, tally>>
       ELSE /\ req' = [req EXCEPT ![q] = "notify"]
            /\ pending' = Append(pending, k)
            /\ tally' = [tally EXCEPT !.accepted = @ + 1]
  /\ UNCHANGED <<running, suspended, permit, owner, row, boot>>

\* work.notify_one: wakes the waiting owner, or stores one permit.
NotifyWork(q) ==
  /\ req[q] = "notify"
  /\ req' = [req EXCEPT ![q] = "idle"]
  /\ IF owner.at = "wait" THEN At("check") /\ UNCHANGED permit
                          ELSE permit' = TRUE /\ UNCHANGED owner
  /\ UNCHANGED <<running, pending, suspended, row, boot, tally>>

\* The coalesced or dropped count is durable before the caller is told.
RecordBackpressure(q, ok) ==
  /\ req[q] = "record"
  /\ req' = [req EXCEPT ![q] = IF ok THEN "idle" ELSE "suspend"]
  /\ UNCHANGED <<running, pending, suspended, permit, owner, row, boot, tally>>

\* suspend_shared, called by a requester: first the flag ...
RequestSuspend(q) ==
  /\ req[q] = "suspend"
  /\ suspended' = TRUE
  /\ req' = [req EXCEPT ![q] = "clear"]
  /\ UNCHANGED <<running, pending, permit, owner, row, boot, tally>>

\* ... then, under the lock, the queue; notify_waiters stores no permit.
ClearIngress(extra) ==
  /\ running' = NoKey /\ pending' = <<>>
  /\ tally' = [tally EXCEPT !.abandoned = @ + Len(pending) + extra]

RequestClear(q) ==
  /\ req[q] = "clear"
  /\ req' = [req EXCEPT ![q] = "mark"]
  /\ ClearIngress(0)
  /\ IF owner.at = "wait" THEN At("check") ELSE UNCHANGED owner
  /\ UNCHANGED <<suspended, permit, row, boot>>

\* persist_suspension retries until it lands (or the store is closed).
RequestMark(q, landed) ==
  /\ req[q] = "mark"
  /\ req' = [req EXCEPT ![q] = "idle"]
  /\ row' = IF landed THEN [row EXCEPT !.active = FALSE] ELSE row
  /\ UNCHANGED <<running, pending, suspended, permit, owner, boot, tally>>

-----------------------------------------------------------------------------
(* owner_task                                                              *)
OwnerCheck ==
  /\ owner.at = "check"
  /\ At(IF suspended THEN "ended" ELSE "pop")
  /\ UNCHANGED <<running, pending, suspended, permit, req, row, boot, tally>>

OwnerPop ==
  /\ owner.at = "pop" /\ pending # <<>>
  /\ running' = Head(pending) /\ pending' = Tail(pending)
  /\ At("begin")
  /\ UNCHANGED <<suspended, permit, req, row, boot, tally>>

\* Nothing queued; the lock is dropped before the owner goes to sleep.
OwnerEmpty ==
  /\ owner.at = "pop" /\ pending = <<>>
  /\ At("sleep")
  /\ UNCHANGED <<running, pending, suspended, permit, req, row, boot, tally>>

\* work.notified().await: consume a stored permit, or wait.
OwnerSleep ==
  /\ owner.at = "sleep"
  /\ permit' = FALSE
  /\ At(IF permit THEN "check" ELSE "wait")
  /\ UNCHANGED <<running, pending, suspended, req, row, boot, tally>>

\* Mutant: the popped key is forgotten when begin fails.
BeginForgettingKey(ok) ==
  /\ owner.at = "begin"
  /\ \/ /\ ok /\ MayBegin(row) /\ row.generation < MaxGeneration
        /\ row' = BeginPass(row)
        /\ owner' = [owner EXCEPT !.at = "pass", !.gen = row.generation + 1]
        /\ UNCHANGED <<running, pending, suspended, tally>>
     \/ /\ ~ok \/ ~MayBegin(row)
        /\ suspended' = TRUE /\ ClearIngress(0) /\ At("mark")
        /\ UNCHANGED row
  /\ UNCHANGED <<permit, req, boot>>

\* begin opens a generation; a refusal or an error suspends the loop and
\* abandons the key in hand with the queue.
OwnerBegin(ok) ==
  /\ owner.at = "begin"
  /\ \/ /\ ok /\ MayBegin(row) /\ row.generation < MaxGeneration
        /\ row' = BeginPass(row)
        /\ owner' = [owner EXCEPT !.at = "pass", !.gen = row.generation + 1]
        /\ UNCHANGED <<running, pending, suspended, tally>>
     \/ /\ ~ok \/ ~MayBegin(row)
        /\ suspended' = TRUE /\ ClearIngress(1) /\ At("mark")
        /\ UNCHANGED row
  /\ UNCHANGED <<permit, req, boot>>

\* The pass runs in a child task; a panic is an error.
OwnerPass(ok) ==
  /\ owner.at = "pass"
  /\ owner' = [owner EXCEPT !.at = "terminal", !.ok = ok]
  /\ tally' = [tally EXCEPT !.served = @ + 1]
  /\ UNCHANGED <<running, pending, suspended, permit, req, row, boot>>

\* finish or fail; a refused write suspends.
OwnerTerminal(ok) ==
  /\ owner.at = "terminal"
  /\ \/ /\ ok /\ Terminates(row, owner.gen)
        /\ row' = TerminalUpdate(row, owner.gen, owner.ok)
        /\ tally' = [tally EXCEPT !.finished = @ \union {owner.gen}]
        /\ At("clear")
        /\ UNCHANGED <<running, pending, suspended>>
     \/ /\ ~ok \/ ~Terminates(row, owner.gen)
        /\ suspended' = TRUE /\ ClearIngress(0) /\ At("mark")
        /\ UNCHANGED row
  /\ UNCHANGED <<permit, req, boot>>

OwnerClear ==
  /\ owner.at = "clear"
  /\ running' = NoKey
  /\ At("check")
  /\ UNCHANGED <<pending, suspended, permit, req, row, boot, tally>>

OwnerMark(landed) ==
  /\ owner.at = "mark"
  /\ row' = IF landed THEN [row EXCEPT !.active = FALSE] ELSE row
  /\ At("check")
  /\ UNCHANGED <<running, pending, suspended, permit, req, boot, tally>>

-----------------------------------------------------------------------------
OwnerStep ==
  \/ OwnerCheck \/ OwnerPop \/ OwnerEmpty \/ OwnerSleep \/ OwnerClear
  \/ \E ok \in BOOLEAN : OwnerBegin(ok) \/ OwnerPass(ok) \/ OwnerTerminal(ok) \/ OwnerMark(ok)

RequesterStep(q) ==
  \/ NotifyWork(q) \/ RequestSuspend(q) \/ RequestClear(q)
  \/ \E ok \in BOOLEAN : RecordBackpressure(q, ok) \/ RequestMark(q, ok)

LoopNext ==
  \/ Start \/ CrashLoop \/ OwnerStep
  \/ \E q \in Requester : RequesterStep(q) \/ \E k \in Key : Request(q, k)

\* The runtime polls every ready task; a pass, a store and a caller's own
\* await are assumed to answer.  Crash, start and new requests are free.
LoopFairness ==
  /\ WF_loopVars(OwnerStep)
  /\ \A q \in Requester : WF_loopVars(RequesterStep(q))

LoopSpec == LoopInit /\ [][LoopNext]_loopVars /\ LoopFairness

-----------------------------------------------------------------------------
InHand == IF owner.at \in {"begin", "pass"} THEN 1 ELSE 0

\* Every accepted request is queued, in the owner's hand, run, or counted as
\* abandoned: suspension from either side (loop_health.rs:371) loses none and
\* counts none twice.
RequestsAccounted ==
  owner.at # "idle" =>
    tally.accepted = Len(pending) + InHand + tally.served + tally.abandoned

\* wait_idle may answer while a pass runs only once the loop is suspended:
\* the flag is raised before the ingress is cleared.
IdleIsHonest ==
  owner.at \in {"begin", "pass", "terminal"} /\ running = NoKey => suspended

\* A health surface reports a result only if this process recorded it.
VerdictIsOfThisBoot ==
  boot > 0 /\ CurrentBootStatus(row, boot) \in {"passed", "error"} =>
    row.terminal \in tally.finished

\* Once the suspension is durable no pass begins before the next process
\* registers the loop again.
NoPassAfterMarker ==
  [][~row.active /\ boot' = boot => row'.generation = row.generation]_loopVars

\* An accepted request does not sit in the queue of a live process: it is
\* taken by the owner or abandoned by a suspension.
RequestsLeaveQueue ==
  \A k \in Key : k \in Range(pending) ~> k \notin Range(pending)

\* What the health of a loop says is so (loop_health.rs): every request is
\* queued, running or finished, an idle loop has nothing to do, and a verdict
\* is of this boot.
LoopsAreHonest == LoopTypeOK /\ RequestsAccounted /\ IdleIsHonest /\ VerdictIsOfThisBoot
=============================================================================
