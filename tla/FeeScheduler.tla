---------------------------- MODULE FeeScheduler ----------------------------
(***************************************************************************)
(* The fee-cycle owner thread (CycleOwner, crates/revops/src/                *)
(* fee_scheduler.rs) in its production lifecycle, SeedOnce, and the fee      *)
(* state it commits to the observer database (crates/revops-db/src/          *)
(* fee_runway.rs).                                                           *)
(*                                                                         *)
(* The owner handles one message at a time.  Cycles and failed-forward       *)
(* nudges commit synchronously.  A new channel's initial fee is decided      *)
(* across two store calls made by threads of their own (is the event already *)
(* committed? commit it if the generation has not moved), whose results come *)
(* back as messages, in any order, with anything in between.                 *)
(*                                                                         *)
(* A channel's fee state is the set of events folded into it; {} stands for  *)
(* no state and {S} for a state that has seen the events of S.               *)
(***************************************************************************)
EXTENDS Naturals, FiniteSets

CONSTANTS
    Channels,
    Opens,        \* event keys of channels reaching NORMAL (new_channel_event_key)
    Nudges,       \* event keys of fee-relevant failed forwards
    ChannelOf,    \* the channel an event is about
    TriggerCap,   \* TRIGGER_QUEUE_CAPACITY (64 in the code)
    MaxGen        \* bound: the store refuses commits past this generation

Events == Opens \cup Nudges

ASSUME EventsAssumption ==
    /\ Opens \cap Nudges = {}
    /\ ChannelOf \in [Events -> Channels]
ASSUME BoundsAssumption == TriggerCap \in Nat /\ MaxGen \in Nat

VARIABLES
    gen,           \* rust_fee_state_generation
    committed,     \* event keys present as cycle_id in rust_fee_cycles
    row,           \* rust_fee_state
    seeded,        \* number of rust_fee_seed_events rows with outcome 'seeded'
    refusedAfter,  \* a 'seed_refused' row is newer than a 'seeded' one
    pc,            \* the owner thread: "down", "idle" or "cycle" (run_cycle is due)
    hydrated,      \* hydrated_once
    pendingSeed,   \* pending_seed is Some
    refused,       \* seed_refused
    sgen,          \* state_generation (a set of at most one)
    mem,           \* ControllerState: fee_states with their paired cycle_states
    pend,          \* pending_initial_fees (per channel, a set of at most one)
    deferred,      \* deferred_cycle and its ack are Some
    triggers,      \* keys pending in trigger_queue
    nudged,        \* applied_failure_nudges_pending
    sweeping,      \* retention_in_flight
    ops            \* store dispatch threads, until their result is handled

store == <<gen, committed, row, seeded, refusedAfter>>
boot  == <<hydrated, pendingSeed, refused>>
vars  == <<gen, committed, row, seeded, refusedAfter, pc, hydrated, pendingSeed,
           refused, sgen, mem, pend, deferred, triggers, nudged, sweeping, ops>>

State == SUBSET SUBSET Events
Keys  == {"new_channel", "failed_forward", "other"} \X Channels
Stages == {"checking", "committing"}
\* PendingInitialFee: CheckingIdempotency or Committing.
Pending == [stage : Stages, key : Opens, basis : Nat, staged : State]
\* A dispatched store call; `found` is the generation its reply reports.
Op == [stage : Stages, chan : Channels, key : Opens, basis : Nat, staged : State,
       reply : {"none", "err", "exists", "absent", "committed", "conflict"},
       found : Nat]

TypeOK ==
    /\ gen \in Nat /\ committed \subseteq Events
    /\ row \in [Channels -> State]
    /\ seeded \in Nat /\ refusedAfter \in BOOLEAN
    /\ pc \in {"down", "idle", "cycle"}
    /\ hydrated \in BOOLEAN /\ pendingSeed \in BOOLEAN /\ refused \in BOOLEAN
    /\ sgen \subseteq Nat
    /\ mem \in [Channels -> State]
    /\ pend \in [Channels -> SUBSET Pending]
    /\ deferred \in BOOLEAN
    /\ triggers \subseteq Keys /\ nudged \subseteq Channels
    /\ sweeping \in BOOLEAN
    /\ ops \subseteq Op

\* CycleOwner::new.
Fresh ==
    /\ hydrated' = FALSE /\ pendingSeed' = FALSE /\ refused' = FALSE
    /\ sgen' = {} /\ mem' = [c \in Channels |-> {}]
    /\ pend' = [c \in Channels |-> {}] /\ deferred' = FALSE
    /\ triggers' = {} /\ nudged' = {} /\ sweeping' = FALSE /\ ops' = {}

Init ==
    /\ gen = 0 /\ committed = {} /\ row = [c \in Channels |-> {}]
    /\ seeded = 0 /\ refusedAfter = FALSE
    /\ pc = "down"
    /\ hydrated = FALSE /\ pendingSeed = FALSE /\ refused = FALSE
    /\ sgen = {} /\ mem = [c \in Channels |-> {}]
    /\ pend = [c \in Channels |-> {}] /\ deferred = FALSE
    /\ triggers = {} /\ nudged = {} /\ sweeping = FALSE /\ ops = {}

Spawn ==
    /\ pc = "down"
    /\ pc' = "idle"
    /\ Fresh
    /\ UNCHANGED store

\* The process dies with its threads: calls that did not reach the store are lost.
Crash ==
    /\ pc # "down"
    /\ pc' = "down"
    /\ Fresh
    /\ UNCHANGED store

-----------------------------------------------------------------------------
(* The store *)

\* verified_seed_binding.
Binding ==
    IF gen = 0
    THEN IF seeded = 0 THEN "virgin" ELSE "invalid"
    ELSE IF seeded = 1 /\ ~refusedAfter THEN "bound" ELSE "invalid"

\* commit_fee_cycle_locked, the state part: one more generation, the given rows.
CommitRows(rows) ==
    /\ gen < MaxGen
    /\ gen' = gen + 1
    /\ row' = [c \in Channels |-> IF rows[c] # {} THEN rows[c] ELSE row[c]]

RowOf(c, s) == [d \in Channels |-> IF d = c THEN s ELSE {}]

\* Mutant: the check looks for something else than the event's own key.
StoreChecksStale(o) ==
    /\ o.stage = "checking"
    /\ o.reply = "none"
    /\ ops' = (ops \ {o}) \cup {[o EXCEPT !.reply = "absent", !.found = gen]}
    /\ UNCHANGED <<store, pc, boot, sgen, mem, pend, deferred, triggers, nudged,
                   sweeping>>

\* cycle_exists_with_generation, on its dispatch thread.
StoreChecks(o) ==
    /\ o.stage = "checking"
    /\ o.reply = "none"
    /\ \E r \in {"err", IF o.key \in committed THEN "exists" ELSE "absent"} :
          ops' = (ops \ {o}) \cup {[o EXCEPT !.reply = r, !.found = gen]}
    /\ UNCHANGED <<store, pc, boot, sgen, mem, pend, deferred, triggers, nudged,
                   sweeping>>

\* Mutant: the commit is not compared with the decision's generation.
StoreCommitsUnguarded(o) ==
    /\ o.stage = "committing"
    /\ o.reply = "none"
    /\ o.key \notin committed
    /\ CommitRows(RowOf(o.chan, o.staged))
    /\ committed' = committed \cup {o.key}
    /\ ops' = (ops \ {o}) \cup {[o EXCEPT !.reply = "committed", !.found = gen']}
    /\ UNCHANGED <<seeded, refusedAfter, pc, boot, sgen, mem, pend, deferred,
                   triggers, nudged, sweeping>>

\* commit_fee_cycle_guarded: the generation is still the decision's basis, and
\* cycle_id is a primary key.
StoreCommits(o) ==
    /\ o.stage = "committing"
    /\ o.reply = "none"
    /\ gen = o.basis
    /\ o.key \notin committed
    /\ CommitRows(RowOf(o.chan, o.staged))
    /\ committed' = committed \cup {o.key}
    /\ ops' = (ops \ {o}) \cup {[o EXCEPT !.reply = "committed", !.found = gen']}
    /\ UNCHANGED <<seeded, refusedAfter, pc, boot, sgen, mem, pend, deferred,
                   triggers, nudged, sweeping>>

\* GenerationConflict, or a store error; nothing is written.
StoreRefuses(o) ==
    /\ o.stage = "committing"
    /\ o.reply = "none"
    /\ \E r \in {"err"} \cup (IF gen # o.basis THEN {"conflict"} ELSE {}) :
          ops' = (ops \ {o}) \cup {[o EXCEPT !.reply = r, !.found = gen]}
    /\ UNCHANGED <<store, pc, boot, sgen, mem, pend, deferred, triggers, nudged,
                   sweeping>>

-----------------------------------------------------------------------------
(* TriggerQueue::offer and bootstrap_state *)

Enqueued(k)  == k \notin triggers /\ Cardinality(triggers) < TriggerCap
Coalesced(k) == k \in triggers
Offer(k)     == IF Enqueued(k) THEN triggers \cup {k} ELSE triggers

\* out_of_cycle_commit_refusal is None.
Ready == ~refused /\ hydrated /\ ~pendingSeed

NonePending(p) == \A c \in Channels : p[c] = {}

\* handle_wake_all, handle_vegas_spike_check, handle_policy_changed and
\* handle_forward_event: a queue slot and flags the next cycle reads.
OtherTrigger(c) ==
    /\ pc = "idle"
    /\ triggers' = Offer(<<"other", c>>)
    /\ UNCHANGED <<store, pc, boot, sgen, mem, pend, deferred, nudged, sweeping, ops>>

-----------------------------------------------------------------------------
(* Cycles *)

\* run_or_defer_cycle_with_ack: a newer prepared cycle supersedes a deferred one.
RunPrepared ==
    /\ pc = "idle"
    /\ IF NonePending(pend)
       THEN pc' = "cycle" /\ UNCHANGED deferred
       ELSE deferred' = TRUE /\ UNCHANGED pc
    /\ UNCHANGED <<store, boot, sgen, mem, pend, triggers, nudged, sweeping, ops>>

\* run_cycle_at: every cycle attempt drains the trigger queue.
Drain ==
    /\ pc = "cycle"
    /\ pc' = "idle"
    /\ triggers' = {}
    /\ nudged' = {}

\* The cycle ends before it touches fee state: unresolved options, evidence or
\* mempool failure, store not loadable or not verified, marker not recorded.
CycleSkipped ==
    /\ Drain
    /\ UNCHANGED <<store, boot, sgen, mem, pend, deferred, sweeping, ops>>

\* Python's rows violate seed parity; recording the refusal may fail.
CycleSeedRefused ==
    /\ Drain
    /\ ~hydrated /\ ~refused /\ gen = 0
    /\ refused' = TRUE
    /\ refusedAfter' \in {refusedAfter, refusedAfter \/ seeded > 0}
    /\ UNCHANGED <<gen, committed, row, seeded, hydrated, pendingSeed, sgen, mem,
                   pend, deferred, sweeping, ops>>

\* What fee state the cycle starts from, and whether its commit must carry the
\* seed: the owner's memory, or (seed_once_hydrate) the stored generation, or
\* Python's rows on a virgin store.
Hydration(m, seed) ==
    \/ /\ hydrated
       /\ m = mem /\ seed = pendingSeed
    \/ /\ ~hydrated /\ ~refused
       /\ gen > 0 /\ Binding = "bound"
       /\ \E c \in Channels : row[c] # {}
       /\ m = row /\ seed = FALSE
    \/ /\ ~hydrated /\ ~refused
       /\ gen = 0 /\ \A c \in Channels : row[c] = {}
       /\ m \in [Channels -> {{}, {{}}}] /\ seed = TRUE

\* run_fee_cycle: state appears for channels that had none.
Evolved(m) == {n \in [Channels -> {{}, {{}}} \cup {m[c] : c \in Channels}] :
                  \A c \in Channels : m[c] # {} => n[c] = m[c]}

\* The decision inputs failed, or the commit did: memory keeps the evolution.
CycleUncommitted ==
    /\ Drain
    /\ \E seed \in BOOLEAN, m \in [Channels -> {{}, {{}}}] \cup {mem, row} :
          /\ Hydration(m, seed)
          /\ mem' \in Evolved(m)
          /\ pendingSeed' = seed
    /\ hydrated' = TRUE
    /\ sgen' = IF hydrated THEN sgen ELSE {gen}
    /\ UNCHANGED <<store, refused, pend, deferred, sweeping, ops>>

\* insert_successful_seed_locked: the seed binds generation 1 or the commit fails.
SeedBinds(seed) == seed => gen = 0

\* The cycle committed: the generation advances with all rows, the seed binds to
\* generation 1, and a retention sweep is launched unless one is in flight.
CycleCommitted ==
    /\ Drain
    /\ \E seed \in BOOLEAN, m \in [Channels -> {{}, {{}}}] \cup {mem, row} :
          /\ Hydration(m, seed)
          /\ mem' \in Evolved(m)
          /\ SeedBinds(seed)
          /\ seeded' = IF seed THEN seeded + 1 ELSE seeded
    /\ CommitRows(mem')
    /\ hydrated' = TRUE /\ pendingSeed' = FALSE
    /\ sgen' = {gen'}
    /\ sweeping' \in {sweeping, TRUE}
    /\ UNCHANGED <<committed, refusedAfter, refused, pend, deferred, ops>>

-----------------------------------------------------------------------------
(* Failed forwards *)

\* Dropped, refused, coalesced with an applied nudge, duplicate, skipped by
\* stage_failure_nudge, or a store error.
FailedForwardNoNudge(e) ==
    /\ pc = "idle"
    /\ triggers' = Offer(<<"failed_forward", ChannelOf[e]>>)
    /\ UNCHANGED <<store, pc, boot, sgen, mem, pend, deferred, nudged, sweeping, ops>>

\* The nudge and its receipt commit atomically, then memory takes them.
FailedForwardNudged(e) ==
    LET c == ChannelOf[e]
        k == <<"failed_forward", c>>
        nudge == {s \cup {e} : s \in mem[c]}
    IN  /\ pc = "idle"
        /\ Enqueued(k) \/ Coalesced(k)
        /\ Ready
        /\ ~(Coalesced(k) /\ c \in nudged)
        /\ e \notin committed
        /\ mem[c] # {}
        /\ CommitRows(RowOf(c, nudge))
        /\ committed' = committed \cup {e}
        /\ triggers' = Offer(k)
        /\ mem' = [mem EXCEPT ![c] = nudge]
        /\ nudged' = nudged \cup {c}
        /\ sgen' = {gen'}
        /\ UNCHANGED <<seeded, refusedAfter, pc, boot, pend, deferred, sweeping, ops>>

-----------------------------------------------------------------------------
(* New channels *)

\* Dropped or coalesced, bootstrap incomplete, already in flight, or the dispatch
\* thread did not start (the refusal is handled inline).
NewChannelRefused(e) ==
    /\ pc = "idle"
    /\ triggers' = Offer(<<"new_channel", ChannelOf[e]>>)
    /\ UNCHANGED <<store, pc, boot, sgen, mem, pend, deferred, nudged, sweeping, ops>>

\* handle_new_channel: the idempotency check goes out.
NewChannel(e) ==
    LET c == ChannelOf[e]
        k == <<"new_channel", c>>
        p == [stage |-> "checking", key |-> e, basis |-> 0, staged |-> {}]
    IN  /\ pc = "idle"
        /\ Enqueued(k)
        /\ Ready
        /\ pend[c] = {}
        /\ triggers' = triggers \cup {k}
        /\ pend' = [pend EXCEPT ![c] = {p}]
        /\ ops' = ops \cup {[stage |-> "checking", chan |-> c, key |-> e, basis |-> 0,
                            staged |-> {}, reply |-> "none", found |-> 0]}
        /\ UNCHANGED <<store, pc, boot, sgen, mem, deferred, nudged, sweeping>>

\* The result's channel, event key and phase match the pending occurrence.
Awaited(o) ==
    \E p \in pend[o.chan] : p.stage = o.stage /\ p.key = o.key

\* Mutant: a deferred cycle waits for the next prepared one.
ResumeLater(p) == UNCHANGED <<pc, deferred>>

\* handle_initial_fee_store_result, tail: a deferred cycle runs when nothing is
\* pending any more.
Resume(p) ==
    IF deferred /\ NonePending(p)
    THEN pc' = "cycle" /\ deferred' = FALSE
    ELSE UNCHANGED <<pc, deferred>>

\* handle_idempotency_result: a duplicate or a failed check, or (decided) the
\* commit thread did not start.
InitialFeeEnds(o) ==
    /\ pc = "idle"
    /\ o.stage = "checking" /\ o.reply \in {"exists", "absent", "err"}
    /\ Awaited(o)
    /\ ops' = ops \ {o}
    /\ pend' = [pend EXCEPT ![o.chan] = {}]
    /\ Resume(pend')
    /\ UNCHANGED <<store, boot, sgen, mem, triggers, nudged, sweeping>>

\* decide_and_dispatch_commit: the decision builds on the owner's memory and its
\* tracked generation.  PASSIVE stages no state, a denied decision the old one.
InitialFeeDecided(o) ==
    LET c == o.chan
        old == IF mem[c] = {} THEN {{}} ELSE mem[c]
    IN  /\ pc = "idle"
        /\ o.stage = "checking" /\ o.reply = "absent"
        /\ Awaited(o)
        /\ \E b \in sgen, st \in {{}, mem[c], {s \cup {o.key} : s \in old}} :
              /\ pend' = [pend EXCEPT ![c] =
                     {[stage |-> "committing", key |-> o.key, basis |-> b,
                       staged |-> st]}]
              /\ ops' = (ops \ {o}) \cup
                     {[stage |-> "committing", chan |-> c, key |-> o.key,
                       basis |-> b, staged |-> st, reply |-> "none", found |-> 0]}
        /\ UNCHANGED <<store, pc, boot, sgen, mem, deferred, triggers, nudged, sweeping>>

\* F7 install rule: the owner is still at the decision's basis and the commit is
\* the very next generation.
Installable(o, p) ==
    /\ o.reply = "committed"
    /\ sgen = {p.basis}
    /\ o.found = p.basis + 1

\* handle_commit_result.
InitialFeeResult(o) ==
    LET c == o.chan
    IN  /\ pc = "idle"
        /\ o.stage = "committing" /\ o.reply # "none"
        /\ Awaited(o)
        /\ \E p \in pend[c] :
              /\ mem' = IF Installable(o, p) /\ p.staged # {}
                        THEN [mem EXCEPT ![c] = p.staged] ELSE mem
              /\ sgen' = CASE Installable(o, p) -> {o.found}
                           [] o.reply = "conflict" -> {o.found}
                           [] o.reply = "committed" /\ ~Installable(o, p) ->
                                 {IF g < o.found THEN o.found ELSE g : g \in sgen}
                           [] OTHER -> sgen
        /\ ops' = ops \ {o}
        /\ pend' = [pend EXCEPT ![c] = {}]
        /\ Resume(pend')
        /\ UNCHANGED <<store, boot, triggers, nudged, sweeping>>

\* The retention sweep's report comes back.
RetentionResult ==
    /\ pc = "idle"
    /\ sweeping
    /\ sweeping' = FALSE
    /\ Resume(pend)
    /\ UNCHANGED <<store, boot, sgen, mem, pend, triggers, nudged, ops>>

-----------------------------------------------------------------------------

StoreStep == \E o \in ops : StoreChecks(o) \/ StoreCommits(o) \/ StoreRefuses(o)

Cycle == CycleSkipped \/ CycleSeedRefused \/ CycleUncommitted \/ CycleCommitted

ResultStep ==
    \/ RetentionResult
    \/ \E o \in ops : InitialFeeEnds(o) \/ InitialFeeDecided(o) \/ InitialFeeResult(o)

Next ==
    \/ Spawn \/ Crash \/ RunPrepared \/ Cycle \/ StoreStep \/ ResultStep
    \/ \E c \in Channels : OtherTrigger(c)
    \/ \E e \in Nudges : FailedForwardNoNudge(e) \/ FailedForwardNudged(e)
    \/ \E e \in Opens : NewChannelRefused(e) \/ NewChannel(e)

Spec == Init /\ [][Next]_vars

\* The store actor serves its queue, and the owner thread receives in FIFO order,
\* so a dispatched result is handled and a due cycle is run.
FairSpec == Spec /\ WF_vars(StoreStep) /\ WF_vars(ResultStep) /\ WF_vars(Cycle)

-----------------------------------------------------------------------------
(* Properties *)

\* The store this code writes never fails its own provenance check: no path
\* (refusal, failed commit, restart, out-of-cycle commit) leaves a generation
\* without exactly one seed, bound first.
SeedBindingNeverInvalid == Binding # "invalid"

\* The F5 identity check never has to discard: every dispatched store call is
\* awaited by exactly one pending entry, and every pending entry has its call.
EveryResultIsAwaited ==
    /\ \A o \in ops : Awaited(o)
    /\ \A c \in Channels : \A p \in pend[c] :
          \E o \in ops : o.chan = c /\ o.key = p.key /\ o.stage = p.stage
    /\ \A o1, o2 \in ops : o1.chan = o2.chan => o1 = o2

\* A deferred cycle always has a pending store result that will resume it.
DeferredNeverStranded == deferred => ops # {}

\* decide_and_dispatch_commit never decides an event that is already committed,
\* although the idempotency answer is old when it is used.
DecidesOnce ==
    \A o \in ops : o.stage = "committing" /\ o.reply = "none" => o.key \notin committed

\* A nudge that was committed with its receipt is never lost from the stored fee
\* state by a later commit.
NudgesNeverLost ==
    [][\A c \in Channels : (UNION row[c]) \cap Nudges \subseteq UNION row'[c]]_vars

\* A deferred cycle eventually runs (or the process ends).
DeferredCycleRuns == deferred ~> (pc # "idle")

\* What holds between the owner's memory, its pending calls and the store
\* (CycleOwner): the store's provenance stays valid, every dispatched call has
\* its entry, a deferred cycle has a call that resumes it, and no event is
\* decided again once it is committed.
OwnerAndStoreAgree ==
    TypeOK /\ SeedBindingNeverInvalid /\ EveryResultIsAwaited /\ DeferredNeverStranded /\ DecidesOnce
=============================================================================
