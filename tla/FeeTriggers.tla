------------------------------ MODULE FeeTriggers ------------------------------
(***************************************************************************)
(* When fee cycles run and what an out-of-cycle decision leaves behind      *)
(* (revops/fee_scheduler.rs): the flush watcher and the trigger loop that   *)
(* feed the cycle owner, the detection of policy changes, the preparation   *)
(* and decision of a new channel's first fee, and the rows a cycle commits. *)
(*                                                                         *)
(* A poll of the trigger loop is one tick: deadlines are kept as the ticks  *)
(* that remain.  0 as a marker is the empty table.                          *)
(***************************************************************************)
EXTENDS FeeRails

CONSTANTS Settle,        \* settle_secs, in polls
          StaleAfter,    \* 2 x fee_interval, in polls
          MaxFlushes,    \* bound on the writes to the fee table
          MaxWakes       \* bound on the RunCycleNow wakes

ASSUME TriggerAssumption == Settle \in Nat /\ StaleAfter \in Nat

VARIABLES marker,   \* MAX(_rowid_) of the fee table
          watcher,  \* FlushWatcher
          loop,     \* "running" or "stopped": the owner is gone
          seen      \* history: [flushes, wakes, owed, quiet, sinceReport]

triggerVars == <<marker, watcher, loop, seen>>

None == -1
\* Bound: where the silence and the history stop counting, past both deadlines.
SilentCap == Max({Settle, 2 * StaleAfter}) + 2

TriggerInit ==
    /\ marker \in {0, 1}
    /\ watcher = [known |-> FALSE, last |-> 0, silent |-> 0, deadline |-> None, report |-> None]
    /\ loop = "running"
    /\ seen = [flushes |-> 0, wakes |-> 0, owed |-> FALSE, quiet |-> 0, sinceReport |-> SilentCap]

\* One tick passes: deadlines come nearer, the silence grows.

Down(left) == IF left > 0 THEN left - 1 ELSE left
Waited == [watcher EXCEPT !.silent = Min({@ + 1, SilentCap}), !.deadline = Down(@), !.report = Down(@)]
SeenWaited == [seen EXCEPT !.quiet = Min({@ + 1, SilentCap}), !.sinceReport = Min({@ + 1, SilentCap})]

\* Any other value is an advance; a VACUUM makes the marker smaller.
Flush ==
    /\ loop = "running" /\ seen.flushes < MaxFlushes
    /\ marker' \in {0, 1, 2} \ {marker}
    /\ seen' = [seen EXCEPT !.flushes = @ + 1]
    /\ UNCHANGED <<watcher, loop>>

\* dispatch_cycle: the owner may be gone; a failed prefetch or a failed cycle skips.
Dispatch(outcome) == loop' = IF outcome = "owner_gone" THEN "stopped" ELSE "running"

Baselined ==
    /\ ~watcher.known
    /\ watcher' = [Waited EXCEPT !.known = TRUE, !.last = marker, !.silent = 0]
    /\ seen' = SeenWaited
    /\ UNCHANGED loop

Rearmed == Settle

Advanced ==
    /\ watcher.known /\ watcher.last # marker
    /\ watcher' = [Waited EXCEPT !.last = marker, !.silent = 0, !.deadline = Rearmed, !.report = None]
    /\ seen' = [SeenWaited EXCEPT !.owed = TRUE, !.quiet = 0]
    /\ UNCHANGED loop

\* Mutant: the deadline is forgotten without running the cycle.
DeadlineLost(outcome) ==
    /\ watcher' = [Waited EXCEPT !.deadline = None]
    /\ seen' = SeenWaited
    /\ UNCHANGED loop

RunCycle(outcome) ==
    /\ watcher' = [Waited EXCEPT !.deadline = None]
    /\ seen' = [SeenWaited EXCEPT !.owed = FALSE]
    /\ Dispatch(outcome)

Settled(outcome) ==
    /\ watcher.known /\ watcher.last = marker
    /\ watcher.deadline # None /\ Waited.deadline = 0
    /\ RunCycle(outcome)

ReportDue == Waited.report \in {None, 0}

StaleNoFlush ==
    /\ watcher.known /\ watcher.last = marker /\ watcher.deadline = None
    /\ Waited.silent > StaleAfter /\ ReportDue
    /\ watcher' = [Waited EXCEPT !.report = StaleAfter]
    /\ seen' = [SeenWaited EXCEPT !.sinceReport = 0]
    /\ UNCHANGED loop

IdlePoll ==
    /\ watcher.known /\ watcher.last = marker
    /\ IF watcher.deadline # None THEN Waited.deadline > 0
       ELSE ~(Waited.silent > StaleAfter /\ ReportDue)
    /\ watcher' = Waited /\ seen' = SeenWaited
    /\ UNCHANGED loop

PollOk ==
    /\ loop = "running"
    /\ \/ Baselined \/ Advanced \/ StaleNoFlush \/ IdlePoll
       \/ \E outcome \in {"sent", "skipped", "owner_gone"} : Settled(outcome)
    /\ UNCHANGED marker

\* An unreadable marker is not an advance: nothing but time passes.
PollFails ==
    /\ loop = "running"
    /\ watcher' = Waited /\ seen' = SeenWaited
    /\ UNCHANGED <<marker, loop>>

\* A wake runs a cycle of its own and leaves the watcher alone.
WakeCycle ==
    /\ loop = "running" /\ seen.wakes < MaxWakes
    /\ seen' = [seen EXCEPT !.wakes = @ + 1]
    /\ \E outcome \in {"sent", "skipped", "owner_gone"} : Dispatch(outcome)
    /\ UNCHANGED <<marker, watcher>>

TriggerNext == Flush \/ PollOk \/ PollFails \/ WakeCycle

TriggerSpec == TriggerInit /\ [][TriggerNext]_triggerVars

TriggerTypeOK ==
    /\ marker \in 0..2 /\ loop \in {"running", "stopped"}
    /\ watcher \in [known : BOOLEAN, last : 0..2, silent : 0..SilentCap,
                    deadline : None..Settle, report : None..StaleAfter]

(* A cycle triggered by a flush sees a table that has been quiet: at least    *)
(* Settle polls have passed since the last change was observed, however many *)
(* changes came in a burst (FlushWatcher::on_poll re-arms the delay).        *)
CycleSeesQuietTable ==
    [][(seen.owed /\ ~seen'.owed) => seen'.quiet >= Settle]_triggerVars

(* Every observed change of the fee table is followed by a cycle, unless the  *)
(* owner is gone: neither unreadable polls nor wakes nor further changes lose *)
(* it.  (The cycle may be skipped when its prefetch fails.)                  *)
FlushIsAnswered == []<>(~seen.owed \/ loop = "stopped")

(* The silence of the Python side is reported, but not at every poll: two     *)
(* reports are at least StaleAfter polls apart unless a change came between.  *)
ReportsAreRare ==
    [][(watcher' # watcher /\ seen'.sinceReport = 0 /\ seen.quiet >= seen.sinceReport) =>
          seen.sinceReport + 1 >= StaleAfter]_triggerVars

-----------------------------------------------------------------------------
(* resolve_new_channel: exact scid, then funding id, then the only channel    *)
(* of the peer in state NORMAL.  channels: a set of [id, full, peer].        *)
resolve_new_channel(channels, scid, chanid, peer) ==
    LET ByName(n) == IF \E c \in channels : c.id = n
                     THEN { c \in channels : c.id = n } ELSE { c \in channels : c.full = n }
        first == IF scid # "" /\ ByName(scid) # {} THEN ByName(scid)
                 ELSE IF chanid # "" THEN ByName(chanid) ELSE {}
        ofPeer == { c \in channels : c.peer = peer }
    IN  IF first # {} THEN [kind |-> "resolved", set |-> first]
        ELSE IF Cardinality(ofPeer) = 1 THEN [kind |-> "resolved", set |-> ofPeer]
        ELSE [kind |-> IF ofPeer = {} THEN "not_found" ELSE "ambiguous", set |-> {}]

\* prepare_new_channel: every failure is a refusal that reaches the owner, the
\* first one in the order of the reads.
PreparationReads == <<"listconfigs", "prefetch", "channel", "policy", "overrides">>
prepare_new_channel(failures) ==
    LET failed == { i \in DOMAIN PreparationReads : PreparationReads[i] \in failures }
    IN  IF failed = {} THEN "ready" ELSE PreparationReads[Min(failed)]

\* Mutant: the seed creates the fee row only.
SeedFeeOnly(in) ==
    IF in.prior = {} THEN [fee |-> {}, cycle |-> {}]
    ELSE [fee |-> {[seeded |-> TRUE, bcast |-> 0]}, cycle |-> in.cycle]

\* dynamic_initial_fee: the rows a prior seeds, created where missing; without a
\* prior nothing is carried over.
SeededRows(in) ==
    IF in.prior = {} THEN [fee |-> {}, cycle |-> {}]
    ELSE [fee |-> { [r EXCEPT !.seeded = TRUE] : r \in
                        IF in.fee = {} THEN {[seeded |-> FALSE, bcast |-> 0]} ELSE in.fee },
          cycle |-> IF in.cycle = {} THEN {[bcast |-> 0]} ELSE in.cycle]

\* finalize_initial_fee: a denied fee leaves the rows as they are; an authorized one
\* is clamped, announced and written into both, created where missing.
finalize_initial_fee(rows, wanted, authorized, minFee, maxFee) ==
    LET clamped == decide_set_channel_fee(wanted, {}, minFee, maxFee)
        Row(set, blank) == IF set = {} THEN {blank} ELSE set
    IN  IF ~authorized THEN [outcome |-> "denied", action |-> {}, fee |-> rows.fee, cycle |-> rows.cycle]
        ELSE [outcome |-> "would_broadcast", action |-> {clamped},
              fee   |-> { [r EXCEPT !.bcast = clamped] : r \in Row(rows.fee, [seeded |-> FALSE, bcast |-> 0]) },
              cycle |-> { [r EXCEPT !.bcast = clamped] : r \in Row(rows.cycle, [bcast |-> 0]) }]

\* in: [strategy, target (a set), prior (a set), sample, fee, cycle (sets of at most
\* one row), authorized].
decide_initial_fee(in, minFee, maxFee) ==
    IF in.strategy = "passive" THEN [outcome |-> "passive", fee |-> {}, cycle |-> {}, action |-> {}]
    ELSE IF in.strategy = "static" /\ in.target # {}
    THEN finalize_initial_fee([fee |-> in.fee, cycle |-> in.cycle], Min(in.target), in.authorized, minFee, maxFee)
    ELSE finalize_initial_fee(SeededRows(in), in.sample, in.authorized, minFee, maxFee)

(* A first decision leaves a channel with both of its records or with neither,  *)
(* so that the commit, which drops a channel that lacks one, keeps what was     *)
(* announced; and a fee is announced exactly when both records carry it         *)
(* (finalize_initial_fee, build_cycle_commit).                                *)
DecisionIsWhole(in, minFee, maxFee) ==
    LET d == decide_initial_fee(in, minFee, maxFee)
    IN  /\ (in.fee = {}) = (in.cycle = {}) => (d.fee = {}) = (d.cycle = {})
        /\ \A a \in d.action : a \in Min({minFee, AbsMaxFee})..Max({minFee, maxFee})
                               /\ (\E r \in d.fee : r.bcast = a) /\ \E r \in d.cycle : r.bcast = a
        /\ d.outcome # "would_broadcast" => d.action = {}

\* detect_policy_changes: the peers whose policy is newer than remembered; a peer
\* seen for the first time is only remembered.
detect_policy_changes(known, current) ==
    LET peers == DOMAIN current
    IN  [woken |-> { p \in peers \cap DOMAIN known : current[p] > known[p] },
         known |-> [p \in peers \cup DOMAIN known |->
                       IF p \notin peers THEN known[p]
                       ELSE IF p \notin DOMAIN known THEN current[p]
                       ELSE Max({known[p], current[p]})]]

\* The peers woken by a series of listings.
WokenBy(listings) ==
    LET acc == FoldLeft(LAMBDA a, l : LET d == detect_policy_changes(a.known, l)
                                      IN  [known |-> d.known, woken |-> Append(a.woken, d.woken)],
                        [known |-> <<>>, woken |-> <<>>], listings)
    IN  acc.woken

(* A peer is woken by a listing exactly when its policy is newer than in every   *)
(* earlier listing, and never by the first: a listing that goes back in time or  *)
(* leaves a peer out does not wake it again later (detect_policy_changes).      *)
WokenOncePerChange(listings) ==
    \A i \in DOMAIN listings : \A p \in DOMAIN listings[i] :
        LET earlier == { k \in 1..(i - 1) : p \in DOMAIN listings[k] }
        IN  (p \in WokenBy(listings)[i])
                <=> (earlier # {} /\ \A k \in earlier : listings[i][p] > listings[k][p])

\* build_cycle_commit: the rows of a cycle.  A channel without both records is left
\* out; a request takes the idempotency key of its channel's governed decision.
build_cycle_commit(cycleStates, feeStates, decisions, intents) ==
    [state    |-> cycleStates \cap feeStates,
     governor |-> { d.channel : d \in { x \in decisions : x.governed } },
     outcomes |-> { d.channel : d \in decisions },
     requests |-> { [channel |-> i, keyed |-> \E d \in decisions : d.channel = i /\ d.governed] :
                    i \in intents }]

\* refresh_autonomous_mempool_evidence and record_mempool_evidence: the window that
\* is averaged.  samples: a set of [at, rate]; sample: {} or the current rate.
MempoolWindow(samples, sample, now, width) ==
    { s \in samples : s.at >= now - width } \cup { [at |-> now, rate |-> r] : r \in sample }
mempool_average(window) ==
    IF window = {} THEN {}
    ELSE { FoldSet(LAMBDA s, sum : s.rate + sum, 0, window) \div Cardinality(window) }
================================================================================
