----------------------------- MODULE FeeDecision -----------------------------
(***************************************************************************)
(* The fee decision of one channel over many cycles (revops-fees/cycle.rs: *)
(* run_fee_cycle, process_channel, adjust_channel_fee, static_policy_      *)
(* branch, the gossip refresh, wake_all_sleeping_channels and              *)
(* handle_policy_change).  The state the code keeps for a channel is       *)
(* spread over two records, the cycle state and the fee state, that every  *)
(* path has to keep in step.                                               *)
(*                                                                         *)
(* Time is kept as ages: the code compares a timestamp only with now, so a *)
(* timestamp is the number of ticks since it, saturated at AgeCap, and     *)
(* Never for 0.  A tick is one fee interval.  What the sampler, the PID    *)
(* and the market propose is an arbitrary fee of Targets, damped to the    *)
(* step cap; the arithmetic in between is module FeeRails.                 *)
(***************************************************************************)
EXTENDS FeeRails

CONSTANTS MinFee, MaxFee,   \* the configured bounds
          Floor,            \* the floor stack of the channel
          StaticFee,        \* the target of a static policy
          Targets,          \* what the sampler may propose
          OperatorFees,     \* what an operator may set by hand
          Rates,            \* revenue rates, 0 among them
          MinObservation,   \* ticks: min_observation_hours
          SleepTicks,       \* fee_interval * SLEEP_CYCLES in ticks
          RefreshAge,       \* ticks: the 24 h of the gossip refresh
          StableRequired,   \* STABLE_CYCLES_REQUIRED
          QuietCycles,      \* CONGESTION_EXIT_QUIET_CYCLES
          Headroom,         \* CONGESTION_FEE_MIN_HEADROOM_PPM
          MaxEpisodes,      \* bound on the congestion episodes of a behaviour
          Disturbances      \* a set of sets: what may disturb one behaviour

Kinds == {"congestion", "change", "refusal", "exploration", "hand", "policy", "vegas", "steady"}

\* Fees and ages are not negative, and the floor stack ends at or above the least
\* fee (FloorStack, ResolveInversion).
ASSUME DecisionAssumption ==
    /\ MinFee \in Nat /\ MaxFee \in Nat /\ Floor \in Nat /\ StaticFee \in Nat /\ Headroom \in Nat
    /\ MinFee <= Floor
    /\ Targets \subseteq Nat /\ OperatorFees \subseteq Nat
    /\ Rates \subseteq Nat /\ 0 \in Rates
    /\ MinObservation \in Nat /\ SleepTicks \in Nat /\ RefreshAge \in Nat
    /\ StableRequired \in Nat /\ QuietCycles \in Nat \ {0} /\ MaxEpisodes \in Nat
    /\ \A env \in Disturbances : env \subseteq Kinds

VARIABLES chain,    \* the fee on the channel
          cyc,      \* ChannelCycleState
          ts,       \* ChannelFeeState
          policy,   \* the peer's strategy; "skip": passive or a temporary overlay
          explore,  \* the exploration flag
          armed,    \* vegas_wake_armed
          hist      \* history: [base, quiet, trips] of the episodes, [ours]: the fee on the
                    \* channel is the code's, [wakes] since the last calm moment,
                    \* [env]: the disturbances of this behaviour

decisionVars == <<chain, cyc, ts, policy, explore, armed, hist>>

Never == -1
AgeCap == Max({RefreshAge, MinObservation})
Age == -1..AgeCap

\* What the last decision was.
States == {"", "CONGESTION", "EXPLORATION", "EXPLORATION_SUCCESS", "DTS", "STATIC", "REFRESH"}

\* The two records.  cyc.stable and the two last fees take no part in any
\* decision and are left out.
CycleState == [upd : Age, sleeping : BOOLEAN, left : -1..SleepTicks, bcast : Nat,
               bcastAge : Age, refreshAge : Age, pending : Nat,
               state : States,
               congested : BOOLEAN, entry : Nat, quiet : 0..QuietCycles]
FeeState == [upd : Age, sleeping : BOOLEAN, left : -1..SleepTicks, bcast : Nat,
             bcastAge : Age, refreshAge : Age, stable : 0..StableRequired, rate : Rates]
History == [base : Nat, quiet : 0..QuietCycles, trips : 0..MaxEpisodes, ours : BOOLEAN,
            wakes : Nat, env : SUBSET Kinds]

(* Every record is well formed.  The fee on the channel is any the rails    *)
(* allow.                                                                  *)
DecisionTypeOK ==
    /\ chain \in Nat
    /\ cyc \in CycleState
    /\ ts \in FeeState
    /\ policy \in {"dynamic", "static", "skip"}
    /\ explore \in BOOLEAN
    /\ armed \in BOOLEAN
    /\ hist \in History

DecisionInit ==
    /\ chain \in OperatorFees
    /\ cyc = [upd |-> Never, sleeping |-> FALSE, left |-> 0, bcast |-> 0, bcastAge |-> Never,
              refreshAge |-> Never, pending |-> 0, state |-> "", congested |-> FALSE,
              entry |-> 0, quiet |-> 0]
    /\ ts = [upd |-> Never, sleeping |-> FALSE, left |-> 0, bcast |-> 0, bcastAge |-> Never,
             refreshAge |-> Never, stable |-> 0, rate |-> 0]
    /\ policy = "dynamic"
    /\ explore = FALSE
    /\ armed = TRUE
    /\ \E env \in Disturbances :
          hist = [base |-> 0, quiet |-> QuietCycles, trips |-> 0, ours |-> FALSE, wakes |-> 0, env |-> env]

-----------------------------------------------------------------------------
(* Pieces of adjust_channel_fee.                                           *)
Current == IF chain = 0 /\ ~explore THEN MinFee ELSE chain

Awake(r) == [r EXCEPT !.sleeping = FALSE, !.left = 0]
AwakeTs(r) == [r EXCEPT !.sleeping = FALSE, !.left = 0, !.stable = 0]

\* Both records resynchronised with the fee found on the channel.
CycSynced == [cyc EXCEPT !.bcast = resync_broadcast_fee(cyc.bcast, chain)]
TsSynced == [ts EXCEPT !.bcast = resync_broadcast_fee(ts.bcast, chain)]

\* A change of more than 20 % of the revenue rate, or any revenue after none.
RateMoved(rate) ==
    IF ts.rate = 0 THEN rate > 0 ELSE 5 * AbsOf(rate - ts.rate) > ts.rate

\* When a sleeping channel is evaluated all the same.
Wakes(congested, rate) == ts.left < 0 \/ congested \/ RateMoved(rate)

\* The observation window: enough time or enough forwards (a window with revenue
\* has them).
WindowOpen(rate) == cyc.upd = Never \/ cyc.upd >= MinObservation \/ rate > 0

\* in: [congested, rate, target, ok, change]; what the channel's records are when
\* the decision proper begins.
Evaluated(in) ==
    /\ policy = "dynamic"
    /\ ts.sleeping => Wakes(in.congested, in.rate)
    /\ WindowOpen(in.rate)

WokenCyc == IF ts.sleeping THEN Awake(CycSynced) ELSE CycSynced
WokenTs == IF ts.sleeping THEN AwakeTs(TsSynced) ELSE TsSynced

\* Mutant: one quiet cycle ends the episode.
QuietOnce(c) == [c EXCEPT !.congested = FALSE, !.entry = 0, !.quiet = 0]

\* A cycle without congestion in the middle of an episode.
Quieter(c) ==
    IF ~c.congested THEN c
    ELSE IF c.quiet + 1 >= QuietCycles
         THEN [c EXCEPT !.congested = FALSE, !.entry = 0, !.quiet = 0]
         ELSE [c EXCEPT !.quiet = @ + 1]

EpisodeCap(entry) == Max({4 * entry, entry + Headroom})

Tripped(c) ==
    [c EXCEPT !.quiet = 0, !.congested = TRUE,
              !.entry = IF ~c.congested \/ c.entry <= 0 THEN Max({Current, 1}) ELSE @]

\* The congestion override: one jump when the episode starts, then damped steps
\* under the cap of the episode.
CongestedFee(c, woke, ceiling) ==
    LET entry == Tripped(c).entry
        cap   == Max({Current, Min({ceiling, EpisodeCap(entry),
                                    Max({2 * Current, Current + Headroom})})})
        floor == Max({Floor, Min({(3 * Current) \div 2, cap})})
        top   == IF floor >= ceiling THEN floor + 10 ELSE ceiling
        goal  == Max({floor, Min({top, cap})})
    IN  IF ~c.congested THEN Max({Floor, Min({ceiling, cap})})
        ELSE apply_damped_fee_target(Current,
                 blend_fee_target(Current, goal, woke, 0, "active"), woke, "active")

-----------------------------------------------------------------------------
(* How a decision ends.                                                    *)
BothUpd(c, t, rate) ==
    /\ cyc' = [c EXCEPT !.upd = 0]
    /\ ts' = [t EXCEPT !.upd = 0, !.rate = rate]

PendingTarget(new) == IF new # Current THEN new ELSE 0

\* The executor carried the fee out: chain and both records follow.  Exploration
\* also resynchronises the sleep state.
Applied(c, t, fee, state, rate) ==
    /\ chain' = fee
    /\ cyc' = [c EXCEPT !.upd = 0, !.bcast = fee, !.bcastAge = 0, !.pending = 0, !.state = state,
                        !.sleeping = IF state \in {"EXPLORATION", "EXPLORATION_SUCCESS"} THEN FALSE ELSE @,
                        !.left = IF state \in {"EXPLORATION", "EXPLORATION_SUCCESS"} THEN 0 ELSE @]
    /\ ts' = [t EXCEPT !.upd = 0, !.bcast = fee, !.bcastAge = 0, !.rate = rate,
                       !.stable = IF state \in {"EXPLORATION", "EXPLORATION_SUCCESS"} THEN 0 ELSE @,
                       !.sleeping = IF state \in {"EXPLORATION", "EXPLORATION_SUCCESS"} THEN FALSE ELSE @,
                       !.left = IF state \in {"EXPLORATION", "EXPLORATION_SUCCESS"} THEN 0 ELSE @]

\* should_force_gossip_refresh; a window without revenue stands for an idle
\* channel.
RefreshDue(c, rate) ==
    /\ c.bcastAge >= RefreshAge
    /\ rate = 0
    /\ c.refreshAge = Never \/ c.refreshAge >= RefreshAge

NudgedFee ==
    LET up == decide_set_channel_fee(Current + 1, {}, MinFee, MaxFee)
    IN  IF up # Current THEN up ELSE decide_set_channel_fee(Current - 1, {}, MinFee, MaxFee)

\* create_gossip_refresh_adjustment: the pending target is kept.
Refreshed(c, t) ==
    /\ chain' = NudgedFee
    /\ cyc' = [Awake(c) EXCEPT !.refreshAge = 0, !.bcast = NudgedFee, !.bcastAge = 0, !.upd = 0,
                               !.state = "REFRESH"]
    /\ ts' = [AwakeTs(t) EXCEPT !.refreshAge = 0, !.bcast = NudgedFee, !.bcastAge = 0, !.upd = 0]

\* Mutant: a refused broadcast is recorded as made.
RefusedButRecorded(c, t, fee, rate) ==
    /\ BothUpd([c EXCEPT !.bcast = fee], [t EXCEPT !.bcast = fee], rate)
    /\ UNCHANGED chain

Refused(c, t, fee, rate) == BothUpd(c, t, rate) /\ UNCHANGED chain

\* Everything after the new fee is known: the two suppression gates, each of which
\* may force a refresh instead, the idempotence guard and the executor.
Settle(in, c, t, new, state, h) ==
    LET small   == /\ AbsOf(new - Current) < MinChange(Current)
                   /\ ~in.congested /\ ~in.change
                   /\ ~(chain = 0 /\ new > 0 /\ ~explore)
        quiet   == /\ InGossipBand(new, c.bcast) /\ c.bcast > 0 /\ chain > 0
                   /\ c.state = state /\ ~in.change
        held    == [c EXCEPT !.pending = PendingTarget(new)]
        fee     == decide_set_channel_fee(new, {}, MinFee, MaxFee)
        gated   == small \/ quiet
        forced  == gated /\ RefreshDue(c, in.rate) /\ in.ok /\ NudgedFee # Current
        same    == new = chain /\ ~in.change
    IN  \/ /\ forced
           /\ Refreshed(held, t)
           /\ hist' = [h EXCEPT !.ours = TRUE]
        \/ /\ gated /\ ~forced
           /\ BothUpd(held, t, in.rate) /\ UNCHANGED chain /\ hist' = h
        \/ /\ ~gated /\ same
           /\ BothUpd([c EXCEPT !.pending = 0, !.bcast = new, !.state = state],
                      [t EXCEPT !.bcast = new], in.rate)
           /\ UNCHANGED chain /\ hist' = [h EXCEPT !.ours = TRUE]
        \/ /\ ~gated /\ ~same /\ in.ok
           /\ Applied(c, t, fee, state, in.rate)
           /\ hist' = [h EXCEPT !.ours = TRUE]
        \/ /\ ~gated /\ ~same /\ ~in.ok
           /\ Refused(c, t, fee, in.rate) /\ hist' = h

-----------------------------------------------------------------------------
(* The branches of a cycle for this channel.                               *)
HistCongested == [hist EXCEPT !.base = IF hist.quiet >= QuietCycles THEN Max({Current, 1}) ELSE @,
                              !.trips = IF hist.quiet >= QuietCycles THEN @ + 1 ELSE @,
                              !.quiet = 0]
HistQuiet == [hist EXCEPT !.quiet = Min({@ + 1, QuietCycles})]

Congested(in) ==
    /\ in.congested
    /\ \E c \in {WokenCyc}, t \in {WokenTs} :
       \E new \in {CongestedFee(c, ts.sleeping, MaxFee)}, tripped \in {Tripped(c)} :
          Settle(in, tripped, t, new, "CONGESTION", HistCongested)
    /\ UNCHANGED <<policy, explore, armed>>

Exploring(in) ==
    LET found == in.rate > 0
        from  == IF found THEN Max({Current, Floor}) ELSE Current
    IN  /\ explore /\ ~in.congested
        /\ \E c \in {Quieter(WokenCyc)}, t \in {WokenTs} :
           \E new \in {exploration_fee_target(from, Floor, MinFee, TRUE)} :
              Settle(in, c, t, new,
                     IF found THEN "EXPLORATION_SUCCESS" ELSE "EXPLORATION", HistQuiet)
        /\ explore' = ~found
        /\ UNCHANGED <<policy, armed>>

\* Volatility above 50 % and any change of 1 % or more reset the count; the first
\* window of a channel counts for nothing.
StableAfter(t, rate) ==
    IF t.upd = Never THEN t.stable
    ELSE IF rate = t.rate THEN Min({t.stable + 1, StableRequired}) ELSE 0

MayRest(in) == in.rate > 0 \/ Current <= Floor

FallsAsleep(in, t) ==
    t.upd # Never /\ in.rate = t.rate /\ StableAfter(t, in.rate) >= StableRequired /\ MayRest(in)

Rest(c, t, rate) ==
    /\ cyc' = [c EXCEPT !.sleeping = TRUE, !.left = SleepTicks, !.upd = 0]
    /\ ts' = [t EXCEPT !.sleeping = TRUE, !.left = SleepTicks, !.upd = 0, !.rate = rate,
                       !.stable = StableRequired]

SleepEntry(in) ==
    /\ ~explore /\ ~in.congested
    /\ FallsAsleep(in, WokenTs)
    /\ Rest(Quieter(WokenCyc), WokenTs, in.rate)
    /\ hist' = HistQuiet
    /\ UNCHANGED <<chain, policy, explore, armed>>

\* The pending target that is no longer on the way is dropped before the gates.
Sampled(in) ==
    /\ ~explore /\ ~in.congested
    /\ ~FallsAsleep(in, WokenTs)
    /\ \E c \in {Quieter(WokenCyc)}, t \in {[WokenTs EXCEPT !.stable = StableAfter(WokenTs, in.rate)]} :
       \E new \in {apply_damped_fee_target(Current, in.target, ts.sleeping, "active")},
          kept \in {IF c.pending > 0 /\ PendingIsStale(c.pending, Current, in.target, c.bcast, Floor, MaxFee)
                    THEN [c EXCEPT !.pending = 0] ELSE c} :
          Settle(in, kept, t, new, "DTS", HistQuiet)
    /\ UNCHANGED <<policy, explore, armed>>

Disturbed(kind) == { b \in BOOLEAN : b => kind \in hist.env }
MayCongest == hist.quiet < QuietCycles \/ hist.trips < MaxEpisodes
\* Under "steady" the revenue of the channel never moves once it is known.
RatesSeen == IF "steady" \in hist.env /\ ts.upd # Never THEN {ts.rate} ELSE Rates
Inputs == [congested : { b \in Disturbed("congestion") : b => MayCongest }, rate : RatesSeen, target : Targets,
           ok : { ~b : b \in Disturbed("refusal") }, change : Disturbed("change")]

Decide(in) ==
    /\ Evaluated(in)
    /\ \/ Congested(in) \/ Exploring(in) \/ SleepEntry(in) \/ Sampled(in)

\* A sleeping channel that stays asleep, and a window that is not over: only the
\* resynchronisation happens.  (A channel woken inside a closed window stays
\* woken.)
Hold(in) ==
    /\ policy = "dynamic" /\ ~Evaluated(in)
    /\ LET wakes == ts.sleeping /\ Wakes(in.congested, in.rate) IN
       /\ cyc' = IF wakes THEN WokenCyc ELSE CycSynced
       /\ ts' = IF wakes THEN WokenTs ELSE TsSynced
    /\ UNCHANGED <<chain, policy, explore, armed, hist>>

\* policy_passive and temporary_overlay.
SkippedByPolicy ==
    /\ policy = "skip"
    /\ UNCHANGED decisionVars

StaticBranch(ok) ==
    LET fee == decide_set_channel_fee(StaticFee, {}, MinFee, MaxFee) IN
    /\ policy = "static"
    /\ IF chain = fee \/ ~ok
       THEN UNCHANGED <<chain, cyc, ts, hist>>
       ELSE /\ chain' = fee
            /\ cyc' = [Awake(cyc) EXCEPT !.bcast = fee, !.bcastAge = 0, !.upd = 0, !.state = "STATIC"]
            /\ ts' = [AwakeTs(ts) EXCEPT !.bcast = fee, !.bcastAge = 0, !.upd = 0]
            /\ hist' = [hist EXCEPT !.ours = TRUE]
    /\ UNCHANGED <<policy, explore, armed>>

ChannelCycle ==
    \/ \E in \in Inputs : Decide(in)
    \/ \E in \in Inputs : Hold(in)
    \/ SkippedByPolicy
    \/ \E ok \in { ~b : b \in Disturbed("refusal") } : StaticBranch(ok)

-----------------------------------------------------------------------------
(* What happens between the evaluations.                                   *)
Older(age) == IF age = Never THEN Never ELSE Min({age + 1, AgeCap})

Tick ==
    /\ cyc' = [cyc EXCEPT !.upd = Older(@), !.bcastAge = Older(@), !.refreshAge = Older(@),
                          !.left = IF cyc.sleeping /\ @ >= 0 THEN @ - 1 ELSE @]
    /\ ts' = [ts EXCEPT !.upd = Older(@), !.bcastAge = Older(@), !.refreshAge = Older(@),
                        !.left = IF ts.sleeping /\ @ >= 0 THEN @ - 1 ELSE @]
    /\ UNCHANGED <<chain, policy, explore, armed, hist>>

\* handle_policy_change: the channels of the peer are woken, their windows stay.
HandlePolicyChange ==
    /\ cyc' = IF cyc.sleeping THEN Awake(cyc) ELSE cyc
    /\ ts' = IF ts.sleeping THEN AwakeTs(ts) ELSE ts
    /\ UNCHANGED <<chain, policy, explore, armed, hist>>

Backdated(age) == IF age = Never THEN Never ELSE Max({age, MinObservation})

\* wake_all_sleeping_channels: both records are woken and their windows opened.
WakeAll ==
    /\ cyc' = [(IF cyc.sleeping THEN Awake(cyc) ELSE cyc) EXCEPT !.upd = Backdated(@)]
    /\ ts' = [(IF ts.sleeping THEN AwakeTs(ts) ELSE ts) EXCEPT !.upd = Backdated(@)]

Disarmed == armed' = FALSE

\* maybe_wake_for_vegas_spike, for an intensity at or above the threshold, between
\* the two levels, or under the re-arming level.
VegasUpdate(level) ==
    /\ IF armed /\ level = "high"
       THEN WakeAll /\ Disarmed /\ hist' = [hist EXCEPT !.wakes = @ + 1]
       ELSE /\ armed' = (armed \/ level = "low")
            /\ hist' = [hist EXCEPT !.wakes = IF level = "low" THEN 0 ELSE @]
            /\ UNCHANGED <<cyc, ts>>
    /\ UNCHANGED <<chain, policy, explore>>

\* Outside: the operator changes a policy, an overlay, the exploration flag or the
\* fee itself.
SetPolicy(p) == policy' = p /\ UNCHANGED <<chain, cyc, ts, explore, armed, hist>>

FlagExploration == explore' = TRUE /\ UNCHANGED <<chain, cyc, ts, policy, armed, hist>>

SetByHand(fee) ==
    /\ chain' = fee
    /\ hist' = [hist EXCEPT !.ours = FALSE]
    /\ UNCHANGED <<cyc, ts, policy, explore, armed>>

DecisionNext ==
    \/ ChannelCycle
    \/ Tick
    \/ "policy" \in hist.env /\ HandlePolicyChange
    \/ "vegas" \in hist.env /\ \E level \in {"low", "mid", "high"} : VegasUpdate(level)
    \/ "policy" \in hist.env /\ \E p \in {"dynamic", "static", "skip"} \ {policy} : SetPolicy(p)
    \/ "exploration" \in hist.env /\ FlagExploration
    \/ "hand" \in hist.env /\ \E fee \in OperatorFees \ {chain} : SetByHand(fee)

\* The cycles never stop coming, so one that finds the channel asleep does, and
\* time passes.  (Congestion can only wake a channel: the behaviours with it need
\* no fairness.)
CycleWhileAsleep == "congestion" \notin hist.env /\ ts.sleeping /\ ChannelCycle

DecisionSpec == DecisionInit /\ [][DecisionNext]_decisionVars /\ WF_decisionVars(CycleWhileAsleep) /\ WF_decisionVars(Tick)

-----------------------------------------------------------------------------
(* The cycle state and the fee state of a channel are written by eleven     *)
(* paths (adjust_channel_fee, the static branch, the refresh, the wakes);   *)
(* whatever the path, they agree on sleeping, on the wake-up time, on the   *)
(* observation window and on the fee and time of the last broadcast.        *)
TwinsAgree ==
    /\ cyc.sleeping = ts.sleeping /\ cyc.left = ts.left
    /\ cyc.upd = ts.upd
    /\ cyc.bcast = ts.bcast /\ cyc.bcastAge = ts.bcastAge
    /\ cyc.refreshAge = ts.refreshAge

(* A congestion episode cannot ratchet the fee: however often congestion     *)
(* flaps, a raise made for congestion stays under the cap of the fee the     *)
(* channel had when the episode began, an episode ending only after          *)
(* QuietCycles evaluated cycles without congestion (cycle.rs, congestion     *)
(* override).                                                               *)
EpisodeBounded ==
    [][(hist'.ours /\ cyc'.state = "CONGESTION" /\ chain' > chain) =>
          chain' <= Max({Floor, EpisodeCap(hist'.base)})]_decisionVars

(* A forced gossip refresh never follows a broadcast or another refresh by   *)
(* less than RefreshAge ticks, and never is a channel's first broadcast      *)
(* (should_force_gossip_refresh).                                           *)
RefreshIsRare ==
    [][(hist'.ours /\ cyc'.state = "REFRESH" /\ chain' # chain) =>
                           /\ cyc.bcastAge >= RefreshAge
                           /\ cyc.refreshAge \in {Never} \cup RefreshAge..AgeCap]_decisionVars

(* As long as nobody else set the fee, the fee the records believe to have   *)
(* been broadcast is the fee on the channel: no refused, suppressed or       *)
(* clamped decision leaves another one behind.                              *)
TrackedIsOnChain == hist.ours => cyc.bcast = chain

(* One fee spike wakes the whole node once: between two wakes for a spike    *)
(* the intensity has fallen under the re-arming level                       *)
(* (maybe_wake_for_vegas_spike).                                            *)
SpikeWakesOnce == hist.wakes <= 1

(* A sleeping channel under a dynamic policy is evaluated again: the sleep   *)
(* timer alone wakes it, however quiet the channel is.  (For the behaviours  *)
(* without congestion, which wakes it sooner.)                              *)
SleepEnds ==
    (ts.sleeping /\ policy = "dynamic" /\ "congestion" \notin hist.env)
        ~> (~ts.sleeping \/ policy # "dynamic")

\* The two records of a channel agree with each other and with the chain, and
\* one spike wakes once (process_channel, adjust_channel_fee).
RecordsAgree == DecisionTypeOK /\ TwinsAgree /\ TrackedIsOnChain /\ SpikeWakesOnce
===============================================================================
