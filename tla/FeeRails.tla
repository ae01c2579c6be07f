------------------------------- MODULE FeeRails -------------------------------
(***************************************************************************)
(* The arithmetic of the fee decision (revops-fees: rails.rs, floors.rs,   *)
(* market.rs, drain.rs, admission.rs, profiles.rs, execution.rs and the    *)
(* numeric parts of cycle.rs).  Fees are integers in ppm.  The code's      *)
(* floating-point ratios are written in percent (or per mille) and every   *)
(* conversion back to an integer is the one the code makes: truncation     *)
(* toward zero ("as i64"), ceiling, floor or round half to even.           *)
(***************************************************************************)
EXTENDS Integers, FiniteSets, Sequences, SequencesExt

AbsOf(x) == IF x < 0 THEN -x ELSE x
Clamped(x, lo, hi) == Max({lo, Min({hi, x})})

\* "as i64" of n / d, and round_ties_even of n / d (d > 0).
Trunc(n, d) == IF n >= 0 THEN n \div d ELSE -((-n) \div d)
CeilOf(n, d) == -((-n) \div d)
RoundEven(n, d) ==
    LET q == n \div d
        r == n % d
    IN  IF 2 * r > d \/ (2 * r = d /\ q % 2 = 1) THEN q + 1 ELSE q

-----------------------------------------------------------------------------
(* The two fee profiles, ratios in percent.                                *)
Profiles ==
    [active |-> [blend |-> 35, wakeBlend |-> 15, sparseBlend |-> 20,
                 ratio |-> 50, min |-> 100, wakeRatio |-> 20, wakeMin |-> 50],
     conservative |-> [blend |-> 20, wakeBlend |-> 10, sparseBlend |-> 10,
                 ratio |-> 25, min |-> 25, wakeRatio |-> 10, wakeMin |-> 10]]

FeeProfile(name) == IF name = "conservative" THEN "conservative" ELSE "active"

fee_step_cap(current, woke, prof) ==
    LET p == Profiles[prof]
    IN  IF woke THEN Max({p.wakeMin, CeilOf(Max({current, 1}) * p.wakeRatio, 100)})
        ELSE Max({p.min, CeilOf(Max({current, 1}) * p.ratio, 100)})

target_blend_ratio(woke, std, prof) ==
    LET p    == Profiles[prof]
        base == IF std >= 200 THEN p.sparseBlend
                ELSE IF std >= 100 THEN 30 ELSE IF std >= 50 THEN 45 ELSE 60
    IN  Min({base} \cup (IF prof # "active" THEN {p.blend} ELSE {})
                     \cup (IF woke THEN {p.wakeBlend} ELSE {}))

blend_fee_target(current, bounded, woke, std, prof) ==
    LET want  == bounded - current
        delta == RoundEven(want * target_blend_ratio(woke, std, prof), 100)
    IN  current + (IF want # 0 /\ delta = 0 THEN (IF want > 0 THEN 1 ELSE -1) ELSE delta)

apply_damped_fee_target(current, target, woke, prof) ==
    LET cap == fee_step_cap(current, woke, prof)
    IN  Clamped(target, current - cap, current + cap)

-----------------------------------------------------------------------------
(* Low-fee exploration and the zero-flow ratchet guard.                    *)
exploration_fee_target(current, floor, minFee, sparse) ==
    LET base     == Max({floor, minFee})
        discount == IF sparse THEN 25 ELSE 50
        headroom == IF sparse THEN 50 ELSE 35
        cand     == Max({CeilOf(base * 125, 100),
                             base + RoundEven((current - base) * headroom, 100)})
    IN  IF current <= base THEN base
        ELSE Max({base, Min({cand, RoundEven(current * (100 - discount), 100)})})

GuardStreak == 8
DownshiftStreak == 24
DownshiftInterval == 12

\* gap and cycle in minutes; 0 stands for a value that is missing, negative or
\* not finite.
zero_flow_streak_thresholds(gap, cycle) ==
    LET g == Min({gap, 168 * 60})
        guard == Max({GuardStreak, CeilOf(g * 2, cycle)})
        down  == Max({DownshiftStreak, CeilOf(g * 4, cycle)})
    IN  IF gap <= 0 \/ cycle <= 0 THEN <<GuardStreak, DownshiftStreak>>
        ELSE <<guard, Max({down, guard})>>

\* in: [current, target, floor, streak, forwards, rate, cap, anchor, guard,
\*      down, meaningful]; cap, anchor, guard and down are 0 when absent.
ZeroFlowActive(in) ==
    LET noise == in.meaningful = FALSE /\ in.rate > 0
        guard == IF in.guard # 0 THEN in.guard ELSE GuardStreak
    IN  /\ noise \/ (in.rate = 0 /\ in.forwards = 0)
        /\ in.streak >= guard

OnDownshiftStep(in) ==
    LET down == IF in.down # 0 THEN in.down ELSE DownshiftStreak
    IN  in.streak >= down /\ (in.streak - down) % DownshiftInterval = 0

apply_zero_flow_ratchet_guard(in) ==
    LET held == Max({in.floor, Min({in.target, in.current})})
        cap  == Min({(in.current * 85) \div 100}
                      \cup (IF in.cap > 0 THEN {in.cap} ELSE {}))
        soft == Max({in.floor}
                        \cup (IF in.anchor > 0 THEN {Min({in.current, in.anchor \div 2})}
                              ELSE {}))
    IN  IF ~ZeroFlowActive(in) THEN in.target
        ELSE IF ~OnDownshiftStep(in) THEN held
        ELSE Max({soft, Min({in.target, cap})})

is_unroutable_zero_window(rate, spendable) == rate <= 0 /\ spendable < 25000

\* Expected demand and the factor in percent.
kalman_demand_factor(demandPct) == Clamped(2 * demandPct, 100, 200)

exploration_std_threshold(current, relMinStdPct) ==
    Max({100, (relMinStdPct * Max({current, 0})) \div 100})

-----------------------------------------------------------------------------
(* Floors and ceiling.                                                     *)
\* Chain costs in ppm of a million sats a day for a year.
ChainFloor(cost) == cost \div 365

\* costs: {} or {[open, close, satvb]} (satvb whole); slow: the latency is above
\* 10 s or its deviation above 5 s.
calculate_floor(opener, costs, slow) ==
    LET static  == Max({1, ChainFloor(IF opener = "remote" THEN 3000 ELSE 8000)})
        dynamic == { ChainFloor(IF opener = "remote" THEN c.close ELSE c.open + c.close) : c \in costs }
        risk    == { Trunc(c.satvb * 150 * 1000, 50000) : c \in { x \in costs : x.satvb > 0 } }
        floor   == Max({static} \cup dynamic \cup risk)
    IN  Max({1, IF slow THEN (floor * 12) \div 10 ELSE floor})

\* perkb: the four rates of feerates, 0 when absent, in the order they are tried.
dynamic_chain_costs(perkb) ==
    LET set   == { i \in DOMAIN perkb : perkb[i] # 0 }
        kvb   == IF set = {} THEN 1000 ELSE perkb[Min(set)]
    IN  [open  |-> Clamped((kvb * 140) \div 1000, 500, 50000),
         close |-> Clamped((kvb * 200) \div 1000, 300, 50000),
         satvb |-> kvb \div 1000]

RebalanceWindow == 30 * 86400
TotalOf(seq, F(_)) == FoldSeq(LAMBDA x, sum : F(x) + sum, 0, seq)

RecentCosts(history, now) == SelectSeq(history, LAMBDA c : c.at >= now - RebalanceWindow)

\* fallback: {} or {[confidence, ppm]}; the answer is {} or {floor}.
rebalance_cost_floor(flow, history, fallback, now) ==
    LET recent == RecentCosts(history, now)
        cost   == TotalOf(recent, LAMBDA c : c.cost)
        volume == TotalOf(recent, LAMBDA c : c.amount)
        peer   == { f \in fallback : f.confidence \in {"medium", "high"} /\ f.ppm > 0 }
    IN  IF flow \in {"sink", "dormant"} THEN {}
        ELSE IF Len(recent) >= 4 /\ volume > 0
        THEN { (((cost * 1000000) \div volume) * 120) \div 100 }
        ELSE { (f.ppm * 120) \div 100 : f \in peer }

channel_rebalance_cost_ppm(flow, history, now) ==
    LET recent == RecentCosts(history, now)
        cost   == TotalOf(recent, LAMBDA c : c.cost)
        volume == TotalOf(recent, LAMBDA c : c.amount)
    IN  IF flow \in {"sink", "dormant"} \/ volume <= 0 \/ cost <= 0 THEN 0
        ELSE Min({5000, (cost * 1000000) \div volume})

\* lastForward is 0 when unknown.
flow_adjusted_ceiling(current, ceiling, lastForward, now) ==
    LET age == now - lastForward
    IN  IF current < 500 \/ lastForward = 0 THEN ceiling
        ELSE IF age >= 7 * 86400 THEN Max({1, ceiling \div 2})
        ELSE IF age >= 3 * 86400 THEN Max({1, (ceiling * 75) \div 100})
        ELSE ceiling

\* htlc: {} or {[max, inFlight]}; thresholdPct; the label's age is -1 when unknown.
detect_congestion(label, labelAge, htlc, thresholdPct, flowInterval) ==
    LET live == { h \in htlc : h.max > 0 }
    IN  IF live # {} THEN \E h \in live : h.inFlight * 100 > h.max * thresholdPct
        ELSE label = "congested" /\ (labelAge = -1 \/ labelAge <= 2 * flowInterval)

\* window: {} or {[out, in]}.
is_flow_balanced_router(capacity, window) ==
    \E w \in window :
        LET gross == w.out + w.in
        IN  /\ capacity > 0 /\ gross > 0
            /\ 4 * gross >= capacity
            /\ AbsOf(w.out - w.in) * 100 <= gross * 33

effective_min_fee_ppm(minFee, saturated, flow, outboundPct, capacity, window) ==
    IF /\ saturated >= 0 /\ saturated < minFee
       /\ flow = "source" \/ outboundPct >= 85
       /\ ~is_flow_balanced_router(capacity, window)
    THEN saturated ELSE minFee

\* The floor stack of adjust_channel_fee: chain floor, flow multiplier, vegas
\* multiplier, rebalance floor.
FloorStack(base, effMin, flow, vegasPct, rebalance) ==
    LET mult == CASE flow = "source" -> 110 [] flow = "sink" -> 75 [] OTHER -> 100
        f1   == Max({(Max({base, effMin}) * mult) \div 100, effMin})
        f2   == IF vegasPct > 100 THEN (f1 * vegasPct) \div 100 ELSE f1
    IN  Max({f2} \cup rebalance)

\* policy: {} or {[anchor, lo, hi]}, multipliers in percent, 0 when absent.
PolicyBounds(floor, ceiling, policy) ==
    LET anchored == { p \in policy : p.anchor > 0 }
    IN  [floor   |-> Max({floor} \cup { (p.anchor * p.lo) \div 100 : p \in { x \in anchored : x.lo > 0 } }),
         ceiling |-> Min({ceiling} \cup { (p.anchor * p.hi) \div 100 : p \in { x \in anchored : x.hi > 0 } })]

\* A floor at or above the ceiling is lowered to ten under it, never below the
\* effective minimum, and then the ceiling is raised over the floor.
ResolveInversion(floor, ceiling, effMin) ==
    LET f == IF floor >= ceiling THEN Max({effMin, ceiling - 10}) ELSE floor
    IN  [floor |-> f, ceiling |-> IF f >= ceiling THEN f + 10 ELSE ceiling]

-----------------------------------------------------------------------------
(* What the neighbours charge.  A row is [source, fee, base, capacity, age];*)
(* age in days, 0 when the gossip carries no timestamp.                     *)
Competitor(row, us) ==
    /\ row.source # us
    /\ row.fee \in 1..10000
    /\ ~(row.fee = 10 /\ row.base = 1000)

\* Weight capacity / age, scaled by 30 so that every age used divides it.
WeightOf(row) == Max({row.capacity, 1}) * (30 \div (IF row.age > 0 THEN row.age ELSE 30))

Competitors(rows, us) == SelectSeq(rows, LAMBDA r : Competitor(r, us))

FeesUpTo(rows, fee) ==
    TotalOf(SelectSeq(rows, LAMBDA r : r.fee <= fee), WeightOf)

\* The least fee whose cumulative weight reaches half of the total; {} below the
\* minimum number of competitors.
neighbor_fee_median(rows, us, minCompetitors) ==
    LET comp  == Competitors(rows, us)
        total == TotalOf(comp, WeightOf)
        fees  == { comp[i].fee : i \in DOMAIN comp }
    IN  IF Len(comp) < minCompetitors \/ total <= 0 THEN {}
        ELSE { Min({ f \in fees : 2 * FeesUpTo(comp, f) >= total }) }

neighbor_fee_percentile(rows, us, pct, minCompetitors) ==
    LET comp == Competitors(rows, us)
        n    == Len(comp)
        idx  == Clamped(RoundEven(pct * (n - 1), 100), 0, n - 1)
        AtMost(f) == Cardinality({ i \in DOMAIN comp : comp[i].fee <= f })
    IN  IF n < minCompetitors THEN {}
        ELSE { Min({ f \in { comp[i].fee : i \in DOMAIN comp } : AtMost(f) >= idx + 1 }) }

\* rank: {} or {<<larger, total>>}.  Our own row counts even when inactive, the
\* competitors only when active.
channel_capacity_rank(rows, us) ==
    LET sized  == SelectSeq(rows, LAMBDA r : r.capacity > 0)
        own    == { sized[i].capacity : i \in { j \in DOMAIN sized : sized[j].source = us } }
        others == { i \in DOMAIN sized : sized[i].source # us /\ sized[i].active }
    IN  IF own = {} \/ others = {} THEN {}
        ELSE { <<Cardinality({ i \in others : sized[i].capacity > Max(own) }), Cardinality(others)>> }

\* Per mille.  Bounded to 30..200 whatever the rank.
competitive_undercut_pct(rank, median, invert) ==
    LET Pct(r) == LET w == IF invert THEN r[2] - r[1] ELSE r[1]
                      b == 50 + (w * 100) \div r[2]
                  IN  Clamped(IF median > 300 THEN b + 50 ELSE IF median < 100 THEN b \div 2 ELSE b,
                              30, 200)
    IN  IF rank = {} THEN 100 ELSE Pct(CHOOSE r \in rank : TRUE)

\* The market adjustment of a target once the median is above the floor.
MarketTarget(mode, fee, median, undercut, floor, maxFee, outboundPct, exploring, preserve) ==
    LET pulled == IF mode # "premium" /\ ~exploring /\ fee > 2 * median
                  THEN (fee * 8 + median * 2) \div 10 ELSE fee
        above  == (median * (1000 + undercut)) \div 1000
        below  == (median * (1000 - undercut)) \div 1000
        mayUndercut == /\ outboundPct >= 35 /\ below > floor /\ ~exploring
                       /\ mode # "competition_aware" \/ \A p \in preserve : pulled >= p
    IN  CASE mode = "premium" -> IF above <= floor THEN pulled
                                 ELSE Max({pulled, Min({maxFee, above})})
          [] mode = "match" -> Min({maxFee, median})
          [] OTHER -> IF mayUndercut THEN Min({pulled, below}) ELSE pulled

\* Revenue in tenths of a sat per hour.  The pull toward the rebalance cost.
RebalanceNudge(fee, cost, rate) ==
    LET pct == IF rate >= 100 THEN 30 ELSE IF rate >= 10 THEN 15 + (15 * rate) \div 100 ELSE 5
    IN  IF cost > 0 /\ fee < cost THEN (fee * (100 - pct) + cost * pct) \div 100 ELSE fee

-----------------------------------------------------------------------------
(* Node-wide drain bias, ratios in percent.                                *)
compute_node_receivable_ratio(channels) ==
    LET normal == SelectSeq(channels, LAMBDA c : c.state = "CHANNELD_NORMAL")
        total  == TotalOf(normal, LAMBDA c : c.total)
        ours   == TotalOf(normal, LAMBDA c : c.ours)
    IN  IF total = 0 THEN 100 ELSE ((total - ours) * 100) \div total

node_drain_pressure(ratio, target, floor) ==
    IF target <= floor THEN (IF ratio <= floor THEN 100 ELSE 0)
    ELSE Clamped(((target - ratio) * 100) \div (target - floor), 0, 100)

effective_drain_discount_max(static, enabled, biasMax, pressure) ==
    IF enabled THEN Max({static, (biasMax * pressure) \div 100}) ELSE static

drain_fee_multiplier(local, forwards, threshold, maxDiscount) ==
    IF maxDiscount <= 0 \/ forwards > 0 \/ local <= threshold \/ threshold >= 100 THEN 100
    ELSE 100 - Min({maxDiscount, (maxDiscount * (local - threshold)) \div (100 - threshold)})

-----------------------------------------------------------------------------
(* The gates and the clamp in front of the executor.                       *)
AbsMinFee == 0
AbsMaxFee == 100000

\* decide_set_channel_fee with limits enforced and no policy passed; effMin is {}
\* or the effective minimum of a saturated channel.
decide_set_channel_fee(fee, effMin, minFee, maxFee) ==
    LET econ == IF effMin = {} THEN minFee
                ELSE Max({AbsMinFee, Min({minFee} \cup effMin)})
    IN  Max({econ, Min({maxFee, Clamped(fee, AbsMinFee, AbsMaxFee)})})

MinChange(current) == IF current < 100 THEN 1 ELSE Max({5, (current * 3 + 99) \div 100})

\* Within 5 % of the last broadcast fee.
InGossipBand(fee, tracked) == AbsOf(fee - tracked) * 100 <= tracked * 5

\* The blend anchor: a pending target is kept while it lies on the way to the
\* bounded target and the target is outside the gossip band.
PendingIsStale(pending, current, bounded, tracked, floor, ceiling) ==
    LET anchor == Clamped(pending, floor, ceiling)
    IN  \/ tracked > 0 /\ InGossipBand(bounded, tracked)
        \/ anchor < Min({current, bounded}) \/ anchor > Max({current, bounded})

BlendAnchor(pending, current, bounded, tracked, floor, ceiling) ==
    IF pending <= 0 \/ PendingIsStale(pending, current, bounded, tracked, floor, ceiling)
    THEN current ELSE Clamped(pending, floor, ceiling)

resync_broadcast_fee(tracked, actual) ==
    IF actual > 0 /\ tracked > 0 /\ 2 * AbsOf(actual - tracked) > Max({200, tracked})
    THEN actual ELSE tracked

\* In sats.
compute_htlcmax_msat(capacity, spendable, pct) ==
    Max({10000, Min({(capacity * pct) \div 100, (spendable * 85) \div 100, capacity})})

delta_exceeds_deadband(new, current) ==
    new # current /\ (current <= 0 \/ AbsOf(new - current) * 10 > current)

-----------------------------------------------------------------------------
(* The cycle's summary.                                                    *)
SkipReasonOrder ==
    <<"policy_passive", "policy_static", "temporary_overlay", "sleeping", "waiting_time",
      "waiting_forwards", "alpha_guard", "fee_unchanged", "gossip_hysteresis", "idempotent",
      "missing_channel_info", "error">>

\* counts: a function from the tallied reasons.
dominant_skip_reason(counts) ==
    LET n(i)  == IF SkipReasonOrder[i] \in DOMAIN counts THEN counts[SkipReasonOrder[i]] ELSE 0
        best  == { i \in DOMAIN SkipReasonOrder :
                      n(i) > 0 /\ \A j \in DOMAIN SkipReasonOrder : n(i) > n(j) \/ (n(i) = n(j) /\ i <= j) }
    IN  IF best = {} THEN "fee_unchanged" ELSE SkipReasonOrder[Min(best)]

\* The skip reason reconstructed after the fact from the state before and after.
classify_no_adjustment_skip_reason(preSleeping, waiting, touched, lastFee, tracked, preTracked, actual) ==
    CASE preSleeping -> "sleeping"
      [] waiting -> "waiting_time"
      [] ~touched -> "fee_unchanged"
      [] lastFee # actual /\ tracked = preTracked -> "gossip_hysteresis"
      [] lastFee = actual /\ tracked = actual -> "idempotent"
      [] OTHER -> "alpha_guard"

-----------------------------------------------------------------------------
(* What the decision relies on.                                            *)

(* Whatever the cost floors and the policy's multipliers make of them, the    *)
(* bounds of a decision end with a floor under the ceiling and not under the   *)
(* effective minimum (adjust_channel_fee, the inversion rule).               *)
BoundsInOrder(base, effMin, flow, vegasPct, rebalance, ceiling, policy) ==
    LET bounds == PolicyBounds(FloorStack(base, effMin, flow, vegasPct, rebalance), ceiling, policy)
        final  == ResolveInversion(bounds.floor, bounds.ceiling, effMin)
    IN  final.floor < final.ceiling /\ final.floor >= effMin

(* While nothing flows, the guard never lets a fee rise above the larger of     *)
(* the current fee and the floor, and never lets it fall under the floor       *)
(* (apply_zero_flow_ratchet_guard).                                          *)
GuardHolds(in) ==
    (ZeroFlowActive(in) /\ in.current >= in.floor) =>
        apply_zero_flow_ratchet_guard(in) \in in.floor..in.current

(* A blend moves toward its target by at least one ppm, never away from it and  *)
(* never past it (blend_fee_target).                                          *)
BlendApproaches(current, bounded, woke, std, prof) ==
    LET b == blend_fee_target(current, bounded, woke, std, prof)
    IN  /\ current < bounded => b \in (current + 1)..bounded
        /\ current > bounded => b \in bounded..(current - 1)
        /\ current = bounded => b = current

(* The market median is the fee of a competitor with half of the weight on      *)
(* either side of it, and neither our own channel nor a default fee moves it    *)
(* (neighbor_fee_median).                                                     *)
MedianIsTheirs(rows, us, minCompetitors) ==
    LET theirs == SelectSeq(rows, LAMBDA r : Competitor(r, us))
        total  == TotalOf(theirs, WeightOf)
        Below(f) == TotalOf(SelectSeq(theirs, LAMBDA r : r.fee < f), WeightOf)
        Above(f) == TotalOf(SelectSeq(theirs, LAMBDA r : r.fee > f), WeightOf)
    IN  /\ \A m \in neighbor_fee_median(rows, us, minCompetitors) :
               /\ \E i \in DOMAIN theirs : theirs[i].fee = m
               /\ 2 * Below(m) < total /\ 2 * Above(m) <= total
        /\ neighbor_fee_median(rows, us, minCompetitors) = neighbor_fee_median(theirs, us, minCompetitors)
===============================================================================
