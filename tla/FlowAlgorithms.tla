------------------------------ MODULE FlowAlgorithms ------------------------------
(***************************************************************************)
(* What a flow pass computes for one channel: the SQL aggregates it reads   *)
(* (revops-db/src/analytics.rs), run_flow_pass (revops/src/flow_owner.rs)   *)
(* with the classifier, the Kalman filter's control and the temporal        *)
(* profile (revops-analytics: classification.rs, kalman.rs, flow.rs), and    *)
(* the two advisory algorithms on top (demand_flow.rs, growth.rs).           *)
(*                                                                         *)
(* Ratios are in permille, clocks in seconds.  The filter's posterior is      *)
(* abstracted to its ratio, whether it is finite and whether its             *)
(* uncertainty is below the convergence bound.                              *)
(***************************************************************************)
EXTENDS FeeRails

CONSTANTS
  FlowInputs,   \* what one pass may read of a channel
  FlowSteps,    \* seconds between passes
  MaxFlowPasses \* bound: passes

Day == 86400
SumOver(S, f(_)) == MapThenSumSet(f, S)

-----------------------------------------------------------------------------
(* The aggregates.  A forward is [in, out, at, msat]; a row of the table     *)
(* is an index, so equal forwards are counted apart.                       *)
Sides(fs, c) == { s \in (DOMAIN fs) \X {"in", "out"} : fs[s[1]][s[2]] = c }
\* SQLite divides towards zero: a forward up to a day ahead has age 0.
AgeDays(f, now) == Trunc(now - f.at, Day)

DaySides(fs, c, now, window, age) ==
    { s \in Sides(fs, c) : fs[s[1]].at >= now - window * Day /\ AgeDays(fs[s[1]], now) = age }

\* One bucket per day of age, for a channel with any forward in the window.
daily_flow_buckets(fs, c, now, window) ==
    [ age \in 0..(window - 1) |->
        LET rows == DaySides(fs, c, now, window, age)
            sats(d) == SumOver({ s \in rows : s[2] = d }, LAMBDA s : fs[s[1]].msat) \div 1000
        IN [in |-> sats("in"), out |-> sats("out"), count |-> Cardinality(rows),
            last |-> Max({0} \cup { fs[s[1]].at : s \in rows })] ]

continuous_net_flow(fs, c, since) ==
    { [at |-> fs[s[1]].at, net |-> IF s[2] = "out" THEN fs[s[1]].msat ELSE -fs[s[1]].msat] :
        s \in { x \in Sides(fs, c) : fs[x[1]].at >= since } }

RecentSides(fs, c, now, window) == { s \in Sides(fs, c) : fs[s[1]].at >= now - window * Day }
DaysWithData(fs, c, now, window) ==
    Max({1, Cardinality({ fs[s[1]].at \div Day : s \in RecentSides(fs, c, now, window) })})

\* Each hour of an average day with data.
hourly_flow_histogram(fs, c, now, window) ==
    [ hour \in 0..23 |->
        LET rows == { s \in RecentSides(fs, c, now, window) : (fs[s[1]].at % Day) \div 3600 = hour }
            sats(d) == SumOver({ s \in rows : s[2] = d }, LAMBDA s : fs[s[1]].msat) \div 1000
            days == DaysWithData(fs, c, now, window)
        IN [in |-> sats("in") \div days, out |-> sats("out") \div days, count |-> Cardinality(rows) \div days] ]

AvgDailyForwards(histogram, window) == SumOver(DOMAIN histogram, LAMBDA h : histogram[h].count) \div window

(***************************************************************************)
(* Every forward of the window is in exactly one bucket of each of its       *)
(* channels: SQL truncates ages, the code drops the oldest instant and       *)
(* rounds every bucket down.  (daily_flow_buckets)                          *)
(***************************************************************************)
BucketsConserve(fs, c, now, window) ==
    LET b == daily_flow_buckets(fs, c, now, window)
        seen == { s \in Sides(fs, c) : fs[s[1]].at > now - window * Day /\ fs[s[1]].at < now + Day }
        exact(d) == SumOver({ s \in seen : s[2] = d }, LAMBDA s : fs[s[1]].msat)
    IN /\ SumOver(DOMAIN b, LAMBDA k : b[k].count) = Cardinality(seen)
       /\ \A d \in {"in", "out"} :
            LET sats == SumOver(DOMAIN b, LAMBDA k : b[k][d])
            IN sats * 1000 <= exact(d) /\ exact(d) < (sats + window) * 1000
       /\ Max({0} \cup { b[k].last : k \in DOMAIN b }) = Max({0} \cup { fs[s[1]].at : s \in seen })

(***************************************************************************)
(* A day counts towards a channel's graduation only if the channel really    *)
(* forwarded the daily minimum on an average day of the window: the window's *)
(* total never stands in for a day.  (hourly_flow_histogram, the average in  *)
(* run_flow_pass)                                                           *)
(***************************************************************************)
DayIsEarned(fs, c, now, window, minimum) ==
    AvgDailyForwards(hourly_flow_histogram(fs, c, now, window), window) >= minimum
      => Cardinality(RecentSides(fs, c, now, window)) >= minimum * DaysWithData(fs, c, now, window)

-----------------------------------------------------------------------------
(* flow.rs.  Amounts of a day are in thousands of sats; a decay is in        *)
(* twentieths: 13 fast, 16 the base, 19 slow.                               *)
VarianceOf(xs) ==
    LET n == Len(xs)
        total == FoldSeq(LAMBDA x, acc : acc + x, 0, xs)
    IN FoldSeq(LAMBDA x, acc : acc + (n * x - total) * (n * x - total), 0, xs)   \* times n * n * (n - 1)

\* The volatility (deviation over mean volume) is at least pct percent.
VolatileBy(nets, volume, pct) ==
    LET n == Len(nets) IN VarianceOf(nets) * 10000 >= pct * pct * volume * volume * (n - 1)

calculate_adaptive_decay(days) ==
    LET nets == [ k \in DOMAIN days |-> days[k].out - days[k].in ]
        volume == FoldSeq(LAMBDA d, acc : acc + d.out + d.in, 0, days)
    IN IF Len(days) < 3 \/ volume < Len(days) THEN 16
       ELSE 19 - Cardinality({ k \in 1..6 : VolatileBy(nets, volume, 10 + (40 * k) \div 6) })

Power(b, n) == FoldLeft(LAMBDA acc, k : b * acc, 1, [ k \in 1..n |-> k ])

\* The weighted mean, as a fraction.
calculate_ema_flow(days, decay) ==
    LET weight(k) == Power(decay, k - 1) * Power(20, Len(days) - k)
    IN [num |-> SumOver(DOMAIN days, LAMBDA k : days[k].out * weight(k)), den |-> SumOver(DOMAIN days, LAMBDA k : weight(k))]

(***************************************************************************)
(* The estimate of a channel's daily flow follows the newest days, the less  *)
(* so the steadier it is, and every day of the window weighs in: one busy    *)
(* day among idle ones never passes for the channel's rate.                  *)
(* (calculate_adaptive_decay, calculate_ema_flow)                           *)
(***************************************************************************)
EmaDiscountsIdleDays(days) ==
    LET decay == calculate_adaptive_decay(days)
        e == calculate_ema_flow(days, decay)
        most == Max({ days[k].out : k \in DOMAIN days })
    IN /\ decay \in 13..19
       /\ e.num <= most * e.den
       /\ (\E k \in DOMAIN days : days[k].out < most) => e.num < most * e.den

calculate_velocity(ratio, previous, at, now) ==
    LET expected == 3 * (AbsOf(ratio) + 10)
    IN IF at <= 0 \/ now - at < 1800 THEN 0
       ELSE Clamped(Clamped(Trunc((ratio - previous) * 3600, now - at), -expected, expected), -500, 500)

\* The quartiles of a day's hours, ties in the order of the hours.
HoursByOut(hourly) ==
    SortSeq([ h \in DOMAIN hourly |-> h ], LAMBDA g, h : hourly[g] < hourly[h] \/ (hourly[g] = hourly[h] /\ g < h))

recompute_derived(hourly) ==
    LET order == HoursByOut(hourly)
        n == Max({1, Len(order) \div 4})
    IN IF \A h \in DOMAIN hourly : hourly[h] = 0 THEN [quiet |-> {}, peak |-> {}]
       ELSE [quiet |-> { order[k] : k \in 1..n }, peak |-> { order[k] : k \in (Len(order) - n + 1)..Len(order) }]

\* The blend of a profile with a new histogram, in tenths; the first one is taken whole.
BlendHours(existing, new) ==
    IF \A h \in DOMAIN existing : existing[h] = 0 THEN [ h \in DOMAIN new |-> 10 * new[h] ]
    ELSE [ h \in DOMAIN new |-> 3 * new[h] + 7 * existing[h] ]

(***************************************************************************)
(* The peak hours of a profile are its busiest and the quiet hours its       *)
(* idlest, a quarter of the day each and never the same hour, also after a    *)
(* blend that leaves hours equal.  (recompute_derived after the blend of     *)
(* update_temporal_profile)                                                 *)
(***************************************************************************)
PeaksAreBusiest(existing, new) ==
    LET hourly == BlendHours(existing, new)
        d == recompute_derived(hourly)
        rest(S) == DOMAIN hourly \ S
    IN /\ d.quiet \cap d.peak = {} /\ Cardinality(d.quiet) = Cardinality(d.peak)
       /\ \A q \in d.quiet : \A h \in rest(d.quiet) : hourly[q] <= hourly[h]
       /\ \A q \in d.peak : \A h \in rest(d.peak) : hourly[h] <= hourly[q]

-----------------------------------------------------------------------------
(* classification.rs.                                                      *)

classify_balance_position(outbound, prev, kalman, turnover) ==
    IF outbound > (IF prev = "sink" THEN 720 ELSE 780) /\ ~(kalman > 50) THEN "sink"
    ELSE IF outbound < (IF prev = "source" THEN 280 ELSE 220) /\ ~(kalman < -50) THEN "source"
    ELSE IF turnover > 10 THEN "balanced_active" ELSE IF AbsOf(kalman) < 10 THEN "dormant" ELSE "balanced"

flow_state(kalman, source, sink, outbound, prev, turnover) ==
    IF kalman > source THEN "source" ELSE IF kalman < sink THEN "sink"
    ELSE classify_balance_position(outbound, prev, kalman, turnover)

\* out and in: forwards over thirty days.
revenue_role_30d(available, out, in, lifetime) ==
    IF ~available THEN lifetime
    ELSE IF out + in < 10 THEN "dormant"
    ELSE IF 100 * in > 70 * (out + in) THEN "inbound_gateway"
    ELSE IF 100 * out > 70 * (out + in) THEN "outbound_gateway" ELSE "balanced"

(***************************************************************************)
(* The verdict of a pass is the previous state of the next one, and a         *)
(* channel that does not change must not change its state for ever: the       *)
(* second verdict is the first, and moving within the gap between the bands   *)
(* does not undo it.  (flow_state)                                          *)
(***************************************************************************)
VerdictSettles(j) ==
    LET verdict(outbound, prev) == flow_state(j.kalman, 300, -300, outbound, prev, j.turnover)
        first == verdict(j.outbound, j.prev)
        gap(s) == {j.outbound} \cup (IF s = "sink" THEN 721..j.outbound ELSE IF s = "source" THEN j.outbound..279 ELSE {})
    IN \A o \in gap(first) : verdict(o, first) = first

(* One channel through successive passes.  A pass reads input i:            *)
(* [entries, congested, data, outbound, turnover, ema, busy], busy when the   *)
(* average day reaches the minimum of forwards.                             *)
VARIABLES
  flowNow,   \* wall clock
  filter,    \* the persisted Kalman state
  flowRow,   \* the channel's row
  profile,   \* the temporal profile's days
  earned     \* ghost: when the first observation since a reset was taken, days counted

flowVars == <<flowNow, filter, flowRow, profile, earned>>

FreshFilter == [ratio |-> 0, sure |-> FALSE, count |-> 0, last |-> 0]

FlowInit ==
    /\ flowNow = Day /\ filter = FreshFilter
    /\ flowRow = [state |-> "none", balance |-> "none", ratio |-> 0, velocity |-> 0, at |-> 0, kalman |-> 0, byKalman |-> FALSE]
    /\ profile = [days |-> 0, last |-> 0]
    /\ earned = [since |-> 0, days |-> {}, passes |-> 0]

reset_state(f) == { FreshFilter }

RecentlyUpdated(f, now) == f.last > 0 /\ now - f.last < 300

\* The posterior leans one way; whether the filter is sure is asked only once it has five
\* observations.
KalmanPosterior(f, now, counted) ==
    [ratio : {350}, sure : {FALSE, f.count + counted >= 5}, count : {f.count + counted}, last : {now}]

apply_kalman_filter(f, observed, now) ==
    IF RecentlyUpdated(f, now) THEN { f }
    ELSE KalmanPosterior(f, now, IF observed THEN 1 ELSE 0) \cup reset_state(f)

KalmanConverged(f) == f.sure /\ f.count >= 5

\* What the averages alone say of the state.
EmaState(i, row) ==
    IF i.congested THEN "congested"
    ELSE IF i.data /\ i.ema > 300 THEN "source"
    ELSE IF i.data /\ i.ema < -300 THEN "sink"
    ELSE classify_balance_position(i.outbound, row.state, row.kalman, IF i.data THEN i.turnover ELSE 0)

ChannelRow(i, f, row, now) ==
    LET decided == ~i.congested /\ KalmanConverged(f)
    IN [state |-> IF decided THEN flow_state(f.ratio, 300, -300, i.outbound, row.state, i.turnover) ELSE EmaState(i, row),
        balance |-> classify_balance_position(i.outbound, row.state, row.kalman, i.turnover),
        ratio |-> i.ema, velocity |-> calculate_velocity(i.ema, row.ratio, row.at, now),
        at |-> now, kalman |-> f.ratio, byKalman |-> decided]

\* Mutant: a day is counted once twenty-four hours have passed since the last one.
RollingDay(p, busy, now) ==
    IF busy /\ now - p.last * Day >= Day THEN [days |-> p.days + 1, last |-> (now - Day \div 2) \div Day] ELSE p

CountDay(p, busy, now) ==
    IF busy /\ now \div Day # p.last THEN [days |-> p.days + 1, last |-> now \div Day] ELSE p

AnalyseChannel(i) ==
    /\ earned.passes < MaxFlowPasses
    /\ filter' \in apply_kalman_filter(filter, i.entries, flowNow)
    /\ flowRow' = ChannelRow(i, filter', flowRow, flowNow)
    /\ profile' = CountDay(profile, i.busy, flowNow)
    /\ earned' = [since |-> IF filter' = FreshFilter \/ (filter'.count = 1 /\ filter.count # 1) THEN flowNow ELSE earned.since,
                  days |-> IF i.busy THEN earned.days \cup {flowNow \div Day} ELSE earned.days, passes |-> earned.passes + 1]
    /\ UNCHANGED flowNow

FlowTime == \E d \in FlowSteps :
    /\ flowNow = flowRow.at /\ flowNow' = flowNow + d
    /\ UNCHANGED <<filter, flowRow, profile, earned>>

FlowNext == FlowTime \/ \E i \in FlowInputs : AnalyseChannel(i)

FlowTypeOK ==
    /\ flowNow \in Nat /\ filter.ratio \in {0, 350} /\ filter.sure \in BOOLEAN /\ filter.count \in 0..MaxFlowPasses
    /\ flowRow.state \in {"none", "source", "sink", "balanced", "balanced_active", "dormant", "congested"}
    /\ profile.days \in 0..MaxFlowPasses

(***************************************************************************)
(* The filter overrules the averages only after five observations taken at   *)
(* least the minimal interval apart since it was last reset: repeated passes  *)
(* over the same forwards do not make it sure.  (apply_kalman_filter,        *)
(* apply_kalman_reclassification)                                           *)
(***************************************************************************)
ConvergenceTakesTime == flowRow.byKalman => flowRow.at - earned.since >= 4 * 300

(***************************************************************************)
(* A profile graduates by distinct days: however many passes a day sees and   *)
(* whenever they fall, the day is counted once.  (update_temporal_profile)    *)
(***************************************************************************)
DaysAreDistinct == profile.days = Cardinality(earned.days)

(***************************************************************************)
(* The recorded velocity never claims more movement than there was between    *)
(* the two rows.  (calculate_velocity)                                      *)
(***************************************************************************)
VelocityNeverOvershoots ==
    [][flowRow'.at # flowRow.at =>
         AbsOf(flowRow'.velocity) * (flowRow'.at - flowRow.at) <= AbsOf(flowRow'.ratio - flowRow.ratio) * 3600]_flowVars

-----------------------------------------------------------------------------
(* demand_flow.rs.  A channel is [dest, active]; a sink [id, ratio, conf].   *)
PeerRole(in, out) ==
    IF in + out = 0 THEN "unknown"
    ELSE IF 10 * (in - out) > 3 * (in + out) THEN "source"
    ELSE IF 10 * (in - out) < -3 * (in + out) THEN "sink" ELSE "router"

\* flows: [peer, in, out]
classify_peers(flows) ==
    [ p \in { f.peer : f \in flows } \ {""} |->
        PeerRole(SumOver({ f \in flows : f.peer = p }, LAMBDA f : f.in), SumOver({ f \in flows : f.peer = p }, LAMBDA f : f.out)) ]

\* Scores in tenths: the alias, the shape of the node and its fees.
CandidateScores(n) ==
    LET hub == n.count > 100 /\ n.cap > 5
        small == ~hub /\ n.count > 30 /\ n.small
        big == ~hub /\ ~small /\ n.count < 10 /\ n.big
        points(cond, k) == IF cond THEN k ELSE 0
    IN [source |-> points(n.exchange, 6) + points(n.count > 0 /\ big, 3),
        sink |-> points(n.merchant, 5) + points(n.count > 0 /\ small, 4) + points(n.count > 0 /\ 2 * n.lowFee > n.count, 3),
        router |-> points(n.lsp, 4) + points(n.count > 0 /\ hub, 5)]

classify_candidate(n) ==
    LET s == CandidateScores(n) IN
    IF s.source + s.sink + s.router = 0 THEN "unknown"
    ELSE IF s.source >= s.sink /\ s.source >= s.router THEN "source"
    ELSE IF s.sink >= s.source /\ s.sink >= s.router THEN "sink" ELSE "router"

TopSinks(sinks) ==
    LET order == SortSeq([ k \in DOMAIN sinks |-> k ],
                         LAMBDA a, b : AbsOf(sinks[a].ratio) > AbsOf(sinks[b].ratio) \/ (AbsOf(sinks[a].ratio) = AbsOf(sinks[b].ratio) /\ a < b))
    IN [ k \in 1..Min({5, Len(order)}) |-> sinks[order[k]] ]

AdjacentStep(acc, existing, ch) ==
    IF ch.dest = "" \/ ch.dest \in existing \cup acc.seen \/ ~ch.active THEN acc
    ELSE [found |-> Append(acc.found, ch), seen |-> acc.seen \cup {ch.dest}]

\* The channels of the strongest sinks in order, each with its score; channels: [id -> entries].
AdjacentEntries(sinks, channels) ==
    LET top == TopSinks(sinks)
        scored(k) == IF top[k].id \notin DOMAIN channels THEN <<>>
                     ELSE [ x \in DOMAIN channels[top[k].id] |->
                              [dest |-> channels[top[k].id][x].dest, active |-> channels[top[k].id][x].active,
                               score |-> top[k].conf * (2 * Len(top) - k + 1)] ]
    IN FlattenSeq([ k \in DOMAIN top |-> scored(k) ])

find_sink_adjacent_candidates(sinks, channels, existing) ==
    LET found == FoldLeft(LAMBDA acc, ch : AdjacentStep(acc, existing, ch), [found |-> <<>>, seen |-> {}], AdjacentEntries(sinks, channels)).found
        order == SortSeq([ k \in DOMAIN found |-> k ],
                         LAMBDA a, b : found[a].score > found[b].score \/ (found[a].score = found[b].score /\ a < b))
    IN [ k \in 1..Min({10, Len(order)}) |-> found[order[k]] ]

(***************************************************************************)
(* A node next to one of the strongest sinks is proposed once, never when it   *)
(* is a peer already, and a dead channel does not hide a live one to the same *)
(* node.  (find_sink_adjacent_candidates)                                   *)
(***************************************************************************)
AdjacentAreNew(sinks, channels, existing) ==
    \A found \in {find_sink_adjacent_candidates(sinks, channels, existing)} :
    LET near == UNION { { channels[s.id][k].dest : k \in { x \in DOMAIN channels[s.id] : channels[s.id][x].active } } :
                          s \in { x \in Range(TopSinks(sinks)) : x.id \in DOMAIN channels } }
    IN /\ { found[k].dest : k \in DOMAIN found } = near \ (existing \cup {""})
       /\ \A k, m \in DOMAIN found : k # m => found[k].dest # found[m].dest
       /\ \A k \in DOMAIN found : k > 1 => found[k].score <= found[k - 1].score

-----------------------------------------------------------------------------
(* growth.rs.  A prior is a set with at most one [usable, samples, ratio];    *)
(* a ratio outside 0..100 percent is clamped, "bad" is malformed.           *)
fleet_prior_status(prior) ==
    IF prior = {} THEN "missing"
    ELSE LET p == CHOOSE x \in prior : TRUE IN
         IF ~p.usable THEN "unusable" ELSE IF p.samples < 3 THEN "insufficient_samples"
         ELSE IF p.ratio = {} THEN "malformed_ratio"
         ELSE IF Clamped(Max(p.ratio), 0, 100) <= 50 THEN "non_positive_prior" ELSE "positive_prior"

NonNeg(x) == Max({0, x})

HardCeiling(g) == Max({NonNeg(g.base), NonNeg(g.ceiling)})

\* fractions in percent
compute_growth_budget_status(g, prior) ==
    LET base == NonNeg(g.base)
        profit == NonNeg(g.profit)
        credit(f) == (profit * Clamped(f, 0, 100)) \div 100
        growth == IF fleet_prior_status(prior) = "positive_prior" THEN Min({credit(g.growth), NonNeg(g.extra)}) ELSE 0
        uncapped == base + credit(g.earned) + growth
        effective == IF g.enabled THEN Min({Max({base, uncapped}), HardCeiling(g)}) ELSE base
    IN [effective |-> effective, growth |-> IF g.enabled THEN growth ELSE 0,
        remaining |-> NonNeg(effective - NonNeg(g.spent) - NonNeg(g.reserved)), capped |-> g.enabled /\ effective < uncapped]

(***************************************************************************)
(* Whatever the configuration and the fleet's prior, growth never takes the   *)
(* budget below its base or above the local ceiling, a loss earns nothing,    *)
(* and a prior that is not positive adds nothing.                           *)
(* (compute_growth_budget_status)                                           *)
(***************************************************************************)
GrowthIsBounded(g, prior) ==
    LET b == compute_growth_budget_status(g, prior) IN
    /\ b.effective >= NonNeg(g.base)
    /\ b.effective > NonNeg(g.base) => b.effective <= g.ceiling /\ g.profit > 0
    /\ b.growth > 0 => fleet_prior_status(prior) = "positive_prior"
    /\ b.effective = compute_growth_budget_status(g, {}).effective \/ fleet_prior_status(prior) = "positive_prior"
=============================================================================
