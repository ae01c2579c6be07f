---------------------------- MODULE RebalancePlanning ----------------------------
(***************************************************************************)
(* What a rebalance cycle plans and what it pays for it (revops-rebalance:  *)
(* planner.rs, the pricing part of router.rs, ev.rs, cooldowns.rs,          *)
(* errors.rs, modes.rs, defib.rs, the sizing parts of engine.rs and         *)
(* facade.rs).                                                             *)
(*                                                                         *)
(* Ratios are in millionths, scores in units of 10^-4; urgency and drain    *)
(* are in percent.  Errors are named by the class the substring tests of    *)
(* the code tell apart.                                                    *)
(***************************************************************************)
EXTENDS FeeRails

-----------------------------------------------------------------------------
(* planner.rs.  A channel is [id, peer, spendable, capacity, low, high,       *)
(* urgency, drain, value, inbound, capex].                                  *)
value_score(class) == CASE class = "profitable" -> 2 [] class \in {"active", "funded"} -> 1 [] OTHER -> 0

local_ratio(c) ==
    IF c.capacity <= 0 THEN 0
    ELSE RoundEven(Clamped(c.spendable, 0, c.capacity) * 1000000, c.capacity)

sats_from_ratio_delta(delta, capacity) == Max({0, RoundEven(delta * Max({0, capacity}), 1000000)})

OverLocal(cs)  == { i \in DOMAIN cs : local_ratio(cs[i]) > cs[i].high }
OverRemote(cs) == { i \in DOMAIN cs : local_ratio(cs[i]) < cs[i].low /\ i \notin OverLocal(cs) }

Excess(c) == sats_from_ratio_delta(local_ratio(c) - c.high, c.capacity)
Need(c)   == sats_from_ratio_delta(c.low - local_ratio(c), c.capacity)

\* Mutant: the amount is sized by the source alone.
SizedBySource(s, d, maxChunk) == Min({Excess(s), maxChunk})

PairAmount(s, d, maxChunk) == Min({Excess(s), Need(d), maxChunk})

FeeCapOf(amount, ppm) == CeilOf(amount * ppm, 1000000)
PairBudget(d, amount, capPpm) == IF capPpm > 0 THEN Max({d.capex, FeeCapOf(amount, capPpm)}) ELSE d.capex

PairScore(s, d) ==
    30 * d.urgency + 20 * s.drain + 2000 * value_score(d.value) + (5000 - Clamped(s.inbound, 0, 5000)) \div 5

Candidates(cs, maxChunk) ==
    { <<s, d>> \in OverLocal(cs) \X OverRemote(cs) :
        cs[s].peer # cs[d].peer /\ PairAmount(cs[s], cs[d], maxChunk) > 0 }

\* Higher score first; a stable sort keeps the order of generation on ties.
ScoredBefore(cs, p, q) ==
    LET sp == PairScore(cs[p[1]], cs[p[2]])
        sq == PairScore(cs[q[1]], cs[q[2]])
    IN  sp > sq \/ (sp = sq /\ (p[1] < q[1] \/ (p[1] = q[1] /\ p[2] < q[2])))

GreedyPairs(cs, maxChunk, maxPairs) ==
    LET order == SetToSortSeq(Candidates(cs, maxChunk), LAMBDA p, q : ScoredBefore(cs, p, q))
        Add(acc, p) == IF Len(acc) >= maxPairs \/ \E i \in DOMAIN acc : acc[i][1] = p[1] \/ acc[i][2] = p[2]
                       THEN acc ELSE Append(acc, p)
    IN  FoldLeft(Add, <<>>, order)

PlanSkips(cs, pairs, maxPairs) ==
    LET paired == { pairs[k][1] : k \in DOMAIN pairs } \cup { pairs[k][2] : k \in DOMAIN pairs }
        Reason(partners) == IF partners = {} THEN "no_partner"
                            ELSE IF Len(pairs) >= maxPairs THEN "max_pairs_reached" ELSE "outcompeted"
    IN  { [channel |-> i, reason |-> "inside_band"] : i \in (DOMAIN cs) \ (OverLocal(cs) \cup OverRemote(cs)) }
        \cup { [channel |-> i, reason |-> Reason(OverRemote(cs))] : i \in OverLocal(cs) \ paired }
        \cup { [channel |-> i, reason |-> Reason(OverLocal(cs))] : i \in OverRemote(cs) \ paired }

DrainDemand(cs, pairs) ==
    SetToSortSeq({ [channel |-> i, excess |-> Excess(cs[i])] :
                       i \in OverLocal(cs) \ { pairs[k][1] : k \in DOMAIN pairs } },
                 LAMBDA a, b : cs[a.channel].drain > cs[b.channel].drain
                                \/ (cs[a.channel].drain = cs[b.channel].drain /\ a.channel < b.channel))

plan(cs, maxChunk, maxPairs, capPpm) ==
    LET pairs == GreedyPairs(cs, maxChunk, maxPairs)
        Planned(p) == LET amount == PairAmount(cs[p[1]], cs[p[2]], maxChunk)
                      IN  [source |-> p[1], dest |-> p[2], amount |-> amount,
                           budget |-> PairBudget(cs[p[2]], amount, capPpm),
                           score |-> PairScore(cs[p[1]], cs[p[2]])]
    IN  [pairs |-> [k \in DOMAIN pairs |-> Planned(pairs[k])],
         skips |-> PlanSkips(cs, pairs, maxPairs),
         drain |-> DrainDemand(cs, pairs)]

(* Every channel is accounted for exactly once: it is an endpoint of one      *)
(* planned pair or has one skip record; drain demand is published for        *)
(* unpaired sources only (RebalancePlanner::plan, phases 1, 3 and 4).        *)
Explained(cs, out) ==
    \A i \in DOMAIN cs :
        /\ Cardinality({ k \in DOMAIN out.pairs : i \in {out.pairs[k].source, out.pairs[k].dest} })
             + Cardinality({ s \in out.skips : s.channel = i }) = 1
        /\ (\E k \in DOMAIN out.drain : out.drain[k].channel = i) =>
               ~\E k \in DOMAIN out.pairs : out.pairs[k].source = i

(* No planned amount takes a source below the top of its own band or lifts a  *)
(* destination over the bottom of its own, up to the rounding of half a sat.  *)
WithinBands(cs, out) ==
    \A k \in DOMAIN out.pairs :
        LET p == out.pairs[k]
            s == cs[p.source]
            d == cs[p.dest]
        IN  /\ s.peer # d.peer
            /\ 2000000 * (s.spendable - p.amount) + 1000000 >= 2 * s.high * s.capacity - s.capacity
            /\ 2000000 * (Max({d.spendable, 0}) + p.amount) <= 2 * d.low * d.capacity + 1000000 + d.capacity

(* The greedy choice is stable: a pair that was possible and not chosen lost   *)
(* to a chosen pair of at least its score that shares an endpoint, unless the  *)
(* limit of pairs was reached by pairs that all score at least as much.       *)
NoBetterPair(cs, out, maxChunk, maxPairs) ==
    \A c \in Candidates(cs, maxChunk) :
        \/ \E k \in DOMAIN out.pairs : out.pairs[k].score >= PairScore(cs[c[1]], cs[c[2]])
                                       /\ (out.pairs[k].source = c[1] \/ out.pairs[k].dest = c[2])
        \/ /\ Len(out.pairs) >= maxPairs
           /\ \A k \in DOMAIN out.pairs : out.pairs[k].score >= PairScore(cs[c[1]], cs[c[2]])

-----------------------------------------------------------------------------
(* Pricing a route, router.rs.  A policy is {} (unknown) or one record        *)
(* [base, ppm, delta]; amounts are msat.                                     *)
PolicyFee(policy, amount) == policy.base + CeilOf(amount * policy.ppm, 1000000)

compute_final_hop_fee_sats(amountSats, policy) == CeilOf(PolicyFee(policy, amountSats * 1000), 1000)

channel_matches_scid(ch, scid) == scid = "" \/ ch.scid = scid \/ ch.alias = scid

\* get_final_hop_policy: the peer's own update of a matching channel, then gossip.
get_final_hop_policy(peerChannels, gossip, scid) ==
    LET own == { i \in DOMAIN peerChannels :
                   channel_matches_scid(peerChannels[i], scid) /\ peerChannels[i].remote # {} }
    IN  IF own # {} THEN peerChannels[Min(own)].remote ELSE IF scid # "" THEN gossip ELSE {}

get_dest_channel_cltv(peerChannels, scid) ==
    LET own == { i \in DOMAIN peerChannels :
                   channel_matches_scid(peerChannels[i], scid) /\ peerChannels[i].remote # {} }
    IN  IF own = {} THEN 40 ELSE (CHOOSE p \in peerChannels[Min(own)].remote : TRUE).delta

\* get_forwarding_policy needs the scid, both ends, the fee and the delay.
get_forwarding_policy(policies, from, chan, to) ==
    IF chan = "" \/ to = "" THEN {}
    ELSE { p \in policies : p.from = from /\ p.chan = chan /\ p.to = to }

\* reprice_middle_route_amounts: backwards from the amount the last hop must get;
\* a hop whose policy is unknown keeps the router's amount.
reprice_middle_route_amounts(policies, hops, final) ==
    LET n == Len(hops)
        amt[i \in 1..n] ==
            IF i = n THEN final
            ELSE LET policy == get_forwarding_policy(policies, hops[i].id, hops[i + 1].chan, hops[i + 1].id)
                 IN  IF policy = {} THEN hops[i].amount
                     ELSE amt[i + 1] + PolicyFee(CHOOSE p \in policy : TRUE, amt[i + 1])
    IN  [i \in 1..n |-> [hops[i] EXCEPT !.amount = amt[i]]]

validate_middle_path(hops, us, dest) ==
    hops # <<>> /\ hops[Len(hops)].id = dest /\ \A i \in DOMAIN hops : hops[i].id # us

\* The cheapest route, the first one on ties; an empty path is the dearest.
EmptyPathFee == 999999999
route_fee_msat(route) ==
    IF route.path = <<>> THEN EmptyPathFee ELSE Max({route.path[1].amount - route.amount, 0})
CheapestRoute(routes) ==
    LET best == Min({ route_fee_msat(routes[i]) : i \in DOMAIN routes })
    IN  routes[Min({ i \in DOMAIN routes : route_fee_msat(routes[i]) = best })]

translate_getroutes_error(text) ==
    IF text \in {"unknown_source_node", "unknown_dest_node", "unknown_layer", "askrene_child_died"}
    THEN text ELSE "no_route"

Unpriced(why) == [success |-> FALSE, error |-> why, cost |-> 0, route |-> <<>>]

\* The middle path wrapped with our own first and last hop, and what it costs.
CircularRoute(pair, policies, path, asked) ==
    LET middle == reprice_middle_route_amounts(policies, path, asked)
        source == get_forwarding_policy(policies, pair.sourcePeer, middle[1].chan, middle[1].id)
        first  == middle[1].amount + PolicyFee(CHOOSE p \in source : TRUE, middle[1].amount)
    IN  IF source = {} THEN Unpriced("source_policy_unknown")
        ELSE [success |-> TRUE, error |-> "",
              cost    |-> Max({CeilOf(first - pair.amount * 1000, 1000), 0}),
              route   |-> <<[id |-> pair.sourcePeer, chan |-> pair.source, amount |-> first]>> \o middle
                          \o <<[id |-> pair.us, chan |-> pair.dest, amount |-> pair.amount * 1000]>>]

price_pair_inner(pair, env, asked) ==
    LET path == CheapestRoute(env.reply.routes).path
    IN  IF env.reply.error # "" THEN Unpriced(translate_getroutes_error(env.reply.error))
        ELSE IF env.reply.routes = <<>> THEN Unpriced("no_route")
        ELSE IF ~validate_middle_path(path, pair.us, pair.destPeer) THEN Unpriced("path_loops_through_us")
        ELSE CircularRoute(pair, env.policies, path, asked)

\* try_price_pair; env is what the RPCs answer: [final (a policy), reply, policies].
price_pair(pair, env) ==
    IF env.final = {} THEN Unpriced("final_hop_fee_unknown")
    ELSE price_pair_inner(pair, env, (pair.amount + compute_final_hop_fee_sats(pair.amount, CHOOSE p \in env.final : TRUE)) * 1000)

(* A priced route can be paid: it starts at our source channel and ends with   *)
(* the planned amount at our destination channel, no node in between is us,    *)
(* and every forwarder whose policy is known receives at least its fee on top  *)
(* of what it forwards.  The reported cost is what leaves us minus what        *)
(* arrives, never less (CycleRouter::price_pair).                             *)
RouteIsPayable(pair, env, out) ==
    out.success =>
        LET r == out.route
            n == Len(r)
            Policy(i) == IF i = n - 1 THEN env.final
                         ELSE get_forwarding_policy(env.policies, r[i].id, r[i + 1].chan, r[i + 1].id)
        IN  /\ r[1].chan = pair.source /\ r[n].chan = pair.dest /\ r[n].amount = pair.amount * 1000
            /\ \A i \in 1..(n - 1) : r[i].id # pair.us
            /\ \A i \in 1..(n - 1) : \A p \in Policy(i) :
                   r[i].amount - r[i + 1].amount >= p.base + (r[i + 1].amount * p.ppm) \div 1000000
            /\ 1000 * out.cost >= r[1].amount - r[n].amount

-----------------------------------------------------------------------------
(* Budgets and sizes of the attempts: ev.rs, engine.rs, defib.rs.             *)
\* p_success in percent; rate in percent.
p_success(probPpm, attempts, rate) ==
    IF probPpm > 0 THEN Clamped(probPpm \div 10000, 5, 99)
    ELSE IF attempts >= 3 THEN Clamped((50 + rate) \div 2, 5, 95)
    ELSE 50

sats_ev_gate(i) ==
    \/ i.fee <= 0
    \/ p_success(i.prob, i.attempts, i.rate) * i.efv
         - 100 * (i.fee + i.opportunity + i.failure + i.activity) >= 100 * i.margin

per_attempt_ceiling(budget, amount, capPpm) ==
    IF capPpm <= 0 \/ amount <= 0 THEN Max({budget, 0}) ELSE Min({Max({budget, 0}), FeeCapOf(amount, capPpm)})

\* bonus and the route's probability in percent.
probability_adjusted_budget(budget, prob, bonus) ==
    IF bonus <= 0 \/ prob <= 0 THEN budget ELSE Trunc(budget * (10000 + Clamped(prob, 0, 100) * bonus), 10000)

fee_escalation(last, evMax) == IF last <= 0 THEN evMax ELSE Min({(3 * last) \div 2, evMax})

ScaledBudget(budget, amount, original) ==
    IF original > 0 /\ budget > 0 THEN CeilOf(budget * amount, original) ELSE budget

native_partial_amounts(amount) ==
    LET least == Min({amount - 1, Max({1000, Min({5000, amount \div 2})})})
        halves == SelectSeq([k \in 1..6 |-> amount \div 2 ^ k], LAMBDA x : x >= least)
    IN  IF amount <= 0 \/ least <= 0 THEN <<>>
        ELSE IF \E k \in DOMAIN halves : halves[k] = least THEN halves ELSE Append(halves, least)

\* The gates between a planned pair and an attempt, in the order of find_candidates.
GateOrder == <<"dest_inflight", "pair_cooldown", "pair_futility", "no_route", "route_over_budget",
               "below_hold_margin", "ev_terms_unavailable">>
EffectiveBudget(in) == per_attempt_ceiling(probability_adjusted_budget(in.budget, in.prob, in.bonus), in.amount, in.cap)

CandidateVerdict(in) ==
    LET closed == { i \in DOMAIN GateOrder :
                      CASE GateOrder[i] = "dest_inflight" -> in.inflight
                        [] GateOrder[i] = "pair_cooldown" -> in.cooldown
                        [] GateOrder[i] = "pair_futility" -> in.failures >= 3
                        [] GateOrder[i] = "no_route" -> ~in.routed
                        [] GateOrder[i] = "route_over_budget" -> in.fee > EffectiveBudget(in)
                        [] GateOrder[i] = "below_hold_margin" -> in.terms # {} /\ \E t \in in.terms : ~sats_ev_gate(t @@ [fee |-> in.fee])
                        [] GateOrder[i] = "ev_terms_unavailable" -> in.terms = {} /\ in.fee > 0 }
    IN  IF closed = {} THEN "priced" ELSE GateOrder[Min(closed)]

ShockAmount == 50000
shock_fee_envelope(diagMax, daily) ==
    LET fee == Clamped(Min({diagMax, daily}), 1, 10000)
    IN  [sats |-> fee, ppm |-> CeilOf(fee * 1000, ShockAmount \div 1000)]
is_source_route_failure(class) == class \in {"route_pricing_failed", "native_route_invalid", "no_route"}

(* The retry amounts of a failed payment shrink strictly, stay positive and     *)
(* under the planned amount, and end at the least amount worth moving; the      *)
(* budget of a retry never exceeds the pair's, and is zero only if the pair's    *)
(* is (native_partial_amounts, retry_with_partial_amounts).                    *)
PartialsShrink(amount, budget) ==
    LET a == native_partial_amounts(amount)
    IN  /\ Len(a) <= 7
        /\ \A k \in DOMAIN a : a[k] > 0 /\ a[k] < amount /\ a[k] >= Min({amount - 1, 1000})
        /\ \A k \in 1..(Len(a) - 1) : a[k] > a[k + 1]
        /\ \A k \in DOMAIN a : LET b == ScaledBudget(budget, a[k], amount)
                               IN  b <= Max({budget, 0}) /\ (budget > 0 => b > 0)

(* No candidate is attempted for a fee that its expected value, its budget and  *)
(* the per-attempt cap do not carry, and a priced pair without value terms is   *)
(* refused (find_candidates).                                                 *)
AttemptIsWorthIt(in) ==
    CandidateVerdict(in) = "priced" =>
        /\ ~in.inflight /\ ~in.cooldown /\ in.failures < 3
        /\ 100 * in.fee <= Max({in.budget, 0}) * (100 + in.bonus)
        /\ (in.cap > 0 /\ in.amount > 0) => 1000000 * (in.fee - 1) < in.amount * in.cap
        /\ in.fee > 0 => \E t \in in.terms :
               p_success(t.prob, t.attempts, t.rate) * t.efv >= 100 * (in.fee + t.margin)

-----------------------------------------------------------------------------
(* Cooldowns and futility: cooldowns.rs, errors.rs.                           *)
classify_failure(class) ==
    CASE class \in {"temporary_channel_failure", "no_route", "fee_insufficient", "incorrect_cltv_expiry",
                    "permanent_failure", "payment_pending_timeout"} ->
             (IF class = "no_route" THEN "temporary_channel_failure" ELSE class)
      [] OTHER -> "local_or_other"
cooldown_base_secs(kind) ==
    CASE kind = "temporary_channel_failure" -> 300 [] kind = "fee_insufficient" -> 1800
      [] kind = "permanent_failure" -> 21600
      [] kind \in {"incorrect_cltv_expiry", "payment_pending_timeout"} -> 3600
      [] OTHER -> 600
persisted_cooldown_secs(kind, count) == cooldown_base_secs(kind) * Clamped(count, 1, 6)

dest_cooldown_secs(base, amount, gap) ==
    IF amount <= 0 \/ gap <= 0 THEN base ELSE Min({base, (2 * base * amount) \div (amount + gap)})

drift_override(anchor, current) == anchor - current >= 30
dest_futility_key(peer, chan) == IF peer = "" THEN chan ELSE peer
should_skip(count, structural) == (structural /\ count >= 4) \/ count >= 10

classify_error(class) ==
    CASE class \in {"no_route", "unknown_next_peer", "no_path", "no_channels"} -> "no_route"
      [] class \in {"timeout", "deadline"} -> "timeout"
      [] class \in {"route_over_budget", "budget", "exceeded"} -> "budget_exceeded"
      [] OTHER -> "other"

\* modes.rs: what a mode reserves and accounts for.
ModeTable ==
    [normal           |-> [priority |-> 50,  reserve |-> TRUE,  account |-> TRUE,  deadline |-> 3600],
     hot_protection   |-> [priority |-> 90,  reserve |-> TRUE,  account |-> TRUE,  deadline |-> 900],
     structural_drain |-> [priority |-> 20,  reserve |-> TRUE,  account |-> TRUE,  deadline |-> 21600],
     manual           |-> [priority |-> 100, reserve |-> FALSE, account |-> FALSE, deadline |-> 0],
     diagnostic       |-> [priority |-> 10,  reserve |-> TRUE,  account |-> TRUE,  deadline |-> 2147483647]]
engine_kwargs(mode) == [reserve_budget |-> ModeTable[mode].reserve, account_costs |-> ModeTable[mode].account]
decide_route_policy(reason) ==
    [policy |-> "market_only", priority |-> "ev_positive", reason |-> IF reason = "" THEN "ev_positive" ELSE reason]

-----------------------------------------------------------------------------
(* The facade: capital controls and the estimate of an inbound fee.           *)
\* funds: {} when listfunds fails (the reserve is then not checked).
check_capital_controls(funds, minReserve, daily, dailySpent, weekly, weeklySpent) ==
    IF \E f \in funds : f.onchain + f.channels < minReserve THEN "min_wallet_reserve"
    ELSE IF dailySpent >= daily THEN "daily_budget_sats"
    ELSE IF weeklySpent >= weekly THEN "weekly_budget_sats"
    ELSE "ok"

\* last_hop_fee: {} or the peer's fee at this amount.
last_hop_fee(info, amountMsat) ==
    { i.ppm + Min({(i.base * 1000000) \div Max({amountMsat, 1}), 1000000}) : i \in info }

FailedFloor(history) ==
    Max({0} \cup { (h.fee * 1000000) \div h.amount : h \in { x \in history : x.failed /\ x.fee > 0 /\ x.amount > 0 } })

estimate_inbound_fee_at(hist, lastHop, history, base) ==
    LET h == CHOOSE x \in hist : TRUE
        estimate == Min(lastHop) + base
        floor == FailedFloor(history)
    IN  IF hist # {} THEN
            CASE h.confidence = "high" -> h.median
              [] h.confidence = "medium" -> (IF lastHop = {} THEN h.median ELSE (h.median * 7 + Min(lastHop) * 3) \div 10)
              [] OTHER -> (h.avg * 11) \div 10
        ELSE IF lastHop = {} THEN base
        ELSE IF floor > 0 /\ estimate <= floor THEN floor + 25 ELSE estimate

\* The decision recorded by find_rebalance_candidates.
CycleDecision(controls, executed, candidates) ==
    IF controls # "ok" THEN [action |-> "suppressed", restart |-> controls = "daily_budget_sats"]
    ELSE [action |-> IF executed > 0 THEN "rebalance" ELSE IF candidates > 0 THEN "suppressed" ELSE "hold", restart |-> FALSE]

(* Where no success is on record, the estimate is above every fee that was      *)
(* already offered to this peer and failed (estimate_inbound_fee_at).          *)
EstimateBeatsFailures(in) ==
    (in.hist = {} /\ in.lastHop # {}) =>
        \A h \in in.history : (h.failed /\ h.fee > 0 /\ h.amount > 0) =>
            estimate_inbound_fee_at(in.hist, in.lastHop, in.history, in.base) > (h.fee * 1000000) \div h.amount
================================================================================
