----------------------------- MODULE CapitalAlgorithms -----------------------------
(***************************************************************************)
(* What a channel has earned and what may still be spent on it: the reads    *)
(* of revops-db/src/profitability_history.rs, the assembly of the fleet      *)
(* (revops/src/profitability_assembler.rs, profitability_evidence.rs), the    *)
(* verdicts of revops-analytics (profitability.rs, protection.rs, policy.rs,  *)
(* bleeder.rs), the capital budget (revops-capital/src/capex.rs,             *)
(* revops/src/capex_evidence.rs, capital_efficiency.rs) and the cache of      *)
(* bleeder verdicts that revenue-capex-status keeps between calls.           *)
(*                                                                         *)
(* A stored channel id is [chan, colon]: the same channel is written with   *)
(* "x" by one writer and with ":" by another.  Returns are in percent,       *)
(* rates and multipliers too.                                               *)
(***************************************************************************)
EXTENDS FlowAlgorithms

CONSTANTS
  MsatPerSat,      \* 1000 in the code; smaller in the runs, whose integers have 32 bits
  CapexCallers,    \* calls of revenue-capex-status that may overlap
  CapexPnls,       \* what the ledger may say of the channel
  CapexSteps,      \* seconds between two events
  MaxCapexTime     \* bound: clock

ASSUME CapexAssumption == CapexSteps \subseteq Nat /\ \A p \in CapexPnls : p.net30 \in Int

VARIABLES
  bleederCache, \* state.bleeder_cache: none or one [at, verdict, seen]; seen is when the evidence was read
  calls,        \* the calls of revenue-capex-status under way; current while nothing was stored since they looked
  capexTime

ToSats(msat) == CeilOf(NonNeg(msat), MsatPerSat)

-----------------------------------------------------------------------------
(* The reads.  A table is a sequence of rows; an alias is merged by          *)
(* dropping the form of the id.                                            *)
normalize_scid(id) == id.chan
Matching(rows, side, c, Counts(_)) == { k \in DOMAIN rows : normalize_scid(rows[k][side]) = c /\ Counts(rows[k]) }
Latest(rows, S) == Max({0} \cup { rows[k].at : k \in S })

\* The tables of the history: forwards [in, out, at, fee, sats], daily rollups [chan, at, count] of either side and rebalances [to, at, kind, ok].
read_channel_history(db, c, since) ==
    LET live == UNION { Matching(db.forwards, side, c, LAMBDA f : TRUE) : side \in {"in", "out"} }
        days == Matching(db.daily, "chan", c, LAMBDA r : r.count > 0)
        diag == Matching(db.rebalances, "to", c, LAMBDA r : r.kind = "diagnostic" /\ r.at >= since)
    IN [last |-> Max({Latest(db.forwards, live)} \cup { db.daily[k].at + Day - 1 : k \in days }),
        attempts |-> Cardinality(diag),
        success |-> Latest(db.rebalances, { k \in diag : db.rebalances[k].ok })]

\* One group per stored form of the id, merged afterwards.
Forms(c) == { [chan |-> c, colon |-> b] : b \in BOOLEAN }
InForm(rows, side, form, Counts(_)) == { k \in DOMAIN rows : rows[k][side] = form /\ Counts(rows[k]) }
HistoryOfForm(db, form, since) ==
    LET diag == InForm(db.rebalances, "to", form, LAMBDA r : r.kind = "diagnostic" /\ r.at >= since)
    IN [last |-> Max(UNION { {Latest(db.forwards, InForm(db.forwards, side, form, LAMBDA f : TRUE))} : side \in {"in", "out"} }
                     \cup { db.daily[k].at + Day - 1 : k \in InForm(db.daily, "chan", form, LAMBDA r : r.count > 0) }),
        attempts |-> Cardinality(diag),
        success |-> Latest(db.rebalances, { k \in diag : db.rebalances[k].ok })]

read_history(db, c, since) ==
    LET of == [ f \in Forms(c) |-> HistoryOfForm(db, f, since) ]
    IN [last |-> Max({ of[f].last : f \in Forms(c) }),
        attempts |-> SumOver(Forms(c), LAMBDA f : of[f].attempts),
        success |-> Max({ of[f].success : f \in Forms(c) })]

read_revenue(db, c, since) ==
    LET rows(side) == Matching(db.forwards, side, c, LAMBDA f : f.at >= since)
        sum(side) == SumOver(rows(side), LAMBDA k : db.forwards[k].fee)
    IN [fees |-> sum("out"), sourced |-> sum("in"),
        out |-> Cardinality(rows("out")), in |-> Cardinality(rows("in")),
        volume |-> SumOver(rows("out"), LAMBDA k : db.forwards[k].sats),
        inVolume |-> SumOver(rows("in"), LAMBDA k : db.forwards[k].sats)]

\* Costs: opening rows [chan, peer, open, capacity, at], rebalance rows [chan, at, msat]; a row of before the msat column has only sats.
RowMsat(r) == IF r.msat = {} THEN r.sats * MsatPerSat ELSE CHOOSE m \in r.msat : TRUE
read_costs(db, c, since) ==
    LET opens == Matching(db.opens, "chan", c, LAMBDA r : TRUE)
        paid(from) == SumOver(Matching(db.costs, "chan", c, LAMBDA r : r.at >= from), LAMBDA k : RowMsat(db.costs[k]))
    IN [open |-> Max({0} \cup { db.opens[k].open : k \in opens }),
        capacity |-> Max({0} \cup { db.opens[k].capacity : k \in opens }),
        opened |-> Latest(db.opens, opens),
        rebalance |-> CeilOf(paid(0), MsatPerSat), recent |-> CeilOf(paid(since), MsatPerSat)]

CostedChannels(db) ==
    { normalize_scid(db.opens[k].chan) : k \in DOMAIN db.opens } \cup { normalize_scid(db.costs[k].chan) : k \in DOMAIN db.costs }

\* The bulk read of revenue-profitability and the read of one channel agree, whichever form each writer used for the id.
ReadsAgree(db, c, since) == read_history(db, c, since) = read_channel_history(db, c, since)

-----------------------------------------------------------------------------
(* One channel's profitability.                                            *)
total_contribution_msat(rev) == Max({rev.fees, rev.sourced})
marginal_roi(profit, cost) == IF cost <= 0 THEN (IF profit > 0 THEN 100 ELSE 0) ELSE Trunc(100 * profit, cost)
marginal_roi_reliable(cost) == cost >= 100
channel_role(rev) == revenue_role_30d(TRUE, rev.out, rev.in, "dormant")

\* A last routing time of 0 is "never".
DaysInactive(e) == IF e.routed = 0 THEN e.daysOpen ELSE (e.now - e.routed) \div Day

\* Two diagnostic rebalances did not bring a losing channel back.
DiagnosedDead(e) ==
    /\ e.attempts >= 2
    /\ IF e.success > 0
       THEN (e.now - e.success) \div 3600 > 48 /\ (e.routed = 0 \/ e.routed < e.success)
       ELSE DaysInactive(e) >= 7

classify_channel(roi, e) ==
    LET sure == e.variance # {} /\ \A v \in e.variance : v < 2500
    IN CASE roi < -100 /\ DiagnosedDead(e) -> "zombie"
         [] DaysInactive(e) >= 7 /\ roi < -100 -> "stagnant_candidate"
         [] e.recent <= 0 /\ DaysInactive(e) >= 30 /\ e.daysOpen > 60 -> "stagnant_candidate"
         [] roi > (IF sure THEN 50 ELSE 100) -> "profitable"
         [] roi < (IF sure THEN -150 ELSE -100) -> "underwater"
         [] OTHER -> "break_even"

Standing == [zombie |-> 0, stagnant_candidate |-> 1, underwater |-> 2, break_even |-> 3, profitable |-> 4]
\* A better return never has a worse class, and a channel that has just routed is neither a zombie nor stagnant, however bad its record (roi in permille).
ClassIsFair(roi, better, e) ==
    /\ better >= roi => Standing[classify_channel(better, e)] >= Standing[classify_channel(roi, e)]
    /\ Standing[classify_channel(roi, [e EXCEPT !.routed = e.now])] >= 2

Unread == -1

\* Absent evidence is a value, unread evidence refuses the channel; the opener must be known.  A field is {} when absent and {Unread} when it could not be read.
channel_evidence(s) ==
    IF Unread \in s.variance \/ s.opener = {} THEN {} ELSE {s}

\* The variance inside the stored fee state [ok, nested, top]: the sampler of the fee state counts before one left at the top level, a row that does not parse is an error, and a sampler without variance is None.
posterior_variance_from_v2_json(row) ==
    IF ~row.ok THEN {Unread} ELSE UNION (IF row.nested # {} THEN row.nested ELSE row.top)

Verdict(rev, rev30, costs, hist, ev, now) ==
    LET cost == costs.open + costs.rebalance
        income == ToSats(total_contribution_msat(rev))
        recent == total_contribution_msat(rev30)
        roi == CASE cost > 0 -> Trunc(1000 * (income - cost), cost)
                 [] income > 0 -> 1000
                 [] OTHER -> 0
        daysOpen == (now - costs.opened) \div Day
        volume == Max({rev.volume, rev.inVolume})
    IN [class |-> classify_channel(roi, [now |-> now, routed |-> hist.last, daysOpen |-> daysOpen, attempts |-> hist.attempts,
                                         success |-> hist.success, variance |-> ev.variance, recent |-> recent]),
        net |-> income - cost, roi |-> roi, daysOpen |-> daysOpen, marginal |-> marginal_roi(ToSats(recent) - costs.recent, costs.recent),
        reliable |-> marginal_roi_reliable(costs.recent), role |-> channel_role(rev), capacity |-> costs.capacity,
        perSat |-> IF volume > 0 THEN {cost \div volume} ELSE {}]

\* Without an opening time there is no verdict.
assemble_channel_profitability(c, db, ev, now) ==
    { Verdict(rev, rev30, costs, hist, ev, now) :
        rev \in {read_revenue(db, c, 0)}, rev30 \in {read_revenue(db, c, now - 30 * Day)},
        costs \in { x \in {read_costs(db, c, now - 30 * Day)} : x.opened > 0 }, hist \in {read_history(db, c, now - 14 * Day)} }

openers_from_channels(listing) ==
    [ c \in { normalize_scid(listing[k].id) : k \in { i \in DOMAIN listing : listing[i].opener # {} } } |->
        listing[Max({ i \in DOMAIN listing : normalize_scid(listing[i].id) = c /\ listing[i].opener # {} })].opener ]

EvidenceOf(c, states, openers) ==
    channel_evidence([variance |-> posterior_variance_from_v2_json(states[c]), opener |-> IF c \in DOMAIN openers THEN openers[c] ELSE {}])

\* No evidence, no verdict: a channel is assembled or skipped, never assembled from defaults.
assemble_fleet(db, evidence, now) ==
    LET assembled(c) == \E ev \in evidence[c] : assemble_channel_profitability(c, db, ev, now) # {}
    IN [profitability |-> { c \in CostedChannels(db) : assembled(c) }, skipped |-> { c \in CostedChannels(db) : ~assembled(c) }]

gather_profitability(db, states, listing, now) ==
    LET openers == openers_from_channels(listing)
    IN assemble_fleet(db, [ c \in CostedChannels(db) |-> EvidenceOf(c, states, openers) ], now)

\* Every channel with a cost is reported once, with a verdict or as skipped; a verdict needs an opening time, a readable fee state and a known opener, under whichever form of its id each of them is stored.
FleetIsPartitioned(db, states, listing, now) ==
    \A fleet \in {gather_profitability(db, states, listing, now)} :
       /\ fleet.profitability \cap fleet.skipped = {}
       /\ fleet.profitability \cup fleet.skipped = CostedChannels(db)
       /\ \A c \in fleet.profitability :
             /\ states[c].ok
             /\ \E k \in DOMAIN db.opens : db.opens[k].chan.chan = c /\ db.opens[k].at > 0
             /\ \E k \in DOMAIN listing : listing[k].id.chan = c /\ listing[k].opener # {}

fee_multiplier(p) ==
    CASE ~p.reliable -> 100
      [] p.marginal > 20 -> 95
      [] p.marginal >= 0 -> 100
      [] p.marginal >= -20 -> 105
      [] p.marginal >= -50 -> 110
      [] p.class = "zombie" -> 100
      [] OTHER -> 115

-----------------------------------------------------------------------------
(* Protection from closing, and operator policies.                         *)
inactivity_is_signal(flow, daysOpen, window) == flow.forwards = {0} /\ daysOpen > window + 7

\* A stored confidence of exactly 0 reads as full confidence.
Doubtful(flow, daysOpen, window) ==
    flow.confidence \in 1..49 /\ ~inactivity_is_signal(flow, daysOpen, window)

EarnsFees(p) == p.sourced > 100 /\ p.roi > -50

close_protection_reason(p, flow, window) ==
    CASE flow # {} /\ \A f \in flow : Doubtful(f, p.daysOpen, window) -> {"KALMAN_LOW_CONFIDENCE"}
      [] p.role = "inbound_gateway" /\ p.roi >= -30 -> {"INBOUND_GATEWAY"}
      [] EarnsFees(p) -> {"SOURCED_FEE_CONTRIBUTION"}
      [] p.onRoute /\ p.roi > -30 -> {"REVENUE_ROUTE"}
      [] OTHER -> {}

policy_close_block(policy) ==
    IF \E q \in policy : q.strategy \in {"static", "passive"} \/ q.tags \cap {"protect", "no_close"} # {}
    THEN {"operator_policy"} ELSE {}

\* A swap contract counts from a known opening for whole months of 30 days.
lnplus_contract_protection(opened, months) == IF opened > 0 /\ months > 0 THEN {opened + months * 30 * Day} ELSE {}

close_protections(p, flow, window, policy, contract) ==
    { <<"close_protection", r>> : r \in close_protection_reason(p, flow, window) }
    \cup { <<r, "">> : r \in policy_close_block(policy) }
    \cup { <<"lnplus", e>> : e \in UNION { lnplus_contract_protection(c.opened, c.months) : c \in contract } }

derive_lifecycle(staged, opening, protections, underperforming) ==
    CASE staged -> "recycling"
      [] opening -> "opening"
      [] protections # {} -> "protected"
      [] underperforming -> "underperforming"
      [] OTHER -> "productive"

\* A better return never costs a channel its protection: whatever reason kept it from being closed, it still has one after its return has improved.
ProtectionIsKept(p, better, flow, window) ==
    close_protection_reason(p, flow, window) # {} /\ better >= p.roi
        => close_protection_reason([p EXCEPT !.roi = better], flow, window) # {}

\* Policies: an Option is a set of at most one element, multipliers are in percent.
MinMultiplier == 10
MaxMultiplier == 500
MaxExpiryHours == 30 * 24
is_expired(p, now) == \E e \in p.expires : now > e
Merged(new, old) == IF new # {} THEN new ELSE old

OrderedAfterMerge(p, u) == \A lo \in Merged(u.lo, p.lo), hi \in Merged(u.hi, p.hi) : lo <= hi

validate_policy_update(p, u, now) ==
    LET strategy == Merged(u.strategy, {p.strategy})
        target == Merged(u.target, p.target)
        lo == Merged(u.lo, p.lo)
        hi == Merged(u.hi, p.hi)
    IN IF /\ strategy \subseteq {"dynamic", "static", "passive"}
          /\ \A t \in target : t \in 0..100000
          /\ strategy = {"static"} => target # {}
          /\ \A m \in lo \cup hi : m \in MinMultiplier..MaxMultiplier
          /\ OrderedAfterMerge(p, u)
          /\ \A h \in u.hours : h <= MaxExpiryHours
       THEN { [strategy |-> CHOOSE s \in strategy : TRUE, target |-> target, lo |-> lo, hi |-> hi,
               expires |-> IF u.hours = {} THEN p.expires ELSE { now + h * 3600 : h \in { x \in u.hours : x > 0 } }] }
       ELSE {}

\* What a stored policy gives its readers: bounds clamped to the global ones and put in order.
fee_multiplier_bounds(p) ==
    LET bound(m, default) == Clamped(IF m = {} THEN default ELSE CHOOSE x \in m : TRUE, MinMultiplier, MaxMultiplier)
        b == {bound(p.lo, MinMultiplier), bound(p.hi, MaxMultiplier)}
    IN <<Min(b), Max(b)>>

\* A sequence of accepted updates leaves a whole policy: a static one has its fee, and the multipliers a reader computes are exactly the stored ones - the repair of out-of-order bounds never has anything to do.
PolicyStaysWhole(p, u1, u2, now) ==
    \A q \in UNION { validate_policy_update(r, u2, now) : r \in validate_policy_update(p, u1, now) } :
        /\ q.strategy = "static" => q.target # {}
        /\ \A lo \in q.lo : fee_multiplier_bounds(q)[1] = lo
        /\ \A hi \in q.hi : fee_multiplier_bounds(q)[2] = hi
        /\ ~is_expired(q, now)

-----------------------------------------------------------------------------
(* Bleeders: channels whose rebalances cost more than they bring.           *)
effective_cost_30d(pnl, success) ==
    IF success # {} /\ \A s \in success : s.total >= 3
    THEN LET s == CHOOSE x \in success : TRUE
         IN (100 * pnl.cost) \div Max({10, (100 * s.ok) \div s.total})
    ELSE pnl.cost

StaysHard(pnl, prevHard) == prevHard /\ pnl.net30 <= -500

classify_bleeder(pnl, success, prevHard) ==
    IF (effective_cost_30d(pnl, success) > 2 * pnl.revenue /\ pnl.net30 < -1000) \/ StaysHard(pnl, prevHard) THEN "hard"
    ELSE IF pnl.cost < 100 THEN "none"
    ELSE IF pnl.net7 < 0 /\ pnl.net30 < -1000 THEN "hard"
    ELSE IF pnl.net30 < 0 \/ (pnl.net7 < 0 /\ pnl.net30 > 0) THEN "soft"
    ELSE "none"

\* A report is served from the cache for 300 seconds; after that the old verdicts are only the memory of the hysteresis.

bleeder_cache_decision(c, now) ==
    IF c # {} /\ \A e \in c : now - e.at <= 300
    THEN [serve |-> { e.verdict : e \in c }, prev |-> { e.verdict : e \in c }, write |-> FALSE]
    ELSE [serve |-> {}, prev |-> { e.verdict : e \in c }, write |-> TRUE]

cacheVars == <<bleederCache, calls, capexTime>>

CacheInit == bleederCache = {} /\ calls = [ c \in CapexCallers |-> {} ] /\ capexTime = 0

\* The clock is read and the cache consulted under its lock; the lock is released before the queries.
CapexBegin(c) ==
    /\ calls[c] = {}
    /\ LET d == bleeder_cache_decision(bleederCache, capexTime)
       IN calls' = [calls EXCEPT ![c] =
                     { [at |-> capexTime, serve |-> d.serve, prev |-> d.prev, write |-> d.write, current |-> TRUE,
                        seen |-> { e.seen : e \in { x \in bleederCache : d.serve # {} } }, pnl |-> {}, read |-> FALSE] }]
    /\ UNCHANGED <<bleederCache, capexTime>>

\* The four reads; one that fails leaves no evidence (pnl is empty).
CapexRead(c, pnl) ==
    /\ \E k \in calls[c] :
         /\ ~k.read
         /\ calls' = [calls EXCEPT ![c] = { [k EXCEPT !.read = TRUE, !.pnl = IF k.serve = {} THEN pnl ELSE {},
                                                      !.seen = IF k.serve = {} THEN {capexTime} ELSE k.seen] }]
    /\ UNCHANGED <<bleederCache, capexTime>>

\* What the call answers with: the cached verdict, or one computed from what it read, or none at all.
VerdictOf(k) ==
    IF k.serve # {} THEN k.serve
    ELSE IF k.pnl = {} THEN {{}}
    ELSE { {classify_bleeder(p, {}, {"hard"} \in k.prev)} : p \in k.pnl }

CapexFinish(c) ==
    /\ \E k \in calls[c] :
         /\ k.read
         /\ \E v \in VerdictOf(k), s \in k.seen :
              bleederCache' = IF k.write THEN {[at |-> k.at, verdict |-> v, seen |-> s]} ELSE bleederCache
         /\ calls' = [ d \in CapexCallers |-> IF d = c THEN {} ELSE { [x EXCEPT !.current = @ /\ ~k.write] : x \in calls[d] } ]
    /\ UNCHANGED capexTime

CapexTick(d) == capexTime + d <= MaxCapexTime /\ capexTime' = capexTime + d /\ UNCHANGED <<bleederCache, calls>>

CacheNext ==
    \/ \E c \in CapexCallers : CapexBegin(c)
    \/ \E c \in CapexCallers, pnl \in {{}} \cup { {p} : p \in CapexPnls } : CapexRead(c, pnl)
    \/ \E c \in CapexCallers : CapexFinish(c)
    \/ \E d \in CapexSteps : CapexTick(d)

CacheSpec == CacheInit /\ [][CacheNext]_cacheVars

\* The evidence behind an answer is never older than 300 seconds before the call: the cache is stamped with the clock read before its own reads, and neither a hit nor a slower concurrent call lengthens its life.
VerdictsAreFresh == \A c \in CapexCallers : \A k \in calls[c] : \A s \in k.seen : s >= k.at - 300

\* A hard bleeder is forgotten only by a call that could not read the ledger, saw the loss recover to less than 500 sats, or had consulted the cache before the verdict was stored.
HardIsRemembered ==
    [][ \A c \in CapexCallers : \A k \in calls[c], e \in bleederCache, n \in bleederCache' :
          (n # e /\ calls'[c] = {} /\ e.verdict = {"hard"} /\ n.verdict # {"hard"} /\ k.current)
              => (k.pnl = {} \/ \E p \in k.pnl : p.net30 > -500) ]_cacheVars

\* Losing more never softens a verdict of hard, and neither does having been hard before.
HardIsMonotone(pnl, worse, success, prevHard) ==
    classify_bleeder(pnl, success, prevHard) = "hard" /\ worse <= pnl.net30
        => \A h \in {prevHard, TRUE} : classify_bleeder([pnl EXCEPT !.net30 = worse], success, h) = "hard"

-----------------------------------------------------------------------------
(* The capital budget.  A profile is what channel_profile takes from the     *)
(* profitability of a channel.                                              *)
channel_profile(p, rev, rev30) ==
    [class |-> p.class, capacity |-> p.capacity, daysOpen |-> p.daysOpen, roi |-> p.marginal, reliable |-> p.reliable, role |-> p.role,
     contribution |-> total_contribution_msat(rev), forwards |-> rev.out + rev.in, fees |-> rev.fees, sourced |-> rev.sourced,
     window |-> {[contribution |-> total_contribution_msat(rev30), fees |-> rev30.fees]}]

\* One malformed confirmed output and the wallet counts as empty; an output is [confirmed, msat], msat {} when malformed.
confirmed_onchain_sats(outputs) ==
    LET confirmed == { k \in DOMAIN outputs : outputs[k].confirmed }
    IN IF \E k \in confirmed : outputs[k].msat = {} THEN 0
       ELSE SumOver(confirmed, LAMBDA k : (CHOOSE m \in outputs[k].msat : TRUE) \div MsatPerSat)

py_median(s) ==
    LET o == SortSeq(s, LAMBDA a, b : a < b)
        n == Len(s)
    IN IF n = 0 THEN 0 ELSE IF n % 2 = 1 THEN o[n \div 2 + 1] ELSE (o[n \div 2] + o[n \div 2 + 1]) \div 2
is_dead_capital(forwards, daysOpen, grace) == forwards = {0} /\ daysOpen > grace
capex_fleet_efficiency(chans, flow, grace) ==
    LET rpsd(c) == IF chans[c].capacity <= 0 THEN 0 ELSE (1000 * chans[c].fees) \div chans[c].capacity
        ids == SetToSeq(DOMAIN chans)
    IN [dead |-> { c \in DOMAIN chans : is_dead_capital(flow[c], chans[c].daysOpen, grace) },
        rpsd |-> [ c \in DOMAIN chans |-> rpsd(c) ], median |-> py_median([ k \in DOMAIN ids |-> rpsd(ids[k]) ])]

has_gateway_value(p) == p.role = "inbound_gateway" \/ p.sourced > 100 * MsatPerSat
efficiency_multiplier(c, p, fleet) ==
    IF fleet = {} THEN 100
    ELSE LET f == CHOOSE x \in fleet : TRUE
         IN CASE c \in f.dead -> IF has_gateway_value(p) THEN 25 ELSE 0
              [] f.median <= 0 -> 100
              [] f.rpsd[c] >= f.median -> 100 + Min({50, ((100 * f.rpsd[c]) \div f.median - 100) \div 4})
              [] OTHER -> Max({50, (100 * f.rpsd[c]) \div f.median})

Windowed(p) == IF p.window = {} THEN [contribution |-> p.contribution, fees |-> p.fees] ELSE CHOOSE w \in p.window : TRUE
Blocked(priority) == [budget |-> 0, tier |-> "blocked", priority |-> priority]

Barred(p, bleeder) == p.class = "zombie" \/ bleeder = "hard"

compute_channel_budget(c, p, spent, bleeder, cfg, fleet) ==
    LET recent == Windowed(p).contribution
        roi == IF p.reliable THEN Clamped(100 + p.roi, 25, 150) ELSE 100
        proven == NonNeg((recent * cfg.reinvest) \div 100 - spent)
        bootstrap == NonNeg(Min({(p.capacity * MsatPerSat * cfg.bps) \div 10000, cfg.bootstrapMax * MsatPerSat}) - spent)
        granted(raw) == (((raw * roi) \div 100) * efficiency_multiplier(c, p, fleet)) \div 100
    IN CASE Barred(p, bleeder) -> Blocked("defensive")
         [] p.daysOpen < cfg.grace /\ p.contribution = 0 -> Blocked("growth")
         [] recent > 100 * MsatPerSat -> [budget |-> granted(proven), tier |-> "proven", priority |-> "preservation"]
         [] p.forwards > 5 -> [budget |-> granted(Max({proven, bootstrap})), tier |-> "active", priority |-> "preservation"]
         [] p.daysOpen >= cfg.grace -> [budget |-> granted(bootstrap), tier |-> "bootstrap", priority |-> "growth"]
         [] OTHER -> Blocked("growth")

\* More than one hard bleeder, or more than a tenth of the capacity.
HardBleeders(e) ==
    LET hard == { c \in DOMAIN e.chans : e.bleeder[c] = "hard" }
        cap(S) == SumOver(S, LAMBDA c : e.chans[c].capacity)
    IN Cardinality(hard) > 1 \/ (cap(DOMAIN e.chans) > 0 /\ 10 * cap(hard) > cap(DOMAIN e.chans))
DepletedEarner(e) ==
    \E c \in DOMAIN e.chans : e.chans[c].contribution > 100 * MsatPerSat /\ e.chans[c].class \in {"underwater", "stagnant_candidate"}
reserve_deficit(cfg, e) == NonNeg(cfg.reserve - e.onchain)
detect_priority_class(e, cfg) ==
    CASE HardBleeders(e) -> "defensive"
      [] DepletedEarner(e) -> "preservation"
      [] reserve_deficit(cfg, e) > 0 -> "operational"
      [] OTHER -> "growth"

\* A ledger that could not be read is {}.
Consumed(e, category) == SumOver({1} \X e.ledger, LAMBDA x : x[2].spent[category] + x[2].reserved[category])
apply_category_spend_remaining(msat, e, category) == NonNeg(msat - Consumed(e, category) * MsatPerSat)
wallet_exploration_floor_msat(cfg, e) == Min({NonNeg(e.onchain - cfg.reserve), NonNeg(cfg.openCost)}) * MsatPerSat
bootstrap_wallet_exploration_budget_msat(cfg, e) ==
    NonNeg(NonNeg(e.onchain - cfg.reserve) - SumOver({1} \X e.ledger, LAMBDA x : x[2].reserved["channel_open"])) * MsatPerSat

FleetContribution(e) == SumOver(DOMAIN e.chans, LAMBDA c : Windowed(e.chans[c]).fees)
RawExploration(cfg, e) ==
    IF FleetContribution(e) > 0
    THEN apply_category_spend_remaining(Max({(FleetContribution(e) * cfg.explore) \div 100, wallet_exploration_floor_msat(cfg, e)}), e, "channel_open")
    ELSE bootstrap_wallet_exploration_budget_msat(cfg, e)
RawTactical(cfg, e) ==
    apply_category_spend_remaining(NonNeg(Min({reserve_deficit(cfg, e) * MsatPerSat, (FleetContribution(e) * cfg.tactical) \div 100})), e, "boltz")

\* Mutant: only the per-channel spending decides whether the evidence is degraded.
LedgerMayFail(e) == e.capex = {}

Degraded(e) == e.capex = {} \/ e.ledger = {}

Envelope(cfg, raw) ==
    Min({IF cfg.envelope > 0 THEN cfg.envelope * MsatPerSat ELSE raw}
        \cup (IF cfg.daily > 0 THEN {cfg.daily * 30 * MsatPerSat} ELSE {})
        \cup (IF cfg.weekly > 0 THEN {(cfg.weekly * MsatPerSat * 30) \div 7} ELSE {}))

compute_allocations(e, cfg) ==
    LET raw == [ c \in DOMAIN e.chans |->
                   compute_channel_budget(c, e.chans[c], MsatPerSat * SumOver({1} \X e.capex, LAMBDA x : x[2][c]), e.bleeder[c], cfg, e.fleet) ]
        unless(x) == IF Degraded(e) THEN 0 ELSE x
        total == SumOver(DOMAIN raw, LAMBDA c : unless(raw[c].budget)) + unless(RawExploration(cfg, e)) + unless(RawTactical(cfg, e))
        envelope == Envelope(cfg, total)
        fit(x) == IF total > envelope /\ total > 0 THEN (unless(x) * envelope) \div total ELSE unless(x)
    IN [priority |-> detect_priority_class(e, cfg), envelope |-> envelope, degraded |-> Degraded(e),
        channels |-> [ c \in DOMAIN raw |-> [raw[c] EXCEPT !.budget = fit(@)] ],
        exploration |-> fit(RawExploration(cfg, e)), tactical |-> fit(RawTactical(cfg, e))]

AllocTotal(a) == SumOver(DOMAIN a.channels, LAMBDA c : a.channels[c].budget) + a.exploration + a.tactical

\* What is handed out fits the envelope of the month, of thirty days of the daily budget and of the weekly one, and an unreadable ledger hands out nothing.
AllocationsFit(e, cfg) ==
    \A a \in {compute_allocations(e, cfg)} :
       /\ AllocTotal(a) <= a.envelope
       /\ cfg.daily > 0 => AllocTotal(a) <= cfg.daily * 30 * MsatPerSat
       /\ cfg.weekly > 0 => 7 * AllocTotal(a) <= cfg.weekly * 30 * MsatPerSat
       /\ e.capex = {} \/ e.ledger = {} => AllocTotal(a) = 0

\* The cost of a swap made for a channel is shared with the tactical budget.
attribute_boltz_cost(cost, channel) ==
    IF channel = {} THEN [channel |-> 0, tactical |-> cost] ELSE [channel |-> cost \div 2, tactical |-> cost - cost \div 2]

\* What the status reports: every amount rounded up to sats.
build_capex_status(a) ==
    [priority |-> a.priority, envelope |-> ToSats(a.envelope), exploration |-> ToSats(a.exploration), tactical |-> ToSats(a.tactical),
     channels |-> [ c \in DOMAIN a.channels |-> [a.channels[c] EXCEPT !.budget = ToSats(@)] ]]

\* A verdict of "none" and a channel without profitability carry no status; a failed listing of the wallet counts as an empty one.
capex_status_response(verdicts, e, outputs, cfg) ==
    build_capex_status(compute_allocations(
        [e EXCEPT !.bleeder = [ c \in DOMAIN e.chans |-> IF c \in DOMAIN verdicts /\ verdicts[c] # "none" THEN verdicts[c] ELSE "" ],
                  !.onchain = SumOver({1} \X outputs, LAMBDA x : confirmed_onchain_sats(x[2]))], cfg))

\* Rounding up may exceed the envelope, by less than one sat for each line of the report; a hard bleeder and a zombie are granted nothing.
StatusIsHonest(verdicts, e, outputs, cfg) ==
    \A r \in {capex_status_response(verdicts, e, outputs, cfg)} :
       /\ AllocTotal(r) < r.envelope + Cardinality(DOMAIN r.channels) + 2
       /\ \A c \in DOMAIN r.channels :
             e.chans[c].class = "zombie" \/ (c \in DOMAIN verdicts /\ verdicts[c] = "hard") => r.channels[c].budget = 0
================================================================================
