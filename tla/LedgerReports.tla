------------------------------- MODULE LedgerReports -------------------------------
(***************************************************************************)
(* What the plugin reports of the ledgers in the database: the queries of    *)
(* revops-db/src/queries.rs and budget_status.rs, the total cost budget      *)
(* (revops/src/rpc_total_cost_budget.rs, rpc_spend_ledger.rs), and, as a     *)
(* state machine, the reports made of several reads while other actors write. *)
(*                                                                         *)
(* A table is a sequence of rows, a stored channel id [chan, colon] as in     *)
(* CapitalAlgorithms, an optional value a set of at most one element.        *)
(***************************************************************************)
EXTENDS CapitalAlgorithms

CONSTANTS
  ReportKinds,     \* the reports made of several reads that a behaviour may ask for
  MaxLedgerMoves   \* bound: writes during a report

VARIABLES
  books,           \* the tables, as amounts
  report,          \* none, or the report being read: [kind, got, before, jobs]
  moves

RowSum(rows, Counts(_), amount(_)) == SumOver({ k \in DOMAIN rows : Counts(rows[k]) }, LAMBDA k : amount(rows[k]))
RowCount(rows, Counts(_)) == Cardinality({ k \in DOMAIN rows : Counts(rows[k]) })
Or(option, default) == IF option = {} THEN default ELSE CHOOSE x \in option : TRUE

-----------------------------------------------------------------------------
(* Cells and rows of loosely typed columns.                                *)
sql_opt_i64(cell) == IF cell.kind = "number" THEN {cell.n} ELSE {}
sql_opt_f64(cell) == IF cell.kind \in {"number", "infinite"} THEN {cell.n} ELSE {}
python_int_timestamp_cell(cell) == sql_opt_i64(cell)
sql_text_or(cell, default) == IF cell.kind = "null" THEN default ELSE cell.text

Strategies == {"dynamic", "static", "passive"}
RebalanceModes == {"enabled", "disabled", "source_only", "sink_only"}
decode_tags_json(raw) == IF raw.array THEN { i.tag : i \in { x \in raw.items : x.string } } ELSE {}
\* An unreadable strategy or mode is the default one; unreadable tags are none.
decode_policy_row(r) ==
    [peer |-> r.peer,
     strategy |-> IF r.strategy \in Strategies THEN r.strategy ELSE "dynamic",
     mode |-> IF r.mode \in RebalanceModes THEN r.mode ELSE "enabled",
     target |-> sql_opt_i64(r.target), tags |-> decode_tags_json(r.tags), updated |-> r.updated,
     lo |-> sql_opt_f64(r.lo), hi |-> sql_opt_f64(r.hi), expires |-> sql_opt_i64(r.expires)]
DefaultPolicy(peer) ==
    [peer |-> peer, strategy |-> "dynamic", mode |-> "enabled", target |-> {}, tags |-> {}, updated |-> 0, lo |-> {}, hi |-> {}, expires |-> {}]

query_policy_rows(rows, Selected(_)) == { decode_policy_row(r) : r \in { x \in rows : Selected(x) } }
Unexpired(ps, now) == { p \in ps : ~is_expired(p, now) }
all_policies(rows, now) == Unexpired(query_policy_rows(rows, LAMBDA r : TRUE), now)
policies_by_tag(rows, tag, now) == { p \in all_policies(rows, now) : tag \in p.tags }
policy_changes_since(rows, since, now) == Unexpired(query_policy_rows(rows, LAMBDA r : r.updated > since), now)
last_policy_change_timestamp(rows) == Max({0} \cup { r.updated : r \in rows })

policy_for_peer(rows, peer, now) ==
    Or(Unexpired(query_policy_rows(rows, LAMBDA r : r.peer = peer), now), DefaultPolicy(peer))

(***************************************************************************)
(* The views of the policy table agree: what holds for a peer is what the     *)
(* listing shows of it or the default, a tag selects from the listing, and    *)
(* who polls with the newest timestamp it was given is told nothing twice.    *)
(* (all_policies, policy_for_peer, policies_by_tag, policy_changes_since)    *)
(***************************************************************************)
PolicyViewsAgree(rows, peers, since, now) ==
    LET all == all_policies(rows, now) IN
    /\ \A peer \in peers :
         LET p == policy_for_peer(rows, peer, now)
         IN IF \E q \in all : q.peer = peer THEN p \in all ELSE p = DefaultPolicy(peer)
    /\ policies_by_tag(rows, "t", now) = { p \in all : "t" \in p.tags }
    /\ policy_changes_since(rows, since, now) = { p \in all : p.updated > since }
    /\ policy_changes_since(rows, last_policy_change_timestamp(rows), now) = {}

\* Keys that begin with "_" are the plugin's own: a single read finds them, the listing does not.
config_override(rows, key) == { r.value : r \in { x \in rows : x.key = key } }
all_config_overrides(rows) == { r \in rows : ~r.internal }
config_version(rows) == Max({0} \cup { r.version : r \in rows })

-----------------------------------------------------------------------------
(* Listings with a limit.                                                  *)
TopRows(S, Before(_, _), limit) == SubSeq(SetToSortSeq(S, Before), 1, Min({limit, Cardinality(S)}))

AtLeastOne(limit) == Max({1, limit})

planner_candidates(rows, minScore, source, limit) ==
    TopRows({ r \in rows : r.score >= minScore /\ (source = "" \/ r.source = source) },
            LAMBDA a, b : a.score > b.score \/ (a.score = b.score /\ a.id < b.id), AtLeastOne(limit))
planner_actions(rows, status, limit) ==
    TopRows({ r \in rows : status = "" \/ r.status = status },
            LAMBDA a, b : a.at > b.at \/ (a.at = b.at /\ a.id < b.id), AtLeastOne(limit))
hot_channel_protection_override_peers(rows) == TopRows(rows, LAMBDA a, b : a.at < b.at \/ (a.at = b.at /\ a.id < b.id), Cardinality(rows))
recent_fee_change_timestamps(rows, limit) == TopRows(rows, LAMBDA a, b : a.at > b.at \/ (a.at = b.at /\ a.id < b.id), Clamped(limit, 1, 10000))
spend_reservation_states(rows) == TopRows(rows, LAMBDA a, b : a.id < b.id, 10000)
all_channel_states(rows) == TopRows(rows, LAMBDA a, b : a.state < b.state \/ (a.state = b.state /\ a.ratio > b.ratio), Cardinality(rows))

\* Only forwards that paid a fee make a pair, and only often used pairs are listed.
FeePaying(fs, since) == { k \in DOMAIN fs : fs[k].at >= since /\ fs[k].fee > 0 }
RoutePairs(fs, since) ==
    { [in |-> e[1], out |-> e[2], fee |-> SumOver(e[3], LAMBDA k : fs[k].fee), count |-> Cardinality(e[3])] :
        e \in { <<fs[k].in, fs[k].out, { x \in FeePaying(fs, since) : fs[x].in = fs[k].in /\ fs[x].out = fs[k].out }>> : k \in FeePaying(fs, since) } }
top_route_pairs(fs, days, least, limit, now) ==
    TopRows({ p \in RoutePairs(fs, now - days * Day) : p.count >= least }, LAMBDA a, b : a.fee > b.fee, limit)

(***************************************************************************)
(* A listing leaves a row out only because it is full, and then none that     *)
(* ranks before a listed one.  (planner_candidates, planner_actions,         *)
(* top_route_pairs)                                                         *)
(***************************************************************************)
KeepsBest(listed, S, limit, rank(_)) ==
    /\ Range(listed) \subseteq S /\ Len(listed) = Min({limit, Cardinality(S)})
    /\ \A r \in S \ Range(listed), l \in Range(listed) : rank(l) >= rank(r)
ListingsKeepBest(rows, fs, limit, now) ==
    /\ KeepsBest(planner_candidates(rows, 20, "graph", limit), { r \in rows : r.score >= 20 /\ r.source = "graph" }, AtLeastOne(limit), LAMBDA r : r.score)
    /\ KeepsBest(planner_actions(rows, "", limit), rows, AtLeastOne(limit), LAMBDA r : r.at)
    /\ KeepsBest(top_route_pairs(fs, 1, 1, limit, now), RoutePairs(fs, now - Day), limit, LAMBDA p : p.fee)

-----------------------------------------------------------------------------
(* Forwards and their daily rollups.  A forward is [in, out, at, fee, sats];  *)
(* a rollup row [chan, at, fee, sats, count] is one past day of a channel.   *)
DayOf(t) == (t \div Day) * Day

\* Whole days only: the first day counts from its midnight, the current one not at all.
WholeDay(at, since, now) == at >= DayOf(since) /\ at < DayOf(now)
\* The rolled up part of a window.
RolledSince(rows, since, now, Counts(_), amount(_)) == RowSum(rows, LAMBDA r : WholeDay(r.at, since, now) /\ Counts(r), amount)
LiveSum(rows, since, Counts(_), amount(_)) == RowSum(rows, LAMBDA r : r.at >= since /\ Counts(r), amount)

total_routing_revenue_msat(db, since, now) ==
    LiveSum(db.forwards, since, LAMBDA f : TRUE, LAMBDA f : f.fee) + RolledSince(db.daily, since, now, LAMBDA r : TRUE, LAMBDA r : r.fee)
total_volume_sats_since(db, since, now) ==
    NonNeg(LiveSum(db.forwards, since, LAMBDA f : TRUE, LAMBDA f : f.sats) + RolledSince(db.daily, since, now, LAMBDA r : TRUE, LAMBDA r : r.sats)) \div MsatPerSat
total_forward_count_since(db, since, now) ==
    LiveSum(db.forwards, since, LAMBDA f : TRUE, LAMBDA f : 1) + RolledSince(db.daily, since, now, LAMBDA r : TRUE, LAMBDA r : r.count)
total_rebalance_fees_since(db, since) == ToSats(RowSum(db.costs, LAMBDA r : r.at >= since, RowMsat))
opening_costs_since(db, since) == RowSum(db.opens, LAMBDA r : r.at >= since, LAMBDA r : r.open)
closure_costs_since(db, since) == RowSum(db.closures, LAMBDA r : r.at >= since, LAMBDA r : r.sats)
total_closure_costs(db) == RowSum(db.closures, LAMBDA r : TRUE, LAMBDA r : r.sats)

pnl_summary(db, days, now) ==
    LET window == Max({1, days})
        since == now - window * Day
        gross == ToSats(total_routing_revenue_msat(db, since, now))
        opex == total_rebalance_fees_since(db, since) + closure_costs_since(db, since)
    IN [gross |-> gross, opex |-> opex, net |-> gross - opex, volume |-> total_volume_sats_since(db, since, now),
        count |-> total_forward_count_since(db, since, now),
        margin |-> IF gross > 0 THEN Trunc(100 * (gross - opex), gross) ELSE IF opex = 0 THEN 0 ELSE -100]

scid_aliases(id) == {[chan |-> id.chan, colon |-> FALSE], id} \cup Forms(id.chan)
channel_cost_row(db, id) ==
    LET canonical == [chan |-> id.chan, colon |-> FALSE]
        found == { k \in DOMAIN db.opens : db.opens[k].chan \in scid_aliases(id) }
        exact == { k \in found : db.opens[k].chan = canonical }
    IN IF found = {} THEN {} ELSE { db.opens[IF exact # {} THEN Min(exact) ELSE Min(found)] }
\* Alone among the reads of a channel, the closures are those of the exact id.
channel_closure_cost_total(db, id) ==
    IF \E k \in DOMAIN db.closures : db.closures[k].chan = id
    THEN { RowSum(db.closures, LAMBDA r : r.chan = id, LAMBDA r : r.sats) } ELSE {}
channel_pnl(db, id, days, now) ==
    LET since == now - days * Day
        ours == scid_aliases(id)
    IN [revenue |-> LiveSum(db.forwards, since, LAMBDA f : f.out \in ours, LAMBDA f : f.fee) + RolledSince(db.daily, since, now, LAMBDA r : r.chan \in ours, LAMBDA r : r.fee),
        count |-> LiveSum(db.forwards, since, LAMBDA f : f.out \in ours, LAMBDA f : 1) + RolledSince(db.daily, since, now, LAMBDA r : r.chan \in ours, LAMBDA r : r.count),
        cost |-> ToSats(RowSum(db.costs, LAMBDA r : r.at >= since /\ r.chan \in ours, RowMsat))]

\* The Python plugin rolls the forwards of the days before `day` up and deletes them; the current day has a row beside its live forwards.
RolledUp(fs, day, now) ==
    LET gone == { k \in DOMAIN fs : fs[k].at < day }
        summed == gone \cup { k \in DOMAIN fs : DayOf(fs[k].at) = DayOf(now) }
    IN [forwards |-> SelectSeq(fs, LAMBDA f : f.at >= day),
        daily |-> [ k \in 1..Cardinality(summed) |->
                      LET f == fs[SetToSeq(summed)[k]] IN [chan |-> f.out, at |-> DayOf(f.at), fee |-> f.fee, sats |-> f.sats, count |-> 1] ],
        costs |-> <<>>, closures |-> <<>>, opens |-> <<>>]

(***************************************************************************)
(* When the rollup runs does not show in a report: every forward of the       *)
(* window is counted once, live or rolled up, the current day is not counted  *)
(* from its rollup, and what a rollup adds to a window is at most the rest of *)
(* its first day; the channels' reports add up to the total.                *)
(* (total_routing_revenue_msat, total_forward_count_since, channel_pnl)      *)
(***************************************************************************)
RollupIsInvisible(fs, day, since, now) ==
    LET db == RolledUp(fs, day, now)
        truth(from) == LiveSum(fs, from, LAMBDA f : TRUE, LAMBDA f : f.fee)
        total == total_routing_revenue_msat(db, since, now)
        counted == total_forward_count_since(db, since, now)
    IN /\ truth(since) <= total /\ total <= truth(DayOf(since))
       /\ RowCount(fs, LAMBDA f : f.at >= since) <= counted /\ counted <= RowCount(fs, LAMBDA f : f.at >= DayOf(since))
       /\ (now - since) % Day = 0 =>
            LET of(c) == channel_pnl(db, [chan |-> c, colon |-> TRUE], (now - since) \div Day, now)
                channels == { f.out.chan : f \in Range(fs) }
            IN SumOver(channels, LAMBDA c : of(c).revenue) = total /\ SumOver(channels, LAMBDA c : of(c).count) = counted

-----------------------------------------------------------------------------
(* One line per stored channel id.                                         *)
ChannelsOn(fs, side, since) == { fs[k][side] : k \in { x \in DOMAIN fs : fs[x].at >= since } }

\* The line of a channel that both earned and sourced has both.
WithEarned(earning, line, id) == IF id \in DOMAIN earning THEN line @@ earning[id] ELSE line
PerSide(fs, side, since) ==
    [ id \in ChannelsOn(fs, side, since) |->
        LET Ours(f) == f.at >= since /\ f[side] = id
        IN IF side = "out" THEN [fees |-> RowSum(fs, Ours, LAMBDA f : f.fee), volume |-> RowSum(fs, Ours, LAMBDA f : f.sats), count |-> RowCount(fs, Ours)]
           ELSE [sourcedFees |-> RowSum(fs, Ours, LAMBDA f : f.fee), sourcedVolume |-> RowSum(fs, Ours, LAMBDA f : f.sats), sourced |-> RowCount(fs, Ours)] ]
NoEarnings == [fees |-> 0, volume |-> 0, count |-> 0]
NothingSourced == [sourcedFees |-> 0, sourcedVolume |-> 0, sourced |-> 0]
per_channel_revenue(fs, since) ==
    LET earning == PerSide(fs, "out", since)
        sourcing == PerSide(fs, "in", since)
    IN [ id \in DOMAIN earning \cup DOMAIN sourcing |->
           (IF id \in DOMAIN sourcing THEN WithEarned(earning, sourcing[id], id) ELSE earning[id]) @@ NoEarnings @@ NothingSourced ]

per_channel_costs(db, since) ==
    LET ids == { r.chan : r \in Range(db.opens) \cup Range(db.costs) }
        paid(id, from) == RowSum(db.costs, LAMBDA r : r.chan = id /\ r.at >= from, LAMBDA r : r.sats)
    IN [ id \in ids |->
           (IF \E r \in Range(db.opens) : r.chan = id
            THEN LET r == CHOOSE x \in Range(db.opens) : x.chan = id IN [open |-> r.open, capacity |-> r.capacity, opened |-> r.at]
            ELSE [open |-> 0, capacity |-> 0, opened |-> 0])
           @@ [rebalance |-> paid(id, 0), recent |-> paid(id, since), msat |-> paid(id, 0) * MsatPerSat, recentMsat |-> paid(id, since) * MsatPerSat] ]

\* Two costs of one channel are two rows: a rebalance and a spend event; rows without a channel are nobody's.
total_capex_by_channel(db, days, now) ==
    LET since == now - days * Day
        spenders == { r.chan : r \in { x \in Range(db.costs) : x.at >= since } } \cup UNION { e.chan : e \in { x \in Range(db.events) : x.at >= since } }
    IN [ id \in spenders |-> RowSum(db.costs, LAMBDA r : r.at >= since /\ r.chan = id, LAMBDA r : r.sats)
                             + RowSum(db.events, LAMBDA e : e.at >= since /\ id \in e.chan, LAMBDA e : e.sats) ]

\* The groups are stored ids; two spellings of one channel overwrite each other, the colons first.
Finished(r) == r.status \in {"success", "failed"}

Attempts(history, id, since) == RowCount(history, LAMBDA r : r.at >= since /\ r.to = id /\ Finished(r))
RateOf(history, id, since) ==
    [total |-> Attempts(history, id, since), successes |-> RowCount(history, LAMBDA r : r.at >= since /\ r.to = id /\ r.status = "success")]
rebalance_success_rates(history, days, now) ==
    LET since == now - days * Day
        counted == { id \in { r.to : r \in Range(history) } : Attempts(history, id, since) > 0 }
    IN [ c \in { id.chan : id \in counted } |->
           LET plain == [chan |-> c, colon |-> FALSE]
           IN RateOf(history, IF plain \in counted THEN plain ELSE [chan |-> c, colon |-> TRUE], since) ]

(***************************************************************************)
(* The lines of the channels add up to the totals of the tables: no forward   *)
(* is lost between the side that earned and the side that sourced, and a      *)
(* channel's recent costs are part of its costs.                            *)
(* (per_channel_revenue, per_channel_costs, total_capex_by_channel)          *)
(***************************************************************************)
ChannelTablesAddUp(db, since, now) ==
    LET lines == per_channel_revenue(db.forwards, since)
        costs == per_channel_costs(db, since)
        all == LiveSum(db.forwards, since, LAMBDA f : TRUE, LAMBDA f : f.fee)
        capex == total_capex_by_channel(db, (now - since) \div Day, now)
    IN /\ SumOver(DOMAIN lines, LAMBDA id : lines[id].fees) = all
       /\ SumOver(DOMAIN lines, LAMBDA id : lines[id].sourcedFees) = all
       /\ SumOver(DOMAIN costs, LAMBDA id : costs[id].rebalance) = RowSum(db.costs, LAMBDA r : TRUE, LAMBDA r : r.sats)
       /\ \A id \in DOMAIN costs : costs[id].recentMsat <= costs[id].msat
       /\ (now - since) % Day = 0 =>
            SumOver(DOMAIN capex, LAMBDA id : capex[id])
              = LiveSum(db.costs, since, LAMBDA r : TRUE, LAMBDA r : r.sats) + LiveSum(db.events, since, LAMBDA e : e.chan # {}, LAMBDA e : e.sats)

(***************************************************************************)
(* Every channel with a finished attempt has a rate, and where none failed    *)
(* the rate is full, whatever is still under way.  (rebalance_success_rates) *)
(***************************************************************************)
RatesAreOfFinished(history, days, now) ==
    LET rates == rebalance_success_rates(history, days, now)
        recent == { r \in Range(history) : r.at >= now - days * Day }
    IN /\ DOMAIN rates = { r.to.chan : r \in { x \in recent : Finished(x) } }
       /\ \A c \in DOMAIN rates :
            (\A r \in recent : r.to.chan = c => r.status # "failed") => rates[c].successes = rates[c].total

-----------------------------------------------------------------------------
(* The spend ledger.  An event is [cat, sats, at, chan], a hold              *)
(* [id, cat, sats, at, active], a hold of the old table [sats, at, active].  *)
checked_spend_window(hours, now) == [hours |-> Max({1, hours}), cutoff |-> now - Max({1, hours}) * 3600]
Categories == {"channel_open", "channel_close", "rebalance", "boltz", "other"}
category_totals(rows, cutoff, Counts(_), amount(_)) ==
    [ c \in Categories |-> RowSum(rows, LAMBDA r : r.at >= cutoff /\ r.cat = c /\ Counts(r), amount) ]

KnownTimes(times) == { t \in times : t > 0 }
coverage_from_earliest(times, now, hours) ==
    IF KnownTimes(times) = {} \/ Min(KnownTimes(times)) > now THEN [hours |-> {}, status |-> "unknown"]
    ELSE LET span == now - Min(KnownTimes(times))
         IN IF span >= hours * 3600 THEN [hours |-> {hours}, status |-> "complete"] ELSE [hours |-> {span \div 3600}, status |-> "partial"]
spend_coverage(db, now, hours) == coverage_from_earliest({ e.at : e \in Range(db.events) } \cup { h.at : h \in Range(db.holds) }, now, hours)
\* A source that cannot be read is skipped.
cost_evidence_coverage(sources, hours, now) ==
    coverage_from_earliest(UNION { UNION { python_int_timestamp_cell(c) : c \in { x \in s.oldest : TRUE } } : s \in { y \in sources : y.readable } }, now, Max({1, hours}))

(***************************************************************************)
(* A report says its window is covered only if some source it could read has  *)
(* evidence at least that old, never more hours than asked for, and losing a  *)
(* source never makes it claim more.  (coverage_from_earliest,              *)
(* cost_evidence_coverage)                                                  *)
(***************************************************************************)
CoverageIsHonest(sources, hours, now) ==
    LET of(S) == cost_evidence_coverage(S, hours, now)
        c == of(sources)
    IN /\ c.status = "complete" =>
            \E s \in sources : s.readable /\ \E x \in s.oldest : x.kind = "number" /\ x.n > 0 /\ x.n <= now - Max({1, hours}) * 3600
       /\ \A h \in c.hours : h >= 0 /\ h <= Max({1, hours})
       /\ \A s \in sources : Or(of((sources \ {s}) \cup {[s EXCEPT !.readable = FALSE]}).hours, 0) <= Or(c.hours, 0)

ActiveSince(cutoff, h) == h.active /\ h.at >= cutoff
Sats(r) == r.sats
spend_ledger_aggregates(db, hours, now) ==
    LET w == checked_spend_window(hours, now) IN
    [spent |-> RowSum(db.events, LAMBDA e : e.at >= w.cutoff, Sats),
     reserved |-> RowSum(db.holds, LAMBDA h : ActiveSince(w.cutoff, h), Sats),
     spentBy |-> category_totals(db.events, w.cutoff, LAMBDA e : TRUE, Sats),
     reservedBy |-> category_totals(db.holds, w.cutoff, LAMBDA h : h.active, Sats),
     events |-> category_totals(db.events, w.cutoff, LAMBDA e : TRUE, LAMBDA e : 1),
     holds |-> category_totals(db.holds, w.cutoff, LAMBDA h : h.active, LAMBDA h : 1),
     coverage |-> spend_coverage(db, now, w.hours)]
active_spend_reservations(db, hours, limit, now) ==
    TopRows({ h \in Range(db.holds) : ActiveSince(checked_spend_window(hours, now).cutoff, h) },
            LAMBDA a, b : a.at < b.at \/ (a.at = b.at /\ a.id < b.id), AtLeastOne(limit))
rebalance_spend_component(db, hours, now) ==
    LET cutoff == now - hours * 3600 IN
    [spent |-> LiveSum(db.costs, cutoff, LAMBDA r : TRUE, Sats),
     reserved |-> RowSum(db.legacy, LAMBDA h : ActiveSince(cutoff, h), Sats) + RowSum(db.holds, LAMBDA h : h.cat = "rebalance" /\ ActiveSince(cutoff, h), Sats),
     jobs |-> RowCount(db.history, LAMBDA r : r.at >= cutoff), successes |-> RowCount(db.history, LAMBDA r : r.at >= cutoff /\ r.status = "success")]
\* One transaction; a database that has not got the new table yet has no holds in it.
read_budget_status(db, unified, since) ==
    LET spent == LiveSum(db.costs, since, LAMBDA r : TRUE, Sats)
        reserved == RowSum(db.legacy, LAMBDA h : ActiveSince(since, h), Sats)
                    + IF unified THEN RowSum(db.holds, LAMBDA h : h.cat = "rebalance" /\ ActiveSince(since, h), Sats) ELSE 0
    IN [spent |-> spent, reserved |-> reserved, committed |-> spent + reserved]

-----------------------------------------------------------------------------
(* The total cost budget.                                                  *)
Canonical == {"channel_open", "channel_close", "rebalance", "boltz"}
parse_window_hours(raw) == Clamped(Or(raw \ {0}, 24), 1, 168)
build_spend_ledger(a, hours) == [a EXCEPT !.coverage.hours = IF a.coverage.status = "complete" THEN {hours} ELSE @]

\* What other tables account for is left out of the generic ledger.
normalize_generic_ledger(raw) ==
    [raw |-> raw.spent, counted |-> SumOver(Categories \ Canonical, LAMBDA c : raw.spentBy[c]),
     excluded |-> [ c \in Canonical |-> raw.spentBy[c] ]]

open_close_cost_visibility(raw, open, close) ==
    LET excluded == normalize_generic_ledger(raw).excluded
        late(cost, c) == IF cost <= 0 /\ excluded[c] > 0 THEN Max({1, raw.events[c]}) ELSE 0
    IN [openKnown |-> open > 0, closeKnown |-> close > 0,
        pending |-> late(open, "channel_open") + late(close, "channel_close") + NonNeg(raw.holds["channel_open"]) + NonNeg(raw.holds["channel_close"]),
        excluded |-> excluded["channel_open"] + excluded["channel_close"],
        reserved |-> raw.reservedBy["channel_open"] + raw.reservedBy["channel_close"]]

coverage_fields(coverage, window) ==
    LET hours == UNION { c.hours : c \in coverage }
    IN IF hours = {} THEN [hours |-> {}, status |-> "unknown"]
       ELSE [hours |-> { Min({Or(hours, 0), window}) }, status |-> (CHOOSE c \in coverage : TRUE).status]

\* A component that could not be read answers with zeros that count.
rebalance_component_value(outcome) == Or(outcome, [spent |-> 0, reserved |-> 0, jobs |-> 0, successes |-> 0])

AllCategoriesKnown(i) == i.open # {} /\ i.close # {} /\ i.rebalance # {} /\ i.ledger # {}
NoLedger == [spent |-> 0, reserved |-> 0, spentBy |-> [ c \in Categories |-> 0 ], reservedBy |-> [ c \in Categories |-> 0 ]]
\* The categories of one fetched input; nothing is known of what was not fetched.
actual_by_category(i) ==
    IF ~AllCategoriesKnown(i) THEN {}
    ELSE LET raw == Or(i.ledger, NoLedger)
             ledger == normalize_generic_ledger(raw)
         IN {[rebalance |-> Or(i.rebalance, 0).spent, boltz |-> raw.spentBy["boltz"], open |-> Or(i.open, 0), close |-> Or(i.close, 0), ledger |-> ledger.counted]}
reserved_by_category(i) ==
    IF i.rebalance = {} \/ i.ledger = {} THEN {}
    ELSE LET raw == Or(i.ledger, 0)
         IN {[rebalance |-> Or(i.rebalance, 0).reserved, boltz |-> raw.reservedBy["boltz"],
              ledger |-> NonNeg(raw.reserved - raw.reservedBy["rebalance"] - raw.reservedBy["boltz"])]}
CategorySum(by) == { SumOver(DOMAIN b, LAMBDA c : NonNeg(b[c])) : b \in by }

build_total_cost_budget(i, cfg, window) ==
    LET actual == CategorySum(actual_by_category(i))
        reserved == CategorySum(reserved_by_category(i))
        net == { r - a : r \in i.revenue, a \in actual }
        growth == { compute_growth_budget_status([base |-> cfg.daily, ceiling |-> IF cfg.ceiling > 0 THEN cfg.ceiling ELSE NonNeg(cfg.daily), profit |-> n, earned |-> cfg.earned,
                                                  growth |-> cfg.growth, extra |-> cfg.extra, spent |-> Or(actual, 0), reserved |-> r, enabled |-> cfg.enabled], {}) : n \in net, r \in reserved }
        effective == { g.effective : g \in growth }
        seen == { open_close_cost_visibility(l, o, c) : l \in i.ledger, o \in i.open, c \in i.close }
    IN [revenue |-> i.revenue, actual |-> actual, reserved |-> reserved, net |-> net, growth |-> growth,
        effective |-> { Or(effective, NonNeg(cfg.daily)) },
        remaining |-> IF growth # {} THEN { g.remaining : g \in growth } ELSE { NonNeg(NonNeg(cfg.daily) - a - r) : a \in actual, r \in reserved },
        visibility |-> seen, covered |-> coverage_fields(i.coverage, window).hours,
        gaps |-> { f \in {"revenue"} : i.revenue = {} } \cup { f \in {"actual", "net"} : actual = {} } \cup { f \in {"reserved"} : reserved = {} }
                 \cup { f \in {"growth", "effective", "remaining"} : growth = {} } \cup { f \in {"visibility"} : seen = {} }
                 \cup { f \in {"covered"} : i.coverage = {} }]

(***************************************************************************)
(* What a report states without listing it as a gap stands: fetching an       *)
(* input that was missing does not change it, and a missing input is never    *)
(* taken for zero.  (build_total_cost_budget)                               *)
(***************************************************************************)
KnowledgeIsMonotone(i, full, cfg, window) ==
    \A r \in {build_total_cost_budget(i, cfg, window)}, s \in {build_total_cost_budget(full, cfg, window)} :
       /\ s.gaps \subseteq r.gaps
       /\ \A f \in DOMAIN r \ ({"gaps"} \cup r.gaps) : r[f] # {} => r[f] = s[f]
       /\ \A f \in DOMAIN r \ {"gaps"} : r[f] = {} => f \in r.gaps \/ (f = "net" /\ "revenue" \in r.gaps) \/ f = "covered"

\* The reads of the response on one state of the database.
total_cost_budget_response(db, cfg, hours, now) ==
    build_total_cost_budget(
        [revenue |-> { total_routing_revenue_msat(db, now - hours * 3600, now) \div MsatPerSat },
         open |-> { opening_costs_since(db, now - hours * 3600) }, close |-> { closure_costs_since(db, now - hours * 3600) },
         rebalance |-> { rebalance_component_value({ rebalance_spend_component(db, hours, now) }) },
         ledger |-> { build_spend_ledger(spend_ledger_aggregates(db, hours, now), hours) },
         coverage |-> { cost_evidence_coverage({}, hours, now) }], cfg, hours)

(***************************************************************************)
(* Every sat spent or held in the window counts once in the total cost        *)
(* budget, although a rebalance, an opening and a closing are recorded both   *)
(* in a table of their own and in the spend ledger, and a hold of a rebalance *)
(* in either of two tables.  (total_cost_budget_response,                   *)
(* normalize_generic_ledger)                                                *)
(***************************************************************************)
SpendCountedOnce(spends, holds, cfg, hours, now) ==
    LET Of(kind) == SelectSeq(spends, LAMBDA s : s.cat = kind)
        Plainly(rows) == [ k \in DOMAIN rows |-> [chan |-> [chan |-> "a", colon |-> FALSE], at |-> rows[k].at, sats |-> rows[k].sats, open |-> rows[k].sats, msat |-> {}] ]
        db == [forwards |-> <<>>, daily |-> <<>>, costs |-> Plainly(Of("rebalance")), opens |-> Plainly(Of("channel_open")), closures |-> Plainly(Of("channel_close")),
               events |-> spends, holds |-> SelectSeq(holds, LAMBDA h : ~h.old), legacy |-> SelectSeq(holds, LAMBDA h : h.old), history |-> <<>>]
    IN \A r \in {total_cost_budget_response(db, cfg, hours, now)} :
       /\ r.gaps = {} /\ r.actual = { LiveSum(spends, now - hours * 3600, LAMBDA s : TRUE, Sats) }
       /\ r.reserved = { LiveSum(holds, now - hours * 3600, LAMBDA h : h.active, Sats) }
       /\ read_budget_status(db, TRUE, now - hours * 3600).committed <= Or(r.actual, 0) + Or(r.reserved, 0)

-----------------------------------------------------------------------------
(* A report made of several reads.  Each read is a statement of its own, and  *)
(* other actors write in between.  The books hold amounts: live forwards of   *)
(* past days and of today, rollups of both, what was pruned, the spend        *)
(* events and active holds, and the closures by age.                        *)
reportVars == <<books, report, moves>>
Ages == {"day", "week", "month", "older"}

LifetimeReads == <<"pruned", "forwards", "rollups", "count", "rolledCount">>
AggregateReads == <<"spent", "reserved", "spentBy", "reservedBy", "events", "holds">>

ClosureReads == <<"day", "week", "month", "total">>

ReadsOf(kind) == IF kind = "aggregates" THEN AggregateReads ELSE IF kind = "lifetime" THEN LifetimeReads ELSE ClosureReads

\* Mutant: the rollup of the current day counts beside its live forwards.
AllRollups(b) == b.rolled + b.rolledToday

PastRollups(b) == b.rolled
ClosedWithin(b, ages) == SumOver(ages, LAMBDA a : b.closed[a])
ReadOf(b, read) ==
    CASE read = "pruned" -> b.pruned
      [] read \in {"forwards", "count"} -> b.past + b.today
      [] read \in {"rollups", "rolledCount"} -> PastRollups(b)
      [] read \in {"spent", "spentBy", "events"} -> b.spent
      [] read \in {"reserved", "reservedBy", "holds"} -> b.held
      [] read = "day" -> ClosedWithin(b, {"day"})
      [] read = "week" -> ClosedWithin(b, {"day", "week"})
      [] read = "month" -> ClosedWithin(b, {"day", "week", "month"})
      [] read = "total" -> ClosedWithin(b, Ages)

Earned(b) == b.pruned + b.rolled + b.past + b.today

ReportInit ==
    /\ books = [past |-> 1, today |-> 1, rolled |-> 1, rolledToday |-> 1, pruned |-> 1, spent |-> 0, held |-> 1, closed |-> [ a \in Ages |-> 1 ]]
    /\ report = {} /\ moves = 0

BeginReport(kind) ==
    /\ report = {} /\ report' = {[kind |-> kind, got |-> <<>>, before |-> Earned(books), jobs |-> 0]} /\ UNCHANGED <<books, moves>>
\* The next statement of the report.
ReadNext ==
    \E r \in report :
      /\ Len(r.got) < Len(ReadsOf(r.kind))
      /\ report' = {[r EXCEPT !.got = Append(@, ReadOf(books, ReadsOf(r.kind)[Len(@) + 1]))]} /\ UNCHANGED <<books, moves>>
Reported == (\E r \in report : Len(r.got) = Len(ReadsOf(r.kind))) /\ report' = {} /\ UNCHANGED <<books, moves>>

Written(b) == moves < MaxLedgerMoves /\ moves' = moves + 1 /\ books' = b
NewForward == Written([books EXCEPT !.today = @ + 1]) /\ UNCHANGED report
NewHold == Written([books EXCEPT !.held = @ + 1]) /\ UNCHANGED report
\* A settlement turns the hold into an event in one transaction.
SettleHold == books.held > 0 /\ Written([books EXCEPT !.held = @ - 1, !.spent = @ + 1]) /\ UNCHANGED report
NewClosure(age) == Written([books EXCEPT !.closed[age] = @ + 1]) /\ UNCHANGED report
\* The jobs of the Python plugin move amounts from one table to the next.
Job(b) == Written(b) /\ report' = { [r EXCEPT !.jobs = @ + 1] : r \in report }
RollUp == books.past > 0 /\ Job([books EXCEPT !.past = 0, !.rolled = @ + books.past, !.rolledToday = books.today])
Prune == books.rolled > 0 /\ Job([books EXCEPT !.rolled = 0, !.pruned = @ + books.rolled])

ReportNext ==
    \/ \E kind \in ReportKinds : BeginReport(kind)
    \/ ReadNext \/ Reported \/ NewForward \/ NewHold \/ SettleHold \/ RollUp \/ Prune
    \/ \E age \in Ages : NewClosure(age)

Shown(kind) == { [ read \in Range(ReadsOf(kind)) |-> r.got[CHOOSE k \in DOMAIN r.got : ReadsOf(kind)[k] = read] ] :
                   r \in { x \in report : x.kind = kind /\ Len(x.got) = Len(ReadsOf(kind)) } }

(***************************************************************************)
(* However the writers interleave with a report's reads, no event of the      *)
(* total is missing from its breakdown by category or from the counts.       *)
(* (spend_ledger_aggregates)                                                *)
(***************************************************************************)
BreakdownCoversTotal == \A r \in Shown("aggregates") : r.spent <= r.spentBy /\ r.spentBy <= r.events

(***************************************************************************)
(* The closing costs of a window are never more than those of a wider one,    *)
(* although each is read at a moment of its own.  (closure_costs_windows)    *)
(***************************************************************************)
WindowsAreNested == \A r \in Shown("closures") : r.day <= r.week /\ r.week <= r.month /\ r.month <= r.total

(***************************************************************************)
(* The lifetime revenue of a report during which no job moved rows is what    *)
(* had been earned at some moment of the report, each forward once, and the   *)
(* count read after it is not smaller.  (lifetime_stats)                     *)
(***************************************************************************)
LifetimeIsExact ==
    \A r \in report : r.kind = "lifetime" /\ r.jobs = 0 =>
      \A s \in Shown("lifetime") :
        LET revenue == s.pruned + s.forwards + s.rollups
        IN r.before <= revenue /\ revenue <= Earned(books) /\ s.pruned + s.count + s.rolledCount >= revenue
================================================================================
