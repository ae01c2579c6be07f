-------------------------------- MODULE MCKernels --------------------------------
(***************************************************************************)
(* Model checking of the kernels and of the small state machines around      *)
(* them.  A behaviour plays one part: a state machine runs on its own, an     *)
(* algorithm is given one input (job).                                      *)
(***************************************************************************)
EXTENDS FeeTriggers, RebalancePlanning, RebalanceRouting, LedgerReports, StoreActors, ConfigResolution, EconArbitration, FeeStateCodec

VARIABLES part, job

machineVars == <<triggerVars, layerVars, ringVars, flowVars, cacheVars, storeVars, reportVars, configVars, optionVars, journalVars>>
kernelVars == <<part, job, machineVars>>

\* The machines that are not played rest in an initial state.
TriggerIdle == marker = 0 /\ TriggerInit
ConfigIdle == caller = "cycle" /\ snap = CHOOSE o \in OptionChoices : TRUE
StoreIdle == StoreInit /\ asked = CHOOSE p \in StorePlans : TRUE

-----------------------------------------------------------------------------
(* Inputs.                                                                 *)
Chan(peer, spendable, capacity, urgency, drain, value, inbound) ==
    [peer |-> peer, spendable |-> spendable, capacity |-> capacity, low |-> 300000, high |-> 600000,
     urgency |-> urgency, drain |-> drain, value |-> value, inbound |-> inbound, capex |-> 1]
Chans == { Chan("p", 900, 1000, 0, 50, "active", 0), Chan("q", 800, 1000, 0, 90, "neutral", 2500),
           Chan("p", 100, 1000, 80, 0, "profitable", 0), Chan("r", 250, 1000, 20, 0, "neutral", 0),
           Chan("q", -5, 1000, 80, 0, "active", 0), Chan("r", 450, 1000, 0, 0, "active", 0),
           Chan("r", 601, 1000, 0, 90, "active", 9000), Chan("s", 32, 333, 80, 0, "active", 0) }
PlanJobs == { [cs |-> cs, chunk |-> chunk, pairs |-> n] :
                cs \in [1..3 -> Chans] \cup { <<a, b, c, d>> : a, b \in Chans, c \in {Chan("p", 100, 1000, 80, 0, "profitable", 0)},
                                                           d \in { x \in Chans : x.spendable \in {-5, 250} } },
                chunk \in {100, 400}, n \in {1, 2} }

Policy(base, ppm) == [base |-> base, ppm |-> ppm, delta |-> 34]
Forward(from, chan, to, p) == p @@ [from |-> from, chan |-> chan, to |-> to]
PriceJobs ==
    { [amount |-> amount, final |-> final, reply |-> reply,
       policies |-> { Forward("a", "am", "m", p) : p \in first } \cup { Forward("m", "md", "d", p) : p \in second }
                    \cup { Forward("a", "ad", "d", p) : p \in first }] :
        amount \in {1, 7, 400},
        final \in {{}, {Policy(0, 999)}, {Policy(1001, 5000)}},
        first \in {{}, {Policy(1, 3)}, {Policy(0, 4999)}}, second \in {{}, {Policy(999, 0)}, {Policy(0, 2501)}},
        reply \in { [error |-> e, routes |-> <<>>] : e \in {"", "unknown_layer", "down"} }
                  \cup { [error |-> "", routes |-> rs] : rs \in
                          UNION { [1..n -> {[amount |-> 7000, path |-> <<[id |-> "m", chan |-> "am", amount |-> 7100], [id |-> "d", chan |-> "md", amount |-> 7000]>>],
                                            [amount |-> 7000, path |-> <<[id |-> "d", chan |-> "ad", amount |-> 7050]>>],
                                            [amount |-> 7000, path |-> <<[id |-> "us", chan |-> "ax", amount |-> 7001], [id |-> "d", chan |-> "xd", amount |-> 7000]>>],
                                            [amount |-> 7000, path |-> <<>>]}] : n \in 1..2 } } }
PairOf(j) == [amount |-> j.amount, us |-> "us", source |-> "sa", dest |-> "du", sourcePeer |-> "a", destPeer |-> "d"]

PartialJobs == { [amount |-> a, budget |-> b] :
                   a \in 0..3 \cup {999, 1000, 1001, 1999, 2000, 2001, 4999, 9999, 10000, 10001, 70001, 640001, 2000000},
                   b \in {0, 1, 3, 1000} }

Terms == { [prob |-> p, attempts |-> 3, rate |-> r, efv |-> e, opportunity |-> 1, failure |-> f, activity |-> 0, margin |-> 2] :
             p \in {0, 10000, 990000}, r \in {0, 100}, e \in {0, 30}, f \in {0, 2} }
GateJobs == { [inflight |-> i, cooldown |-> c, failures |-> f, routed |-> r, fee |-> fee, budget |-> b, prob |-> 50,
               bonus |-> bonus, amount |-> 1000, cap |-> cap, terms |-> t] :
                i, c, r \in BOOLEAN, f \in {2, 3}, fee \in {0, 5, 9}, b \in {-1, 5, 8}, bonus \in {0, 20},
                cap \in {0, 5000}, t \in {{}} \cup { {x} : x \in Terms } }

EstimateJobs == { [hist |-> h, lastHop |-> last_hop_fee(i, 100000), history |-> y, base |-> 500] :
                    h \in {{}, {[confidence |-> "medium", median |-> 900, avg |-> 950]}, {[confidence |-> "low", median |-> 900, avg |-> 950]}},
                    i \in {{}, {[ppm |-> 100, base |-> 0]}, {[ppm |-> 400, base |-> 10]}},
                    y \in SUBSET { [failed |-> f, fee |-> m, amount |-> 1000] : f \in BOOLEAN, m \in {0, 1, 2} } }

RailJobs == { [base |-> b, effMin |-> m, flow |-> f, vegas |-> v, rebalance |-> r, ceiling |-> c, policy |-> p] :
                b \in {1, 50}, m \in {0, 25, 200}, f \in {"source", "sink"}, v \in {100, 400}, r \in {{}, {180}},
                c \in {20, 150, 5000}, p \in {{}} \cup { {[anchor |-> a, lo |-> l, hi |-> h]} : a \in {0, 100}, l \in {0, 300}, h \in {0, 50, 150} } }
GuardJobs == { [current |-> c, target |-> t, floor |-> f, streak |-> s, forwards |-> w, rate |-> r, cap |-> k, anchor |-> a,
                guard |-> 0, down |-> 0, meaningful |-> m] :
                 c \in {30, 100}, t \in {10, 90, 500}, f \in {5, 60}, s \in {7, 8, 24, 25, 36}, w \in {0, 1}, r \in {0, 1},
                 k \in {0, 40}, a \in {0, 130, 400}, m \in BOOLEAN }
BlendJobs == { [current |-> c, bounded |-> b, woke |-> w, std |-> d, prof |-> p] :
                 c \in 0..12 \cup {100}, b \in 0..12 \cup {100, 1000}, w \in BOOLEAN, d \in {0, 60, 150, 200},
                 p \in {"active", "conservative"} }
GossipRows == { [source |-> n, fee |-> f, base |-> b, capacity |-> c, age |-> a] :
                  n \in {"us", "x"}, f \in {10, 200, 20000}, b \in {0, 1000}, c \in {1, 5}, a \in {0, 10} }
MedianJobs == [1..2 -> GossipRows] \cup [1..3 -> { r \in GossipRows : r.base = 1000 /\ r.age = 10 /\ r.fee < 20000 }]
FirstFeeJobs == { [strategy |-> st, target |-> t, prior |-> p, sample |-> x, fee |-> w, cycle |-> c, authorized |-> a] :
                    st \in {"static", "dynamic", "passive"}, t \in {{}, {5}, {700}}, p \in {{}, {90}}, x \in {0, 90, 9000},
                    w \in {{}, {[seeded |-> FALSE, bcast |-> 70]}}, c \in {{}, {[bcast |-> 70]}}, a \in BOOLEAN }
Listing == { [x |-> i] : i \in 1..3 } \cup { [x |-> i, y |-> k] : i \in 1..3, k \in 1..2 }
ListingJobs == UNION { [1..n -> Listing] : n \in 1..3 }

(* What one pass reads: an idle channel in the gap of the bands, a busy one  *)
(* above it, and a congested one the averages call a sink.                  *)
Input(entries, congested, outbound, turnover, ema, busy) ==
    [entries |-> entries, congested |-> congested, data |-> ema # 0, outbound |-> outbound, turnover |-> turnover, ema |-> ema, busy |-> busy]
MCFlowInputs == { Input(FALSE, FALSE, 750, 0, 0, FALSE), Input(TRUE, FALSE, 790, 20, 200, TRUE),
                  Input(TRUE, TRUE, 250, 0, -400, FALSE) }

ForwardJobs ==
    { [fs |-> fs, now |-> 3 * Day + 100] :
        fs \in UNION { [1..n -> [in : {"c", "e"}, out : {"c", "d"}, at : {100, 101, Day + 99, 3 * Day + 100, 4 * Day + 99, 4 * Day + 100}, msat : {999, 1001}]] : n \in 1..2 } }
BusyJobs == { [fs |-> [ k \in 1..n |-> [in |-> "e", out |-> "c", at |-> 2 * Day + (k % hours) * 3600 + IF k > early THEN Day ELSE 0, msat |-> 1000]],
               now |-> 4 * Day] : n \in {1, 9, 19, 20, 21, 40, 41}, early \in {0, 5, 20, 99}, hours \in {1, 3} }
DayJobs == UNION { [1..n -> [in : {0, 2}, out : {0, 1, 5}]] : n \in 1..4 }
HourJobs == { [old |-> o, new |-> w] : o \in [1..8 -> {0, 1}], w \in [1..4 -> {0, 3}] }
StateJobs == { [kalman |-> k, outbound |-> o, prev |-> p, turnover |-> t] :
                 k \in {-301, -51, -50, -10, -9, 0, 9, 50, 51, 301}, o \in {0, 219, 220, 221, 279, 280, 500, 720, 721, 779, 780, 781, 1000},
                 p \in {"none", "source", "sink", "balanced", "congested"}, t \in {0, 11} }
SinkEntries == { [dest |-> d, active |-> a] : d \in {"", "x", "y", "z"}, a \in BOOLEAN }
AdjacentJobs == { [sinks |-> ss, channels |-> [ id \in {"s1", "s2"} |-> IF id = "s1" THEN one ELSE two ], existing |-> e] :
                    ss \in { <<[id |-> "s1", ratio |-> -400, conf |-> 10], [id |-> "s2", ratio |-> r, conf |-> 30], [id |-> "s3", ratio |-> 0, conf |-> 90]>> : r \in {-900, -400} },
                    one \in [1..2 -> SinkEntries], two \in [1..1 -> SinkEntries], e \in {{}, {"y"}} }
GrowthJobs == { [g |-> [base |-> b, ceiling |-> c, profit |-> p, earned |-> ef, growth |-> gf, extra |-> x, spent |-> s, reserved |-> 3, enabled |-> en], prior |-> prior] :
                  b \in {-5, 0, 100}, c \in {-1, 50, 130}, p \in {-70, 0, 101}, ef \in {0, 250}, gf \in {30, -4}, x \in {0, 20}, s \in {0, 99}, en \in BOOLEAN,
                  prior \in {{}} \cup { {[usable |-> u, samples |-> n, ratio |-> r]} : u \in BOOLEAN, n \in {2, 3}, r \in {{}, {50}, {51}} } }

Ids == { [chan |-> c, colon |-> b] : c \in {"a", "b"}, b \in BOOLEAN }
HistoryJobs ==
    { [forwards |-> <<[in |-> f, out |-> g, at |-> 40, fee |-> 3, sats |-> 1]>>, daily |-> <<[chan |-> d, at |-> 0, count |-> n]>>, rebalances |-> rs] :
        f, g, d \in Ids, n \in {0, 2},
        rs \in { <<r, s>> : r \in [to : { i \in Ids : i.chan = "a" }, at : {9, 60}, kind : {"diagnostic", "normal"}, ok : BOOLEAN],
                            s \in [to : { i \in Ids : i.chan = "a" }, at : {10, 70}, kind : {"diagnostic"}, ok : {TRUE}] } }
ClassJobs == { [roi |-> roi, better |-> better,
                e |-> [now |-> 100 * Day, routed |-> routed, daysOpen |-> open, attempts |-> a, success |-> s, variance |-> v, recent |-> r]] :
                 roi \in {-1000, -151, -150, -101, -100, 51, 101}, better \in {-150, -120, -100, 0, 60, 200},
                 routed \in {0, 69 * Day, 94 * Day, 99 * Day}, open \in {5, 61}, a \in {1, 2},
                 s \in {0, 97 * Day, 98 * Day - 3600}, v \in {{}, {2499}, {2500}}, r \in {0, 5} }
FeeRow(ok, nested, top) == [ok |-> ok, nested |-> nested, top |-> top]
FleetJobs == { [db |-> [forwards |-> <<[in |-> i, out |-> o, at |-> Day, fee |-> 70, sats |-> 5]>>, daily |-> <<>>, rebalances |-> <<>>,
                        opens |-> <<[chan |-> i, peer |-> "p", open |-> 4, capacity |-> 1000, at |-> at], [chan |-> p, peer |-> "p", open |-> 7, capacity |-> 900, at |-> 50 * Day]>>,
                        costs |-> <<[chan |-> q, at |-> 80 * Day, msat |-> {15}, sats |-> 2]>>],
                states |-> [ c \in {"a", "b"} |-> IF c = "a" THEN v ELSE FeeRow(TRUE, {{2600}}, {}) ],
                listing |-> <<[id |-> i, opener |-> w], [id |-> r, opener |-> {"remote"}]>>] :
                 i, p, q \in Ids, o \in { x \in Ids : ~x.colon }, r \in { x \in Ids : x.chan = "b" }, at \in {0, 9}, v \in {FeeRow(FALSE, {}, {}), FeeRow(TRUE, {}, {}), FeeRow(TRUE, {{}}, {{100}}), FeeRow(TRUE, {}, {{100}})}, w \in {{}, {"local"}} }
ProtectionJobs == { [p |-> [roi |-> roi, role |-> role, sourced |-> s, onRoute |-> on, daysOpen |-> d], better |-> better, flow |-> f] :
                      roi, better \in {-60, -50, -49, -31, -30, -29, 0}, role \in {"inbound_gateway", "balanced"}, s \in {100, 101}, on \in BOOLEAN, d \in {21, 22},
                      f \in {{}} \cup { {[confidence |-> c, forwards |-> w]} : c \in {0, 1, 49, 50}, w \in {{}, {0}, {3}} } }
PolicyUpdates == { [strategy |-> s, target |-> t, lo |-> lo, hi |-> hi, hours |-> h] :
                     s \in {{}, {"static"}, {"passive"}, {"typo"}}, t \in {{}, {-1}, {700}}, lo \in {{}, {50}, {300}}, hi \in {{}, {100}}, h \in {{}, {0}, {720}, {721}} }
PolicyJobs == { [u1 |-> u1, u2 |-> u2] : u1 \in { u \in PolicyUpdates : u.hours \in {{}, {720}} /\ u.target # {-1} /\ u.strategy # {"typo"} }, u2 \in { u \in PolicyUpdates : u.target # {-1} /\ u.hours # {720} } }
NoPolicy == [strategy |-> "dynamic", target |-> {}, lo |-> {}, hi |-> {}, expires |-> {}]
BleederJobs == { [pnl |-> [cost |-> c, revenue |-> r, net30 |-> n, net7 |-> w], worse |-> x, success |-> s, prev |-> h] :
                   c \in {0, 99, 100, 900}, r \in {0, 300}, n, x \in {-1001, -1000, -501, -500, -499, -1, 0, 5}, w \in {-1, 0}, h \in BOOLEAN,
                   s \in {{}, {[total |-> 2, ok |-> 0]}, {[total |-> 3, ok |-> 0]}, {[total |-> 4, ok |-> 4]}} }
ChannelProfiles == { [class |-> cl, capacity |-> 500, daysOpen |-> d, roi |-> roi, reliable |-> TRUE, role |-> "balanced", contribution |-> c, forwards |-> f, fees |-> c,
               sourced |-> 0, window |-> {[contribution |-> c, fees |-> c]}] :
                cl \in {"zombie", "underwater", "profitable"}, d \in {3, 90}, roi \in {-90, 10}, c \in {0, 701}, f \in {0, 9} }
MCConfig(envelope, daily, weekly) ==
    [reinvest |-> 50, bps |-> 100, bootstrapMax |-> 4, grace |-> 14, explore |-> 10, tactical |-> 15, envelope |-> envelope, daily |-> daily, weekly |-> weekly, reserve |-> 40, openCost |-> 5]
Spends(x, y) == [spent |-> [channel_open |-> x, boltz |-> y], reserved |-> [channel_open |-> y, boltz |-> x]]
CapexJobs == { [e |-> [chans |-> [ c \in {"a", "b"} |-> IF c = "a" THEN p ELSE q ], bleeder |-> [ c \in {"a", "b"} |-> IF c = "a" THEN b ELSE "" ],
                       capex |-> k, ledger |-> l, onchain |-> w, fleet |-> {}], cfg |-> cfg] :
                 p \in ChannelProfiles, q \in { x \in ChannelProfiles : x.roi = 10 /\ x.class = "underwater" /\ x.daysOpen = 90 }, b \in {"hard", "soft"},
                 k \in {{}, {[ c \in {"a", "b"} |-> 1 ]}}, l \in {{}, {Spends(0, 0)}, {Spends(2, 1)}}, w \in {0, 60},
                 cfg \in {MCConfig(0, 0, 0), MCConfig(20, 0, 1), MCConfig(7, 1, 0)} }
StatusJobs == { [e |-> [x EXCEPT !.fleet = { capex_fleet_efficiency(x.chans, [ c \in {"a", "b"} |-> f ], 14) }], outputs |-> {o}, verdicts |-> v] :
                  x \in { j.e : j \in { y \in CapexJobs : y.e.capex # {} /\ y.e.ledger = {Spends(0, 0)} /\ y.e.onchain = 0 /\ y.cfg.envelope = 7 } }, f \in {{}, {0}, {4}},
                  o \in { <<[confirmed |-> TRUE, msat |-> {600}], [confirmed |-> b, msat |-> m]>> : b \in BOOLEAN, m \in {{}, {17}} },
                  v \in { [ c \in S |-> z ] : S \in {{}, {"a"}}, z \in {"hard", "none"} } }
Pnl(c, r, n, w) == [cost |-> c, revenue |-> r, net30 |-> n, net7 |-> w]
MCCapexPnls == {Pnl(900, 300, -600, -5), Pnl(2000, 300, -1700, -5), Pnl(200, 300, 100, 10)}

Ask(name, way, key, at, since, seed) == [name |-> name, way |-> way, key |-> key, at |-> at, since |-> since, seed |-> seed]
Plain(name, way, key) == Ask(name, way, key, 1, 0, FALSE)
PlansOf(first, second) == [{"s1"} -> first] \X [{"s2"} -> second]
MCStorePlans ==
    { p[1] @@ p[2] : p \in
        PlansOf({ <<Plain("UpsertKalmanState", w, "k"), Plain("InsertConsumedArmNonce", "async", "k"), Plain("KalmanStates", "blocking", "k")>> : w \in {"async", "blocking"} },
                { <<Plain("InsertConsumedArmNonce", "async", "k"), Plain("UpsertKalmanState", "blocking", "l")>> })
        \cup PlansOf({ <<Plain("CycleExistsWithGeneration", "blocking", "k"), Plain("CommitFeeCycleGuarded", "blocking", "k")>> },
                { <<Plain("CycleExistsWithGeneration", "blocking", "l"), Plain("CommitFeeCycleGuarded", "blocking", "l")>>, <<Plain("CommitFeeCycle", "async", "l"), Plain("CommitFeeCycle", "blocking", "k")>> })
        \cup PlansOf({ <<Ask("CommitFeeCycle", "async", "m", 1, 0, TRUE), Plain("VerifiedSeedBinding", "async", "v")>> },
                { <<Plain(x, "async", "n"), Plain("VerifiedSeedBinding", "blocking", "v")>> : x \in {"RecordSeedRefusal", "CommitFeeCycle"} }
                    \cup { <<Ask("CommitFeeCycle", "async", "n", 1, 0, TRUE)>> })
        \cup PlansOf({ <<Ask("RefreshMempoolWindow", "async", "k", 2, 1, FALSE)>> }, { <<Ask("RecordMempoolSamplePruned", "async", "l", 3, 2, FALSE), Ask("RefreshMempoolWindow", "blocking", "m", 3, 2, FALSE)>> })
        \cup PlansOf({ <<Plain("InsertBroadcastAttempt", "try", "k"), Plain("InsertBroadcastAttempt", "try", "k")>> },
                { <<Plain("InsertRebalanceAttempt", "try", "k"), Plain("SettleRebalanceAttempt", "async", "k")>>,
                  <<Plain("QueryRows", "async", "x"), Plain("ReconcileQuarantineOnRestart", "async", "z")>> })
        \cup PlansOf({ <<Plain("UpsertChannelFlowState", "async", "k"), Plain("ChannelFlowStates", "blocking", "k")>> },
                { <<Plain("PersistFlowPass", "async", x)>> : x \in {"k", "l"} })
        \cup PlansOf({ <<Plain("RegisterLoop", "async", "k"), Plain("SuspendLoop", "async", "k")>> }, { <<Plain("BeginLoopPass", "async", "k"), Plain("FinishLoopPass", "async", "k")>> }) }

Cell(kind, n) == [kind |-> kind, n |-> n]
NoCell == Cell("null", 0)
PolicyRow(peer, strategy, mode, tags, at, expires) ==
    [peer |-> peer, strategy |-> strategy, mode |-> mode, target |-> NoCell, tags |-> tags, updated |-> at, lo |-> NoCell, hi |-> NoCell, expires |-> expires]
PolicyRows(peer) == { PolicyRow(peer, s, "enabled", t, at, x) :
    s \in {"static", "typo"}, t \in { [array |-> TRUE, items |-> {[string |-> b, tag |-> "t"]}] : b \in BOOLEAN } \cup {[array |-> FALSE, items |-> {}]},
    at \in {4, 7}, x \in {NoCell, Cell("junk", 3), Cell("number", 7), Cell("number", 8)} }
ViewJobs == { {x} : x \in PolicyRows("p") } \cup { {x, y} : x \in PolicyRows("p"), y \in { r \in PolicyRows("q") : r.strategy = "typo" } }
Sample(id, score, source) == [id |-> id, score |-> score, source |-> source, status |-> "pending", at |-> score]
PairForward(in, fee, at) == [in |-> in, out |-> "o", fee |-> fee, at |-> at]
ListJobs == { [rows |-> { Sample(1, a, "graph"), Sample(2, b, "graph"), Sample(3, 30, s), Sample(4, 30, "graph") },
               fs |-> <<PairForward("a", f, Day), PairForward("b", 2, t), PairForward("b", g, Day), PairForward("c", 3, Day - 1)>>, limit |-> n] :
              a \in {10, 20, 40}, b \in {20, 50}, s \in {"graph", "manual"}, f \in {0, 3}, t \in {Day - 1, Day}, g \in {0, 4}, n \in 0..4 }
RollForwards == [out : Ids, at : {Day - 1, Day, Day + 7, 2 * Day, 3 * Day - 1, 3 * Day + 5}, fee : {1}, sats : {1}]
RollJobs == { [fs |-> fs, day |-> d, since |-> s] : fs \in [1..2 -> RollForwards], d \in {0, Day, 2 * Day, 3 * Day}, s \in {Day, Day + 7, 2 * Day + 9} }
TableJobs == { [db |-> [forwards |-> <<[in |-> i, out |-> o, at |-> 5, fee |-> 2, sats |-> 9], [in |-> o, out |-> p, at |-> t, fee |-> 3, sats |-> 8]>>,
                 opens |-> <<[chan |-> i, peer |-> "p", open |-> 4, capacity |-> 10, at |-> 1]>>,
                 costs |-> <<[chan |-> p, at |-> t, sats |-> 2, msat |-> {}], [chan |-> o, at |-> 6, sats |-> 1, msat |-> {15}]>>,
                 events |-> <<[cat |-> "rebalance", sats |-> 2, at |-> u, chan |-> e], [cat |-> "other", sats |-> 1, at |-> 7, chan |-> {i}]>>]] :
               i, o, p \in Ids, t \in {3, 6}, u \in {4, 5}, e \in {{}, {[chan |-> "b", colon |-> TRUE]}} }
RateJobs == [1..2 -> [to : Ids, at : {Day - 1, Day}, status : {"success", "failed", "pending"}]]
            \cup [1..3 -> [to : { i \in Ids : i.chan = "a" }, at : {Day}, status : {"success", "failed", "pending"}]]
Source(n, ok, oldest) == [name |-> n, readable |-> ok, oldest |-> oldest]
Oldest == {{}, {NoCell}, {Cell("number", 0)}, {Cell("number", 1)}, {Cell("number", 90000)}, {Cell("number", 96400)}, {Cell("number", 99999)}}
CoverJobs == { [sources |-> { Source("events", a, x), Source("holds", b, y), Source("costs", TRUE, z) }, hours |-> h] :
                 a, b \in BOOLEAN, x, y \in Oldest, z \in {{}, {Cell("number", 96400)}, {Cell("number", 2)}}, h \in {0, 1, 24} }
Ledgers == { [spent |-> 9, reserved |-> r, spentBy |-> [ c \in Categories |-> IF c = "boltz" THEN 2 ELSE IF c = "other" THEN o ELSE x ],
              reservedBy |-> [ c \in Categories |-> IF c = "boltz" THEN 1 ELSE 3 ], events |-> [ c \in Categories |-> 1 ], holds |-> [ c \in Categories |-> 1 ],
              coverage |-> [hours |-> {}, status |-> "unknown"]] : r \in {2, 9}, o \in {4}, x \in {0, 5} }
BudgetInputs == { [revenue |-> {v}, open |-> {o}, close |-> {0}, rebalance |-> {[spent |-> s, reserved |-> 2, jobs |-> 1, successes |-> 1]}, ledger |-> {l}, coverage |-> {[hours |-> h, status |-> "partial"]}] :
                    v \in {0, 60}, o \in {-1, 7}, s \in {0, 6}, l \in Ledgers, h \in {{}, {5}} }
Forgetting(i, F) == [ f \in DOMAIN i |-> IF f \in F THEN {} ELSE i[f] ]
MCBudget(daily, ceiling, enabled) == [daily |-> daily, ceiling |-> ceiling, earned |-> 50, growth |-> 20, extra |-> 9, enabled |-> enabled]
BudgetJobs == { [full |-> i, missing |-> F, cfg |-> c] : i \in BudgetInputs, F \in SUBSET {"revenue", "open", "close", "rebalance", "ledger", "coverage"}, c \in {MCBudget(30, 0, TRUE), MCBudget(30, 45, TRUE), MCBudget(-4, 20, FALSE)} }
OneSpends(sats) == [cat : Categories, sats : {sats}, at : {0, 3600}, chan : {{}}]
OneHolds == [id : {1}, cat : Categories, sats : {3}, at : {3599, 3600}, active : BOOLEAN, old : {FALSE}] \cup [id : {1}, cat : {"rebalance"}, sats : {50}, at : {3599, 3600}, active : BOOLEAN, old : {TRUE}]
OnceJobs == { [spends |-> <<a, b>>, holds |-> <<h, [id |-> 2, cat |-> c, sats |-> 7, at |-> 3700, active |-> TRUE, old |-> FALSE]>>] : a \in OneSpends(1), b \in OneSpends(20), h \in OneHolds, c \in {"rebalance", "boltz", "other"} }

ConfigTexts(f) == CASE ConfigTable[f].type \in {"int", "float"} -> { Text(k, n, "", FALSE, pad) : k \in {"int"}, n \in {0, 1000, 30000, 99000, 200000000}, pad \in BOOLEAN }
                          \cup { Text(k, n, "", FALSE, pad) : k \in {"float"}, n \in {0, 450, 1500, 30000, 200000000}, pad \in BOOLEAN } \cup { Text(k, 0, "", FALSE, FALSE) : k \in {"inf", "nan"} } \cup {WordText("junk", FALSE)}
                   [] ConfigTable[f].type = "bool" -> { Text("word", 0, w, u, p) : w \in {"true", "yes", "on", "junk"}, u \in BOOLEAN, p \in BOOLEAN } \cup {Whole(1000), Whole(0)}
                   [] OTHER -> { Text("word", 0, w, u, p) : w \in {"active", "match", "junk"}, u \in BOOLEAN, p \in BOOLEAN } \cup {Whole(1000)}
ConfigOptions(f) == { OptText(t) : t \in ConfigTexts(f) } \cup { OptInt(n) : n \in {0, 1000, 30000, 200000000} } \cup { OptBool(b) : b \in BOOLEAN }
Entry(f, o) == [name |-> f, ours |-> TRUE, str |-> { x.text : x \in { y \in {o} : o.shape = "string" } }, int |-> { x.text.n : x \in { y \in {o} : o.shape = "integer" } },
                bool |-> { x.text.word = "true" : x \in { y \in {o} : o.shape = "boolean" } }]
KeyFields == {"min_fee_ppm", "receivable_ratio_target", "htlcmax_sink_pct", "fee_profile", "enable_vegas_reflex", "growth_budget_enabled", "paused", "authority_level", "dry_run"}
RowJobs == UNION { { [f |-> f, t |-> t, values |-> v] : t \in ConfigTexts(f), v \in {NoValues} \cup { f :> o : o \in ConfigOptions(f) } } : f \in KeyFields }
ReaderJobs == UNION { { [f |-> f, row |-> row, body |-> {Entry(f, o)}] : row \in {{}} \cup { {t} : t \in { x \in ConfigTexts(f) : ~x.upper } }, o \in ConfigOptions(f) } : f \in KeyFields }
MCRowChoices == [min_fee_ppm |-> {Whole(50000)}, max_fee_ppm |-> {Whole(1000), Whole(30000)}, receivable_ratio_floor |-> {Decimal(900)}]
MCOptionChoices == { NoValues, "min_fee_ppm" :> OptInt(90000) @@ "max_fee_ppm" :> OptText(Text("float", 200000500, "", FALSE, TRUE)),
                     "min_fee_ppm" :> OptText(Whole(1000)) @@ "receivable_ratio_target" :> OptText(Text("inf", 0, "", FALSE, FALSE)) @@ "receivable_ratio_floor" :> OptText(Whole(2000)) }
MCConfigBodies == { {Entry("min_fee_ppm", OptInt(1000))}, {Entry("min_fee_ppm", OptText(Whole(30000))), [Entry("paused", OptBool(TRUE)) EXCEPT !.ours = FALSE]}, {} }

Intent(type, target, amount, benefit, expires) ==
    [type |-> type, key |-> target * 1000 + amount + (CASE type = "REBALANCE" -> 0 [] type = "SWAP_OUT" -> 100 [] type = "CLOSE_CHANNEL" -> 200 [] type = "OPEN_CHANNEL" -> 300 [] OTHER -> 400),
     target |-> target, priority |-> 50, benefit |-> benefit, confidence |-> 0, capital |-> 10, expires |-> expires]
Intents == { Intent(type, target, 7, 0, expires) : type \in {"REBALANCE", "SWAP_OUT", "CLOSE_CHANNEL", "OPEN_CHANNEL", "SET_FEE"}, target \in {1, 2}, expires \in {100, 101} }
           \cup { Intent(type, 1, a, 5, 101) : type \in {"REBALANCE", "OPEN_CHANNEL", "SET_FEE"}, a \in {7, 8} }
BatchJobs == { [is |-> is, extended |-> x] : is \in UNION { [1..n -> Intents] : n \in 1..2 } \cup [1..3 -> { i \in Intents : i.target = 1 /\ i.expires = 101 }], x \in BOOLEAN }
PairJobs == UNION { [1..n -> { [dest |-> d, source |-> c, amount |-> a, budget |-> b, finite |-> f, benefit |-> 3, confidence |-> 1] :
                       d \in {1, 2}, c \in {3, 4}, a \in {5, 9}, b \in {-1, 1}, f \in BOOLEAN }] : n \in 1..2 }
            \cup [1..3 -> { [dest |-> d, source |-> c, amount |-> a, budget |-> 1, finite |-> TRUE, benefit |-> 3, confidence |-> 1] : d \in {1, 2}, c \in {3, 4}, a \in {5, 9} }]
Trickles == { <<>>, <<0>>, <<0, 0>>, <<1, 9>>, <<0, 10, 20>>, <<10, 19, 29>> }
GapJobs == { <<[at |-> 100, kind |-> "fee-cycle", intents |-> m, after |-> t], [at |-> 200, kind |-> k, intents |-> n, after |-> u], [at |-> 300, kind |-> "fee-broadcast", intents |-> o, after |-> v]>> :
               k \in {"fee-cycle", "fee-broadcast"}, m, n \in 0..3, o \in {0, 2}, t, u \in Trickles, v \in {<<>>, <<4, 14>>} }

\* Stored fee states: as the origin wrote them, flat or in halves, and as they may have decayed.
Observed == { Arr(<<Int64(100), Float(r), w, Int64(7)>> \o tail) : r \in {0, 90, 100000}, w \in {Float(30)},
                tail \in {<<Str("peak"), Str("cong"), Int64(5)>>, <<Str("peak"), Int64(5)>>} }
OldObserved == { Arr(<<Int64(100), Float(90), Str("x"), Int64(7)>>), Arr(<<Int64(100), Float(90)>>) }
Row3(a, b, c) == Arr(<<a, b, c>>)
Matrix(x, y) == Arr(<<Row3(Float(200), x, Int64(0)), Row3(Int64(1), y, Int64(0)), Row3(Int64(0), Int64(0), Float(50))>>)
MatrixValues == {Matrix(Int64(2), Int64(1)), Matrix(Str("x"), Int64(1)), Matrix(Null, Int64(0)), Matrix(Int64(0), Str("xyz")), Arr(<<Str("abc"), Null>>), Bool(TRUE), Null}
SamplerBlobs(observed, matrices) ==
    { Obj([observations |-> Arr(<<o, CHOOSE x \in Observed : TRUE>>), posterior_precision |-> m, noise_variance |-> n] @@ scheme @@ more) :
        o \in observed, m \in matrices, n \in {Int64(5), Float(200000)}, scheme \in {<<>>, [weight_scheme |-> Str("exposure_v2")]},
        more \in { <<>>, [contextual_posteriors |-> Obj([a |-> Row3(Float(20000), Float(3000), Int64(4)), b |-> Arr(<<Float(100), Float(2), Int64(3), Int64(9)>>)]),
                          posterior_bias |-> Arr(<<Row3(Int64(8), Float(50), Int64(3)), Row3(Int64(9), Float(50), Int64(4)), Row3(Str("x"), Int64(1), Int64(1)), Row3(Int64(10), Float(50), Int64(5))>>),
                          posterior_mean |-> Int64(40), exploration_boost |-> Float(900), last_sampled_fee |-> Float(1250), zero_revenue_streak |-> Int64(-4), schema |-> Int64(1)] } }
PidBlobs == {<<>>, [pid_state |-> Obj([kp |-> Int64(3), ewma_error |-> Float(-250), last_update_time |-> Float(777)])], [pid_state |-> Str("")]}
BrokenPids == {[pid_state |-> Obj([ki |-> Str("x")])], [pid_state |-> Obj([ki |-> Null])], [pid_state |-> Arr(<<Null>>)]}
VersionBlobs == { [algorithm_version |-> Str(w)] : w \in {"thompson_aimd_v1", "dts_pid_v1", "retired_v0"} }
CycleBlobs == { <<>>, [last_fee_ppm |-> Int64(200000), last_update |-> Int64(90), is_sleeping |-> Int64(1), last_state |-> Str("source"), pending_target_ppm |-> Float(12345), congestion_quiet_cycles |-> Int64(2)] }
StoredRow(blob) == [columns |-> [DefaultRow EXCEPT !.last_update = 50, !.last_fee_ppm = 70, !.last_state = "sink"], blob |-> {blob}]
StoredBlobs(samplers, pids) ==
    { Obj(v @@ [thompson_state |-> t] @@ p @@ [last_broadcast_at |-> Int64(60)]) : v \in VersionBlobs, t \in samplers, p \in pids }
    \cup { Obj([fee_state |-> Obj(v @@ [thompson_state |-> t] @@ p @@ [last_vegas_multiplier |-> Float(140)]), cycle_state |-> Obj(c)] @@ x) :
             v \in VersionBlobs, t \in samplers, p \in pids, c \in CycleBlobs, x \in {<<>>, [dynamic_htlcmin_baseline_msat |-> Int64(11), last_gossip_refresh |-> Int64(21)]} }
RestartJobs == { StoredRow(b) : b \in StoredBlobs(SamplerBlobs(Observed, {Matrix(Int64(2), Int64(1))}), PidBlobs) } \cup { [StoredRow(Null) EXCEPT !.blob = {}] }
WholeRow == StoredRow(CHOOSE b \in StoredBlobs(SamplerBlobs({ CHOOSE o \in Observed : TRUE }, {Null}), {<<>>}) : TRUE)
\* Values the gate admits: numeric texts, with blanks or without, and booleans.
NumText(w, h, pad) == [Str(w) EXCEPT !.num = {h}, !.padded = pad]
Odd == {Bool(TRUE), NumText("3", 300, FALSE), NumText(" 3", 300, TRUE), Int64(3)}
OddSamplers == { Obj([observations |-> Arr(<<Arr(<<Int64(100), r, w, Int64(7)>>)>>), posterior_precision |-> Row3(Row3(x, Int64(1), Int64(0)), Row3(y, Int64(2), Int64(0)), Row3(Int64(0), Int64(0), Float(50))),
                       noise_variance |-> w] @@ scheme) : r, w \in Odd, x, y \in {Bool(TRUE), Int64(2)}, scheme \in {<<>>, [weight_scheme |-> Str("exposure_v2")]} }
OddPids == { [pid_state |-> Obj([kp |-> x, last_update_time |-> x])] : x \in Odd }
OddBlobs == StoredBlobs(OddSamplers, OddPids)
            \cup { Obj([fee_state |-> Obj(<<>>), cycle_state |-> Obj([congestion_quiet_cycles |-> x])]) : x \in Odd \cup {Str("x"), Bool(FALSE)} }
SeedJobs == { [ c \in {"a", "b"} |-> IF c = "a" THEN WholeRow ELSE StoredRow(b) ] :
                b \in StoredBlobs(SamplerBlobs({ CHOOSE o \in Observed : TRUE } \cup OldObserved, MatrixValues), {[pid_state |-> Obj([kp |-> Int64(3), ewma_error |-> Float(-250)])]} \cup BrokenPids) \cup OddBlobs }
Saves == { [half |-> h, set |-> x, own |-> n] : h \in {"cycle", "fee"}, n \in {130, 170},
             x \in {<<>>, [last_gossip_refresh |-> 81, dynamic_htlcmin_baseline_msat |-> {82}], [last_broadcast_at |-> 83, dynamic_htlcmin_baseline_msat |-> {}]} }
MergeJobs == { [row |-> StoredRow(b), saves |-> ss] :
                 b \in StoredBlobs({ CHOOSE t \in SamplerBlobs(Observed, {Null}) : TRUE }, {<<>>}), ss \in [1..2 -> Saves] \cup { <<x, y, x>> : x, y \in { z \in Saves : z.own = 130 } } }

MachineNames == {"trigger", "layers", "ring", "flow", "cache", "store", "report", "config", "options", "journal"}
AlgorithmNames ==
    { "plan", "price", "partial", "gate", "estimate", "bounds", "guard", "blend", "median", "firstfee",
      "policies", "buckets", "busy", "ema", "hours", "state", "adjacent", "growth", "history", "class",
      "fleet", "protection", "policy", "bleeder", "capex", "status", "views", "lists", "rolled", "tables",
      "rates", "cover", "budget", "once", "rows", "readers", "batch", "cycles", "gaps", "restart", "seed",
      "merges" }
Inputs(name) ==
    CASE name = "plan" -> PlanJobs
      [] name = "price" -> PriceJobs
      [] name = "partial" -> PartialJobs
      [] name = "gate" -> GateJobs
      [] name = "estimate" -> EstimateJobs
      [] name = "bounds" -> RailJobs
      [] name = "guard" -> GuardJobs
      [] name = "blend" -> BlendJobs
      [] name = "median" -> MedianJobs
      [] name = "firstfee" -> FirstFeeJobs
      [] name = "policies" -> ListingJobs
      [] name = "buckets" -> ForwardJobs
      [] name = "busy" -> BusyJobs
      [] name = "ema" -> DayJobs
      [] name = "hours" -> HourJobs
      [] name = "state" -> StateJobs
      [] name = "adjacent" -> AdjacentJobs
      [] name = "growth" -> GrowthJobs
      [] name = "history" -> HistoryJobs
      [] name = "class" -> ClassJobs
      [] name = "fleet" -> FleetJobs
      [] name = "protection" -> ProtectionJobs
      [] name = "policy" -> PolicyJobs
      [] name = "bleeder" -> BleederJobs
      [] name = "capex" -> CapexJobs
      [] name = "status" -> StatusJobs
      [] name = "views" -> ViewJobs
      [] name = "lists" -> ListJobs
      [] name = "rolled" -> RollJobs
      [] name = "tables" -> TableJobs
      [] name = "rates" -> RateJobs
      [] name = "cover" -> CoverJobs
      [] name = "budget" -> BudgetJobs
      [] name = "once" -> OnceJobs
      [] name = "rows" -> RowJobs
      [] name = "readers" -> ReaderJobs
      [] name = "batch" -> BatchJobs
      [] name = "cycles" -> PairJobs
      [] name = "gaps" -> GapJobs
      [] name = "restart" -> RestartJobs
      [] name = "seed" -> SeedJobs
      [] name = "merges" -> MergeJobs

Init ==
    /\ part \in MachineNames \cup AlgorithmNames /\ job = {} /\ LayerInit /\ RingInit /\ FlowInit /\ CacheInit /\ ReportInit /\ ConfigInit /\ OptionInit /\ JournalInit
    /\ (part # "config" => ConfigIdle) /\ TriggerInit /\ (part # "trigger" => TriggerIdle) /\ StoreInit /\ (part # "store" => StoreIdle)

Plays(name) == part = name /\ UNCHANGED <<part, job>>
TriggerMoves == Plays("trigger") /\ UNCHANGED <<layerVars, ringVars, flowVars, cacheVars, storeVars, reportVars, configVars, optionVars, journalVars>>
LayerMoves == Plays("layers") /\ UNCHANGED <<triggerVars, ringVars, flowVars, cacheVars, storeVars, reportVars, configVars, optionVars, journalVars>>
RingMoves == Plays("ring") /\ UNCHANGED <<triggerVars, layerVars, flowVars, cacheVars, storeVars, reportVars, configVars, optionVars, journalVars>>
FlowMoves == Plays("flow") /\ UNCHANGED <<triggerVars, layerVars, ringVars, cacheVars, storeVars, reportVars, configVars, optionVars, journalVars>>
CacheMoves == Plays("cache") /\ UNCHANGED <<triggerVars, layerVars, ringVars, flowVars, storeVars, reportVars, configVars, optionVars, journalVars>>
StoreMoves == Plays("store") /\ UNCHANGED <<triggerVars, layerVars, ringVars, flowVars, cacheVars, reportVars, configVars, optionVars, journalVars>>
ReportMoves == Plays("report") /\ UNCHANGED <<triggerVars, layerVars, ringVars, flowVars, cacheVars, storeVars, configVars, optionVars, journalVars>>
ConfigMoves == Plays("config") /\ UNCHANGED <<triggerVars, layerVars, ringVars, flowVars, cacheVars, storeVars, reportVars, optionVars, journalVars>>
JournalMoves == Plays("journal") /\ UNCHANGED <<triggerVars, layerVars, ringVars, flowVars, cacheVars, storeVars, reportVars, configVars, optionVars>>
OptionMoves == Plays("options") /\ UNCHANGED <<triggerVars, layerVars, ringVars, flowVars, cacheVars, storeVars, reportVars, configVars, journalVars>>

\* An algorithm is given one of its inputs; its properties relate the input to the result.
Given(name) == part = name /\ job = {} /\ job' \in { {j} : j \in Inputs(name) } /\ UNCHANGED <<part, machineVars>>

Next ==
    \/ TriggerMoves /\ TriggerNext
    \/ LayerMoves /\ LayerNext
    \/ RingMoves /\ RingNext
    \/ FlowMoves /\ FlowNext
    \/ CacheMoves /\ CacheNext
    \/ StoreMoves /\ StoreNext
    \/ ReportMoves /\ ReportNext
    \/ ConfigMoves /\ ConfigNext
    \/ OptionMoves /\ OptionNext
    \/ JournalMoves /\ JournalNext
    \/ \E name \in AlgorithmNames : Given(name)

Spec == Init /\ [][Next]_kernelVars /\ WF_kernelVars(TriggerMoves /\ PollOk) /\ WF_kernelVars(StoreMoves /\ StoreProgress)

Asked(name) == IF part = name THEN job ELSE {}

-----------------------------------------------------------------------------
\* The plan accounts for every channel exactly once.
PlanExplainsAll == \A j \in Asked("plan") : Explained(j.cs, plan(j.cs, j.chunk, j.pairs, 2000))
\* A planned amount keeps both endpoints on their side of their own band.
PlanRespectsBands == \A j \in Asked("plan") : WithinBands(j.cs, plan(j.cs, j.chunk, j.pairs, 2000))
\* The greedy selection leaves no better pair unexplained.
PlanIsStable == \A j \in Asked("plan") : NoBetterPair(j.cs, plan(j.cs, j.chunk, j.pairs, 2000), j.chunk, j.pairs)
\* A priced route pays every forwarder and its cost is what leaves the node.
PricedRouteIsPayable == \A j \in Asked("price") : RouteIsPayable(PairOf(j), j, price_pair(PairOf(j), j))
\* Retries shrink, and so do their budgets.
RetriesShrink == \A j \in Asked("partial") : PartialsShrink(j.amount, j.budget)
\* A candidate that passes every gate is worth its fee.
CandidatesAreWorthIt == \A j \in Asked("gate") : AttemptIsWorthIt(j)
\* The bounds of a decision are in order.
BoundsAreOrdered == \A j \in Asked("bounds") :
    BoundsInOrder(j.base, j.effMin, j.flow, j.vegas, j.rebalance, j.ceiling, j.policy)
\* The zero-flow guard never raises a fee.
ZeroFlowNeverRaises == \A j \in Asked("guard") : GuardHolds(j)
\* Every blend gets nearer to its target.
BlendsApproach == \A j \in Asked("blend") : BlendApproaches(j.current, j.bounded, j.woke, j.std, j.prof)
\* The market median ignores our own channel.
MarketIsTheirs == \A j \in Asked("median") : MedianIsTheirs(j, "us", 1)
\* The first decision for a channel leaves whole rows.
FirstDecisionIsWhole == \A j \in Asked("firstfee") : DecisionIsWhole(j, 25, 5000)
\* A policy change wakes its peer once.
PolicyWakesOnce == \A j \in Asked("policies") : WokenOncePerChange(j)
\* The estimate of an inbound fee is above what already failed.
EstimatesLearn == \A j \in Asked("estimate") : EstimateBeatsFailures(j)
\* Every forward is in one bucket of each of its channels.
ForwardsAreBucketed == \A j \in Asked("buckets") : BucketsConserve(j.fs, "c", j.now, 3)
\* A day counts only if it was busy.
DaysAreEarned == \A j \in Asked("busy") : DayIsEarned(j.fs, "c", j.now, 2, 10)
\* The daily estimate weighs idle days.
IdleDaysWeigh == \A j \in Asked("ema") : EmaDiscountsIdleDays(j)
\* Peak hours are the busiest.
PeakHoursAreBusiest == \A j \in Asked("hours") : PeaksAreBusiest(j.old, j.new \o <<1, 2, 0, 3>>)
\* A channel that does not move keeps its state.
StateSettles == \A j \in Asked("state") : VerdictSettles(j)
\* Candidates next to a sink are new and proposed once.
CandidatesAreNew == \A j \in Asked("adjacent") : AdjacentAreNew(j.sinks, j.channels, j.existing)
\* Growth stays between base and ceiling.
GrowthStaysBounded == \A j \in Asked("growth") : GrowthIsBounded(j.g, j.prior)
\* The two reads of a channel's history agree.
HistoryReadsAgree == \A j \in Asked("history") : ReadsAgree(j, "a", 10)
\* Better returns and fresh forwards never hurt a channel's class.
ClassesAreFair == \A j \in Asked("class") : ClassIsFair(j.roi, j.better, j.e)
\* Every channel with a cost has one line in the report.
EveryChannelIsReported == \A j \in Asked("fleet") : FleetIsPartitioned(j.db, j.states, j.listing, 100 * Day)
\* A better return keeps a channel protected.
ProtectionSurvivesProfit == \A j \in Asked("protection") : ProtectionIsKept(j.p, j.better, j.flow, 14)
\* Accepted updates leave a whole policy.
PoliciesStayWhole == \A j \in Asked("policy") : PolicyStaysWhole(NoPolicy, j.u1, j.u2, 5)
\* Losing more never softens a hard verdict.
BleedersDoNotSoften == \A j \in Asked("bleeder") : HardIsMonotone(j.pnl, j.worse, j.success, j.prev)
\* The budgets fit the envelope.
BudgetsFitEnvelope == \A j \in Asked("capex") : AllocationsFit(j.e, j.cfg)
\* The reported budgets are honest.
CapexStatusIsHonest == \A j \in Asked("status") : StatusIsHonest(j.verdicts, j.e, j.outputs, MCConfig(7, 1, 0))
\* The views of the policy table agree.
PoliciesAgree == \A j \in Asked("views") : PolicyViewsAgree(j, {"p", "q"}, 4, 8)
\* A listing with a limit keeps the best rows.
ListingsAreBest == \A j \in Asked("lists") : ListingsKeepBest(j.rows, j.fs, j.limit, 2 * Day)
\* When rollups run does not show.
RollupsAreInvisible == \A j \in Asked("rolled") : RollupIsInvisible(j.fs, j.day, j.since, 3 * Day + 9)
\* The lines of the channels add up.
LinesAddUp == \A j \in Asked("tables") : ChannelTablesAddUp(j.db, 5, Day + 5)
\* A rate is of finished attempts.
RatesAreHonest == \A j \in Asked("rates") : RatesAreOfFinished(j, 1, 2 * Day)
\* A report does not claim more coverage than its sources have.
CoverageClaimsNoMore == \A j \in Asked("cover") : CoverageIsHonest(j.sources, j.hours, 100000)
\* Supplying a missing input changes nothing that was stated.
StatedFiguresStand == \A j \in Asked("budget") : KnowledgeIsMonotone(Forgetting(j.full, j.missing), j.full, j.cfg, 24)
\* Each spend counts once.
EachSpendCountsOnce == \A j \in Asked("once") : SpendCountedOnce(j.spends, j.holds, MCBudget(30, 0, TRUE), 24, 90000)
\* An admitted row is what the fee cycle reads.
AdmittedRowsAreRead == \A j \in Asked("rows") : AdmittedRowIsRead(j.f, j.t, j.values)
\* The readers of a configuration value agree with the fee cycle.
ConfigReadersAgree == \A j \in Asked("readers") : ReadersAgree(j.f, j.row, j.body)
\* The outcome of a batch is a matter of the intents, not of their order.
BatchIsOrderFree == \A j \in Asked("batch") : OrderDoesNotMatter(j.is, 100, j.extended)
\* A rejected intent is stale or lost to one that is kept.
RejectionsAreExplained == \A j \in Asked("batch") : RejectionIsExplained(j.is, 100, j.extended)
\* The live registry admits the winners of a batch.
WinnersAreAdmitted == \A j \in Asked("batch") : WinnersPass(j.is, 100, j.extended)
\* A shadow cycle proposes each destination and amount once.
CyclesAreWhole == \A j \in Asked("cycles") : \A ledger \in BOOLEAN : CycleIsWhole(j, ledger, 100)
\* The completeness check finds exactly the cycles with a gap.
GapsAreExact == \A j \in Asked("gaps") : \A now \in {340, 400} : GapIsExact(j, now, 250, 10)
\* A restart keeps what was learned.
RestartKeepsState == \A j \in Asked("restart") : RestartKeeps(j)
\* A seed that is let in loses the values known to be passed over, and no other.
SeedsLoseOnlyNamed == \A j \in Asked("seed") : SeedLosesOnlyNamed(j)
\* The halves of a row do not undo each other.
SavesKeepHalves == \A j \in Asked("merges") : SavesKeepEachOther(j.row, j.saves)

-----------------------------------------------------------------------------
\* The plan, its gates, its prices and its retries (planner.rs, router.rs,
\* engine.rs) hold what they promise, and so do the throwaway layers and the
\* ring of failed segments around them.
RebalancesAreSound ==
    /\ part = "layers" => LayerTypeOK
    /\ NoLeakedLayer /\ CachedLayersAreWhole /\ LayersAreNotShared /\ RingIsBounded
    /\ PlanExplainsAll /\ PlanRespectsBands /\ PlanIsStable
    /\ PricedRouteIsPayable /\ RetriesShrink /\ CandidatesAreWorthIt /\ EstimatesLearn
\* The bounds, guards and blends of a fee (rails.rs, floors.rs, market.rs) and
\* the first decisions around it.
FeesAreBounded ==
    /\ part = "trigger" => TriggerTypeOK
    /\ BoundsAreOrdered /\ ZeroFlowNeverRaises /\ BlendsApproach /\ MarketIsTheirs
    /\ FirstDecisionIsWhole /\ PolicyWakesOnce
\* The evidence of flow (flow.rs, classification.rs, growth.rs) counts every
\* forward and every day once, and what is derived from it settles.
FlowsAreMeasured ==
    /\ part = "flow" => FlowTypeOK
    /\ ForwardsAreBucketed /\ DaysAreEarned /\ IdleDaysWeigh /\ PeakHoursAreBusiest /\ StateSettles
    /\ CandidatesAreNew /\ GrowthStaysBounded /\ ConvergenceTakesTime /\ DaysAreDistinct
\* Profitability, protection, policies, bleeder verdicts and the capital budget
\* (profitability.rs, protection.rs, bleeder.rs, capex.rs).
CapitalIsAllotted ==
    /\ VerdictsAreFresh /\ HistoryReadsAgree /\ ClassesAreFair /\ EveryChannelIsReported /\ ProtectionSurvivesProfit
    /\ PoliciesStayWhole /\ BleedersDoNotSoften /\ BudgetsFitEnvelope /\ CapexStatusIsHonest
\* What the queries and the cost budget report (queries.rs,
\* rpc_total_cost_budget.rs) of one ledger agrees.
ReportsAgree ==
    /\ PoliciesAgree /\ ListingsAreBest /\ RollupsAreInvisible /\ LinesAddUp /\ RatesAreHonest
    /\ CoverageClaimsNoMore /\ StatedFiguresStand /\ EachSpendCountsOnce
    /\ BreakdownCoversTotal /\ WindowsAreNested /\ LifetimeIsExact
\* Every reader of the configuration (config_resolve.rs, fee_config.rs) sees one
\* admitted value, and outages stay visible.
ConfigIsOneValue == AdmittedRowsAreRead /\ ConfigReadersAgree /\ UsedConfigHolds /\ EvidenceIsOneGeneration /\ OutageStaysVisible
\* The arbitration of a batch (arbiter.rs), the shadow cycle (cycle.rs) and the
\* completeness check (reconcile.rs).
BatchesAreFair == BatchIsOrderFree /\ RejectionsAreExplained /\ WinnersAreAdmitted /\ CyclesAreWhole /\ GapsAreExact
\* How the small machines move: a fee cycle waits for a quiet table, a flush and
\* an ask are answered, reports are rare, exports fresh, velocities damped and
\* a hard verdict is remembered.
MachinesKeepPromises ==
    EveryAskEnds /\ HardIsRemembered /\ CycleSeesQuietTable /\ FlushIsAnswered /\ ReportsAreRare /\ ExportIsFresh /\ VelocityNeverOvershoots
================================================================================
