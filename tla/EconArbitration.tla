---------------------------- MODULE EconArbitration ----------------------------
(***************************************************************************)
(* The batch algorithms of the economic layer (revops-econ): arbitration of *)
(* the intents of one cycle, the shadow cycle that plans rebalances through  *)
(* it, and the check that every fee change of the recent past was proposed  *)
(* as an intent.                                                            *)
(*                                                                         *)
(* An intent's id is the head of its key's hash: here the key itself, a      *)
(* number that is the same for two intents exactly when the hashed fields   *)
(* are.  Targets are numbers because they are compared.                    *)
(***************************************************************************)
LOCAL INSTANCE Integers
LOCAL INSTANCE Sequences
LOCAL INSTANCE FiniteSets
LOCAL INSTANCE SequencesExt

-----------------------------------------------------------------------------
(* Intents.                                                                *)
INTENT_TYPES == {"SET_FEE", "SET_HTLC_MAX", "REBALANCE", "OPEN_CHANNEL", "CLOSE_CHANNEL",
                 "SWAP_IN", "SWAP_OUT", "JOIN_LIQUIDITY_SWAP", "MAINTAIN_ONCHAIN_RESERVE"}

precedence_class(e) ==
    CASE e.type = "MAINTAIN_ONCHAIN_RESERVE" -> 1
      [] e.type = "CLOSE_CHANNEL" -> 3
      [] e.type \in {"SET_FEE", "SET_HTLC_MAX"} -> 4
      [] e.type \in {"REBALANCE", "SWAP_IN", "SWAP_OUT"} -> 5
      [] OTHER -> 6

sort_key(e) == <<precedence_class(e), -e.priority, -e.benefit, -e.confidence, e.capital, e.target, e.key>>

LexLess(a, b) == \E k \in DOMAIN a : a[k] < b[k] /\ \A i \in 1 .. k - 1 : a[i] = b[i]
\* A stable sort.
RECURSIVE Placed(_, _)
Placed(s, e) == IF s = <<>> \/ ~LexLess(sort_key(e), sort_key(s[Len(s)])) THEN Append(s, e) ELSE Append(Placed(Front(s), e), s[Len(s)])
Sorted(s) == FoldLeft(LAMBDA acc, e : Placed(acc, e), <<>>, s)

(* Arbitration: each rule drops some of the intents the earlier rules kept. *)
SameSlot(s, i, types) == { j \in 1 .. i - 1 : s[i].type \in types /\ s[j].type = s[i].type /\ s[j].target = s[i].target }
\* The intents that beat the i-th one under a rule.
Winners(rule, s, i) ==
    CASE rule = "superseded" -> { j \in 1 .. i - 1 : s[j].key = s[i].key }
      [] rule = "policy" -> SameSlot(s, i, {"SET_FEE", "SET_HTLC_MAX"})
      [] rule = "close" -> { j \in DOMAIN s : s[i].type = "REBALANCE" /\ s[j].type = "CLOSE_CHANNEL" /\ s[j].target = s[i].target }
      [] rule = "open" -> SameSlot(s, i, {"OPEN_CHANNEL"})
      [] rule = "swap" -> { j \in DOMAIN s : s[i].type = "REBALANCE" /\ s[j].type = "SWAP_OUT" /\ s[j].target = s[i].target }
      [] OTHER -> {}
Drops(rule, s, i, now) == IF rule = "stale" THEN now >= s[i].expires ELSE Winners(rule, s, i) # {}

Stage(acc, rule, now) ==
    LET s == acc.ordered
        split == FoldLeft(LAMBDA p, i : IF Drops(rule, s, i, now) THEN [p EXCEPT !.lost = Append(@, [env |-> s[i], code |-> rule])]
                                        ELSE [p EXCEPT !.kept = Append(@, s[i])],
                          [kept |-> <<>>, lost |-> <<>>], [ i \in DOMAIN s |-> i ])
        first(i) == CHOOSE j \in Winners(rule, s, i) : \A k \in Winners(rule, s, i) : j <= k IN
    [ordered |-> split.kept, rejected |-> acc.rejected \o split.lost,
     superseded |-> acc.superseded \cup
        { <<s[i], s[first(i)]>> : i \in { k \in DOMAIN s : rule \in {"superseded", "policy", "open"} /\ Drops(rule, s, k, now) } }]

RunStages(intents, now, stages) ==
    FoldLeft(LAMBDA acc, rule : Stage(acc, rule, now), [ordered |-> Sorted(intents), rejected |-> <<>>, superseded |-> {}], stages)

\* Mutant: a rebalance is kept beside a structural swap.
SwapForgotten(intents, now, extended) ==
    RunStages(intents, now, <<"stale", "superseded", "policy", "close">> \o IF extended THEN <<"open">> ELSE <<>>)

arbitrate(intents, now, extended) ==
    RunStages(intents, now, <<"stale", "superseded", "policy", "close">> \o IF extended THEN <<"open", "swap">> ELSE <<>>)

\* ActiveIntentRegistry.check_and_register: the live counterpart of the rules.
Refusals(active, e, extended) ==
    { a \in active : a.key = e.key
        \/ (e.type = "REBALANCE" /\ a.type = "CLOSE_CHANNEL" /\ a.target = e.target)
        \/ (extended /\ e.type = "OPEN_CHANNEL" /\ a.type = "OPEN_CHANNEL" /\ a.target = e.target)
        \/ (extended /\ {e.type, a.type} = {"REBALANCE", "SWAP_OUT"} /\ a.target = e.target) }
check_and_register(active, e, now, extended) ==
    LET live == { a \in active : now < a.expires } IN
    IF Refusals(live, e, extended) = {} THEN live \cup {e} ELSE live

-----------------------------------------------------------------------------
(* The shadow cycle.                                                       *)
compute_idempotency_key(type, target, amount) == target * 1000 + amount

\* from_sats refuses a negative number; json refuses a score that is no number.
Representable(p) == p.amount >= 0 /\ p.budget >= 0 /\ p.finite
rebalance_intent(p, at, ev) ==
    [type |-> "REBALANCE", key |-> compute_idempotency_key("REBALANCE", p.dest, p.amount), target |-> p.dest, priority |-> 50,
     benefit |-> IF ev THEN p.benefit ELSE 0, confidence |-> IF ev THEN p.confidence ELSE 0, capital |-> p.amount, expires |-> at + 600, source |-> p.source]

rebalance_intent_pairs(pairs, at, ev) ==
    LET earlier(p, q) == p.dest < q.dest \/ (p.dest = q.dest /\ p.source < q.source)
        order == FoldLeft(LAMBDA acc, p : LET n == Cardinality({ k \in DOMAIN acc : ~earlier(p, acc[k]) }) IN
                                           SubSeq(acc, 1, n) \o <<p>> \o SubSeq(acc, n + 1, Len(acc)), <<>>, pairs) IN
    IF \E k \in DOMAIN pairs : ~Representable(pairs[k]) THEN {} ELSE {[ k \in DOMAIN order |-> rebalance_intent(order[k], at, ev) ]}
plan_cycle(pairs, at) ==
    { [intents |-> intents, arbitration |-> arbitrate(intents, at, FALSE)] : intents \in rebalance_intent_pairs(pairs, at, FALSE) }

\* run_shadow_cycle: every proposed intent is journalled, the rejected ones too.
run_shadow_cycle(pairs, ledger, at) ==
    { [cycle |-> c, journal |-> IF ledger THEN [ k \in DOMAIN c.intents |-> [type |-> "intent_proposed", key |-> c.intents[k].key] ] ELSE <<>>] :
        c \in plan_cycle(pairs, at) }

\* econ_cycle_response: disabled, an error, or the cycle.
econ_cycle_response(enabled, candidates, ledger, at) ==
    CASE enabled = {} -> [status |-> "error", cycle |-> {}]
      [] enabled = {FALSE} -> [status |-> "disabled", cycle |-> {}]
      [] candidates = {} -> [status |-> "error", cycle |-> {}]
      [] OTHER -> LET wire == UNION { IF c.ok THEN run_shadow_cycle(c.pairs, ledger, at) ELSE {} : c \in candidates } IN
                  [status |-> IF wire = {} THEN "error" ELSE "ok", cycle |-> wire]

-----------------------------------------------------------------------------
(* fee_intent_completeness.                                                *)
\* Proposals of fee cycles and broadcasts, counted by the time in their cycle id.
IntentTimes(events) == { k \in DOMAIN events : events[k].type = "intent_proposed" /\ events[k].cycle \in {"fee-cycle", "fee-broadcast"} /\ events[k].ts # {} }
TimeOf(event) == CHOOSE t \in event.ts : TRUE
RECURSIVE Ascending(_)
Ascending(S) ==
    IF S = {} THEN <<>> ELSE LET least == CHOOSE t \in S : \A u \in S : t <= u IN <<least>> \o Ascending(S \ {least})

ClusterStep(clusters, ts, count, tolerance) ==
    IF clusters # <<>> /\ ts - clusters[Len(clusters)].last <= tolerance
    THEN [clusters EXCEPT ![Len(clusters)] = [@ EXCEPT !.last = ts, !.changes = @ + count]]
    ELSE Append(clusters, [first |-> ts, last |-> ts, changes |-> count])

fee_intent_completeness(events, changes, now, window, tolerance) ==
    LET intents == IntentTimes(events)
        times == { TimeOf(events[k]) : k \in intents }
        oldest == CHOOSE t \in times : \A u \in times : t <= u
        from == IF now - window > oldest THEN now - window ELSE oldest
        recent == { k \in DOMAIN changes : changes[k] >= from }
        clusters == FoldLeft(LAMBDA acc, ts : ClusterStep(acc, ts, Cardinality({ k \in recent : changes[k] = ts }), tolerance),
                             <<>>, Ascending({ changes[k] : k \in recent }))
        matched(c) == Cardinality({ k \in intents : TimeOf(events[k]) \in c.first - tolerance .. c.last + tolerance }) IN
    IF intents = {} THEN [status |-> "no_intent_data", complete |-> {}, from |-> now]
    ELSE [status |-> "ok", complete |-> { \A k \in DOMAIN clusters : matched(clusters[k]) = clusters[k].changes }, from |-> from]

-----------------------------------------------------------------------------
(* What the algorithms promise.                                            *)
KeysOf(s) == [ k \in DOMAIN s |-> s[k].key ]

\* The outcome of a batch does not depend on the order the intents came in.
OrderDoesNotMatter(intents, now, extended) ==
    LET straight == arbitrate(intents, now, extended)  back == arbitrate(Reverse(intents), now, extended) IN
    /\ straight.ordered = back.ordered
    /\ { straight.rejected[k] : k \in DOMAIN straight.rejected } = { back.rejected[k] : k \in DOMAIN back.rejected }

\* Every intent is kept or rejected once; whatever is rejected is stale or has
\* an intent on its target that is kept; and what is superseded ranks below its
\* winner.
RejectionIsExplained(intents, now, extended) ==
    LET out == arbitrate(intents, now, extended) IN
    /\ Len(out.ordered) + Len(out.rejected) = Len(intents)
    /\ \A k \in DOMAIN out.rejected :
         IF out.rejected[k].code = "stale" THEN now >= out.rejected[k].env.expires
         ELSE /\ now < out.rejected[k].env.expires
              /\ \E i \in DOMAIN out.ordered : out.ordered[i].target = out.rejected[k].env.target
    /\ \A p \in out.superseded : ~LexLess(sort_key(p[1]), sort_key(p[2])) /\ p[1].target = p[2].target

\* The registry that guards live execution admits all the winners of a batch.
WinnersPass(intents, now, extended) ==
    LET won == arbitrate(intents, now, extended).ordered IN
    FoldLeft(LAMBDA active, e : check_and_register(active, e, now, extended), {}, won) = { won[k] : k \in DOMAIN won }

\* A cycle proposes each destination and amount once, whatever the order of the
\* pairs, and journals every pair; one pair it cannot represent fails all of it.
CycleIsWhole(pairs, ledger, at) ==
    LET response == econ_cycle_response({TRUE}, {[ok |-> TRUE, pairs |-> pairs]}, ledger, at)
        back == econ_cycle_response({TRUE}, {[ok |-> TRUE, pairs |-> Reverse(pairs)]}, ledger, at) IN
    /\ (response.status = "ok") <=> \A k \in DOMAIN pairs : Representable(pairs[k])
    /\ \A w \in response.cycle :
         LET won == w.cycle.arbitration.ordered IN
         /\ { <<won[k].target, won[k].capital>> : k \in DOMAIN won } = { <<pairs[k].dest, pairs[k].amount>> : k \in DOMAIN pairs }
         /\ Cardinality({ <<won[k].target, won[k].capital>> : k \in DOMAIN won }) = Len(won)
         /\ Len(w.journal) = IF ledger THEN Len(pairs) ELSE 0
         /\ \A v \in back.cycle : KeysOf(v.cycle.arbitration.ordered) = KeysOf(won)

\* Cycles that follow each other at a distance: the check finds a gap exactly
\* when a cycle of the window changed more or fewer fees than it proposed, also
\* when its changes trickle in over a long time.
GapIsExact(cycles, now, window, tolerance) ==
    LET events == FoldLeft(LAMBDA acc, c : acc \o [ k \in 1 .. c.intents |-> [type |-> "intent_proposed", cycle |-> c.kind, ts |-> {c.at}] ], <<>>, cycles)
        changes == FoldLeft(LAMBDA acc, c : acc \o [ k \in DOMAIN c.after |-> c.at + c.after[k] ], <<>>, cycles)
        got == fee_intent_completeness(events, changes, now, window, tolerance) IN
    IF \A k \in DOMAIN cycles : cycles[k].intents = 0 THEN got.status = "no_intent_data"
    ELSE got.complete = { \A k \in DOMAIN cycles : cycles[k].at >= got.from /\ cycles[k].after # <<>> => Len(cycles[k].after) = cycles[k].intents }
=============================================================================
