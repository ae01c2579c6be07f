----------------------------- MODULE FeeStateCodec -----------------------------
(***************************************************************************)
(* What a stored fee state is read as: the envelope kept per channel         *)
(* (revops-fees/state_store.rs, thompson/serde.rs, pid.rs), the strict and    *)
(* the one-time imports (revops/fee_state.rs), the merge of the two halves    *)
(* of a row, and the journal the dry run writes.                            *)
(*                                                                         *)
(* A stored value is tagged with its shape.  A float is a number of          *)
(* hundredths; a text may be that of a number, with or without blanks.       *)
(* An absent value is {}, a present one a singleton.                         *)
(***************************************************************************)
LOCAL INSTANCE Integers
LOCAL INSTANCE Sequences
LOCAL INSTANCE FiniteSets
LOCAL INSTANCE SequencesExt
LOCAL INSTANCE FiniteSetsExt
LOCAL INSTANCE Functions

CONSTANTS
    MaxBiasNudges,   \* MAX_BIAS_NUDGES (50 in the code)
    Flushers,        \* callers of flush_batch on one journal
    MaxBatches       \* bound: flushes begun

ASSUME CodecAssumption == MaxBiasNudges \in Nat /\ MaxBatches \in Nat

VARIABLES
    sinkLock,   \* the lock each open sink of the journal holds, {} when not open
    heldLocks,  \* transaction locks that are held
    flushing,   \* per flusher: where it is, and the bytes it is to write
    journal,    \* the journal, as the sequence of its batches
    batches,    \* flushes begun
    flushed     \* batches whose flush answered Ok

journalVars == <<sinkLock, heldLocks, flushing, journal, batches, flushed>>

-----------------------------------------------------------------------------
(* Values.                                                                 *)
Int64(n) == [t |-> "int", n |-> n]
Float(h) == [t |-> "float", h |-> h]
Bool(b) == [t |-> "bool", b |-> b]
Str(w) == [t |-> "text", w |-> w, num |-> {}, padded |-> FALSE]
Null == [t |-> "null"]
Arr(items) == [t |-> "list", items |-> items]
Obj(fields) == [t |-> "object", fields |-> fields]

Default(S, d) == IF S = {} THEN d ELSE CHOOSE x \in S : TRUE
Between(x, lo, hi) == IF x < lo THEN lo ELSE IF x > hi THEN hi ELSE x
WholePart(h) == IF h < 0 THEN -((-h) \div 100) ELSE h \div 100

Field(o, k) == IF o.t = "object" /\ k \in DOMAIN o.fields THEN {o.fields[k]} ELSE {}
Items(S) == UNION { IF v.t = "list" THEN {v.items} ELSE {} : v \in S }
Fields(S) == UNION { IF v.t = "object" THEN {v.fields} ELSE {} : v \in S }
as_str(S) == UNION { IF v.t = "text" THEN {v.w} ELSE {} : v \in S }
as_f64(S) == UNION { CASE v.t = "int" -> {100 * v.n} [] v.t = "float" -> {v.h} [] OTHER -> {} : v \in S }
as_i64(S) == UNION { CASE v.t = "int" -> {v.n} [] v.t = "float" -> {WholePart(v.h)} [] v.t = "bool" -> {IF v.b THEN 1 ELSE 0} [] OTHER -> {} : v \in S }
truthy(v) ==
    CASE v.t = "null" -> FALSE [] v.t = "bool" -> v.b [] v.t = "int" -> v.n # 0 [] v.t = "float" -> v.h # 0
      [] v.t = "text" -> v.w # "" [] v.t = "list" -> v.items # <<>> [] OTHER -> DOMAIN v.fields # {}

\* The casts of the sampler's state: texts are read, blanks trimmed.
try_float(S) == as_f64(S) \cup UNION { CASE v.t = "bool" -> {IF v.b THEN 100 ELSE 0} [] v.t = "text" -> v.num [] OTHER -> {} : v \in S }
try_int(S) == as_i64(S) \cup UNION { IF v.t = "text" THEN { h \div 100 : h \in { x \in v.num : x % 100 = 0 } } ELSE {} : v \in S }
python_floatable(v) == try_float({v}) # {}
python_intable(v) == try_int({v}) # {}

\* The casts of the controller: blanks are not trimmed, booleans are no floats.
num_or(S, d) == Default(as_f64(S) \cup UNION { IF v.t = "text" /\ ~v.padded THEN v.num ELSE {} : v \in S }, d)
int_or(S, d) == Default(as_i64(S) \cup (IF \E v \in S : v.t = "text" /\ v.padded THEN {} ELSE try_int(S)), d)

-----------------------------------------------------------------------------
(* The sampler's state (thompson/serde.rs).                                 *)
\* How each scalar is read, and what it is when it cannot be read.
SamplerScalars ==
    [prior_mean_fee |-> <<"number", Int64(200)>>, prior_std_fee |-> <<"number", Int64(100)>>,
     posterior_mean |-> <<"number", Float(20000)>>, posterior_std |-> <<"number", Float(10000)>>,
     noise_variance |-> <<"noise", 100000>>, _last_fee_min |-> <<"float", 0>>, _last_fee_max |-> <<"float", 0>>,
     charged_fee_mean |-> <<"amount", 0>>, zero_run_start_fee |-> <<"amount", 0>>, positive_rate_ref |-> <<"amount", 0>>,
     meaningful_gap_ema_hours |-> <<"amount", 0>>, zero_revenue_streak |-> <<"count", 0>>, zero_run_start_ts |-> <<"count", 0>>,
     positive_rate_ref_ts |-> <<"count", 0>>, last_meaningful_ts |-> <<"count", 0>>, last_upward_probe_ts |-> <<"count", 0>>,
     reseeded_at |-> <<"count", 0>>, exploration_boost |-> <<"boost", 100>>, last_sampled_fee |-> <<"int", 0>>, last_sample_time |-> <<"int", 0>>]
Vectors == {"posterior_coeffs", "_prior_coeffs"}
Matrices == {"posterior_precision", "_prior_precision"}
KNOWN_KEYS == DOMAIN SamplerScalars \cup Vectors \cup Matrices
              \cup {"observations", "contextual_posteriors", "posterior_bias", "posterior_variance", "weight_scheme"}

ScalarOf(rule, S, d) ==
    CASE rule = "number" -> Default({ v \in S : v.t \in {"int", "float"} }, d)
      [] rule = "noise" -> LET h == Default(as_f64(S), d) IN IF h < 1000 THEN 1000 ELSE h
      [] rule = "float" -> Default(try_float(S), d)
      [] rule = "amount" -> Default({ h \in try_float(S) : h >= 0 }, d)
      [] rule = "count" -> LET n == Default(try_int(S), d) IN IF n < 0 THEN 0 ELSE n
      [] rule = "boost" -> Between(Default(try_float(S), d), 75, 200)
      [] OTHER -> Default(as_i64(S), d)
ScalarValue(rule, x) ==
    CASE rule = "number" -> x [] rule \in {"noise", "float", "amount", "boost"} -> Float(x) [] OTHER -> Int64(x)

\* Weights of the old scheme are divided by what it had multiplied them with;
\* every positive rate below the saturation point stands for one factor, a half.
Rescaled(w, rate) == LET x == CASE rate >= 100000 -> w [] rate > 0 -> IF w > 0 THEN 2 * w ELSE w [] OTHER -> (100 * w) \div 15
                     IN IF x > 100 THEN 100 ELSE x
Observation(t, legacy) ==
    LET rate == Default(as_f64({t[2]}), 0)
        w == Default(as_f64({t[3]}), 0)
        flag == IF Len(t) >= 6 THEN as_str({t[6]}) ELSE {} IN
    [fee |-> IF t[1].t = "int" THEN t[1] ELSE Float(Default(as_f64({t[1]}), 0)), rate |-> rate, weight |-> IF legacy THEN Rescaled(w, rate) ELSE w,
     ts |-> Default(as_i64({t[4]}), 0), bucket |-> Default(IF Len(t) >= 5 THEN as_str({t[5]}) ELSE {}, "normal"),
     flag |-> flag, extra |-> SubSeq(t, IF flag # {} THEN 7 ELSE 6, Len(t))]
convert_observations(items, legacy) ==
    LET whole == SelectSeq(items, LAMBDA v : v.t = "list" /\ Len(v.items) >= 4) IN [ k \in DOMAIN whole |-> Observation(whole[k].items, legacy) ]
observation_to_value(o) ==
    Arr(<<o.fee, Float(o.rate), Float(o.weight), Int64(o.ts), Str(o.bucket)>> \o SetToSeq({ Str(f) : f \in o.flag }) \o o.extra)

LegacyPrecision(std) == 1000000 \div (IF std * std < 1000000 THEN 1000000 ELSE std * std)
convert_ctx_posterior(v) ==
    LET at(k) == IF k <= Len(v.items) THEN {v.items[k]} ELSE {} IN
    CASE v.t # "list" -> [mean |-> 0, precision |-> 100, count |-> 0, last |-> 0]
      [] v.t = "list" /\ Len(v.items) = 3 -> [mean |-> Default(as_f64(at(1)), 0), precision |-> LegacyPrecision(Default(as_f64(at(2)), 0)), count |-> Default(as_i64(at(3)), 0), last |-> 0]
      [] OTHER -> [mean |-> Default(as_f64(at(1)), 0), precision |-> Default(as_f64(at(2)), 0), count |-> Default(as_i64(at(3)), 0), last |-> Default(as_i64(at(4)), 0)]
ctx_posterior_to_value(c) == Arr(<<Float(c.mean), Float(c.precision), Int64(c.count), Int64(c.last)>>)

parse_v3_strict(S) == { [ k \in DOMAIN s |-> Default(try_float({s[k]}), 0) ] : s \in { x \in Items(S) : Len(x) = 3 /\ \A k \in DOMAIN x : python_floatable(x[k]) } }
NumericRow(v) == v.t = "list" /\ Len(v.items) = 3 /\ \A j \in 1..3 : as_f64({v.items[j]}) # {}
parse_m3_pd(S) ==
    { [ i \in 1..3 |-> [ j \in 1..3 |-> Default(as_f64({m[i].items[j]}), 0) ] ] :
        m \in { x \in Items(S) : Len(x) = 3 /\ \A i \in DOMAIN x : NumericRow(x[i]) /\ Default(as_f64({x[i].items[i]}), 0) > 0 } }

\* The newest entries; what is no triple of numbers is passed over.
convert_posterior_bias(items) ==
    LET newest == SubSeq(items, IF Len(items) > MaxBiasNudges THEN Len(items) - MaxBiasNudges + 1 ELSE 1, Len(items))
        readable(v) == v.t = "list" /\ Len(v.items) >= 3 /\ python_floatable(v.items[1]) /\ python_floatable(v.items[2]) /\ python_intable(v.items[3])
        nudge(v) == [fee |-> Default(try_float({v.items[1]}), 0), weight |-> Default(try_float({v.items[2]}), 0), ts |-> Default(try_int({v.items[3]}), 0)]
        read == SelectSeq(newest, LAMBDA v : readable(v) /\ nudge(v).weight > 0 /\ nudge(v).fee >= 0) IN
    [ k \in DOMAIN read |-> nudge(read[k]) ]

DefaultVector == <<0, 100, 0>>
DefaultMatrix == <<<<1, 0, 0>>, <<0, 1, 0>>, <<0, 0, 1>>>>
gts_from_dict(d) ==
    LET legacy == as_str(Field(d, "weight_scheme")) # {"exposure_v2"} IN
    [scalars |-> [ k \in DOMAIN SamplerScalars |-> ScalarOf(SamplerScalars[k][1], Field(d, k), SamplerScalars[k][2]) ],
     observations |-> convert_observations(Default(Items(Field(d, "observations")), <<>>), legacy),
     vectors |-> [ k \in Vectors |-> Default(parse_v3_strict(Field(d, k)), DefaultVector) ],
     matrices |-> [ k \in Matrices |-> Default(parse_m3_pd(Field(d, k)), DefaultMatrix) ],
     contexts |-> LET c == Default(Fields(Field(d, "contextual_posteriors")), <<>>) IN [ k \in DOMAIN c |-> convert_ctx_posterior(c[k]) ],
     bias |-> convert_posterior_bias(Default(Items(Field(d, "posterior_bias")), <<>>)),
     extra |-> IF d.t = "object" THEN Restrict(d.fields, DOMAIN d.fields \ KNOWN_KEYS) ELSE <<>>]
NewSampler == gts_from_dict(Obj(<<>>))

gts_to_dict(s) ==
    Obj([ k \in DOMAIN SamplerScalars |-> ScalarValue(SamplerScalars[k][1], s.scalars[k]) ]
        @@ [ k \in Vectors |-> Arr([ j \in 1..3 |-> Float(s.vectors[k][j]) ]) ]
        @@ [ k \in Matrices |-> Arr([ i \in 1..3 |-> Arr([ j \in 1..3 |-> Float(s.matrices[k][i][j]) ]) ]) ]
        @@ [observations |-> Arr([ k \in DOMAIN s.observations |-> observation_to_value(s.observations[k]) ]),
            contextual_posteriors |-> Obj([ k \in DOMAIN s.contexts |-> ctx_posterior_to_value(s.contexts[k]) ]),
            posterior_bias |-> Arr([ k \in DOMAIN s.bias |-> Arr(<<Float(s.bias[k].fee), Float(s.bias[k].weight), Int64(s.bias[k].ts)>>) ]),
            weight_scheme |-> Str("exposure_v2")]
        @@ s.extra)

-----------------------------------------------------------------------------
(* The controller's state (pid.rs).                                         *)
PidFloats == [kp |-> 200, ki |-> 10, kd |-> 0, ewma_error |-> 0, integral_error |-> 0, prev_ewma_error |-> 0, integral_clamp |-> 300]
pid_from_dict(d) == [ k \in DOMAIN PidFloats |-> num_or(Field(d, k), PidFloats[k]) ] @@ [last_update_time |-> int_or(Field(d, "last_update_time"), 0)]
pid_to_dict(s) == Obj([ k \in DOMAIN PidFloats |-> Float(s[k]) ] @@ [last_update_time |-> Int64(s.last_update_time)])

-----------------------------------------------------------------------------
(* The envelope (state_store.rs).                                           *)
SharedField == {"last_gossip_refresh", "last_broadcast_at", "dynamic_htlcmin_baseline_msat"}
\* The columns of fee_strategy_state, and the fields of the two payloads.
RowFields ==
    [last_revenue_rate |-> <<"f64", 0>>, last_fee_ppm |-> <<"i64", 0>>, trend_direction |-> <<"i64", 1>>, step_ppm |-> <<"i64", 50>>,
     consecutive_same_direction |-> <<"i64", 0>>, last_update |-> <<"i64", 0>>, last_broadcast_fee_ppm |-> <<"i64", 0>>, is_sleeping |-> <<"bool", FALSE>>,
     sleep_until |-> <<"i64", 0>>, stable_cycles |-> <<"i64", 0>>, forward_count_since_update |-> <<"i64", 0>>, last_volume_sats |-> <<"i64", 0>>, last_state |-> <<"str", "balanced">>]
SharedFields == [last_gossip_refresh |-> <<"i64", 0>>, last_broadcast_at |-> <<"i64", 0>>, dynamic_htlcmin_baseline_msat |-> <<"opt", {}>>]
CycleFields ==
    [last_fee_ppm |-> <<"fee", 0>>, last_broadcast_fee_ppm |-> <<"fee", 0>>, congestion_active |-> <<"bool", FALSE>>, congestion_quiet_cycles |-> <<"i64", 0>>,
     congestion_entry_fee_ppm |-> <<"fee", 0>>, pending_target_ppm |-> <<"fee", 0>>] @@ RowFields @@ SharedFields
FeeFields ==
    [last_vegas_multiplier |-> <<"f64", 100>>, last_fee_profile |-> <<"str", "active">>, last_context_key |-> <<"str", "">>, last_time_bucket |-> <<"str", "normal">>,
     last_corridor_role |-> <<"str", "P">>, last_contextual_sample_used |-> <<"bool", FALSE>>] @@ SharedFields
\* The columns a fee state takes from its row.
FeeColumns == DOMAIN RowFields \ {"trend_direction", "step_ppm", "consecutive_same_direction"}

ReadAs(kind, S, d) ==
    CASE kind = "i64" -> Default(as_i64(S), d)
      [] kind = "fee" -> Between(Default(as_i64(S), d), 0, 100000)
      [] kind = "f64" -> Default(as_f64(S), d)
      [] kind = "str" -> Default(as_str(S), d)
      [] kind = "bool" -> Default({ truthy(v) : v \in S }, d)
      [] OTHER -> as_i64(S)
WriteAs(kind, x) ==
    CASE kind \in {"i64", "fee"} -> Int64(x) [] kind = "f64" -> Float(x) [] kind = "str" -> Str(x) [] kind = "bool" -> Bool(x)
      [] OTHER -> Default({ Int64(n) : n \in x }, Null)

DefaultRow == [ k \in DOMAIN RowFields |-> RowFields[k][2] ]
\* A blob that is empty or does not parse is an empty object.
SharedDefaults(raw, row) ==
    [last_gossip_refresh |-> Default(Field(raw, "last_gossip_refresh"), Int64(0)), last_broadcast_at |-> Default(Field(raw, "last_broadcast_at"), Int64(row.last_update)),
     dynamic_htlcmin_baseline_msat |-> Default(Field(raw, "dynamic_htlcmin_baseline_msat"), Null)]
extract_shared_scalars(raw, row) ==
    [last_gossip_refresh |-> Default(as_i64(Field(raw, "last_gossip_refresh")), 0), last_broadcast_at |-> Default(as_i64(Field(raw, "last_broadcast_at")), row.last_update),
     dynamic_htlcmin_baseline_msat |-> as_i64(Field(raw, "dynamic_htlcmin_baseline_msat"))]
FlatKeys == {"algorithm_version", "thompson_state", "last_vegas_multiplier", "pid_state"} \cup SharedField
extract_fee_state_payload(raw, row) ==
    Obj(Default(Fields(Field(raw, "fee_state")), IF raw.t = "object" THEN Restrict(raw.fields, DOMAIN raw.fields \cap FlatKeys) ELSE <<>>)
        @@ [algorithm_version |-> Str("dts_pid_v1"), last_vegas_multiplier |-> Float(100)] @@ SharedDefaults(raw, row))
extract_cycle_state_payload(raw, row) ==
    Obj(Default(Fields(Field(raw, "cycle_state")), <<>>) @@ [ k \in DOMAIN RowFields |-> WriteAs(RowFields[k][1], row[k]) ] @@ SharedDefaults(raw, row))
parse_v2_blob(blob, row) ==
    LET raw == Default(blob, Obj(<<>>)) IN
    [fee |-> extract_fee_state_payload(raw, row), cycle |-> extract_cycle_state_payload(raw, row), shared |-> extract_shared_scalars(raw, row)]

KnownVersion(d) == as_str(Field(d, "algorithm_version")) \cap {"thompson_aimd_v1", "dts_pid_v1"} # {}
load_fee_state(env, row) ==
    LET d == env.fee IN
    [ k \in DOMAIN FeeFields |-> ReadAs(FeeFields[k][1], Field(d, k), IF k = "last_broadcast_at" THEN row.last_update ELSE FeeFields[k][2]) ]
    @@ [ k \in FeeColumns |-> row[k] ]
    @@ [thompson |-> IF KnownVersion(d) THEN gts_from_dict(Default(Field(d, "thompson_state"), Obj(<<>>))) ELSE NewSampler,
        pid |-> pid_from_dict(Default(Field(d, "pid_state"), Obj(<<>>))),
        algorithm_version |-> IF KnownVersion(d) THEN Default(as_str(Field(d, "algorithm_version")), "") ELSE "dts_pid_v1"]
load_cycle_state(env) ==
    LET d == env.cycle
        updated == Default(as_i64(Field(d, "last_update")), 0) IN
    [ k \in DOMAIN CycleFields |-> ReadAs(CycleFields[k][1], Field(d, k), IF k = "last_broadcast_at" THEN updated ELSE CycleFields[k][2]) ]

fee_state_to_v2_dict(s) ==
    Obj([ k \in DOMAIN FeeFields |-> WriteAs(FeeFields[k][1], s[k]) ]
        @@ [algorithm_version |-> Str(s.algorithm_version), thompson_state |-> gts_to_dict(s.thompson), pid_state |-> pid_to_dict(s.pid)])
serialize_cycle_state_payload(s) == Obj([ k \in DOMAIN CycleFields |-> WriteAs(CycleFields[k][1], s[k]) ])
state_envelope(cycle, fee) ==
    Obj([ k \in SharedField |-> WriteAs(SharedFields[k][1], fee[k]) ]
        @@ [algorithm_version |-> Str(fee.algorithm_version), fee_state |-> fee_state_to_v2_dict(fee), cycle_state |-> serialize_cycle_state_payload(cycle)])

-----------------------------------------------------------------------------
(* The imports (revops/fee_state.rs).  A row is [columns, blob]; the         *)
(* controller's state is [cycles, fees, seen, prev].                        *)
SkipGateEpochs(cycles) == [ c \in DOMAIN cycles |-> [last_update |-> cycles[c].last_update, is_sleeping |-> cycles[c].is_sleeping] ]
EmptyController == [cycles |-> <<>>, fees |-> <<>>, seen |-> <<>>, prev |-> <<>>]
hydrate_from_strategy_rows(state, rows) ==
    LET env(c) == parse_v2_blob(rows[c].blob, rows[c].columns)
        cycles == [ c \in DOMAIN rows |-> load_cycle_state(env(c)) ] IN
    [cycles |-> cycles, fees |-> [ c \in DOMAIN rows |-> load_fee_state(env(c), rows[c].columns) ],
     seen |-> SkipGateEpochs(cycles), prev |-> state.seen]
set_skip_gates_to_owned(state) == [state EXCEPT !.seen = SkipGateEpochs(state.cycles), !.prev = SkipGateEpochs(state.cycles)]

\* Rows of a generation of ours: every one must carry both halves, or all are
\* refused ({}).  Only last_update and the blob are stored.
rehydrate_from_rows(state, rows) ==
    IF \E c \in DOMAIN rows : rows[c].blob = {} \/ \E v \in rows[c].blob : Fields(Field(v, "fee_state")) = {} \/ Fields(Field(v, "cycle_state")) = {}
    THEN {}
    ELSE {set_skip_gates_to_owned(hydrate_from_strategy_rows(state,
              [ c \in DOMAIN rows |-> [columns |-> [DefaultRow EXCEPT !.last_update = rows[c].last_update], blob |-> rows[c].blob] ]))}

\* A matrix the origin would have stopped at, or kept where this code would not.
Sized(v) == v.t \in {"list", "text", "object"}
SizeOf(v) == CASE v.t = "list" -> Len(v.items) [] v.t = "text" -> Len(v.w) [] OTHER -> Cardinality(DOMAIN v.fields)
Numeric(v) == v.t \in {"int", "float", "bool"}
MatrixDiverges(m) ==
    LET odd == { i \in 1..3 : ~Sized(m[i]) \/ SizeOf(m[i]) # 3 }
        usable(i) == m[i].t = "list" /\ Numeric(m[i].items[i])
        stop == { i \in 1..3 : ~usable(i) \/ Default(try_float({m[i].items[i]}), 0) <= 0 } IN
    CASE odd # {} -> ~Sized(m[Min(odd)])
      [] odd = {} /\ stop # {} -> ~usable(Min(stop))
      [] OTHER -> \E i, j \in 1..3 : ~Numeric(m[i].items[j])
precision_guard_divergence(v) ==
    /\ truthy(v)
    /\ CASE v.t = "list" -> Len(v.items) = 3 /\ MatrixDiverges(v.items)
         [] v.t = "text" -> FALSE
         [] v.t = "object" -> SizeOf(v) = 3 /\ \A k \in DOMAIN v.fields : Len(k) = 3
         [] OTHER -> TRUE

ObservationRaises(v, legacy) == v.t # "list" \/ (legacy /\ Len(v.items) >= 4 /\ \E k \in {2, 3} : ~python_floatable(v.items[k]))
ContextRaises(v) == v.t # "list" \/ (Len(v.items) = 3 /\ \E k \in {1, 2} : ~python_floatable(v.items[k]))
gts_from_dict_would_raise(d) ==
    LET legacy == as_str(Field(d, "weight_scheme")) # {"exposure_v2"}
        newest(items) == SubSeq(items, IF Len(items) > MaxBiasNudges THEN Len(items) - MaxBiasNudges + 1 ELSE 1, Len(items)) IN
    \/ \E v \in Field(d, "observations") : v.t # "list" \/ \E k \in DOMAIN v.items : ObservationRaises(v.items[k], legacy)
    \/ \E v \in Field(d, "contextual_posteriors") : v.t # "object" \/ \E k \in DOMAIN v.fields : ContextRaises(v.fields[k])
    \/ \E f \in Matrices : \E v \in Field(d, f) : precision_guard_divergence(v)
    \/ \E f \in {"noise_variance", "_last_fee_min", "_last_fee_max"} : \E v \in Field(d, f) : ~python_floatable(v)
    \/ \E items \in Items(Field(d, "posterior_bias")) : \E k \in DOMAIN newest(items) : newest(items)[k].t = "object"

PID_FROM_DICT_CASTS == DOMAIN PidFloats
pid_state_violation(S) ==
    \E v \in S : truthy(v) /\ (\/ v.t # "object"
                               \/ \E k \in PID_FROM_DICT_CASTS : \E x \in Field(v, k) : ~python_floatable(x)
                               \/ \E x \in Field(v, "last_update_time") : ~python_intable(x))
cycle_state_violation(d) == \E v \in Field(d, "congestion_quiet_cycles") : truthy(v) /\ ~python_intable(v)
seed_parity_violation(env) ==
    \/ KnownVersion(env.fee) /\ \E v \in Field(env.fee, "thompson_state") : v.t # "object" \/ gts_from_dict_would_raise(v)
    \/ pid_state_violation(Field(env.fee, "pid_state"))
    \/ cycle_state_violation(env.cycle)

\* Every row passes, or none is taken.
seed_once_from_python(state, rows) ==
    IF \E c \in DOMAIN rows : seed_parity_violation(parse_v2_blob(rows[c].blob, rows[c].columns))
    THEN [outcome |-> "seed_refused", state |-> state]
    ELSE [outcome |-> "seeded", state |-> set_skip_gates_to_owned(hydrate_from_strategy_rows(state, rows))]

-----------------------------------------------------------------------------
(* The merge of a saved half with the stored other half (state_store.rs).     *)
(* A saved half is {} or {[state, explicit]}, explicit being the shared       *)
(* fields its owner has set.                                                *)
build_merged_row(cycle, fee, persisted) ==
    LET cycleHalf == Default({ serialize_cycle_state_payload(h.state) : h \in cycle }, persisted.cycle)
        feeHalf == Default({ fee_state_to_v2_dict(h.state) : h \in fee }, persisted.fee)
        speaker == IF cycle = {} THEN fee ELSE cycle
        spoken == IF cycle = {} THEN feeHalf ELSE cycleHalf
        explicit == UNION { h.explicit : h \in speaker }
        shared == [ f \in SharedField |-> IF f \in explicit THEN spoken.fields[f] ELSE WriteAs(SharedFields[f][1], persisted.shared[f]) ]
        cycle_state == Obj(shared @@ cycleHalf.fields)
        default(k) == IF k = "last_state" THEN "unknown" ELSE RowFields[k][2] IN
    [row |-> [ k \in DOMAIN RowFields |-> ReadAs(RowFields[k][1], Field(cycle_state, k), default(k)) ],
     blob |-> Obj(shared @@ [algorithm_version |-> Default(Field(feeHalf, "algorithm_version"), Str("dts_pid_v1")),
                             fee_state |-> Obj(shared @@ feeHalf.fields), cycle_state |-> cycle_state])]

-----------------------------------------------------------------------------
(* The dry run's journal (revops/fee_state.rs).  A flush appends one batch    *)
(* by writing the whole file anew and renaming it.                          *)
Resting == [at |-> "idle", next |-> <<>>]
JournalInit ==
    /\ sinkLock = [ f \in Flushers |-> {} ]
    /\ heldLocks = {}
    /\ flushing = [ f \in Flushers |-> Resting ]
    /\ journal = <<>>
    /\ batches = 0
    /\ flushed = {}

\* One lock per path, for as long as a sink of that path lives.
transaction_lock(f) == IF \E g \in Flushers : sinkLock[g] # {} THEN UNION { sinkLock[g] : g \in Flushers } ELSE {"path"}

\* open_dir, and the sink being dropped.
OpenSink(f) == sinkLock[f] = {} /\ sinkLock' = [sinkLock EXCEPT ![f] = transaction_lock(f)] /\ UNCHANGED <<heldLocks, flushing, journal, batches, flushed>>
DropSink(f) == sinkLock[f] # {} /\ flushing[f].at = "idle" /\ sinkLock' = [sinkLock EXCEPT ![f] = {}] /\ UNCHANGED <<heldLocks, flushing, journal, batches, flushed>>

LockJournal(f) ==
    /\ flushing[f].at = "idle" /\ batches < MaxBatches
    /\ sinkLock[f] # {} /\ sinkLock[f] \cap heldLocks = {}
    /\ heldLocks' = heldLocks \cup sinkLock[f]
    /\ batches' = batches + 1
    /\ flushing' = [flushing EXCEPT ![f] = [at |-> "locked", next |-> <<batches + 1>>]]
    /\ UNCHANGED <<sinkLock, journal, flushed>>
ReadJournal(f) ==
    /\ flushing[f].at = "locked"
    /\ flushing' = [flushing EXCEPT ![f] = [at |-> "read", next |-> journal \o flushing[f].next]]
    /\ UNCHANGED <<sinkLock, heldLocks, journal, batches, flushed>>
\* Staging: created, written, given the old permissions, synchronised.
StageJournal(f) ==
    /\ flushing[f].at = "read"
    /\ flushing' = [flushing EXCEPT ![f].at = "staged"]
    /\ UNCHANGED <<sinkLock, heldLocks, journal, batches, flushed>>
RenameJournal(f) ==
    /\ flushing[f].at = "staged"
    /\ journal' = flushing[f].next
    /\ flushed' = flushed \cup {Last(flushing[f].next)}
    /\ flushing' = [flushing EXCEPT ![f] = Resting]
    /\ heldLocks' = heldLocks \ sinkLock[f]
    /\ UNCHANGED <<sinkLock, batches>>
\* Any of these fails: the staging file is removed, the lock is given back.
FlushFails(f) ==
    /\ flushing[f].at # "idle"
    /\ flushing' = [flushing EXCEPT ![f] = Resting]
    /\ heldLocks' = heldLocks \ sinkLock[f]
    /\ UNCHANGED <<sinkLock, journal, batches, flushed>>
\* The process dies: sinks and locks go with it, the file stays.
JournalCrash ==
    /\ \E f \in Flushers : flushing[f].at # "idle"
    /\ sinkLock' = [ f \in Flushers |-> {} ]
    /\ heldLocks' = {}
    /\ flushing' = [ f \in Flushers |-> Resting ]
    /\ UNCHANGED <<journal, batches, flushed>>

JournalNext ==
    \/ \E f \in Flushers : OpenSink(f)
    \/ \E f \in Flushers : DropSink(f)
    \/ \E f \in Flushers : LockJournal(f)
    \/ \E f \in Flushers : ReadJournal(f)
    \/ \E f \in Flushers : StageJournal(f)
    \/ \E f \in Flushers : RenameJournal(f)
    \/ \E f \in Flushers : FlushFails(f)
    \/ JournalCrash

-----------------------------------------------------------------------------
(* Properties.                                                             *)
LoadedFrom(row) == hydrate_from_strategy_rows(EmptyController, [ c \in {"c"} |-> row ])

\* A channel's state, committed by one process and read back by the next
\* (state_envelope, then rehydrate_from_rows), is what it was: no weight is
\* rescaled twice, no bound bites twice, no default takes a value's place.  The
\* columns the envelope does not carry are excepted.
RestartKeeps(row) ==
    \A before \in {LoadedFrom(row)} : \A blob \in {state_envelope(before.cycles["c"], before.fees["c"])} :
    \E s \in rehydrate_from_rows(EmptyController, [ c \in {"c"} |-> [last_update |-> before.cycles["c"].last_update, blob |-> {blob}] ]) :
        /\ s.cycles = before.cycles
        /\ \A k \in DOMAIN before.fees["c"] \ FeeColumns : s.fees["c"][k] = before.fees["c"][k]
        /\ s.seen = s.prev /\ s.seen = SkipGateEpochs(before.cycles)

\* What becomes of a value the gate let in: the number the origin would have
\* read, or the default d where the loader reads less than the gate admits.
IsNumber(x) == x.t \in {"int", "float"}
Padded(x) == x.t = "text" /\ x.padded
NumberRead(x, read, d, loaded) == \E h \in try_float({x}) : loaded = IF read THEN h ELSE d

\* Booleans and padded texts in the controller's floats, padded texts in its time.
PidRead(d, pid) ==
    \A v \in Field(d, "pid_state") : truthy(v) =>
        /\ \A k \in DOMAIN PidFloats : \A x \in Field(v, k) : NumberRead(x, x.t # "bool" /\ ~Padded(x), PidFloats[k], pid[k])
        /\ \A x \in Field(v, "last_update_time") : \E n \in try_int({x}) : pid.last_update_time = IF Padded(x) THEN 0 ELSE n
\* Booleans and texts in the rates and weights of the old scheme.
ObservationsRead(v, sampler) ==
    \A items \in Items(Field(v, "observations")) :
        LET whole == SelectSeq(items, LAMBDA x : Len(x.items) >= 4) IN
        /\ Len(sampler.observations) = Len(whole)
        /\ as_str(Field(v, "weight_scheme")) # {"exposure_v2"} =>
             \A k \in DOMAIN whole : LET rate == whole[k].items[2]  w == whole[k].items[3]  o == sampler.observations[k] IN
                 /\ NumberRead(rate, IsNumber(rate), 0, o.rate)
                 /\ \E h \in try_float({w}) : o.weight = Rescaled(IF IsNumber(w) THEN h ELSE 0, o.rate)
\* The origin keeps a matrix of three rows of three whose diagonal is positive;
\* one boolean in it and the whole matrix is the default.
MatricesRead(v, sampler) ==
    \A f \in Matrices : \A m \in Items(Field(v, f)) :
        (Len(m) = 3 /\ \A i \in DOMAIN m : m[i].t = "list" /\ Len(m[i].items) = 3 /\ Numeric(m[i].items[i]) /\ \E h \in try_float({m[i].items[i]}) : h > 0)
          => \A i, j \in 1..3 : NumberRead(m[i].items[j], \A k, l \in 1..3 : IsNumber(m[k].items[l]), DefaultMatrix[i][j], sampler.matrices[f][i][j])
\* Booleans and texts for the noise, texts for the quiet cycles.
NoiseRead(v, sampler) ==
    \A x \in Field(v, "noise_variance") : \E h \in try_float({x}) : sampler.scalars.noise_variance = Max({1000, IF IsNumber(x) THEN h ELSE 100000})
QuietRead(d, cycle) ==
    \A x \in Field(d, "congestion_quiet_cycles") : truthy(x) => \E n \in try_int({x}) : cycle.congestion_quiet_cycles = IF x.t = "text" THEN 0 ELSE n
\* Seeding takes every row or leaves the state as it was.  What it lets in is a
\* number to the origin, and the loaders read that number, but for the values
\* named above: the gate (seed_parity_violation) admits those though the loaders
\* pass them over, and each becomes its default.  Nothing else is lost.
SeedLosesOnlyNamed(rows) ==
    \A r \in {seed_once_from_python(EmptyController, rows)} :
    IF r.outcome = "seed_refused" THEN r.state = EmptyController
    ELSE \A c \in DOMAIN rows : \A env \in {parse_v2_blob(rows[c].blob, rows[c].columns)}, fees \in {r.state.fees[c]} :
           /\ PidRead(env.fee, fees.pid) /\ QuietRead(env.cycle, r.state.cycles[c])
           /\ KnownVersion(env.fee) => \A v \in Field(env.fee, "thompson_state") :
                ObservationsRead(v, fees.thompson) /\ MatricesRead(v, fees.thompson) /\ NoiseRead(v, fees.thompson)

\* The two halves of a row are saved by owners that loaded it at the same time.
\* A save is [half, set, own]: the shared fields its owner sets, and a new
\* value of a field of its own.
SavedHalf(loaded, save) == {[state |-> (save.set @@ (IF save.half = "cycle" THEN [last_fee_ppm |-> save.own] ELSE [last_vegas_multiplier |-> save.own])) @@ loaded, explicit |-> DOMAIN save.set]}
AfterSave(row, first, save) ==
    LET merged == build_merged_row(IF save.half = "cycle" THEN SavedHalf(first.cycles["c"], save) ELSE {}, IF save.half = "fee" THEN SavedHalf(first.fees["c"], save) ELSE {},
                                   parse_v2_blob(row.blob, row.columns)) IN
    [columns |-> merged.row, blob |-> {merged.blob}]
LastSet(saves, f) == LET at == { k \in DOMAIN saves : f \in DOMAIN saves[k].set } IN IF at = {} THEN {} ELSE {saves[Max(at)].set[f]}
LastOwn(saves, half) == LET at == { k \in DOMAIN saves : saves[k].half = half } IN IF at = {} THEN {} ELSE {saves[Max(at)].own}
\* No save undoes another's: a shared field is what was last set on purpose
\* (build_merged_row), its copies agree, and each half is as its owner left it.
SavesKeepEachOther(row, saves) ==
    \A first \in {LoadedFrom(row)}, was \in {parse_v2_blob(row.blob, row.columns).shared} :
    \A after \in {LoadedFrom(FoldLeft(LAMBDA r, save : AfterSave(r, first, save), row, saves))} :
    /\ \A f \in SharedField : /\ after.cycles["c"][f] = after.fees["c"][f]
                              /\ after.fees["c"][f] = Default(LastSet(saves, f), was[f])
    /\ after.cycles["c"].last_fee_ppm = Default(LastOwn(saves, "cycle"), first.cycles["c"].last_fee_ppm)
    /\ after.fees["c"].last_vegas_multiplier = Default(LastOwn(saves, "fee"), first.fees["c"].last_vegas_multiplier)
    /\ after.fees["c"].thompson = first.fees["c"].thompson

\* The journal holds each batch whose flush answered Ok, whole and once,
\* through failed flushes, crashes and sinks that come and go.
JournalKeepsBatches == Range(journal) = flushed /\ IsInjective(journal)
=============================================================================
