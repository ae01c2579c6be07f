---------------------------- MODULE ConfigResolution ----------------------------
(***************************************************************************)
(* How one configuration value is found (config_resolve.rs, fee_config.rs,  *)
(* config_types.rs): a validated row of config_overrides beats the option    *)
(* lightningd reports, which beats the plugin's own option or the default.  *)
(* Rows that are out of range are skipped, options are clamped.  Around the *)
(* algorithms run two state machines: the fee cycle's configuration, read    *)
(* field by field while other actors write rows, and the shared cache of     *)
(* lightningd's options.                                                    *)
(*                                                                         *)
(* Numbers are in thousandths.  A text is a number of some form, or a word. *)
(***************************************************************************)
LOCAL INSTANCE Integers
LOCAL INSTANCE Sequences
LOCAL INSTANCE FiniteSets
LOCAL INSTANCE TLC

CONSTANTS
    RowChoices,       \* field -> texts another actor may write as its override
    OptionChoices,    \* the option values a fee cycle may find in its snapshot
    MaxPublishes,     \* rows written during one resolution
    ConfigBodies,     \* the listconfigs answers lightningd may give
    MaxFetches,       \* refreshes of the option cache
    CounterTop        \* where the counter of failed refreshes saturates (u32::MAX)

ASSUME OptionAssumption == CounterTop \in Nat /\ CounterTop > 0
\* A row is a text; an option has the form that its shape is written in.
ASSUME TextAssumption ==
    /\ \A f \in DOMAIN RowChoices : \A t \in RowChoices[f] :
           t = [form |-> t.form, n |-> t.n, word |-> t.word, upper |-> t.upper, pad |-> t.pad]
    /\ \A v \in OptionChoices : \A f \in DOMAIN v :
           /\ v[f].text.n \in Int /\ v[f].text.form \in {"int", "float", "inf", "nan", "word"}
           /\ v[f].shape = "integer" => v[f].text.form = "int"
           /\ v[f].shape = "boolean" => v[f].text.form = "word"

VARIABLES
    rows,             \* config_overrides: field -> at most one text
    publishes,        \* rows written so far
    caller,           \* "cycle" or "prepare", the two users of a fee configuration
    snap,             \* the cycle's snapshot of the options
    feeCfg,              \* the fields resolved so far
    unreadable,       \* db_query_failures
    outcome,          \* "resolving", "used" or "refused"
    optionCache,      \* CacheState
    lastFetch,        \* what the latest refresh brought, {} before the first
    lastValues,       \* what the latest successful refresh brought
    fetches,
    evidence          \* what a pass last read: values and freshness

configVars == <<rows, publishes, caller, snap, feeCfg, unreadable, outcome>>
optionVars == <<optionCache, lastFetch, lastValues, fetches, evidence>>

-----------------------------------------------------------------------------
(* Texts, option values and the table of fields.                           *)
Text(form, n, word, upper, pad) == [form |-> form, n |-> n, word |-> word, upper |-> upper, pad |-> pad]
Whole(n) == Text("int", n, "", FALSE, FALSE)
Decimal(n) == Text("float", n, "", FALSE, FALSE)
WordText(w, upper) == Text("word", 0, w, upper, FALSE)
Trimmed(t) == [t EXCEPT !.pad = FALSE]
Lowered(t) == [t EXCEPT !.upper = FALSE]
\* parse::<i64>() and parse::<f64>() do not trim.
ParsesInt(t) == t.form = "int" /\ ~t.pad
ParsesFloat(t) == t.form \in {"int", "float", "inf", "nan"} /\ ~t.pad

OptText(t) == [shape |-> "string", text |-> t]
OptInt(n) == [shape |-> "integer", text |-> Whole(n)]
OptBool(b) == [shape |-> "boolean", text |-> WordText(IF b THEN "true" ELSE "false", TRUE)]

ConfigField(type, lo, hi, words, cast, own) ==
    [type |-> type, ranged |-> lo < hi, lo |-> lo, hi |-> hi, words |-> words, cast |-> cast, own |-> own]
IntField(lo, hi) == ConfigField("int", lo * 1000, hi * 1000, {}, "eq_true", FALSE)
FloatField(lo, hi) == ConfigField("float", lo, hi, {}, "eq_true", FALSE)
BoolField(cast, own) == ConfigField("bool", 0, 0, {}, cast, own)
NameField(words, own) == ConfigField("string", 0, 0, words, "eq_true", own)

\* The typed fields this module's readers use; own marks DB_OVERRIDE_ONLY_SUFFIXES.
ConfigTable ==
    [ min_fee_ppm |-> IntField(5, 100000), max_fee_ppm |-> IntField(1, 100000),
      thompson_prior_std_fee |-> IntField(10, 500), min_fee_ppm_saturated |-> IntField(0, 1000),
      fee_interval |-> IntField(60, 86400), flow_interval |-> IntField(60, 86400),
      htlc_congestion_threshold |-> FloatField(0, 1000),
      market_fee_mode |-> NameField({"undercut", "match", "premium", "competition_aware"}, FALSE),
      drain_fee_discount_max |-> FloatField(0, 500), high_liquidity_threshold |-> FloatField(0, 1000),
      fee_profile |-> NameField({"active", "conservative"}, FALSE), base_fee_msat |-> IntField(0, 10000),
      enable_vegas_reflex |-> BoolField("eq_true", FALSE), enable_dynamic_htlcmax |-> BoolField("eq_true", FALSE),
      htlcmax_source_pct |-> FloatField(10, 1000), htlcmax_sink_pct |-> FloatField(10, 1000), htlcmax_balanced_pct |-> FloatField(10, 1000),
      node_drain_bias_enabled |-> BoolField("eq_true", FALSE), node_drain_bias_max |-> FloatField(0, 500),
      paused |-> BoolField("eq_true", TRUE), receivable_ratio_target |-> FloatField(0, 1000),
      receivable_ratio_floor |-> FloatField(0, 1000), econ_governor_fees_enabled |-> BoolField("eq_true", TRUE),
      authority_level |-> NameField({}, TRUE), neighbor_median_min_competitors |-> IntField(2, 50),
      growth_budget_enabled |-> BoolField("in_true_1_yes", FALSE), dry_run |-> BoolField("eq_true", FALSE),
      econ_shadow_enabled |-> BoolField("eq_true", TRUE) ]
ConfigNames == DOMAIN ConfigTable

is_immutable_key(f) == f = "dry_run"
Inside(c, n) == c.ranged => n \in c.lo .. c.hi
BoundedTo(c, n) == IF ~c.ranged THEN n ELSE IF n < c.lo THEN c.lo ELSE IF n > c.hi THEN c.hi ELSE n
in_range(f, n) == Inside(ConfigTable[f], n)
\* How a clamped number is written again.
Rendered(n) == IF n % 1000 = 0 THEN Whole(n) ELSE Decimal(n)

-----------------------------------------------------------------------------
(* Layer (a): rows.                                                        *)

\* validate_override: the admitted text, or nothing and the row is skipped.
Admitted(c, t) ==
    CASE c.type = "int" -> { Trimmed(x) : x \in { y \in {t} : t.form = "int" /\ Inside(c, t.n) } }
      [] c.type = "float" -> { Trimmed(x) : x \in { y \in {t} : t.form \in {"int", "float"} /\ Inside(c, t.n) } }
      [] c.type = "bool" -> {t}
      [] OTHER -> IF c.words = {} THEN {t} ELSE { Lowered(x) : x \in { y \in {t} : ~t.pad /\ t.word \in c.words } }
validate_override(f, t) == Admitted(ConfigTable[f], t)

\* A database is {} or one record of whether the read answers and of the row.
\* read_db_override: a failed read is an error, never "no override".
read_db_override(db, f) ==
    IF is_immutable_key(f) \/ db = {} THEN [error |-> FALSE, value |-> {}]
    ELSE [error |-> \E d \in db : ~d.ok, value |-> UNION { validate_override(f, t) : t \in UNION { d.row : d \in { e \in db : e.ok } } }]

\* db_layer: a failed read is counted and then taken for no override.
db_layer(db, f) == read_db_override(db, f).value
ReadFails(db, f) == ~is_immutable_key(f) /\ \E d \in db : ~d.ok

-----------------------------------------------------------------------------
(* Layer (b): options.                                                     *)
option_value_to_string(o) == o.text

\* clamp_in_place, the gate of the cache: only what parses as the field's type.
InPlace(c, o) ==
    LET t == Trimmed(option_value_to_string(o)) IN
    CASE c.type = "int" /\ t.form = "int" /\ ~Inside(c, t.n) -> OptInt(BoundedTo(c, t.n))
      [] c.type = "float" /\ t.form \in {"int", "float"} /\ ~Inside(c, t.n) -> OptText(Rendered(BoundedTo(c, t.n)))
      [] OTHER -> o
clamp_in_place(f, o) == InPlace(ConfigTable[f], o)

\* clamp_startup_numeric, a second clamp of some readers: whatever parses as a float.
StartupNumeric(c, o) ==
    LET t == o.text IN
    CASE ~c.ranged \/ o.shape = "boolean" \/ t.form \in {"word", "nan"} -> o
      [] o.shape = "integer" -> OptInt(BoundedTo(c, t.n))
      [] t.form = "inf" -> OptText(Rendered(c.hi))
      [] OTHER -> IF Inside(c, t.n) THEN o ELSE OptText(Rendered(BoundedTo(c, t.n)))
clamp_startup_numeric(f, o) == StartupNumeric(ConfigTable[f], o)

python_startup_bool(f, t) ==
    ~t.pad /\ (t.word = "true" \/ (ConfigTable[f].cast = "in_true_1_yes" /\ (t.word = "yes" \/ (t.form = "int" /\ t.n = 1000))))

\* convert_value on a text of a Bool field: the tolerant cast of a row.
Truthy(t) == ~t.pad /\ (t.word \in {"true", "yes", "on"} \/ (t.form = "int" /\ t.n = 1000))

\* extract_value and parse_listconfigs_response: the first of the three shapes.
extract_value(e) == IF e.str # {} THEN { OptText(t) : t \in e.str } ELSE IF e.int # {} THEN { OptInt(n) : n \in e.int } ELSE { OptBool(b) : b \in e.bool }
parse_listconfigs_response(body) ==
    LET ours == { e \in body : e.ours /\ extract_value(e) # {} } IN
    [ f \in { e.name : e \in ours } |-> CHOOSE o \in UNION { extract_value(e) : e \in { x \in ours : x.name = f } } : TRUE ]
clamp_startup_option_map(values) == [ f \in DOMAIN values |-> clamp_in_place(f, values[f]) ]
OptionOf(values, f) == { values[g] : g \in DOMAIN values \cap {f} }

python_layer(values, f) ==
    IF ConfigTable[f].own THEN {} ELSE { clamp_startup_numeric(f, o) : o \in OptionOf(values, f) }

-----------------------------------------------------------------------------
(* The value of one field.                                                 *)
\* typed_value, then as_i64 or as_f64: nothing when the value is of another kind.
AsInt(f, o) ==
    { o.text.n : x \in { y \in {o} : o.shape = "integer" \/ (o.shape = "string" /\ ConfigTable[f].type = "int" /\ ParsesInt(o.text)) } }
AsFloat(f, o) ==
    { o.text.n : x \in { y \in {o} : o.shape = "integer"
        \/ (o.shape = "string" /\ ConfigTable[f].type = "float" /\ ParsesFloat(o.text) /\ o.text.form \notin {"inf", "nan"}) } }
Single(S, default) == IF S = {} THEN default ELSE CHOOSE x \in S : TRUE

\* The override of the database, or else what the options say.
Layered(override, option) == IF override # {} THEN override ELSE option
resolve_raw(db, values, f) == Layered({ OptText(t) : t \in db_layer(db, f) }, python_layer(values, f))
resolve_int(db, values, f, default) == Single(UNION { AsInt(f, o) : o \in resolve_raw(db, values, f) }, default)
resolve_float(db, values, f, default) == Single(UNION { AsFloat(f, o) : o \in resolve_raw(db, values, f) }, default)
OptionBool(f, o, default) ==
    CASE o.shape = "string" -> python_startup_bool(f, o.text)
      [] o.shape = "boolean" -> o.text.word = "true"
      [] OTHER -> default
resolve_bool(db, values, f, default) ==
    Single(Layered({ Truthy(t) : t \in db_layer(db, f) }, { OptionBool(f, o, default) : o \in python_layer(values, f) }), default)
resolve_string_opt(db, values, f, default) ==
    Single({ o.text : o \in { x \in resolve_raw(db, values, f) : x.shape = "string" } }, default)
resolve_lowercase_string(db, values, f, default) ==
    Single(Layered(db_layer(db, f), { Lowered(o.text) : o \in { x \in python_layer(values, f) : x.shape = "string" } }), default)
\* enable_dynamic_htlcmax keeps the raw value of whichever layer won.
resolve_raw_json(db, values, f, default) == Single(resolve_raw(db, values, f), default)

\* neighbor_median_min_competitors refuses what is not a positive integer.
resolve_neighbor_median_min_competitors(db, values) ==
    LET raw == resolve_raw(db, values, "neighbor_median_min_competitors") IN
    IF raw = {} THEN {2000} ELSE UNION { AsInt("neighbor_median_min_competitors", o) : o \in raw }
resolve_min_competitors(resolved) == { n \in resolved : n > 0 }

\* econ_shadow_enabled: no database and a failed read are errors, no row is FALSE.
econ_shadow_enabled(db) ==
    [error |-> db = {} \/ ReadFails(db, "econ_shadow_enabled"), enabled |-> \E d \in db : d.ok /\ \E t \in d.row : Truthy(t)]

(* The other readers of the same layers.                                   *)
clamp_startup_value(f, o) == clamp_in_place(f, o)
resolve_option_value(row, cached, own) == IF row # {} THEN row ELSE IF cached # {} THEN cached ELSE own
resolve_startup_option_value(f, row, cached, own) ==
    resolve_option_value(row, cached, { clamp_startup_value(f, o) : o \in own })
parse_clamped_startup_i64(f, own, default) ==
    Single(UNION { { t.n : t \in { x \in {Trimmed(clamp_startup_value(f, o).text)} : x.form = "int" } } : o \in own }, default)
\* A text of a Bool option is cast before the layers are compared.
Precast(f, o) == IF ConfigTable[f].type = "bool" /\ o.shape = "string" THEN OptBool(python_startup_bool(f, o.text)) ELSE o
RowOption(db, f) == { OptText(t) : t \in read_db_override(db, f).value }
\* revenue-r-config, the planner's status and the profile preview.
config_rpc_value(db, values, own, f) ==
    resolve_startup_option_value(f, RowOption(db, f), { clamp_startup_numeric(f, Precast(f, o)) : o \in OptionOf(values, f) }, own)
resolved_config_json(db, values, own, f) ==
    resolve_startup_option_value(f, RowOption(db, f), { Precast(f, o) : o \in OptionOf(values, f) }, own)
resolved_profile_config_json(db, values, own, f) ==
    resolve_option_value(RowOption(db, f), { Precast(f, o) : o \in OptionOf(values, f) }, own)

-----------------------------------------------------------------------------
(* What the algorithms promise.                                            *)
Db(row) == {[ok |-> TRUE, row |-> row]}

\* A row that is admitted is the value the fee cycle reads, whatever blanks or
\* capitals it was stored with; a row that is skipped is as if it were not there.
AdmittedRowIsRead(f, t, values) ==
    LET c == ConfigTable[f]
        number(row) == IF c.type = "int" THEN resolve_int(Db(row), values, f, -7) ELSE resolve_float(Db(row), values, f, -7)
        word(row) == resolve_lowercase_string(Db(row), values, f, WordText("default", FALSE)) IN
    \A admitted \in {validate_override(f, t) # {}} :
    IF c.type \in {"int", "float"}
    THEN \A with \in {number({t})} : IF admitted THEN with = t.n /\ in_range(f, t.n) ELSE with = number({})
    ELSE c.words # {} => \A with \in {word({t})} : IF admitted THEN with.word \in c.words /\ ~with.upper ELSE with = word({})

\* Every reader that reports a number or a switch for a field which a row or an
\* option decides reports the one the fee cycle runs with.
ReadersAgree(f, row, body) ==
    \A values \in {clamp_startup_option_map(parse_listconfigs_response(body))} :
    \A o \in config_rpc_value(Db(row), values, {}, f) \cup resolved_config_json(Db(row), values, {}, f)
             \cup resolved_profile_config_json(Db(row), values, {}, f) :
        CASE ConfigTable[f].type = "int" -> \A n \in AsInt(f, o) : resolve_int(Db(row), values, f, n + 1) = n /\ in_range(f, n)
          [] ConfigTable[f].type = "float" -> \A n \in AsFloat(f, o) : resolve_float(Db(row), values, f, n + 1) = n /\ in_range(f, n)
          [] ConfigTable[f].type = "bool" ->
               ConfigTable[f].own \/ o.shape = "integer" \/ resolve_bool(Db(row), values, f, TRUE) = (IF o.shape = "boolean" THEN o.text.word = "true" ELSE Truthy(o.text))
          [] OTHER -> TRUE

-----------------------------------------------------------------------------
(* The fee cycle's configuration, one read at a time.                      *)
\* FeeCfgSnapshot in the order its fields are read, with its defaults.
FeeDefaults ==
    << [name |-> "min_fee_ppm", default |-> Whole(10000)], [name |-> "max_fee_ppm", default |-> Whole(2000000)],
       [name |-> "thompson_prior_std_fee", default |-> Whole(100000)], [name |-> "min_fee_ppm_saturated", default |-> Whole(0)],
       [name |-> "fee_interval", default |-> Whole(1800000)], [name |-> "flow_interval", default |-> Whole(3600000)],
       [name |-> "htlc_congestion_threshold", default |-> Decimal(800)], [name |-> "market_fee_mode", default |-> WordText("undercut", FALSE)],
       [name |-> "drain_fee_discount_max", default |-> Whole(0)], [name |-> "high_liquidity_threshold", default |-> Decimal(700)],
       [name |-> "fee_profile", default |-> WordText("active", FALSE)], [name |-> "base_fee_msat", default |-> Whole(0)],
       [name |-> "enable_vegas_reflex", default |-> WordText("true", FALSE)], [name |-> "enable_dynamic_htlcmax", default |-> WordText("false", FALSE)],
       [name |-> "htlcmax_source_pct", default |-> Decimal(500)], [name |-> "htlcmax_sink_pct", default |-> Decimal(250)],
       [name |-> "htlcmax_balanced_pct", default |-> Decimal(450)], [name |-> "paused", default |-> WordText("false", FALSE)],
       [name |-> "node_drain_bias_enabled", default |-> WordText("false", FALSE)], [name |-> "node_drain_bias_max", default |-> Decimal(300)],
       [name |-> "receivable_ratio_target", default |-> Decimal(300)], [name |-> "receivable_ratio_floor", default |-> Decimal(200)],
       [name |-> "econ_governor_fees_enabled", default |-> WordText("false", FALSE)], [name |-> "authority_level", default |-> WordText("capital", FALSE)] >>
Resolved(db, values, f, d) ==
    CASE ConfigTable[f].type = "int" -> Whole(resolve_int(db, values, f, d.n))
      [] ConfigTable[f].type = "float" -> Rendered(resolve_float(db, values, f, d.n))
      [] f = "enable_dynamic_htlcmax" -> resolve_raw_json(db, values, f, OptText(d)).text
      [] ConfigTable[f].type = "bool" -> WordText(IF resolve_bool(db, values, f, d.word = "true") THEN "true" ELSE "false", FALSE)
      [] f = "authority_level" -> resolve_string_opt(db, values, f, d)
      [] OTHER -> resolve_lowercase_string(db, values, f, d)

ConfigInit ==
    /\ rows = [ f \in DOMAIN RowChoices |-> {} ] /\ publishes = 0
    /\ caller \in {"cycle", "prepare"} /\ snap \in OptionChoices
    /\ feeCfg = <<>> /\ unreadable = 0 /\ outcome = "resolving"

\* Another actor commits or deletes an override between two of the reads.
Publish ==
    /\ publishes < MaxPublishes /\ outcome = "resolving"
    /\ \E f \in DOMAIN rows : \E row \in {{}} \cup { {t} : t \in RowChoices[f] } : row # rows[f] /\ rows' = [rows EXCEPT ![f] = row]
    /\ publishes' = publishes + 1
    /\ UNCHANGED <<caller, snap, feeCfg, unreadable, outcome>>

\* resolve_fee_cfg_observed: each field awaits its own read, which may fail.
ReadField ==
    /\ outcome = "resolving" /\ Len(feeCfg) < Len(FeeDefaults)
    /\ LET field == FeeDefaults[Len(feeCfg) + 1] IN
       \E ok \in IF field.name \in DOMAIN rows THEN BOOLEAN ELSE {TRUE} :
         LET db == {[ok |-> ok, row |-> IF field.name \in DOMAIN rows THEN rows[field.name] ELSE {}]} IN
         /\ feeCfg' = Append(feeCfg, Resolved(db, snap, field.name, field.default))
         /\ unreadable' = unreadable + IF ReadFails(db, field.name) THEN 1 ELSE 0
    /\ UNCHANGED <<rows, publishes, caller, snap, outcome>>

Place(f) == CHOOSE k \in DOMAIN FeeDefaults : FeeDefaults[k].name = f
ValueOf(c, f) == c[Place(f)].n

\* repair_crossed_fee_bounds: the ceiling is raised to the floor.
repair_crossed_fee_bounds(min, max) == IF min > max THEN <<min, min>> ELSE <<min, max>>

\* The end of resolve_fee_cfg_observed, and the two callers: a preparation for
\* a new channel refuses a configuration with an unread field.
Repair ==
    /\ outcome = "resolving" /\ Len(feeCfg) = Len(FeeDefaults)
    /\ LET fees == repair_crossed_fee_bounds(ValueOf(feeCfg, "min_fee_ppm"), ValueOf(feeCfg, "max_fee_ppm"))
           target == ValueOf(feeCfg, "receivable_ratio_target")
           floor == ValueOf(feeCfg, "receivable_ratio_floor") IN
       feeCfg' = [feeCfg EXCEPT ![Place("min_fee_ppm")] = Whole(fees[1]), ![Place("max_fee_ppm")] = Whole(fees[2]),
                          ![Place("receivable_ratio_floor")] = Rendered(IF floor > target THEN target ELSE floor)]
    /\ outcome' = IF caller = "prepare" /\ unreadable > 0 THEN "refused" ELSE "used"
    /\ UNCHANGED <<rows, publishes, caller, snap, unreadable>>

ConfigNext == Publish \/ ReadField \/ Repair

ConfigSpec == ConfigInit /\ [][ConfigNext]_configVars

\* A configuration that is used has its bounds in order and every number in its
\* own range, although its fields may stem from different versions of the rows
\* and from options nobody validated.
UsedConfigHolds ==
    outcome = "used" =>
        /\ ValueOf(feeCfg, "min_fee_ppm") <= ValueOf(feeCfg, "max_fee_ppm")
        /\ ValueOf(feeCfg, "receivable_ratio_floor") <= ValueOf(feeCfg, "receivable_ratio_target")
        /\ \A k \in DOMAIN FeeDefaults : ConfigTable[FeeDefaults[k].name].ranged => in_range(FeeDefaults[k].name, feeCfg[k].n)

-----------------------------------------------------------------------------
(* PythonOptionCache.                                                      *)
NoValues == [ f \in {} |-> OptBool(FALSE) ]
freshness_of(c) == IF ~c.ok THEN "never" ELSE IF c.failures = 0 THEN "fresh" ELSE "last_good"

OptionInit ==
    /\ optionCache = [values |-> NoValues, ok |-> FALSE, failures |-> 0]
    /\ lastFetch = {} /\ lastValues = NoValues /\ fetches = 0 /\ evidence = {}

saturating_add(n) == IF n = CounterTop THEN n ELSE n + 1

\* apply_fetch: success replaces the snapshot, failure keeps it and is counted.
apply_fetch(c, fetched) ==
    IF fetched = {} THEN [c EXCEPT !.failures = saturating_add(@)]
    ELSE [values |-> clamp_startup_option_map(CHOOSE v \in fetched : TRUE), ok |-> TRUE, failures |-> 0]

\* refresh, by the fee cycle, a preparation, the analytics pass or start-up.
Refresh ==
    /\ fetches < MaxFetches
    /\ \E fetched \in {{}} \cup { {parse_listconfigs_response(b)} : b \in ConfigBodies } :
         /\ optionCache' = apply_fetch(optionCache, fetched)
         /\ lastFetch' = {fetched # {}}
         /\ lastValues' = IF fetched = {} THEN lastValues ELSE clamp_startup_option_map(CHOOSE v \in fetched : TRUE)
    /\ fetches' = fetches + 1
    /\ evidence' = { [e EXCEPT !.current = FALSE] : e \in evidence }

\* Mutant: values and freshness under two locks, with room for a refresh between.
TwoLocks ==
    /\ IF \E e \in evidence : e.fresh = "unread"
       THEN evidence' = { [e EXCEPT !.fresh = freshness_of(optionCache), !.current = TRUE] : e \in evidence }
       ELSE evidence' = {[values |-> optionCache.values, fresh |-> "unread", current |-> TRUE]}
    /\ UNCHANGED <<optionCache, lastFetch, lastValues, fetches>>

\* snapshot_with_freshness, the analytics pass's read under one lock.
snapshot_with_freshness ==
    /\ evidence' = {[values |-> optionCache.values, fresh |-> freshness_of(optionCache), current |-> TRUE]}
    /\ UNCHANGED <<optionCache, lastFetch, lastValues, fetches>>

OptionNext == Refresh \/ snapshot_with_freshness

OptionSpec == OptionInit /\ [][OptionNext]_optionVars

\* What a pass reads as fresh is what lightningd last answered; what it reads as
\* the last good answer is one; and before the first answer it reads nothing.
EvidenceIsOneGeneration ==
    \A e \in evidence : e.current =>
        /\ e.fresh = "fresh" => lastFetch = {TRUE} /\ e.values = lastValues
        /\ e.fresh = "last_good" => e.values = lastValues
        /\ e.fresh = "never" => e.values = NoValues

\* However long an outage lasts, a snapshot from before it never reads as fresh.
OutageStaysVisible ==
    /\ freshness_of(optionCache) = "fresh" => lastFetch = {TRUE}
    /\ freshness_of(optionCache) = "never" => optionCache.values = NoValues
=============================================================================
