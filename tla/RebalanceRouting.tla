---------------------------- MODULE RebalanceRouting ----------------------------
(***************************************************************************)
(* The throwaway askrene layers of a pricing cycle (revops-rebalance        *)
(* router.rs, CycleRouter) and the ring of failed segments that executions   *)
(* leave behind (segstore.rs, executor.rs, engine.rs).                       *)
(*                                                                         *)
(* A router caches one layer per exclude set; a layer is built by several    *)
(* RPCs of which each may fail, is removed by one that may fail, and lives    *)
(* in askrene, which forgets its layers when it restarts.                    *)
(***************************************************************************)
EXTENDS Integers, FiniteSets, Sequences, SequencesExt

CONSTANTS Routers,       \* pricing cycles that may be open at the same time
          ExcludeSets,   \* the exclude sets a cycle asks for
          MaxLayers,     \* bound on the layer names minted
          MaxFaults,     \* bound on removals that fail, crashes and askrene restarts
          Capacity,      \* max_observations
          Ttl,           \* ttl_seconds
          MaxClock,      \* bound on the clock of the ring
          MaxRecords     \* bound on the recorded observations

VARIABLES live,     \* askrene: set of [id, key, ready (entries disabled so far)]
          router,   \* router -> [on, cache (set of [key, id]), build (a set of at most one [key, id])]
          minted,   \* EXCLUDE_COUNTER
          faults, orphans   \* history: faults so far; layers whose removal failed or whose owner died

layerVars == <<live, router, minted, faults, orphans>>

Closed == [on |-> FALSE, cache |-> {}, build |-> {}]
Of(r) == { c.id : c \in router[r].cache \cup router[r].build }

LayerInit ==
    /\ live = {} /\ minted = 0 /\ faults = 0 /\ orphans = {}
    /\ router = [r \in Routers |-> Closed]

BeginCycle(r) ==
    /\ ~router[r].on
    /\ router' = [router EXCEPT ![r].on = TRUE]
    /\ UNCHANGED <<live, minted, faults, orphans>>

\* mint_exclude_layer_name: the time and a counter.
mint_exclude_layer_name == minted + 1

\* exclude_layer: a cached layer is used as it is; otherwise one is built.
CreateLayer(r, key) ==
    /\ router[r].on /\ router[r].build = {} /\ minted < MaxLayers
    /\ ~\E c \in router[r].cache : c.key = key
    /\ minted' = minted + 1
    /\ router' = [router EXCEPT ![r].build = {[key |-> key, id |-> mint_exclude_layer_name]}]
    /\ live' = live \cup {[id |-> mint_exclude_layer_name, key |-> key, ready |-> {}]}
    /\ UNCHANGED <<faults, orphans>>

CacheWhile(r, b) == router[r].cache

UpdateChannel(r, entry) ==
    \E b \in router[r].build :
        \E l \in live :
            /\ l.id = b.id /\ entry \in l.key \ l.ready
            /\ live' = (live \ {l}) \cup {[l EXCEPT !.ready = @ \cup {entry}]}
            /\ router' = [router EXCEPT ![r].cache = CacheWhile(r, b)]
            /\ UNCHANGED <<minted, faults, orphans>>

BuildDone(r) ==
    \E b \in router[r].build :
        /\ \E l \in live : l.id = b.id /\ l.ready = l.key
        /\ router' = [router EXCEPT ![r].build = {}, ![r].cache = @ \cup {b}]
        /\ UNCHANGED <<live, minted, faults, orphans>>

\* Best-effort removal of some layers: each RPC may fail.
RemoveLayers(ids, failed) ==
    /\ failed \subseteq { l.id : l \in live } \cap ids
    /\ faults + Cardinality(failed) <= MaxFaults
    /\ live' = { l \in live : l.id \notin ids \ failed }
    /\ faults' = faults + Cardinality(failed)
    /\ orphans' = orphans \cup failed

RollBack(r, ids, failed) == RemoveLayers(ids, failed)

\* An update that fails (the layer may be gone with an askrene restart).
BuildFails(r) ==
    /\ router[r].build # {}
    /\ \E failed \in SUBSET { b.id : b \in router[r].build } : RollBack(r, { b.id : b \in router[r].build }, failed)
    /\ router' = [router EXCEPT ![r].build = {}]
    /\ UNCHANGED minted

\* getroutes names a layer that askrene no longer knows: the caches are dropped.
UnknownLayer(r) ==
    /\ router[r].build = {}
    /\ \E c \in router[r].cache : ~\E l \in live : l.id = c.id
    /\ \E failed \in SUBSET Of(r) : RemoveLayers(Of(r), failed)
    /\ router' = [router EXCEPT ![r].cache = {}]
    /\ UNCHANGED minted

\* end_cycle, or Drop on any way out.
EndCycle(r) ==
    /\ router[r].on /\ router[r].build = {}
    /\ \E failed \in SUBSET Of(r) : RemoveLayers(Of(r), failed)
    /\ router' = [router EXCEPT ![r] = Closed]
    /\ UNCHANGED minted

\* The process dies; the layers stay in askrene.
ProcessDies ==
    /\ faults < MaxFaults
    /\ orphans' = orphans \cup UNION { Of(r) : r \in Routers }
    /\ router' = [r \in Routers |-> Closed]
    /\ faults' = faults + 1
    /\ UNCHANGED <<live, minted>>

AskreneRestarts ==
    /\ faults < MaxFaults /\ live # {}
    /\ live' = {} /\ faults' = faults + 1
    /\ UNCHANGED <<router, minted, orphans>>

\* sweep_orphan_exclude_layers, meant for start-up: every layer with the prefix.
Sweep ==
    /\ \A r \in Routers : ~router[r].on
    /\ live # {}
    /\ \E failed \in SUBSET { l.id : l \in live } : RemoveLayers({ l.id : l \in live }, failed)
    /\ UNCHANGED <<router, minted>>

RouterStep(r) ==
    \/ BeginCycle(r) \/ BuildDone(r) \/ BuildFails(r) \/ UnknownLayer(r) \/ EndCycle(r)
    \/ \E key \in ExcludeSets : CreateLayer(r, key) \/ \E e \in key : UpdateChannel(r, e)

LayerNext == ProcessDies \/ AskreneRestarts \/ Sweep \/ \E r \in Routers : RouterStep(r)

LayerSpec == LayerInit /\ [][LayerNext]_layerVars

LayerTypeOK ==
    /\ minted \in 0..MaxLayers /\ faults \in 0..MaxFaults
    /\ \A l \in live : l.id \in 1..minted /\ l.key \in ExcludeSets /\ l.ready \subseteq l.key
    /\ \A r \in Routers : router[r].on \in BOOLEAN /\ \A c \in router[r].cache : c.key \in ExcludeSets

(* No layer is leaked: a layer that lives in askrene belongs to an open cycle, *)
(* unless its removal failed or its process died (CycleRouter, Drop).         *)
NoLeakedLayer == \A l \in live : l.id \in orphans \/ \E r \in Routers : l.id \in Of(r)

(* A request never goes out with a layer that excludes too little: what a cycle *)
(* has cached disables every entry of its exclude set or is unknown to askrene  *)
(* (build_exclude_layer inserts into the cache last).                          *)
CachedLayersAreWhole ==
    \A r \in Routers : \A c \in router[r].cache : \A l \in live : l.id = c.id => l.ready = c.key /\ l.key = c.key

(* Cycles never share a layer, so that the end of one does not change the       *)
(* routes of another (the counter makes names unique).                         *)
LayersAreNotShared == \A r, s \in Routers : r # s => Of(r) \cap Of(s) = {}

-----------------------------------------------------------------------------
(* SegmentObservationStore: a ring of observations, pruned and turned around    *)
(* by every export.                                                           *)
VARIABLES ring,      \* sequence of [seq, at, ok (has a scid and a direction)]
          clock,
          recorded,  \* next_observation_id - 1
          exported   \* the last exported snapshot, a sequence

ringVars == <<ring, clock, recorded, exported>>

Buckets == <<50, 100, 250, 500, 1000, 2000, 5000, 10000>>   \* thousands of sats
bucket_amount_sats(amount) ==
    IF amount <= 0 THEN 0 ELSE Buckets[Max({1} \cup { i \in DOMAIN Buckets : Buckets[i] <= amount })]

RingInit == ring = <<>> /\ clock = 1 /\ recorded = 0 /\ exported = <<>>

Kept(seq) == IF Len(seq) > Capacity THEN SubSeq(seq, Len(seq) - Capacity + 1, Len(seq)) ELSE seq

\* record_failure_observations: the erring channel in its direction, or in both at
\* half the confidence, or the excluded channels at a shared one (in per mille).
record_failure_observations(success, erring, direction, excluded) ==
    IF success THEN {}
    ELSE IF erring # "" THEN
        { [chan |-> erring, dir |-> d, confidence |-> IF direction = {} THEN 425 ELSE 850] :
              d \in IF direction = {} THEN {0, 1} ELSE direction }
    ELSE { [chan |-> e.chan, dir |-> e.dir, confidence |-> Max({200, 850 \div Cardinality(excluded)})] : e \in excluded }

\* A sequence number is used up only by an amount that has a bucket.
Record(amount, ok) ==
    /\ recorded < MaxRecords
    /\ IF bucket_amount_sats(amount) = 0 THEN UNCHANGED <<ring, recorded>>
       ELSE /\ recorded' = recorded + 1
            /\ ring' = Kept(Append(ring, [seq |-> recorded', at |-> clock, ok |-> ok]))
    /\ UNCHANGED <<clock, exported>>

valid_observation(o) == o.ok /\ clock - o.at <= Ttl

\* Newest first; a stable sort keeps the ring's order within a second.
Newest(obs) ==
    LET ix == SetToSortSeq(DOMAIN obs, LAMBDA i, j : obs[i].at > obs[j].at \/ (obs[i].at = obs[j].at /\ i < j))
    IN  [k \in DOMAIN ix |-> obs[ix[k]]]

\* push_segment_observation_snapshot: nothing is written when the node id is unknown
\* (not even exported) or when no observation is left.
Export ==
    LET valid == Newest(SelectSeq(ring, valid_observation))
    IN  /\ ring' = Kept(valid)
        /\ exported' = IF valid = <<>> THEN exported ELSE valid
        /\ UNCHANGED <<clock, recorded>>

Pass == clock < MaxClock /\ clock' = clock + 1 /\ UNCHANGED <<ring, recorded, exported>>

RingNext == Pass \/ Export \/ \E amount \in {0, 70}, ok \in BOOLEAN : Record(amount, ok)

(* The ring never holds more than its capacity, nor one observation twice, and  *)
(* what an export publishes is whole, of this time-to-live and newest first.    *)
RingIsBounded ==
    /\ Len(ring) <= Capacity
    /\ \A i, j \in DOMAIN ring : i # j => ring[i].seq # ring[j].seq
    /\ \A i, j \in DOMAIN exported : i < j => exported[i].at >= exported[j].at

(* An export publishes nothing that is too old or was published before it       *)
(* expired and dropped since: what is gone stays gone.                         *)
ExportIsFresh ==
    [][exported' # exported =>
          \A i \in DOMAIN exported' :
              clock - exported'[i].at <= Ttl /\ \E j \in DOMAIN ring : ring[j] = exported'[i]]_ringVars
================================================================================
