------------------------------ MODULE FlowPass ------------------------------
(***************************************************************************)
(* The analytics passes of the observer (revops/src/analytics_passes.rs,   *)
(* flow_owner.rs, flow_config.rs, startup_snapshot.rs), the cadence that   *)
(* asks for them, their tables (revops-db/src/analytics.rs) and the        *)
(* evidence readers that may serve those tables (flow_evidence.rs).        *)
(*                                                                         *)
(* A pass is a sequence of awaits: configuration, listpeerchannels, the    *)
(* history, one transaction, the verdict.  The node's channels, the        *)
(* operator's configuration and the process itself change in between.      *)
(***************************************************************************)
EXTENDS Naturals, FiniteSets

CONSTANTS
  Scid,         \* channels; peers of the startup snapshot share the names
  Setting,      \* values of an option-backed setting that are in range
  MaxFlowBoot,  \* bound: processes
  MaxPass,      \* bound: flow passes
  MaxChange     \* bound: changes of channels and configuration

Unset == "unset"
Bad == "bad"          \* unparseable, or outside its range
Default == "default"
Refused == "refused"

ASSUME FlowAssumption ==
  /\ MaxFlowBoot \in Nat \ {0} /\ MaxPass \in Nat /\ MaxChange \in Nat
  /\ Setting \cap {Unset, Bad, Default, Refused} = {}

VARIABLES
  chan,    \* listpeerchannels: the state of each channel
  conf,    \* [override, option, cache, past]: override row, node option,
           \* PythonOptionCache (Refused before the first read)
  cad,     \* the cadence task: sleep, wait, ended
  pass,    \* the flow pass: [at, setting, seen, stamp]
  flow, kalman, temporal,  \* the three tables: boot or pass number, 0 no row
  health,  \* current_boot_status of the flow loop
  proc,    \* boot id
  asked,   \* history: listed channels some completed pass of this boot covered
  peers    \* startup snapshot: [at, todo, events]

flowVars == <<chan, conf, cad, pass, flow, kalman, temporal, health, proc, asked, peers>>

ChanState == {"gone", "closing", "normal", "malformed"}
NoPass == [at |-> "idle", setting |-> Unset, seen |-> [s \in Scid |-> "gone"], stamp |-> 0]
NoRows == [s \in Scid |-> 0]

PassOver == [NoPass EXCEPT !.stamp = pass.stamp]

FlowTypeOK ==
  /\ chan \in [Scid -> ChanState]
  /\ conf \in [override : Setting \union {Unset, Bad}, option : Setting \union {Unset, Bad},
               cache : Setting \union {Unset, Bad, Refused},
               past : SUBSET (Setting \union {Unset, Bad}), changes : 0 .. MaxChange]
  /\ cad \in {"sleep", "wait", "ended"}
  /\ pass \in [at : {"idle", "queued", "config", "channels", "history", "persist", "verdict"},
               setting : Setting \union {Unset, Default}, seen : [Scid -> ChanState],
               stamp : 0 .. MaxPass]
  /\ flow \in [Scid -> 0 .. MaxFlowBoot]
  /\ kalman \in [Scid -> 0 .. MaxPass] /\ temporal \in [Scid -> 0 .. MaxPass]
  /\ health \in {"never_run", "incomplete", "passed", "error", "suspended"}
  /\ proc \in 1 .. MaxFlowBoot /\ asked \subseteq Scid
  /\ peers \in [at : {"idle", "insert", "done"}, todo : SUBSET Scid, events : [Scid -> 0 .. 2]]

FlowInit ==
  /\ chan \in [Scid -> {"gone", "normal"}]
  /\ \E o \in Setting \union {Unset} :
       conf = [override |-> Unset, option |-> o, cache |-> Refused, past |-> {o}, changes |-> 0]
  /\ cad = "sleep" /\ pass = NoPass
  /\ flow = NoRows /\ kalman = NoRows /\ temporal = NoRows
  /\ health = "never_run" /\ proc = 1 /\ asked = {}
  /\ peers = [at |-> "idle", todo |-> {}, events |-> NoRows]

-----------------------------------------------------------------------------
(* The world: channels open, close or answer nonsense; the operator sets    *)
(* an override or restarts the node with another option.                    *)
ChannelChanges(s, st) ==
  /\ conf.changes < MaxChange /\ chan[s] # st
  /\ chan' = [chan EXCEPT ![s] = st]
  /\ conf' = [conf EXCEPT !.changes = @ + 1]
  /\ UNCHANGED <<cad, pass, flow, kalman, temporal, health, proc, asked, peers>>

Operator(field, v) ==
  /\ conf.changes < MaxChange
  /\ conf' = IF field = "override" THEN [conf EXCEPT !.override = v, !.changes = @ + 1]
             ELSE [conf EXCEPT !.option = v, !.past = @ \union {v}, !.changes = @ + 1]
  /\ UNCHANGED <<chan, cad, pass, flow, kalman, temporal, health, proc, asked, peers>>

\* A new process keeps only the tables.
RestartFlow ==
  /\ proc < MaxFlowBoot
  /\ proc' = proc + 1
  /\ conf' = [conf EXCEPT !.cache = Refused, !.past = {conf.option}]
  /\ cad' = "sleep" /\ pass' = PassOver
  /\ health' = "never_run" /\ asked' = {}
  /\ peers' = [peers EXCEPT !.at = "idle", !.todo = {}]
  /\ UNCHANGED <<chan, flow, kalman, temporal>>

-----------------------------------------------------------------------------
(* analytics_cadence.rs: sleep, request, wait until the loop is idle.       *)
CadenceTick(ok) ==
  /\ cad = "sleep" /\ pass.stamp < MaxPass
  /\ cad' = IF ok THEN "wait" ELSE "ended"
  /\ pass' = IF ok /\ health # "suspended" THEN [pass EXCEPT !.at = "queued"] ELSE pass
  /\ UNCHANGED <<chan, conf, flow, kalman, temporal, health, proc, asked, peers>>

CadenceSleeps ==
  /\ cad = "wait" /\ pass.at = "idle"
  /\ cad' = "sleep"
  /\ UNCHANGED <<chan, conf, pass, flow, kalman, temporal, health, proc, asked, peers>>

-----------------------------------------------------------------------------
(* The configuration.                                                      *)

\* default_or_refuse, for an option-backed field: the default is proven
\* only by a listconfigs reply that does not hold the option.
DefaultOrRefuse(option) == IF option = Refused THEN Refused ELSE Default

\* resolve_flow_config: override, then listconfigs, then the default; a
\* present value that does not parse or fit refuses the whole pass.
ResolveFlowConfig(override, option) ==
  LET raw == IF override # Unset THEN override ELSE option IN
  IF raw \in {Unset, Refused} THEN DefaultOrRefuse(option)
  ELSE IF raw = Bad THEN Refused ELSE raw

\* PythonOptionCache::refresh: a failed read keeps the last good snapshot.
Refreshed(ok) == IF ok THEN conf.option ELSE conf.cache

-----------------------------------------------------------------------------
(* FlowAnalysisPass::run, in the loop's child task.                        *)
PassBegins(ok) ==
  /\ pass.at = "queued"
  /\ \/ /\ ok
        /\ health' = "incomplete"
        /\ pass' = [pass EXCEPT !.at = "config", !.stamp = @ + 1]
     \/ /\ ~ok
        /\ health' = "suspended"
        /\ pass' = [pass EXCEPT !.at = "idle"]
  /\ UNCHANGED <<chan, conf, cad, flow, kalman, temporal, proc, asked, peers>>


\* fail: the verdict of a refused pass.
Fails ==
  /\ pass' = PassOver /\ health' = "error"
  /\ UNCHANGED <<flow, kalman, temporal, asked>>

\* config_sources and resolve_flow_config; no overrides, no pass.
PassReadsConfig(refreshed, overridesRead) ==
  /\ pass.at = "config"
  /\ conf' = [conf EXCEPT !.cache = Refreshed(refreshed)]
  /\ LET v == ResolveFlowConfig(conf.override, Refreshed(refreshed)) IN
     IF overridesRead /\ v # Refused
       THEN /\ pass' = [pass EXCEPT !.at = "channels", !.setting = v]
            /\ UNCHANGED <<flow, kalman, temporal, health, asked>>
       ELSE Fails
  /\ UNCHANGED <<chan, cad, proc, peers>>

PassReadsChannels ==
  /\ pass.at = "channels"
  /\ pass' = [pass EXCEPT !.at = "history", !.seen = chan]
  /\ UNCHANGED <<chan, conf, cad, flow, kalman, temporal, health, proc, asked, peers>>

Observed(seen) == {s \in Scid : seen[s] # "gone"}
EligibleScids(seen) == {s \in Scid : seen[s] = "normal"}

\* history and run_flow_pass: any unreadable table refuses the pass, and so
\* does one malformed balance of a normal channel.
PassComputes(readable) ==
  /\ pass.at = "history"
  /\ IF readable /\ \A s \in Scid : pass.seen[s] # "malformed"
       THEN /\ pass' = [pass EXCEPT !.at = "persist"]
            /\ UNCHANGED <<flow, kalman, temporal, health, asked>>
       ELSE Fails
  /\ UNCHANGED <<chan, conf, cad, proc, peers>>

\* The upserts of one table, then reconcile_closed_channels on it.
Reconciled3(tab, seen, val) ==
  [s \in Scid |-> IF s \in EligibleScids(seen) THEN val
                  ELSE IF s \in Observed(seen) THEN tab[s] ELSE 0]

\* Mutant: the filters are written after the states' commit.
PersistStatesFirst(ok) ==
  /\ pass.at = "persist"
  /\ flow' = Reconciled3(flow, pass.seen, proc)
  /\ IF ok THEN /\ kalman' = Reconciled3(kalman, pass.seen, pass.stamp)
                /\ temporal' = Reconciled3(temporal, pass.seen, pass.stamp)
                /\ pass' = [pass EXCEPT !.at = "verdict"]
                /\ UNCHANGED <<health, asked>>
           ELSE /\ pass' = PassOver /\ health' = "error"
                /\ UNCHANGED <<kalman, temporal, asked>>
  /\ UNCHANGED <<chan, conf, cad, proc, peers>>

\* persist_flow_pass: three tables in one transaction.
PassPersists(ok) ==
  /\ pass.at = "persist"
  /\ IF ok THEN /\ flow' = Reconciled3(flow, pass.seen, proc)
                /\ kalman' = Reconciled3(kalman, pass.seen, pass.stamp)
                /\ temporal' = Reconciled3(temporal, pass.seen, pass.stamp)
                /\ pass' = [pass EXCEPT !.at = "verdict"]
                /\ UNCHANGED <<health, asked>>
           ELSE Fails
  /\ UNCHANGED <<chan, conf, cad, proc, peers>>

\* finish; a verdict that is not durable suspends the loop.
PassFinishes(ok) ==
  /\ pass.at = "verdict"
  /\ health' = IF ok THEN "passed" ELSE "suspended"
  /\ asked' = IF ok THEN (asked \union EligibleScids(pass.seen)) \intersect Observed(pass.seen)
                   ELSE asked
  /\ pass' = PassOver
  /\ UNCHANGED <<chan, conf, cad, flow, kalman, temporal, proc, peers>>

-----------------------------------------------------------------------------
(* current_boot_flow_evidence: loop health and row in one read transaction. *)

FlowEvidence(s) ==
  IF health # "passed" THEN "no_pass_this_boot"
  ELSE IF flow[s] = 0 THEN "no_such_channel"
  ELSE IF flow[s] # proc THEN "stale" ELSE "current"

-----------------------------------------------------------------------------
(* StartupSnapshotPass: one event per connected peer that has none of the   *)
(* last hour, inserted one by one; a failed insert fails the pass.          *)

SnapshotPlan ==
  /\ peers.at = "idle"
  /\ peers' = [peers EXCEPT !.at = "insert",
                 !.todo = {p \in Scid : chan[p] = "normal" /\ peers.events[p] = 0}]
  /\ UNCHANGED <<chan, conf, cad, pass, flow, kalman, temporal, health, proc, asked>>

SnapshotInsert(ok) ==
  /\ peers.at = "insert"
  /\ IF peers.todo = {} \/ ~ok THEN peers' = [peers EXCEPT !.at = "done", !.todo = {}]
     ELSE \E p \in peers.todo :
            peers' = [peers EXCEPT !.todo = @ \ {p}, !.events[p] = @ + 1]
  /\ UNCHANGED <<chan, conf, cad, pass, flow, kalman, temporal, health, proc, asked>>

-----------------------------------------------------------------------------
PassStep ==
  \/ PassReadsChannels
  \/ \E ok \in BOOLEAN :
       \/ PassBegins(ok) \/ PassComputes(ok) \/ PassPersists(ok) \/ PassFinishes(ok)
       \/ \E read \in BOOLEAN : PassReadsConfig(ok, read)

FlowNext ==
  \/ \E s \in Scid, st \in ChanState : ChannelChanges(s, st)
  \/ \E field \in {"override", "option"}, v \in Setting \union {Unset, Bad} : Operator(field, v)
  \/ RestartFlow \/ PassStep \/ CadenceSleeps
  \/ \E ok \in BOOLEAN : CadenceTick(ok)

\* The startup snapshot shares no state with the flow pass.
PeersNext ==
  \/ \E s \in Scid, st \in ChanState : ChannelChanges(s, st)
  \/ RestartFlow \/ SnapshotPlan \/ \E ok \in BOOLEAN : SnapshotInsert(ok)

FlowFairness == WF_flowVars(PassStep) /\ WF_flowVars(CadenceSleeps)
FlowSpec == FlowInit /\ [][FlowNext \/ PeersNext]_flowVars /\ FlowFairness
-----------------------------------------------------------------------------
\* A crash, a failed write or a refused pass never leaves one table ahead
\* of another: the filter a state was computed from is stored with it.
TablesAgree == \A s \in Scid : (flow[s] = 0) = (kalman[s] = 0) /\ kalman[s] = temporal[s]

\* What the evidence reader says of a channel is what completed passes of
\* this process found: a row of a pass still without a verdict is not
\* served, and absence is reported only after a pass that looked.
EvidenceIsProven ==
  \A s \in Scid : /\ FlowEvidence(s) = "current" => s \in asked
                  /\ FlowEvidence(s) \in {"no_such_channel", "stale"} => s \notin asked

\* A stored filter is dropped only for a channel that left the node's list,
\* not for one that is closing or that a pass could not read.
FiltersOutliveStates ==
  [][\A s \in Scid : kalman[s] # 0 /\ kalman'[s] = 0 => pass.seen[s] = "gone"]_flowVars

\* No pass runs on a built-in default while the operator's option is set
\* and merely unread (flow_config.rs:149): some reply showed it unset.
DefaultIsProven == pass.setting = Default => Unset \in conf.past

\* A startup snapshot retried by the next process records no peer twice.
SnapshotOnce == \A p \in Scid : peers.events[p] <= 1

\* A failed or refused pass, or a suspended loop, never wedges the cadence.
CadenceReturns == cad = "wait" ~> cad # "wait"

\* What the tables and the answers of the passes rest on (flow_owner.rs,
\* flow_evidence.rs, flow_config.rs): tables of one pass, evidence of this boot,
\* a default only when no option is set, one row per peer.
FlowIsProven == FlowTypeOK /\ TablesAgree /\ EvidenceIsProven /\ DefaultIsProven /\ SnapshotOnce
=============================================================================
