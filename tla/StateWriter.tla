----------------------------- MODULE StateWriter -----------------------------
(***************************************************************************)
(* The production state writer and the mutating RPCs on it: the bounded    *)
(* FIFO actor over the production database (revops-db/src/state_writer.rs),*)
(* the acknowledgement vocabulary (revops/src/state_writer.rs) and the     *)
(* handlers that read a row, plan a write, await it and then wake the fee  *)
(* owner (revops/src/rpc_state_mutators.rs, rpc_cleanup_closed.rs).        *)
(*                                                                         *)
(* Every step between two awaits is atomic, and so is one command of the   *)
(* actor: it is one transaction.  An Option is a set of at most one value. *)
(* Multipliers are in tenths.                                              *)
(***************************************************************************)
EXTENDS Integers, Sequences, FiniteSets, SequencesExt

CONSTANTS
  Peer, Key, Scid,
  Rid, Legacy,   \* reservations; those of the old table budget_reservations
  SetInputs,     \* field inputs of revenue-policy set / batch entries
  SeedRows,      \* policy rows a database may start with
  Families,      \* the groups of operations explored (one per behaviour)
  QueueCap,      \* capacity of the actor's channel
  BatchBound,    \* STATE_WRITER_BATCH_BOUND, scaled for each family
  ChangeLimit,   \* MAX_POLICY_CHANGES_PER_MINUTE
  MaxCalls,      \* bound: RPC calls made, all of which may overlap
  MaxVersion     \* bound: config versions

FeeStrategies == {"dynamic", "static", "passive"}
RebalanceModes == {"enabled", "disabled", "source_only", "sink_only"}

\* The handlers' own tags; vip stands for every other one.
Tag == {"vip", "ignored", "banned"}

\* A row of peer_policies, and what a set or a batch entry may say of its
\* fields; only a batch entry can give a list of tags.
PolicyRow == [strategy : FeeStrategies, mode : RebalanceModes, fee : SUBSET Int, tags : SUBSET Tag,
              lo : SUBSET Int, hi : SUBSET Int, exp : {"none", "later", "past"}]
FieldInput == [how : {"keep", "clear", "set"}, v : Int]
SetInput == [strategy : STRING, mode : STRING, fee : FieldInput, lo : FieldInput, hi : FieldInput,
             hours : SUBSET Int, tags : SUBSET SUBSET Tag]

\* The greatest fee and the longest expiry a set may ask for.
MaxFee == 100000
MaxHours == 720

ValidRow(r) ==
  /\ \A f \in r.fee : f \in 0 .. MaxFee
  /\ r.strategy = "static" => r.fee # {}
  /\ \A m \in r.lo \union r.hi : m \in 1 .. 50
  /\ \A l \in r.lo, h \in r.hi : l <= h

\* There are config keys, the tables are finite, the bounds positive, and the
\* rows a database starts with such as revenue-policy accepts.
ASSUME WriterAssumption ==
  /\ Key # {} /\ IsFiniteSet(Peer) /\ IsFiniteSet(Scid)
  /\ QueueCap \in Nat /\ MaxCalls \in Nat \ {0} /\ MaxVersion \in Nat /\ ChangeLimit \in Nat \ {0}
  /\ BatchBound \in [Families -> Nat \ {0}]
  /\ SetInputs \subseteq SetInput
  /\ SeedRows \subseteq PolicyRow /\ \A r \in SeedRows : ValidRow(r)

VARIABLES
  family,                      \* which operations this behaviour uses
  pol, conf, hot, resv, chan,  \* the production database
  open,                        \* channels the node has (external)
  queue, up,                   \* the actor's channel; the actor runs
  call,                        \* per caller: the handler's progress
  landed, woken, told,         \* history: commands committed, woken for; wins
  rate, published              \* rate_limit timestamps; last published version

stateVars == <<family, pol, conf, hot, resv, chan, open, queue, up, call,
               landed, woken, told, rate, published>>
dbVars == <<pol, conf, hot, resv, chan>>

Tables == {"states", "failures", "probes", "kalman", "pairs", "fee"}
Default == [strategy |-> "dynamic", mode |-> "enabled", fee |-> {}, tags |-> {},
            lo |-> {}, hi |-> {}, exp |-> "none"]
Idle == [at |-> "idle", rq |-> [do |-> "none"], left |-> <<>>, rows |-> {}, plan |-> <<>>,
         id |-> <<0, 0>>, ver |-> 0, ack |-> "none", reply |-> "none", seen |-> {}]
Gone == [Idle EXCEPT !.at = "answered"]
Done == [Idle EXCEPT !.at = "done"]
Caller == 1 .. MaxCalls
Acks == {"none", "applied", "unchanged", "already_terminal", "denied", "not_admitted",
         "outcome_unknown", "storage_failure"}

WriterInit ==
  /\ family \in Families
  /\ pol \in [Peer -> {{}} \union {{r} : r \in SeedRows}]
  /\ family # "policy" => pol = [p \in Peer |-> {}]
  /\ conf = [k \in Key |-> 0] /\ hot \in {{}, Peer} /\ (family # "hot" => hot = {})
  /\ resv \in [Rid -> {"none", "active"}] /\ (family # "spend" => resv = [r \in Rid |-> "none"])
  /\ chan = [s \in Scid |-> [tables |-> IF family = "channels" THEN Tables ELSE {}, closed |-> {}]]
  /\ open = IF family = "channels" THEN Scid ELSE {}
  /\ queue = <<>> /\ up = TRUE /\ call = [c \in Caller |-> Idle]
  /\ landed = {} /\ woken = {} /\ told = [r \in Rid |-> 0]
  /\ rate \in [Peer -> 0 .. ChangeLimit] /\ \A p \in Peer : (family # "policy" \/ pol[p] # {}) => rate[p] = 0
  /\ published = 0

-----------------------------------------------------------------------------
(* Policies: the plans of the handlers.                                    *)

\* policy_for_peer: an expired row reads as the default policy.
Existing(p) == IF pol[p] = {} \/ (\E r \in pol[p] : r.exp = "past") THEN Default
               ELSE CHOOSE r \in pol[p] : TRUE

\* FieldInput::resolve
Resolve(in, old) == CASE in.how = "keep" -> old [] in.how = "clear" -> {} [] OTHER -> {in.v}

\* Mutant: an absent tags field empties the tags.
MergedWithoutTags(old, in) ==
  [old EXCEPT !.strategy = IF in.strategy = "keep" THEN @ ELSE in.strategy,
              !.mode = IF in.mode = "keep" THEN @ ELSE in.mode, !.tags = {},
              !.fee = Resolve(in.fee, @), !.lo = Resolve(in.lo, @), !.hi = Resolve(in.hi, @)]

\* The row a request asks for; a list of tags replaces the row's.
Merged(old, in) ==
  [old EXCEPT !.strategy = IF in.strategy = "keep" THEN @ ELSE in.strategy,
              !.mode = IF in.mode = "keep" THEN @ ELSE in.mode,
              !.tags = IF in.tags = {} THEN @ ELSE UNION in.tags,
              !.fee = Resolve(in.fee, @), !.lo = Resolve(in.lo, @), !.hi = Resolve(in.hi, @),
              !.exp = IF in.hours = {} THEN @
                      ELSE IF \E h \in in.hours : h <= 0 THEN "none" ELSE "later"]

\* merge_policy: the MERGED row is validated; {} is a refusal.
MergePolicy(old, in) ==
  LET r == Merged(old, in)
  IN IF /\ r.strategy \in FeeStrategies /\ r.mode \in RebalanceModes
        /\ ValidRow(r)
        /\ \A h \in in.hours : h <= MaxHours
       THEN {r} ELSE {}

Ignored(old) == [old EXCEPT !.strategy = "passive", !.mode = "disabled", !.tags = {"ignored"}]
Banned(old) == [old EXCEPT !.strategy = "passive", !.mode = "disabled",
                           !.tags = @ \union {"banned"}, !.exp = "none"]
Unbanned(old) == [old EXCEPT !.strategy = "dynamic", !.mode = "enabled", !.tags = @ \ {"banned"}]

\* policy_tag re-validates the whole row it rewrites.
Tagged(old, tags) == IF ValidRow(old) THEN {[old EXCEPT !.tags = tags]} ELSE {}

\* What a handler writes for one peer; {} when it returns an error.
Planned(e, old) ==
  CASE e.do = "ignore" -> {Ignored(old)}
    [] e.do = "ban"    -> {Banned(old)}
    [] e.do = "unban"  -> {Unbanned(old)}
    [] e.do = "tag"    -> Tagged(old, old.tags \union {e.tag})
    [] e.do = "untag"  -> Tagged(old, old.tags \ {e.tag})
    [] OTHER           -> MergePolicy(old, e.in)

NothingToDo(e, old) ==
  \/ e.do = "tag" /\ e.tag \in old.tags
  \/ e.do = "untag" /\ e.tag \notin old.tags

-----------------------------------------------------------------------------
(* Requests.  Each family's operations; batches at and past their bound.   *)
PolicyEdits(p) ==
  {[do |-> d, p |-> p] : d \in {"ignore", "ban", "unban"}}
    \union {[do |-> d, p |-> p, tag |-> t] : d \in {"tag", "untag"}, t \in Tag}
    \union {[do |-> "set", p |-> p, in |-> i] : i \in {i \in SetInputs : i.tags = {}}}
Requests ==
  CASE family = "policy" ->
         {[do |-> "edit", entries |-> <<e>>] : e \in UNION {PolicyEdits(p) : p \in Peer}}
           \union {[do |-> "batch", entries |-> [n \in 1 .. Len(ps) |->
                      [do |-> "set", p |-> ps[n], in |-> i]]] :
                     i \in SetInputs, ps \in UNION {[1 .. n -> Peer] : n \in BatchBound[family] .. BatchBound[family] + 1}}
           \union {[do |-> "delete", p |-> p] : p \in Peer}
    [] family = "config" -> [do : {"setconf", "delconf"}, k : Key]
    [] family = "hot" -> [do : {"hotadd", "hotremove"}, p : Peer] \union {[do |-> "hotclear"]}
    [] family = "spend" -> [do : {"release", "settle"}, r : Rid] \union {[do |-> "clear"]}
    [] OTHER -> {[do |-> "cleanup"]} \union [do : {"purge"}, ss : {S \in SUBSET Scid : Cardinality(S) >= BatchBound[family]}]

Commands(rq) ==
  CASE rq.do = "purge" -> <<[op |-> "purge", ss |-> rq.ss]>>
    [] rq.do \in {"delete", "setconf", "delconf", "hotadd", "hotremove", "release", "settle",
                  "clear"} -> <<[op |-> rq.do, rq |-> rq]>>
    [] OTHER -> <<>>

Goes(c, next) == call' = [call EXCEPT ![c] = next]

\* A handler starts.  Over-long batches are refused before anything is read;
\* cleanup_closed is handed the node's open channels as they were then.
Begin(c, rq) ==
  /\ call[c].at = "idle" /\ \A b \in 1 .. c - 1 : call[b].at # "idle"
  /\ Goes(c, [Idle EXCEPT
       !.rq = rq, !.seen = IF rq.do = "cleanup" THEN open ELSE {},
       !.at = IF rq.do = "batch" /\ Len(rq.entries) > BatchBound[family] THEN "done"
              ELSE IF rq.do \in {"edit", "batch", "hotclear", "cleanup"} THEN "read" ELSE "admit",
       !.left = IF rq.do \in {"edit", "batch"} THEN rq.entries ELSE <<>>,
       !.plan = Commands(rq)])
  /\ UNCHANGED <<family, dbVars, open, queue, up, landed, woken, told, rate, published>>

RateLimitAllows(p) == rate[p] < ChangeLimit

PeersOf(rows) == {r.p : r \in rows}

\* existing_policy of the next entry; after the last one the rate limits of
\* all entries, then one write (or one batch).  A failed read answers.
ReadPolicy(c, ok) ==
  LET k == call[c]  e == Head(k.left)  old == Existing(e.p)  new == Planned(e, old)
      rows == k.rows \union {[p |-> e.p, row |-> r, n |-> Len(k.left), base |-> old, e |-> e] : r \in new}
  IN /\ k.at = "read" /\ k.rq.do \in {"edit", "batch"}
     /\ Goes(c, IF ~ok \/ new = {} \/ NothingToDo(e, old) THEN Done
                ELSE IF Len(k.left) > 1 THEN [k EXCEPT !.left = Tail(@), !.rows = rows]
                ELSE IF \E p \in PeersOf(rows) : ~RateLimitAllows(p) THEN Done
                ELSE [k EXCEPT !.at = "admit", !.left = <<>>, !.rows = rows,
                               !.plan = <<[op |-> "write", rows |-> rows]>>])
     /\ UNCHANGED <<family, dbVars, open, queue, up, landed, woken, told, rate, published>>

\* hot_channel_clear removes the rows it read, one command each;
\* cleanup_closed archives every tracked channel that is not in the listing.
ReadRows(c, ok) ==
  LET k == call[c]
      plan == IF k.rq.do = "hotclear"
                THEN SetToSeq({[op |-> "hotremove", rq |-> [do |-> "hotremove", p |-> p]] : p \in hot})
                ELSE SetToSeq({[op |-> "archive", s |-> s] :
                                 s \in {s \in Scid \ k.seen : "states" \in chan[s].tables}})
  IN /\ k.at = "read" /\ k.rq.do \in {"hotclear", "cleanup"}
     /\ Goes(c, IF ok /\ plan # <<>> THEN [k EXCEPT !.plan = plan, !.at = "admit"] ELSE Done)
     /\ UNCHANGED <<family, dbVars, open, queue, up, landed, woken, told, rate, published>>

-----------------------------------------------------------------------------
(* The two-phase call: try_send, then the receipt within its budget.       *)

Admit(c) ==
  LET k == call[c]  id == <<c, Len(k.plan)>>
  IN /\ k.at = "admit"
     /\ IF up /\ Len(queue) < QueueCap
          THEN /\ queue' = Append(queue, [c |-> c, id |-> id, cmd |-> Head(k.plan)])
               /\ Goes(c, [k EXCEPT !.at = "wait", !.id = id, !.reply = "none"])
          ELSE /\ Goes(c, [k EXCEPT !.at = "ack", !.id = id, !.ack = "not_admitted"])
               /\ UNCHANGED queue
     /\ UNCHANGED <<family, dbVars, open, up, landed, woken, told, rate, published>>

\* Mutant: an unanswered receipt is reported as a refusal.
TimeoutAsRefusal(c) ==
  /\ call[c].at = "wait" /\ call[c].reply = "none"
  /\ Goes(c, [call[c] EXCEPT !.at = "ack", !.ack = "not_admitted"])
  /\ UNCHANGED <<family, dbVars, open, queue, up, landed, woken, told, rate, published>>

\* The receipt budget passes, or the actor is gone: the write may yet land.
Timeout(c) ==
  /\ call[c].at = "wait" /\ call[c].reply = "none"
  /\ Goes(c, [call[c] EXCEPT !.at = "ack", !.ack = "outcome_unknown"])
  /\ UNCHANGED <<family, dbVars, open, queue, up, landed, woken, told, rate, published>>

Replied(c) ==
  /\ call[c].at = "wait" /\ call[c].reply # "none"
  /\ Goes(c, [call[c] EXCEPT !.at = "ack", !.ack = call[c].reply])
  /\ UNCHANGED <<family, dbVars, open, queue, up, landed, woken, told, rate, published>>

-----------------------------------------------------------------------------
(* The actor: one command, one transaction.                                *)
NextVersion == 1 + (CHOOSE m \in 0 .. MaxVersion : (\E k \in Key : conf[k] = m)
                                                  /\ \A k \in Key : conf[k] <= m)

\* set_config_override: the global maximum plus one, inside the transaction.
VersionFor(k) == NextVersion

\* A batch is written in order: the last entry of a peer stands.
Written(rows) ==
  [p \in Peer |-> IF p \in PeersOf(rows)
                    THEN {(CHOOSE r \in rows : r.p = p /\ \A q \in rows : q.p = p => r.n <= q.n).row}
                    ELSE pol[p]]

Transition(r, to) == resv[r] = "active"

Purged(S) == [s \in Scid |-> IF s \in S THEN [chan[s] EXCEPT !.tables = {}] ELSE chan[s]]

\* archive_closed_channel: the history row and the purge in one transaction.
Archived(s) == [Purged({s}) EXCEPT ![s].closed = {"row"}]

\* What a committed command changes; the rest of the database is unchanged.
Effect(cmd) ==
  CASE cmd.op = "write" -> pol' = Written(cmd.rows) /\ UNCHANGED <<conf, hot, resv, chan>>
    [] cmd.op = "delete" -> pol' = [pol EXCEPT ![cmd.rq.p] = {}] /\ UNCHANGED <<conf, hot, resv, chan>>
    [] cmd.op = "setconf" -> conf' = [conf EXCEPT ![cmd.rq.k] = VersionFor(cmd.rq.k)]
                             /\ UNCHANGED <<pol, hot, resv, chan>>
    [] cmd.op = "delconf" -> conf' = [conf EXCEPT ![cmd.rq.k] = 0] /\ UNCHANGED <<pol, hot, resv, chan>>
    [] cmd.op = "hotadd" -> hot' = hot \union {cmd.rq.p} /\ UNCHANGED <<pol, conf, resv, chan>>
    [] cmd.op = "hotremove" -> hot' = hot \ {cmd.rq.p} /\ UNCHANGED <<pol, conf, resv, chan>>
    [] cmd.op \in {"release", "settle"} ->
         /\ resv' = IF Transition(cmd.rq.r, cmd.op)
                      THEN [resv EXCEPT ![cmd.rq.r] = IF cmd.op = "settle" THEN "spent" ELSE "released"]
                      ELSE resv
         /\ UNCHANGED <<pol, conf, hot, chan>>
    [] cmd.op = "clear" -> /\ resv' = [r \in Rid |-> IF r \in Legacy /\ resv[r] = "active"
                                                      THEN "released" ELSE resv[r]]
                           /\ UNCHANGED <<pol, conf, hot, chan>>
    [] cmd.op = "purge" -> chan' = Purged(cmd.ss) /\ UNCHANGED <<pol, conf, hot, resv>>
    [] OTHER -> chan' = Archived(cmd.s) /\ UNCHANGED <<pol, conf, hot, resv>>

\* The reply of a committed command, through map_transition for the old
\* table: no row changed is already_terminal there, denied for an unknown id.
ReplyTo(cmd) ==
  CASE cmd.op \in {"release", "settle"} /\ resv[cmd.rq.r] # "active" ->
         IF cmd.rq.r \notin Legacy THEN "unchanged"
         ELSE IF resv[cmd.rq.r] = "none" THEN "denied" ELSE "already_terminal"
    [] cmd.op = "delete" /\ pol[cmd.rq.p] = {} -> "unchanged"
    [] cmd.op = "delconf" /\ conf[cmd.rq.k] = 0 -> "unchanged"
    [] cmd.op = "hotremove" /\ cmd.rq.p \notin hot -> "unchanged"
    [] OTHER -> "applied"

OverBound(cmd) == cmd.op = "purge" /\ Cardinality(cmd.ss) > BatchBound[family]

\* FIFO; a failing transaction is rolled back whole.  A reply nobody waits
\* for any more is dropped.
Execute(ok) ==
  LET h == Head(queue)  k == call[h.c]
      fits == ok /\ ~OverBound(h.cmd)
      reply == IF ~ok THEN "storage_failure" ELSE IF OverBound(h.cmd) THEN "denied" ELSE ReplyTo(h.cmd)
  IN /\ up /\ queue # <<>> /\ (h.cmd.op = "setconf" => NextVersion <= MaxVersion)
     /\ queue' = Tail(queue)
     /\ IF fits THEN Effect(h.cmd) ELSE UNCHANGED dbVars
     /\ landed' = IF fits /\ reply = "applied" THEN landed \union {h.id} ELSE landed
     /\ IF k.at = "wait" /\ k.id = h.id
          THEN Goes(h.c, [k EXCEPT !.reply = reply, !.ver = NextVersion]) ELSE UNCHANGED call
     /\ UNCHANGED <<family, open, up, woken, told, rate, published>>

WakeAcks(ack) == {"applied"}

Wakes(k) == k.rq.do \in {"edit", "batch", "delete"} /\ k.ack \in WakeAcks(k.ack)

\* The rest of the handler: record_completed_change, wake_after_commit,
\* publish; then the next command of the plan.  hot_channel_clear stops at
\* the first refusal, cleanup_closed goes on.
AfterAck(c) ==
  LET k == call[c]
      stop == Len(k.plan) = 1 \/ (k.rq.do = "hotclear" /\ k.ack \notin {"applied", "unchanged"})
  IN /\ k.at = "ack"
     /\ woken' = IF Wakes(k) THEN woken \union {k.id} ELSE woken
     /\ rate' = IF k.rq.do \in {"edit", "batch"} /\ k.ack = "applied"
                  THEN [p \in Peer |-> rate[p] + Cardinality({r \in k.rows : r.p = p})] ELSE rate
     /\ told' = IF k.rq.do \in {"release", "settle"} /\ k.ack = "applied"
                  THEN [told EXCEPT ![k.rq.r] = @ + 1] ELSE told
     /\ published' = IF k.rq.do = "setconf" /\ k.ack = "applied" THEN k.ver ELSE published
     /\ Goes(c, IF stop THEN Done ELSE [k EXCEPT !.plan = Tail(@), !.at = "admit"])
     /\ UNCHANGED <<family, dbVars, open, queue, up, landed>>

Answer(c) ==
  /\ call[c].at = "done"
  /\ Goes(c, Gone)
  /\ UNCHANGED <<family, dbVars, open, queue, up, landed, woken, told, rate, published>>

-----------------------------------------------------------------------------
(* Environment.                                                            *)

\* A change leaves the one-minute window.
Forget(p) ==
  /\ rate[p] > 0
  /\ rate' = [rate EXCEPT ![p] = @ - 1]
  /\ UNCHANGED <<family, dbVars, open, queue, up, call, landed, woken, told, published>>

PolicyExpires(p) ==
  /\ \E r \in pol[p] : r.exp = "later" /\ pol' = [pol EXCEPT ![p] = {[r EXCEPT !.exp = "past"]}]
  /\ UNCHANGED <<family, conf, hot, resv, chan, open, queue, up, call, landed, woken, told, rate, published>>

\* The node closes a channel.
Close(s) ==
  /\ family = "channels" /\ s \in open
  /\ open' = open \ {s}
  /\ UNCHANGED <<family, dbVars, queue, up, call, landed, woken, told, rate, published>>

\* The process dies between any two steps and starts again; what is queued
\* is lost, calls in flight are never answered.
Crash ==
  /\ \E c \in Caller : call[c].at \notin {"idle", "answered"}
  /\ up' = TRUE /\ queue' = <<>> /\ call' = [c \in Caller |-> IF call[c].at = "idle" THEN Idle ELSE Gone]
  /\ rate' = [p \in Peer |-> 0] /\ published' = 0
  /\ UNCHANGED <<family, dbVars, open, landed, woken, told>>

\* Only the actor dies (a panic): its channel closes, callers live on.
ActorDies ==
  /\ up /\ up' = FALSE /\ queue' = <<>>
  /\ UNCHANGED <<family, dbVars, open, call, landed, woken, told, rate, published>>

CallStep(c) ==
  \/ Admit(c) \/ Timeout(c) \/ Replied(c) \/ AfterAck(c) \/ Answer(c)
  \/ \E ok \in BOOLEAN : ReadPolicy(c, ok) \/ ReadRows(c, ok)

WriterNext ==
  \/ \E c \in Caller : CallStep(c) \/ \E rq \in Requests : Begin(c, rq)
  \/ \E ok \in BOOLEAN : Execute(ok)
  \/ \E p \in Peer : Forget(p) \/ PolicyExpires(p)
  \/ \E s \in Scid : Close(s)
  \/ Crash \/ ActorDies

\* A receipt is bounded by a timer, so every call's next step happens.
Fairness == \A c \in Caller : WF_stateVars(CallStep(c))

WriterSpec == WriterInit /\ [][WriterNext]_stateVars /\ Fairness

-----------------------------------------------------------------------------
WriterTypeOK ==
  /\ family \in Families /\ hot \subseteq Peer /\ open \subseteq Scid /\ up \in BOOLEAN
  /\ \A p \in Peer : Cardinality(pol[p]) <= 1
  /\ conf \in [Key -> 0 .. MaxVersion]
  /\ resv \in [Rid -> {"none", "active", "released", "spent"}]
  /\ \A s \in Scid : chan[s].tables \subseteq Tables /\ chan[s].closed \subseteq {"row"}
  /\ Len(queue) <= QueueCap
  /\ \A c \in Caller : call[c].ack \in Acks
  /\ rate \in [Peer -> Nat] /\ published \in 0 .. MaxVersion

\* What a caller is told of its write is true: `applied' is committed, and a
\* refusal (not_admitted, denied, already_terminal, storage_failure) means
\* that the command neither landed nor is still queued to land.
AckIsHonest ==
  \A c \in Caller : LET k == call[c] IN k.at = "ack" =>
    /\ k.ack = "applied" => k.id \in landed
    /\ k.ack \in {"not_admitted", "denied", "already_terminal", "storage_failure", "unchanged"} =>
         k.id \notin landed /\ \A i \in 1 .. Len(queue) : queue[i].id # k.id

\* The fee owner is woken, and a config version published, only for what is
\* committed.
WakesAreCommitted == woken \subseteq landed

\* No sequence of handlers leaves a policy row that revenue-policy set would
\* itself refuse: each field is checked against the row it is merged into.
PoliciesAreValid == \A p \in Peer : \A r \in pol[p] : ValidRow(r)

\* A ban as revenue-ban leaves it: without an expiry.
Standing(rows) == \E r \in rows : "banned" \in r.tags /\ r.exp = "none"

\* The requests that ask for a ban to end themselves.
AsksToLift(e) ==
  \/ e.do \in {"unban", "ignore"}
  \/ e.do = "untag" /\ e.tag = "banned"
  \/ e.do = "set" /\ ((\E h \in e.in.hours : h > 0) \/ \E t \in e.in.tags : "banned" \notin t)

\* A standing ban ends only by a deleted row, by a request that itself asks for
\* it, or by a call that read the row before the ban stood in it and writes the
\* whole row back (the window every handler leaves open): no call that starts
\* after the ban was written drops it by the way.
BanHolds ==
  [][\A p \in Peer : Standing(pol[p]) /\ ~Standing(pol'[p]) =>
       LET cmd == Head(queue).cmd
       IN \/ cmd.op = "delete"
          \/ \E r \in cmd.rows : r.p = p /\ (AsksToLift(r.e) \/ ~Standing({r.base}))]_stateVars

\* The limit is read before the write and counted after it, so calls in
\* flight together may exceed it, by at most one batch each.
RateBounded == \A p \in Peer : rate[p] <= ChangeLimit - 1 + Cardinality(Caller) * BatchBound[family]

\* Two surviving overrides never carry one version.
VersionsDistinct == \A j, k \in Key : conf[j] = conf[k] /\ conf[j] # 0 => j = k

\* A reservation ends once, and at most one call is told that it ended it,
\* whoever retries after an unknown outcome.
EndsOnce ==
  [][\A r \in Rid : /\ resv[r] \in {"released", "spent"} => resv'[r] = resv[r]
                    /\ told'[r] <= 1]_stateVars

\* A channel with a closed_channels row has left every tracking table.
ArchiveIsWhole == \A s \in Scid : chan[s].closed # {} => chan[s].tables = {}

\* Every call is answered, also when the actor died with its command.
EveryCallAnswers == \A c \in Caller : call[c].at # "idle" ~> call[c].at = "answered"

\* What the tables and the answers of the writer say in every state
\* (state_writer.rs and the RPC mutators): an acknowledgement is true, a wake
\* follows a commit, policies are valid, rates bounded, versions distinct, an
\* archived channel is gone everywhere.
WritesAreHonest ==
  WriterTypeOK /\ AckIsHonest /\ WakesAreCommitted /\ PoliciesAreValid /\ RateBounded /\ VersionsDistinct /\ ArchiveIsWhole

\* A standing ban is not lifted by the way, a reservation ends once, and every call is
\* answered.
CallsTakeEffectOnce == BanHolds /\ EndsOnce /\ EveryCallAnswers
=============================================================================
