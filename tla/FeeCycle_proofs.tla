------------------------ MODULE FeeCycle_proofs ------------------------
(***************************************************************************)
(* Theorems about the fee cycle: FeeScheduler's owner and store, for any     *)
(* channels and events, any queue capacity and any generation bound, and     *)
(* FeeDecision's channel, for any rates, fees and bounds.  NudgesNeverLost   *)
(* needs that all openings are of one channel (OneOpening): with two         *)
(* channels opening at once the code does lose a nudge.                      *)
(***************************************************************************)
EXTENDS FeeScheduler, MCFeeDecision, TLAPS

OneOpening == \A d, e \in Opens : ChannelOf[d] = ChannelOf[e]

\* A store call with its reply recorded, and the pending entry that awaits a call.
Replied(o, r, g) == [o EXCEPT !.reply = r, !.found = g]
PendOf(o) == [stage |-> o.stage, key |-> o.key, basis |-> o.basis, staged |-> o.staged]

\* Recording a reply keeps what identifies a call.
ReplyOf(o, r, g) ==
    /\ Replied(o, r, g) \in Op /\ Replied(o, r, g).stage = o.stage
    /\ Replied(o, r, g).chan = o.chan /\ Replied(o, r, g).key = o.key
    /\ Replied(o, r, g).basis = o.basis /\ Replied(o, r, g).staged = o.staged
    /\ Replied(o, r, g).reply = r /\ Replied(o, r, g).found = g
    /\ PendOf(Replied(o, r, g)) = PendOf(o)

\* Every store thread has exactly its pending entry, and every entry its thread.
Linked == \A o \in ops : pend[o.chan] = {PendOf(o)} /\ ChannelOf[o.key] = o.chan
Paired == \A c \in Channels : pend[c] # {} => \E o \in ops : o.chan = c
OneOp  == \A o, q \in ops : o.chan = q.chan => o = q
\* No thread runs beside a cycle or outlives the process; a deferred cycle waits
\* for a thread.
Quiet  == (pc # "idle" => ops = {}) /\ (deferred => ops # {})

PairInv == TypeOK /\ Linked /\ Paired /\ OneOp /\ Quiet

\* The provenance rows follow the generation; an out-of-cycle commit needs one.
SeedInv ==
    /\ gen = 0 => seeded = 0
    /\ gen > 0 => seeded = 1
    /\ ~refusedAfter
    /\ hydrated /\ ~pendingSeed => gen > 0
    /\ ops # {} => gen > 0

\* An event under decision is not committed, from its idempotency answer on.
DecideInv ==
    \A o \in ops : o.reply = "absent" \/ (o.stage = "committing" /\ o.reply = "none")
                      => o.key \notin committed

\* The nudges a fee state has seen.
Seen(s) == (UNION s) \cap Nudges
\* A fee state with an event folded in.
Fold(s, e) == {x \cup {e} : x \in s}

\* Generations in flight are bounded by the store's; what the store knows of
\* nudges the hydrated owner knows, and so does a decision made at its basis.
NudgeInv ==
    /\ ops # {} => hydrated
    /\ \A g, h \in sgen : g = h
    /\ \A g \in sgen : g <= gen
    /\ \A o \in ops : o.basis <= gen /\ o.found <= gen
    /\ hydrated => \A c \in Channels : Seen(row[c]) \subseteq Seen(mem[c])
    /\ \A o \in ops : o.stage = "committing" =>
          /\ Seen(o.staged) \subseteq Seen(mem[o.chan])
          /\ sgen = {o.basis} /\ o.staged # {} =>
                Seen(mem[o.chan]) \subseteq Seen(o.staged)
          /\ o.reply = "none" /\ gen = o.basis => sgen = {o.basis}

-----------------------------------------------------------------------------

\* The case split every step proof uses: one case per operation of the owner, the
\* store threads and the process.
LEMMA NextCases ==
    ASSUME [Next]_vars
    PROVE  \/ Spawn \/ Crash \/ RunPrepared
           \/ CycleSkipped \/ CycleSeedRefused \/ CycleUncommitted \/ CycleCommitted
           \/ RetentionResult
           \/ \E o \in ops : StoreChecks(o) \/ StoreCommits(o) \/ StoreRefuses(o)
           \/ \E o \in ops : InitialFeeEnds(o) \/ InitialFeeDecided(o)
                             \/ InitialFeeResult(o)
           \/ \E c \in Channels : OtherTrigger(c)
           \/ \E e \in Nudges : FailedForwardNoNudge(e)
           \/ \E e \in Nudges : FailedForwardNudged(e)
           \/ \E e \in Opens : NewChannelRefused(e)
           \/ \E e \in Opens : NewChannel(e)
           \/ UNCHANGED vars
  BY DEF Next, Cycle, StoreStep, ResultStep

\* TriggerQueue::offer keeps the queue a set of keys.
LEMMA OfferType ==
    ASSUME TypeOK, NEW k \in Keys PROVE Offer(k) \subseteq Keys
  BY DEF Offer, TypeOK

\* A commit of well-formed rows leaves a well-formed store, one generation later.
LEMMA CommitRowsType ==
    ASSUME TypeOK, NEW rows \in [Channels -> State], CommitRows(rows)
    PROVE  gen' = gen + 1 /\ gen' \in Nat /\ row' \in [Channels -> State]
  <1>1. gen' = gen + 1 /\ gen' \in Nat
    BY DEF CommitRows, TypeOK
  <1>2. row \in [Channels -> State]
    BY DEF TypeOK
  <1>3. row' = [c \in Channels |-> IF rows[c] # {} THEN rows[c] ELSE row[c]]
    BY DEF CommitRows
  <1>4. row' \in [Channels -> State]
    BY <1>2, <1>3
  <1> QED
    BY <1>1, <1>4

\* What a cycle starts from and evolves into is again a fee state per channel.
LEMMA EvolvedType ==
    ASSUME TypeOK, NEW m, NEW seed \in BOOLEAN, Hydration(m, seed),
           NEW n \in Evolved(m)
    PROVE  m \in [Channels -> State] /\ n \in [Channels -> State]
           /\ \A c \in Channels : m[c] # {} => n[c] = m[c]
  <1>1. {} \in State /\ {{}} \in State
    BY DEF State
  <1>2. m \in [Channels -> State]
    <2>1. CASE m = mem
      BY <2>1 DEF TypeOK
    <2>2. CASE m = row
      BY <2>2 DEF TypeOK
    <2>3. CASE m \in [Channels -> {{}, {{}}}]
      BY <2>3, <1>1
    <2> QED
      BY <2>1, <2>2, <2>3 DEF Hydration
  <1>3. n \in [Channels -> {{}, {{}}} \cup {m[c] : c \in Channels}]
        /\ \A c \in Channels : m[c] # {} => n[c] = m[c]
    BY DEF Evolved
  <1>4. \A c \in Channels : n[c] \in State
    BY <1>1, <1>2, <1>3
  <1> QED
    BY <1>2, <1>3, <1>4

\* Recording a reply changes nothing else of a store call.
LEMMA ReplyType ==
    ASSUME NEW o \in Op, NEW g \in Nat,
           NEW r \in {"none", "err", "exists", "absent", "committed", "conflict"}
    PROVE  ReplyOf(o, r, g)
  BY DEF Op, PendOf, Replied, ReplyOf

\* A single row is a well-formed commit.
LEMMA RowOfType ==
    ASSUME NEW c \in Channels, NEW s \in State
    PROVE  RowOf(c, s) \in [Channels -> State]
  BY DEF RowOf, State

\* Folding an event into a fee state gives a fee state.
LEMMA FoldType ==
    ASSUME NEW s \in State, NEW e \in Events
    PROVE  {x \cup {e} : x \in s} \in State
  BY DEF State

\* The tail of a result handler only touches the owner's phase.
LEMMA ResumeType ==
    ASSUME TypeOK, NEW p, Resume(p)
    PROVE  pc' \in {"down", "idle", "cycle"} /\ deferred' \in BOOLEAN
  BY DEF Resume, TypeOK

\* Type correctness of the initial state.
LEMMA TypeInit == Init => TypeOK
  <1> SUFFICES ASSUME Init PROVE TypeOK
    OBVIOUS
  <1>1. {} \in State
    BY DEF State
  <1>2. row \in [Channels -> State] /\ mem \in [Channels -> State]
        /\ pend \in [Channels -> SUBSET Pending]
    BY <1>1 DEF Init
  <1> QED
    BY <1>2 DEF Init, TypeOK

\* Type correctness is preserved by every operation.
LEMMA TypeStep == TypeOK /\ [Next]_vars => TypeOK'
  <1> SUFFICES ASSUME TypeOK, [Next]_vars PROVE TypeOK'
    OBVIOUS
  <1>k. \A c \in Channels : \A w \in {"new_channel", "failed_forward", "other"} :
           Offer(<<w, c>>) \subseteq Keys
    BY OfferType DEF Keys
  <1>c. \A e \in Events : ChannelOf[e] \in Channels
    BY EventsAssumption
  <1>0. {} \in State /\ {{}} \in State
    BY DEF State
  <1>1. CASE Spawn \/ Crash
    BY <1>0, <1>1 DEF Spawn, Crash, Fresh, store, TypeOK
  <1>2. CASE RunPrepared
    BY <1>2 DEF RunPrepared, store, boot, TypeOK
  <1>3. CASE CycleSkipped \/ CycleSeedRefused
    BY <1>3 DEF CycleSkipped, CycleSeedRefused, Drain, store, boot, TypeOK
  <1>4. CASE CycleUncommitted
    <2>1. PICK seed \in BOOLEAN, m \in [Channels -> {{}, {{}}}] \cup {mem, row} :
             Hydration(m, seed) /\ mem' \in Evolved(m) /\ pendingSeed' = seed
      BY <1>4 DEF CycleUncommitted
    <2>2. mem' \in [Channels -> State]
      BY <2>1, EvolvedType
    <2> QED
      BY <1>4, <2>1, <2>2 DEF CycleUncommitted, Drain, store, TypeOK
  <1>5. CASE CycleCommitted
    <2>1. PICK seed \in BOOLEAN, m \in [Channels -> {{}, {{}}}] \cup {mem, row} :
             Hydration(m, seed) /\ mem' \in Evolved(m)
             /\ seeded' = IF seed THEN seeded + 1 ELSE seeded
      BY <1>5 DEF CycleCommitted
    <2>2. mem' \in [Channels -> State]
      BY <2>1, EvolvedType
    <2>3. gen' \in Nat /\ row' \in [Channels -> State]
      BY <1>5, <2>2, CommitRowsType DEF CycleCommitted
    <2>4. seeded' \in Nat
      BY <2>1 DEF TypeOK
    <2> QED
      BY <1>5, <2>2, <2>3, <2>4 DEF CycleCommitted, Drain, TypeOK
  <1>6. CASE RetentionResult
    BY <1>6, ResumeType DEF RetentionResult, store, boot, TypeOK
  <1>7. ASSUME NEW o \in ops, StoreChecks(o) \/ StoreRefuses(o)
        PROVE  TypeOK'
    <2>1. o \in Op /\ gen \in Nat
      BY DEF TypeOK
    <2>2. PICK r \in {"err", "exists", "absent", "conflict"} :
             ops' = (ops \ {o}) \cup {Replied(o, r, gen)}
      BY <1>7 DEF StoreChecks, StoreRefuses, Replied
    <2>3. Replied(o, r, gen) \in Op
      BY <2>1, <2>2, ReplyType, ZenonT(40) DEF ReplyOf
    <2>4. ops' \subseteq Op
      BY <2>2, <2>3 DEF TypeOK
    <2> QED
      BY <1>7, <2>4 DEF StoreChecks, StoreRefuses, store, boot, TypeOK
  <1>8. ASSUME NEW o \in ops, StoreCommits(o)
        PROVE  TypeOK'
    <2>1. o \in Op /\ o.chan \in Channels /\ o.staged \in State /\ o.key \in Events
      BY DEF TypeOK, Op, Events
    <2>2. gen' \in Nat /\ row' \in [Channels -> State]
      BY <1>8, <2>1, RowOfType, CommitRowsType DEF StoreCommits
    <2>3. ops' = (ops \ {o}) \cup {Replied(o, "committed", gen')}
      BY <1>8 DEF StoreCommits, Replied
    <2>4. ops' \subseteq Op
      BY <2>1, <2>2, <2>3, ReplyType DEF TypeOK, ReplyOf
    <2> QED
      BY <1>8, <2>1, <2>2, <2>4 DEF StoreCommits, boot, TypeOK
  <1>9. ASSUME NEW o \in ops, InitialFeeEnds(o)
        PROVE  TypeOK'
    <2>1. o \in Op /\ o.chan \in Channels
      BY DEF TypeOK, Op
    <2> QED
      BY <1>9, <2>1, ResumeType DEF InitialFeeEnds, store, boot, TypeOK
  <1>10. ASSUME NEW o \in ops, InitialFeeDecided(o)
         PROVE  TypeOK'
    <2> DEFINE old == IF mem[o.chan] = {} THEN {{}} ELSE mem[o.chan]
    <2>1. o \in Op /\ o.chan \in Channels /\ o.key \in Opens
      BY DEF TypeOK, Op
    <2>2. mem[o.chan] \in State /\ old \in State
      BY <1>0, <2>1 DEF TypeOK
    <2>3. PICK b \in sgen, st \in {{}, mem[o.chan], {s \cup {o.key} : s \in old}} :
             /\ pend' = [pend EXCEPT ![o.chan] =
                    {[stage |-> "committing", key |-> o.key, basis |-> b,
                      staged |-> st]}]
             /\ ops' = (ops \ {o}) \cup
                    {[stage |-> "committing", chan |-> o.chan, key |-> o.key,
                      basis |-> b, staged |-> st, reply |-> "none", found |-> 0]}
      BY <1>10 DEF InitialFeeDecided
    <2>4. st \in State /\ b \in Nat
      <3>1. {s \cup {o.key} : s \in old} \in State
        <4> HIDE DEF old
        <4> QED
          BY <2>1, <2>2, FoldType DEF Events
      <3> HIDE DEF old
      <3>2. st \in State
        BY <1>0, <2>2, <2>3, <3>1
      <3> QED
        BY <2>3, <3>2 DEF TypeOK
    <2>5. [stage |-> "committing", key |-> o.key, basis |-> b, staged |-> st] \in Pending
      BY <2>1, <2>4 DEF Pending, Stages
    <2>6. [stage |-> "committing", chan |-> o.chan, key |-> o.key, basis |-> b,
           staged |-> st, reply |-> "none", found |-> 0] \in Op
      BY <2>1, <2>4 DEF Op, Stages
    <2>7. ops' \subseteq Op
      BY <2>3, <2>6 DEF TypeOK
    <2>8. pend' \in [Channels -> SUBSET Pending]
      BY <2>1, <2>3, <2>5 DEF TypeOK
    <2> QED
      BY <1>10, <2>7, <2>8 DEF InitialFeeDecided, store, boot, TypeOK
  <1>11. ASSUME NEW o \in ops, InitialFeeResult(o)
         PROVE  TypeOK'
    <2>1. o \in Op /\ o.chan \in Channels /\ o.found \in Nat
      BY DEF TypeOK, Op
    <2>2. PICK p \in pend[o.chan] :
             /\ mem' = IF Installable(o, p) /\ p.staged # {}
                       THEN [mem EXCEPT ![o.chan] = p.staged] ELSE mem
             /\ sgen' = CASE Installable(o, p) -> {o.found}
                          [] o.reply = "conflict" -> {o.found}
                          [] o.reply = "committed" /\ ~Installable(o, p) ->
                                {IF g < o.found THEN o.found ELSE g : g \in sgen}
                          [] OTHER -> sgen
      BY <1>11 DEF InitialFeeResult
    <2>3. p.staged \in State
      BY <2>1 DEF TypeOK, Pending
    <2>4. mem' \in [Channels -> State]
      BY <2>1, <2>2, <2>3 DEF TypeOK
    <2>5. {IF g < o.found THEN o.found ELSE g : g \in sgen} \subseteq Nat
      BY <2>1 DEF TypeOK
    <2>6. sgen' \subseteq Nat
      BY <2>1, <2>2, <2>5 DEF TypeOK
    <2> QED
      BY <1>11, <2>1, <2>4, <2>6, ResumeType DEF InitialFeeResult, store, boot, TypeOK
  <1>12. ASSUME NEW c \in Channels, OtherTrigger(c)
         PROVE  TypeOK'
    BY <1>12, <1>k DEF OtherTrigger, store, boot, TypeOK
  <1>13. ASSUME NEW e \in Nudges, FailedForwardNoNudge(e)
         PROVE  TypeOK'
    BY <1>13, <1>k, <1>c DEF FailedForwardNoNudge, store, boot, TypeOK, Events
  <1>14. ASSUME NEW e \in Nudges, FailedForwardNudged(e)
         PROVE  TypeOK'
    <2> DEFINE c == ChannelOf[e]
               nudge == {s \cup {e} : s \in mem[c]}
    <2>1. e \in Events /\ c \in Channels
      BY <1>c DEF Events
    <2>2. nudge \in State
      BY <2>1, FoldType DEF TypeOK
    <2>3. gen' \in Nat /\ row' \in [Channels -> State]
      BY <1>14, <2>1, <2>2, RowOfType, CommitRowsType DEF FailedForwardNudged
    <2>4. mem' \in [Channels -> State]
      BY <1>14, <2>1, <2>2 DEF FailedForwardNudged, TypeOK
    <2>5. triggers' \subseteq Keys
      BY <1>14, <2>1, <1>k DEF FailedForwardNudged
    <2> QED
      BY <1>14, <2>1, <2>3, <2>4, <2>5 DEF FailedForwardNudged, boot, TypeOK
  <1>15. ASSUME NEW e \in Opens, NewChannelRefused(e)
         PROVE  TypeOK'
    BY <1>15, <1>k, <1>c DEF NewChannelRefused, store, boot, TypeOK, Events
  <1>16. ASSUME NEW e \in Opens, NewChannel(e)
         PROVE  TypeOK'
    <2> DEFINE c == ChannelOf[e]
    <2>1. c \in Channels /\ <<"new_channel", c>> \in Keys
      BY <1>c DEF Events, Keys
    <2>2. [stage |-> "checking", key |-> e, basis |-> 0, staged |-> {}] \in Pending
      BY <1>0 DEF Pending, Stages
    <2>3. [stage |-> "checking", chan |-> c, key |-> e, basis |-> 0, staged |-> {},
           reply |-> "none", found |-> 0] \in Op
      BY <1>0, <2>1 DEF Op, Stages
    <2> QED
      BY <1>16, <2>1, <2>2, <2>3 DEF NewChannel, store, boot, TypeOK
  <1>17. CASE UNCHANGED vars
    BY <1>17 DEF vars, TypeOK
  <1> QED
    BY <1>1, <1>2, <1>3, <1>4, <1>5, <1>6, <1>7, <1>8, <1>9, <1>10, <1>11, <1>12,
       <1>13, <1>14, <1>15, <1>16, <1>17, NextCases

\* Nothing pending and no call under way are the same thing.
LEMMA NonePendingNoOps ==
    ASSUME PairInv PROVE NonePending(pend) <=> ops = {}
  <1>1. \A o \in ops : o.chan \in Channels
    BY DEF PairInv, TypeOK, Op
  <1> QED
    BY <1>1 DEF PairInv, Linked, Paired, NonePending

\* A call that moves on (its reply arrives, or its decision is dispatched) stays
\* linked with its entry.
LEMMA CallMovesOn ==
    ASSUME PairInv, NEW o \in ops, NEW q,
           q.chan = o.chan, ChannelOf[q.key] = o.chan,
           ops' = (ops \ {o}) \cup {q},
           \A d \in Channels : pend'[d] = IF d = o.chan THEN {PendOf(q)} ELSE pend[d],
           pc' = pc, deferred' = deferred
    PROVE  Linked' /\ Paired' /\ OneOp' /\ Quiet'
  <1>1. \A x \in ops : x.chan \in Channels
    BY DEF PairInv, TypeOK, Op
  <1>2. \A x \in ops \ {o} : x.chan # o.chan
    BY DEF PairInv, OneOp
  <1>3. Linked'
    <2> SUFFICES ASSUME NEW x \in ops' PROVE pend'[x.chan] = {PendOf(x)} /\ ChannelOf[x.key] = x.chan
      BY DEF Linked, PendOf
    <2>1. CASE x = q
      BY <2>1, <1>1
    <2>2. CASE x # q
      <3>1. x \in ops \ {o}
        BY <2>2
      <3> QED
        BY <3>1, <1>1, <1>2 DEF PairInv, Linked
    <2> QED
      BY <2>1, <2>2
  <1>4. Paired'
    BY <1>1 DEF PairInv, Paired
  <1>5. OneOp'
    BY <1>2 DEF PairInv, OneOp
  <1>6. Quiet'
    BY DEF PairInv, Quiet
  <1> QED
    BY <1>3, <1>4, <1>5, <1>6

\* A call whose result ends its occurrence takes its entry with it, and the last
\* one releases a deferred cycle.
LEMMA CallEnds ==
    ASSUME PairInv, NEW o \in ops,
           ops' = ops \ {o}, pend' = [pend EXCEPT ![o.chan] = {}],
           pc = "idle", Resume(pend')
    PROVE  Linked' /\ Paired' /\ OneOp' /\ Quiet'
  <1>1. o.chan \in Channels /\ \A x \in ops : x.chan \in Channels
    BY DEF PairInv, TypeOK, Op
  <1>2. \A x \in ops' : x.chan # o.chan /\ x \in ops
    BY DEF PairInv, OneOp
  <1>3. \A d \in Channels : pend'[d] = IF d = o.chan THEN {} ELSE pend[d]
    BY <1>1 DEF PairInv, TypeOK
  <1>4. Linked'
    <2> SUFFICES ASSUME NEW x \in ops' PROVE pend'[x.chan] = {PendOf(x)} /\ ChannelOf[x.key] = x.chan
      BY DEF Linked, PendOf
    <2> QED
      BY <1>1, <1>2, <1>3 DEF PairInv, Linked
  <1>5. Paired'
    BY <1>1, <1>3 DEF PairInv, Paired
  <1>6. OneOp'
    BY <1>2 DEF PairInv, OneOp
  <1>7. NonePending(pend') => ops' = {}
    BY <1>1, <1>2, <1>4 DEF Linked, NonePending
  <1>8. ~NonePending(pend') => ops' # {}
    BY <1>5 DEF Paired, NonePending
  <1>9. Quiet'
    BY <1>7, <1>8 DEF Resume, Quiet
  <1> QED
    BY <1>4, <1>5, <1>6, <1>9

\* Every operation keeps calls and pending entries in one-to-one correspondence.
LEMMA PairStep == PairInv /\ [Next]_vars => PairInv'
  <1> SUFFICES ASSUME PairInv, [Next]_vars PROVE Linked' /\ Paired' /\ OneOp' /\ Quiet'
    BY TypeStep DEF PairInv
  <1>t. TypeOK
    BY DEF PairInv
  <1>u. ASSUME UNCHANGED <<ops, pend, deferred, pc>>
        PROVE  Linked' /\ Paired' /\ OneOp' /\ Quiet'
    BY <1>u DEF PairInv, Linked, Paired, OneOp, Quiet, PendOf
  <1>1. CASE Spawn \/ Crash
    BY <1>1 DEF Spawn, Crash, Fresh, Linked, Paired, OneOp, Quiet
  <1>2. CASE RunPrepared
    <2>1. UNCHANGED <<ops, pend>> /\ pc = "idle"
      BY <1>2 DEF RunPrepared
    <2>2. Linked' /\ Paired' /\ OneOp'
      BY <2>1 DEF PairInv, Linked, Paired, OneOp, PendOf
    <2>3. Quiet'
      BY <1>2, <2>1, NonePendingNoOps DEF RunPrepared, PairInv, Quiet
    <2> QED
      BY <2>2, <2>3
  <1>3. CASE CycleSkipped \/ CycleSeedRefused \/ CycleUncommitted \/ CycleCommitted
    <2>1. UNCHANGED <<ops, pend, deferred>> /\ pc' = "idle"
      BY <1>3 DEF CycleSkipped, CycleSeedRefused, CycleUncommitted, CycleCommitted, Drain
    <2> QED
      BY <2>1 DEF PairInv, Linked, Paired, OneOp, Quiet, PendOf
  <1>4. CASE RetentionResult
    <2>1. ~(deferred /\ NonePending(pend))
      BY NonePendingNoOps DEF PairInv, Quiet
    <2> QED
      BY <1>4, <2>1, <1>u DEF RetentionResult, Resume
  <1>5. ASSUME NEW o \in ops, StoreChecks(o) \/ StoreRefuses(o) \/ StoreCommits(o)
        PROVE  Linked' /\ Paired' /\ OneOp' /\ Quiet'
    <2>1. o \in Op /\ gen \in Nat
      BY <1>t DEF TypeOK
    <2>2. UNCHANGED <<pend, deferred, pc>>
      BY <1>5 DEF StoreChecks, StoreRefuses, StoreCommits
    <2>3. PICK r \in {"err", "exists", "absent", "conflict", "committed"}, g \in {gen, gen + 1} :
             ops' = (ops \ {o}) \cup {Replied(o, r, g)}
      BY <1>5 DEF StoreChecks, StoreRefuses, StoreCommits, CommitRows, Replied
    <2>4. g \in Nat
          /\ r \in {"none", "err", "exists", "absent", "committed", "conflict"}
      BY <2>1, <2>3
    <2>5. /\ Replied(o, r, g).chan = o.chan /\ Replied(o, r, g).key = o.key
          /\ PendOf(Replied(o, r, g)) = PendOf(o)
      <3>1. ReplyOf(o, r, g)
        BY <2>1, <2>4, ReplyType
      <3> QED
        BY <3>1 DEF ReplyOf
    <2>6. ChannelOf[o.key] = o.chan /\ pend[o.chan] = {PendOf(o)}
      BY DEF PairInv, Linked
    <2> QED
      BY <2>2, <2>3, <2>5, <2>6, CallMovesOn
  <1>6. ASSUME NEW o \in ops, InitialFeeEnds(o) \/ InitialFeeResult(o)
        PROVE  Linked' /\ Paired' /\ OneOp' /\ Quiet'
    BY <1>6, CallEnds DEF InitialFeeEnds, InitialFeeResult
  <1>7. ASSUME NEW o \in ops, InitialFeeDecided(o)
        PROVE  Linked' /\ Paired' /\ OneOp' /\ Quiet'
    <2>1. PICK b, st :
             /\ pend' = [pend EXCEPT ![o.chan] =
                    {[stage |-> "committing", key |-> o.key, basis |-> b,
                      staged |-> st]}]
             /\ ops' = (ops \ {o}) \cup
                    {[stage |-> "committing", chan |-> o.chan, key |-> o.key,
                      basis |-> b, staged |-> st, reply |-> "none", found |-> 0]}
      BY <1>7 DEF InitialFeeDecided
    <2> DEFINE q == [stage |-> "committing", chan |-> o.chan, key |-> o.key,
                     basis |-> b, staged |-> st, reply |-> "none", found |-> 0]
    <2>2. PendOf(q) = [stage |-> "committing", key |-> o.key, basis |-> b, staged |-> st]
          /\ q.chan = o.chan /\ q.key = o.key
      BY DEF PendOf
    <2>3. o.chan \in Channels /\ ChannelOf[o.key] = o.chan
      BY <1>t DEF TypeOK, Op, PairInv, Linked
    <2>4. \A d \in Channels : pend'[d] = IF d = o.chan THEN {PendOf(q)} ELSE pend[d]
      BY <1>t, <2>1, <2>2, <2>3 DEF TypeOK
    <2>5. UNCHANGED <<pc, deferred>> /\ ops' = (ops \ {o}) \cup {q}
      BY <1>7, <2>1 DEF InitialFeeDecided
    <2> HIDE DEF q
    <2> QED
      BY <2>2, <2>3, <2>4, <2>5, CallMovesOn
  <1>8. CASE \/ \E c \in Channels : OtherTrigger(c)
             \/ \E e \in Nudges : FailedForwardNoNudge(e)
             \/ \E e \in Nudges : FailedForwardNudged(e)
             \/ \E e \in Opens : NewChannelRefused(e)
             \/ UNCHANGED vars
    BY <1>8, <1>u DEF OtherTrigger, FailedForwardNoNudge, FailedForwardNudged,
                      NewChannelRefused, vars
  <1>9. ASSUME NEW e \in Opens, NewChannel(e)
        PROVE  Linked' /\ Paired' /\ OneOp' /\ Quiet'
    <2> DEFINE c == ChannelOf[e]
               q == [stage |-> "checking", chan |-> c, key |-> e, basis |-> 0,
                     staged |-> {}, reply |-> "none", found |-> 0]
    <2>1. c \in Channels /\ q.chan = c /\ q.key = e
      BY EventsAssumption DEF Events
    <2>2. PendOf(q) = [stage |-> "checking", key |-> e, basis |-> 0, staged |-> {}]
      BY DEF PendOf
    <2>3. ops' = ops \cup {q} /\ UNCHANGED <<pc, deferred>> /\ pc = "idle" /\ pend[c] = {}
      BY <1>9 DEF NewChannel
    <2>4. \A d \in Channels : pend'[d] = IF d = c THEN {PendOf(q)} ELSE pend[d]
      BY <1>9, <1>t, <2>1, <2>2 DEF NewChannel, TypeOK
    <2>5. \A x \in ops : x.chan \in Channels /\ x.chan # c
      BY <1>t, <2>3 DEF TypeOK, Op, PairInv, Linked
    <2> HIDE DEF q, c
    <2>6. Linked'
      <3> SUFFICES ASSUME NEW x \in ops' PROVE pend'[x.chan] = {PendOf(x)} /\ ChannelOf[x.key] = x.chan
        BY DEF Linked, PendOf
      <3>1. CASE x = q
        BY <3>1, <2>1, <2>4 DEF c
      <3>2. CASE x \in ops
        BY <3>2, <2>4, <2>5 DEF PairInv, Linked
      <3> QED
        BY <3>1, <3>2, <2>3
    <2>7. Paired'
      BY <2>1, <2>3, <2>4 DEF PairInv, Paired
    <2>8. OneOp'
      BY <2>1, <2>3, <2>5 DEF PairInv, OneOp
    <2>9. Quiet'
      BY <2>3 DEF Quiet
    <2> QED
      BY <2>6, <2>7, <2>8, <2>9
  <1> QED
    BY <1>1, <1>2, <1>3, <1>4, <1>5, <1>6, <1>7, <1>8, <1>9, NextCases

\* Type correctness, for every instance: the owner's and the store's state keep
\* their shapes through cycles, triggers, dispatched store calls and crashes.
THEOREM TypeCorrect == Spec => []TypeOK
  <1> QED
    BY TypeInit, TypeStep, PTL DEF Spec

\* The pairing of calls and entries is an invariant.
LEMMA PairAlways == Spec => []PairInv
  <1>1. Init => PairInv
    BY TypeInit DEF Init, PairInv, Linked, Paired, OneOp, Quiet
  <1> QED
    BY <1>1, PairStep, PTL DEF Spec

\* No store result is ever discarded as stale, none is missing, and no channel has
\* two (handle_initial_fee_store_result's identity check always succeeds).
THEOREM ResultsAwaited == Spec => []EveryResultIsAwaited
  <1>1. PairInv => EveryResultIsAwaited
    <2> SUFFICES ASSUME PairInv PROVE EveryResultIsAwaited
      OBVIOUS
    <2>1. ASSUME NEW o \in ops PROVE Awaited(o)
      <3>1. PendOf(o) \in pend[o.chan]
        BY DEF PairInv, Linked
      <3>2. PendOf(o).stage = o.stage /\ PendOf(o).key = o.key
        BY DEF PendOf
      <3> QED
        BY <3>1, <3>2 DEF Awaited
    <2>2. ASSUME NEW c \in Channels, NEW p \in pend[c]
          PROVE  \E o \in ops : o.chan = c /\ o.key = p.key /\ o.stage = p.stage
      <3>1. PICK o \in ops : o.chan = c
        BY <2>2 DEF PairInv, Paired
      <3>2. p = PendOf(o)
        BY <2>2, <3>1 DEF PairInv, Linked
      <3> QED
        BY <3>1, <3>2 DEF PendOf
    <2>3. \A o1, o2 \in ops : o1.chan = o2.chan => o1 = o2
      BY DEF PairInv, OneOp
    <2> QED
      BY <2>1, <2>2, <2>3 DEF EveryResultIsAwaited
  <1> QED
    BY <1>1, PairAlways, PTL

\* A cycle deferred behind an initial-fee commit always has a store call in flight
\* whose result will resume it.
THEOREM DeferredHasACall == Spec => []DeferredNeverStranded
  <1>1. PairInv => DeferredNeverStranded
    BY DEF PairInv, Quiet, DeferredNeverStranded
  <1> QED
    BY <1>1, PairAlways, PTL

-----------------------------------------------------------------------------
(* Seed provenance *)

\* Every operation keeps the provenance rows in step with the generation.
LEMMA SeedStep == PairInv /\ SeedInv /\ [Next]_vars => SeedInv'
  <1> SUFFICES ASSUME PairInv, SeedInv, [Next]_vars PROVE SeedInv'
    OBVIOUS
  <1>t. gen \in Nat /\ seeded \in Nat /\ refusedAfter \in BOOLEAN
        /\ hydrated \in BOOLEAN /\ pendingSeed \in BOOLEAN
    BY DEF PairInv, TypeOK
  <1>u. ASSUME UNCHANGED <<gen, seeded, refusedAfter, hydrated, pendingSeed>>,
               ops' # {} => ops # {}
        PROVE  SeedInv'
    BY <1>u DEF SeedInv
  <1>1. CASE Spawn \/ Crash
    BY <1>1 DEF Spawn, Crash, Fresh, store, SeedInv
  <1>2. CASE RunPrepared \/ CycleSkipped \/ RetentionResult \/ UNCHANGED vars
    BY <1>2, <1>u DEF RunPrepared, CycleSkipped, RetentionResult, store, boot, vars
  <1>3. CASE CycleSeedRefused
    BY <1>3, <1>t DEF CycleSeedRefused, Drain, SeedInv
  <1>4. CASE CycleUncommitted
    <2>1. pc = "cycle" /\ UNCHANGED <<gen, seeded, refusedAfter, ops>>
      BY <1>4 DEF CycleUncommitted, Drain, store
    <2>2. PICK seed \in BOOLEAN : (\E m : Hydration(m, seed)) /\ pendingSeed' = seed
      BY <1>4 DEF CycleUncommitted
    <2>3. ~pendingSeed' => gen > 0
      BY <2>2, <1>t DEF Hydration, SeedInv
    <2> QED
      BY <2>1, <2>3 DEF SeedInv, PairInv, Quiet
  <1>5. CASE CycleCommitted
    <2>1. UNCHANGED refusedAfter /\ gen' = gen + 1
      BY <1>5 DEF CycleCommitted, CommitRows
    <2>2. PICK seed \in BOOLEAN : (\E m : Hydration(m, seed)) /\ SeedBinds(seed)
                              /\ seeded' = IF seed THEN seeded + 1 ELSE seeded
      BY <1>5 DEF CycleCommitted
    <2>3. CASE seed
      BY <2>1, <2>2, <2>3, <1>t DEF SeedBinds, SeedInv
    <2>4. CASE ~seed
      <3>1. gen > 0
        BY <2>2, <2>4, <1>t DEF Hydration, SeedInv
      <3> QED
        BY <2>1, <2>2, <2>4, <3>1, <1>t DEF SeedInv
    <2> QED
      BY <2>3, <2>4
  <1>6. ASSUME NEW o \in ops, StoreChecks(o) \/ StoreRefuses(o) \/ InitialFeeDecided(o)
                              \/ InitialFeeEnds(o) \/ InitialFeeResult(o)
        PROVE  SeedInv'
    BY <1>6, <1>u DEF StoreChecks, StoreRefuses, InitialFeeDecided, InitialFeeEnds,
                      InitialFeeResult, store, boot
  <1>7. ASSUME NEW o \in ops, StoreCommits(o)
        PROVE  SeedInv'
    <2>1. gen > 0 /\ gen' = gen + 1
      BY <1>7, <1>t DEF StoreCommits, CommitRows, SeedInv
    <2> QED
      BY <1>7, <2>1, <1>t DEF StoreCommits, boot, SeedInv
  <1>8. ASSUME NEW e \in Nudges, FailedForwardNudged(e)
        PROVE  SeedInv'
    <2>1. gen > 0 /\ gen' = gen + 1
      BY <1>8, <1>t DEF FailedForwardNudged, CommitRows, Ready, SeedInv
    <2> QED
      BY <1>8, <2>1, <1>t DEF FailedForwardNudged, boot, SeedInv
  <1>9. CASE \/ \E c \in Channels : OtherTrigger(c)
             \/ \E e \in Nudges : FailedForwardNoNudge(e)
             \/ \E e \in Opens : NewChannelRefused(e)
    BY <1>9, <1>u DEF OtherTrigger, FailedForwardNoNudge, NewChannelRefused, store, boot
  <1>10. ASSUME NEW e \in Opens, NewChannel(e)
         PROVE  SeedInv'
    BY <1>10, <1>t DEF NewChannel, Ready, store, boot, SeedInv
  <1> QED
    BY <1>1, <1>2, <1>3, <1>4, <1>5, <1>6, <1>7, <1>8, <1>9, <1>10, NextCases

\* The store's own provenance check (verified_seed_binding) accepts everything this
\* code writes, through failed commits, refusals, restarts and out-of-cycle commits.
THEOREM SeedBindingValid == Spec => []SeedBindingNeverInvalid
  <1>1. Init => SeedInv
    BY DEF Init, SeedInv
  <1>2. PairInv /\ SeedInv => SeedBindingNeverInvalid
    BY DEF PairInv, TypeOK, SeedInv, SeedBindingNeverInvalid, Binding
  <1> QED
    BY <1>1, <1>2, SeedStep, PairAlways, PTL DEF Spec

-----------------------------------------------------------------------------
(* One decision per event *)

\* Every operation keeps events under decision uncommitted.
LEMMA DecideStep == PairInv /\ DecideInv /\ [Next]_vars => DecideInv'
  <1> SUFFICES ASSUME PairInv, DecideInv, [Next]_vars PROVE DecideInv'
    OBVIOUS
  <1>t. ops \subseteq Op /\ \A o \in ops : o.key \in Opens
    BY DEF PairInv, TypeOK, Op
  <1>k. \A o, q \in ops : o.key = q.key => o = q
    BY DEF PairInv, Linked, OneOp
  <1>u. ASSUME ops' \subseteq ops, committed' = committed
        PROVE  DecideInv'
    BY <1>u DEF DecideInv
  <1>1. CASE \/ Spawn \/ Crash \/ RunPrepared \/ CycleSkipped \/ CycleSeedRefused
             \/ CycleUncommitted \/ CycleCommitted \/ RetentionResult \/ UNCHANGED vars
    BY <1>1, <1>u DEF Spawn, Crash, Fresh, RunPrepared, CycleSkipped, CycleSeedRefused,
                      CycleUncommitted, CycleCommitted, RetentionResult, store, vars
  <1>2. ASSUME NEW o \in ops, StoreChecks(o) \/ StoreRefuses(o)
        PROVE  DecideInv'
    <2>1. PICK r \in {"err", "exists", "absent", "conflict"} :
             /\ ops' = (ops \ {o}) \cup {Replied(o, r, gen)}
             /\ r = "absent" => o.key \notin committed
      BY <1>2 DEF StoreChecks, StoreRefuses, Replied
    <2>2. ReplyOf(o, r, gen)
      BY <2>1, <1>t, ReplyType DEF PairInv, TypeOK
    <2>3. committed' = committed
      BY <1>2 DEF StoreChecks, StoreRefuses, store
    <2> QED
      BY <2>1, <2>2, <2>3 DEF DecideInv, ReplyOf
  <1>3. ASSUME NEW o \in ops, StoreCommits(o)
        PROVE  DecideInv'
    <2>1. ops' = (ops \ {o}) \cup {Replied(o, "committed", gen')}
          /\ committed' = committed \cup {o.key}
      BY <1>3 DEF StoreCommits, Replied
    <2>2. gen' \in Nat
      BY <1>3 DEF StoreCommits, CommitRows, PairInv, TypeOK
    <2>3. ReplyOf(o, "committed", gen')
      BY <2>2, <1>t, ReplyType
    <2>4. \A q \in ops \ {o} : q.key # o.key
      BY <1>k
    <2> QED
      BY <2>1, <2>3, <2>4 DEF DecideInv, ReplyOf
  <1>4. ASSUME NEW o \in ops, InitialFeeEnds(o) \/ InitialFeeResult(o)
        PROVE  DecideInv'
    BY <1>4, <1>u DEF InitialFeeEnds, InitialFeeResult, store
  <1>5. ASSUME NEW o \in ops, InitialFeeDecided(o)
        PROVE  DecideInv'
    <2>1. o.key \notin committed /\ committed' = committed
      BY <1>5 DEF InitialFeeDecided, DecideInv, store
    <2>2. PICK b, st : ops' = (ops \ {o}) \cup
                    {[stage |-> "committing", chan |-> o.chan, key |-> o.key,
                      basis |-> b, staged |-> st, reply |-> "none", found |-> 0]}
      BY <1>5 DEF InitialFeeDecided
    <2> QED
      BY <2>1, <2>2 DEF DecideInv
  <1>6. CASE \/ \E c \in Channels : OtherTrigger(c)
             \/ \E e \in Nudges : FailedForwardNoNudge(e)
             \/ \E e \in Opens : NewChannelRefused(e)
    BY <1>6, <1>u DEF OtherTrigger, FailedForwardNoNudge, NewChannelRefused, store
  <1>7. ASSUME NEW e \in Nudges, FailedForwardNudged(e)
        PROVE  DecideInv'
    <2>1. \A o \in ops : o.key # e
      BY <1>t, EventsAssumption
    <2> QED
      BY <1>7, <2>1 DEF FailedForwardNudged, DecideInv
  <1>8. ASSUME NEW e \in Opens, NewChannel(e)
        PROVE  DecideInv'
    BY <1>8 DEF NewChannel, store, DecideInv
  <1> QED
    BY <1>1, <1>2, <1>3, <1>4, <1>5, <1>6, <1>7, <1>8, NextCases

\* An initial fee is decided at most once per event key, although the idempotency
\* answer is old when decide_and_dispatch_commit acts on it.
THEOREM DecidedOnce == Spec => []DecidesOnce
  <1>1. Init => DecideInv
    BY DEF Init, DecideInv
  <1>2. DecideInv => DecidesOnce
    BY DEF DecideInv, DecidesOnce
  <1> QED
    BY <1>1, <1>2, DecideStep, PairAlways, PTL DEF Spec

-----------------------------------------------------------------------------
(* Committed nudges stay in the stored state *)

\* A state that is absent or new has seen no nudge, and folding an event in keeps
\* what was seen and adds at most that event.
LEMMA SeenFacts ==
    ASSUME NEW s, NEW e
    PROVE  /\ Seen({}) = {} /\ Seen({{}}) = {}
           /\ Seen(s) \subseteq Seen(Fold(s, e))
           /\ Seen(Fold(s, e)) \subseteq Seen(s) \cup {e}
           /\ s # {} => Fold(s, e) # {}
  <1>1. Seen({}) = {} /\ Seen({{}}) = {}
    BY DEF Seen
  <1>2. Seen(s) \subseteq Seen(Fold(s, e))
    BY DEF Seen, Fold
  <1>3. Seen(Fold(s, e)) \subseteq Seen(s) \cup {e}
    BY DEF Seen, Fold
  <1>4. s # {} => Fold(s, e) # {}
    BY DEF Fold
  <1> QED
    BY <1>1, <1>2, <1>3, <1>4

\* The row of a single-row commit.
LEMMA RowOfCommit ==
    ASSUME NEW c \in Channels, NEW s, CommitRows(RowOf(c, s)), NEW d \in Channels
    PROVE  row'[d] = IF d = c /\ s # {} THEN s ELSE row[d]
  BY DEF CommitRows, RowOf

\* A cycle starts from everything the store has seen.
LEMMA HydrationSeen ==
    ASSUME TypeOK, NudgeInv, NEW m, NEW seed \in BOOLEAN, Hydration(m, seed),
           NEW n \in Evolved(m)
    PROVE  \A c \in Channels : Seen(row[c]) \subseteq Seen(n[c])
  <1>1. \A c \in Channels : Seen(row[c]) \subseteq Seen(m[c])
    <2>1. CASE hydrated /\ m = mem
      BY <2>1 DEF NudgeInv
    <2>2. CASE m = row
      BY <2>2
    <2>3. CASE \A c \in Channels : row[c] = {}
      BY <2>3, SeenFacts
    <2> QED
      BY <2>1, <2>2, <2>3 DEF Hydration
  <1>2. \A c \in Channels : m[c] # {} => n[c] = m[c]
    BY DEF Evolved
  <1> QED
    BY <1>1, <1>2, SeenFacts

\* With openings of one channel only, at most one call is under way.
LEMMA SingleCall ==
    ASSUME OneOpening, PairInv, NEW o \in ops PROVE ops = {o}
  <1>1. \A q \in ops : q.key \in Opens /\ ChannelOf[q.key] = q.chan
    BY DEF PairInv, TypeOK, Op, Linked
  <1>2. \A q \in ops : q.chan = o.chan
    BY <1>1 DEF OneOpening
  <1> QED
    BY <1>2 DEF PairInv, OneOp

\* Every operation keeps the bounds on generations in flight, and the owner ahead
\* of the store.
LEMMA NudgeStep ==
    ASSUME OneOpening PROVE PairInv /\ NudgeInv /\ [Next]_vars => NudgeInv'
  <1> SUFFICES ASSUME PairInv, NudgeInv, [Next]_vars PROVE NudgeInv'
    OBVIOUS
  <1>t. TypeOK
    BY DEF PairInv
  <1>g. gen \in Nat /\ sgen \subseteq Nat
        /\ \A o \in ops : o \in Op /\ o.basis \in Nat /\ o.found \in Nat
                        /\ o.chan \in Channels
    BY <1>t DEF TypeOK, Op
  <1>u. ASSUME UNCHANGED <<gen, row, hydrated, sgen, mem>>, ops' \subseteq ops
        PROVE  NudgeInv'
    BY <1>u DEF NudgeInv
  <1>1. CASE Spawn \/ Crash
    BY <1>1 DEF Spawn, Crash, Fresh, NudgeInv
  <1>2. CASE \/ RunPrepared \/ CycleSkipped \/ CycleSeedRefused \/ RetentionResult
             \/ UNCHANGED vars
    BY <1>2, <1>u DEF RunPrepared, CycleSkipped, CycleSeedRefused, RetentionResult,
                      store, boot, vars
  <1>3. CASE CycleUncommitted
    <2>1. ops' = {} /\ UNCHANGED <<gen, row>> /\ sgen' = IF hydrated THEN sgen ELSE {gen}
      BY <1>3 DEF CycleUncommitted, Drain, store, PairInv, Quiet
    <2>2. \A c \in Channels : Seen(row[c]) \subseteq Seen(mem'[c])
      BY <1>3, <1>t, HydrationSeen DEF CycleUncommitted
    <2> QED
      BY <2>1, <2>2, <1>g DEF NudgeInv
  <1>4. CASE CycleCommitted
    <2>1. ops' = {} /\ gen' = gen + 1 /\ sgen' = {gen'}
      BY <1>4 DEF CycleCommitted, CommitRows, Drain, PairInv, Quiet
    <2>2. \A c \in Channels : Seen(row[c]) \subseteq Seen(mem'[c])
      BY <1>4, <1>t, HydrationSeen DEF CycleCommitted
    <2>3. \A c \in Channels : row'[c] = IF mem'[c] # {} THEN mem'[c] ELSE row[c]
      BY <1>4 DEF CycleCommitted, CommitRows
    <2>4. \A c \in Channels : Seen(row'[c]) \subseteq Seen(mem'[c])
      BY <2>2, <2>3
    <2> QED
      BY <2>1, <2>4, <1>g DEF NudgeInv
  <1>5. ASSUME NEW o \in ops, StoreChecks(o) \/ StoreRefuses(o)
        PROVE  NudgeInv'
    <2>1. PICK r \in {"err", "exists", "absent", "conflict"} :
             ops' = (ops \ {o}) \cup {Replied(o, r, gen)}
      BY <1>5 DEF StoreChecks, StoreRefuses, Replied
    <2>2. ReplyOf(o, r, gen) /\ r # "none"
      BY <2>1, <1>g, ReplyType
    <2>3. UNCHANGED <<gen, row, hydrated, sgen, mem>>
      BY <1>5 DEF StoreChecks, StoreRefuses, store, boot
    <2>4. ops = {o}
      BY SingleCall
    <2>5. ops' = {Replied(o, r, gen)}
      BY <2>1, <2>4
    <2> HIDE <2>1
    <2> QED
      BY <2>2, <2>3, <2>5, <1>g DEF NudgeInv, ReplyOf
  <1>6. ASSUME NEW o \in ops, StoreCommits(o)
        PROVE  NudgeInv'
    <2>1. gen' = gen + 1 /\ gen' \in Nat /\ UNCHANGED <<hydrated, sgen, mem>>
          /\ o.stage = "committing"
      BY <1>6, <1>g DEF StoreCommits, CommitRows, boot
    <2>2. ReplyOf(o, "committed", gen')
      BY <2>1, <1>g, ReplyType
    <2>3. ops' = {Replied(o, "committed", gen')}
      BY <1>6, SingleCall DEF StoreCommits, Replied
    <2>4. \A c \in Channels : row'[c] = IF c = o.chan /\ o.staged # {} THEN o.staged ELSE row[c]
      BY <1>6, <1>g, RowOfCommit DEF StoreCommits
    <2>5. \A c \in Channels : Seen(row'[c]) \subseteq Seen(mem'[c])
      BY <2>1, <2>4 DEF NudgeInv
    <2> QED
      BY <2>1, <2>2, <2>3, <2>5, <1>g DEF NudgeInv, ReplyOf
  <1>7. ASSUME NEW o \in ops, InitialFeeEnds(o)
        PROVE  NudgeInv'
    BY <1>7, <1>u DEF InitialFeeEnds, store, boot
  <1>8. ASSUME NEW o \in ops, InitialFeeDecided(o)
        PROVE  NudgeInv'
    <2> DEFINE old == IF mem[o.chan] = {} THEN {{}} ELSE mem[o.chan]
               fold == {s \cup {o.key} : s \in old}
               q(b, st) == [stage |-> "committing", chan |-> o.chan, key |-> o.key,
                            basis |-> b, staged |-> st, reply |-> "none", found |-> 0]
    <2>1. PICK b \in sgen, st \in {{}, mem[o.chan], fold} : ops' = (ops \ {o}) \cup {q(b, st)}
      BY <1>8 DEF InitialFeeDecided
    <2>2. ops' = {q(b, st)}
      BY <2>1, SingleCall
    <2>3. UNCHANGED <<gen, row, hydrated, sgen, mem>>
      BY <1>8 DEF InitialFeeDecided, store, boot
    <2>4. sgen = {b} /\ b <= gen
      BY <2>1 DEF NudgeInv
    <2>5. o.key \notin Nudges
      BY <1>t, EventsAssumption DEF TypeOK, Op
    <2>6. Seen(old) = Seen(mem[o.chan])
      BY SeenFacts
    <2> HIDE DEF old
    <2>7. Seen(fold) = Seen(mem[o.chan])
      <3>1. Seen(old) \subseteq Seen(fold) /\ Seen(fold) \subseteq Seen(old) \cup {o.key}
        <4>1. fold = Fold(old, o.key)
          BY DEF Fold
        <4> HIDE DEF fold
        <4> QED
          BY <4>1, SeenFacts
      <3>2. o.key \notin Seen(fold)
        BY <2>5 DEF Seen
      <3> HIDE DEF fold
      <3> QED
        BY <2>6, <3>1, <3>2
    <2> HIDE DEF fold
    <2>8. Seen(st) \subseteq Seen(mem[o.chan])
          /\ (st # {} => Seen(mem[o.chan]) \subseteq Seen(st))
      BY <2>1, <2>7, SeenFacts
    <2>9. q(b, st).basis = b /\ q(b, st).found = 0 /\ q(b, st).chan = o.chan
          /\ q(b, st).staged = st
      OBVIOUS
    <2> HIDE DEF q
    <2> QED
      BY <2>2, <2>3, <2>4, <2>8, <2>9, <1>g DEF NudgeInv
  <1>9. ASSUME NEW o \in ops, InitialFeeResult(o)
        PROVE  NudgeInv'
    <2>1. ops' = {} /\ UNCHANGED <<gen, row, hydrated>> /\ o.stage = "committing"
      BY <1>9, SingleCall DEF InitialFeeResult, store, boot
    <2>2. PICK p \in pend[o.chan] :
             /\ mem' = IF Installable(o, p) /\ p.staged # {}
                       THEN [mem EXCEPT ![o.chan] = p.staged] ELSE mem
             /\ sgen' = CASE Installable(o, p) -> {o.found}
                          [] o.reply = "conflict" -> {o.found}
                          [] o.reply = "committed" /\ ~Installable(o, p) ->
                                {IF g < o.found THEN o.found ELSE g : g \in sgen}
                          [] OTHER -> sgen
      BY <1>9 DEF InitialFeeResult
    <2>3. p.basis = o.basis /\ p.staged = o.staged
      BY <2>2 DEF PairInv, Linked, PendOf
    <2>4. sgen' = {o.found} \/ sgen' = sgen
          \/ sgen' = {IF g < o.found THEN o.found ELSE g : g \in sgen}
      BY <2>2
    <2>5. (\A g, h \in sgen' : g = h) /\ (\A g \in sgen' : g <= gen)
      <3>1. CASE sgen' = {o.found}
        BY <3>1 DEF NudgeInv
      <3>2. CASE sgen' = sgen
        BY <3>2 DEF NudgeInv
      <3>3. CASE sgen' = {IF g < o.found THEN o.found ELSE g : g \in sgen}
        BY <3>3 DEF NudgeInv
      <3> QED
        BY <2>4, <3>1, <3>2, <3>3
    <2>6. hydrated => \A c \in Channels : Seen(row[c]) \subseteq Seen(mem'[c])
      <3>1. CASE Installable(o, p) /\ p.staged # {}
        <4>1. Seen(mem[o.chan]) \subseteq Seen(o.staged)
          BY <2>1, <2>3, <3>1 DEF Installable, NudgeInv
        <4>2. \A c \in Channels : mem'[c] = IF c = o.chan THEN o.staged ELSE mem[c]
          BY <2>2, <2>3, <3>1, <1>t DEF TypeOK
        <4> QED
          BY <4>1, <4>2 DEF NudgeInv
      <3>2. CASE ~(Installable(o, p) /\ p.staged # {})
        BY <2>2, <3>2 DEF NudgeInv
      <3> QED
        BY <3>1, <3>2
    <2> QED
      BY <2>1, <2>5, <2>6 DEF NudgeInv
  <1>10. CASE \/ \E c \in Channels : OtherTrigger(c)
              \/ \E e \in Nudges : FailedForwardNoNudge(e)
              \/ \E e \in Opens : NewChannelRefused(e)
    BY <1>10, <1>u DEF OtherTrigger, FailedForwardNoNudge, NewChannelRefused, store, boot
  <1>11. ASSUME NEW e \in Nudges, FailedForwardNudged(e)
         PROVE  NudgeInv'
    <2> DEFINE c == ChannelOf[e]
               nudge == {s \cup {e} : s \in mem[c]}
    <2>1. c \in Channels
      BY EventsAssumption DEF Events
    <2>2. gen' = gen + 1 /\ sgen' = {gen'} /\ UNCHANGED <<hydrated, ops>> /\ hydrated
      BY <1>11 DEF FailedForwardNudged, CommitRows, Ready, boot
    <2>3. \A d \in Channels : row'[d] = IF d = c /\ nudge # {} THEN nudge ELSE row[d]
      BY <1>11, <2>1, RowOfCommit DEF FailedForwardNudged
    <2>4. \A d \in Channels : mem'[d] = IF d = c THEN nudge ELSE mem[d]
      BY <1>11, <1>t, <2>1 DEF FailedForwardNudged, TypeOK
    <2>5. nudge # {} /\ Seen(mem[c]) \subseteq Seen(nudge)
      <3>1. nudge = Fold(mem[c], e)
        BY DEF Fold
      <3>2. mem[c] # {}
        BY <1>11 DEF FailedForwardNudged
      <3> HIDE DEF nudge, c
      <3> QED
        BY <3>1, <3>2, SeenFacts
    <2> HIDE DEF nudge, c
    <2>6. \A d \in Channels : Seen(row'[d]) \subseteq Seen(mem'[d])
      BY <2>2, <2>3, <2>4, <2>5 DEF NudgeInv
    <2>7. \A d \in Channels : Seen(mem[d]) \subseteq Seen(mem'[d])
      BY <2>4, <2>5
    <2>8. \A o \in ops : sgen' # {o.basis} /\ gen' # o.basis
                       /\ o.basis <= gen' /\ o.found <= gen'
      BY <2>2, <1>g DEF NudgeInv
    <2>9. ASSUME NEW o \in ops', o.stage = "committing"
          PROVE  Seen(o.staged) \subseteq Seen(mem'[o.chan])
      <3>1. o \in ops /\ o.chan \in Channels
        BY <2>2, <1>g
      <3> QED
        BY <2>7, <2>9, <3>1 DEF NudgeInv
    <2>10. (\A g, h \in sgen' : g = h) /\ (\A g \in sgen' : g <= gen')
      BY <2>2, <1>g
    <2> QED
      BY <2>2, <2>6, <2>8, <2>9, <2>10 DEF NudgeInv
  <1>12. ASSUME NEW e \in Opens, NewChannel(e)
         PROVE  NudgeInv'
    <2> DEFINE q == [stage |-> "checking", chan |-> ChannelOf[e], key |-> e, basis |-> 0,
                     staged |-> {}, reply |-> "none", found |-> 0]
    <2>1. ops' = ops \cup {q} /\ UNCHANGED <<gen, row, hydrated, sgen, mem>> /\ hydrated
      BY <1>12 DEF NewChannel, Ready, store, boot
    <2>2. q.stage = "checking" /\ q.basis = 0 /\ q.found = 0
      OBVIOUS
    <2> HIDE DEF q
    <2> QED
      BY <2>1, <2>2, <1>g DEF NudgeInv
  <1> QED
    BY <1>1, <1>2, <1>3, <1>4, <1>5, <1>6, <1>7, <1>8, <1>9, <1>10, <1>11, <1>12, NextCases

\* While new channels open one at a time, no commit (a cycle's, an initial fee's or
\* another nudge's) drops a committed failed-forward nudge from the stored state.
THEOREM NudgesKept == OneOpening => (Spec => NudgesNeverLost)
  <1> SUFFICES ASSUME OneOpening PROVE Spec => NudgesNeverLost
    OBVIOUS
  <1>1. Init => NudgeInv
    <2> SUFFICES ASSUME Init PROVE NudgeInv
      OBVIOUS
    <2> QED
      BY DEF Init, NudgeInv
  <1>2. PairInv /\ NudgeInv /\ [Next]_vars =>
           [\A c \in Channels : (UNION row[c]) \cap Nudges \subseteq UNION row'[c]]_vars
    <2> SUFFICES ASSUME PairInv, NudgeInv, [Next]_vars, NEW c \in Channels
                 PROVE  Seen(row[c]) \subseteq Seen(row'[c])
      BY DEF Seen
    <2>t. TypeOK
      BY DEF PairInv
    <2>1. CASE CycleCommitted
      <3>1. Seen(row[c]) \subseteq Seen(mem'[c])
        BY <2>1, <2>t, HydrationSeen DEF CycleCommitted
      <3>2. row'[c] = IF mem'[c] # {} THEN mem'[c] ELSE row[c]
        BY <2>1 DEF CycleCommitted, CommitRows
      <3> QED
        BY <3>1, <3>2
    <2>2. ASSUME NEW o \in ops, StoreCommits(o)
          PROVE  Seen(row[c]) \subseteq Seen(row'[c])
      <3>1. o.chan \in Channels
        BY <2>t DEF TypeOK, Op
      <3>2. row'[c] = IF c = o.chan /\ o.staged # {} THEN o.staged ELSE row[c]
        BY <2>2, <3>1, RowOfCommit DEF StoreCommits
      <3>3. sgen = {o.basis} /\ Seen(row[o.chan]) \subseteq Seen(mem[o.chan])
        BY <2>2, <3>1 DEF StoreCommits, NudgeInv
      <3>4. o.staged # {} => Seen(mem[o.chan]) \subseteq Seen(o.staged)
        BY <2>2, <3>3 DEF StoreCommits, NudgeInv
      <3> QED
        BY <3>2, <3>3, <3>4
    <2>3. ASSUME NEW e \in Nudges, FailedForwardNudged(e)
          PROVE  Seen(row[c]) \subseteq Seen(row'[c])
      <3> DEFINE nudge == {s \cup {e} : s \in mem[ChannelOf[e]]}
      <3>1. ChannelOf[e] \in Channels
        BY EventsAssumption DEF Events
      <3>2. row'[c] = IF c = ChannelOf[e] /\ nudge # {} THEN nudge ELSE row[c]
        BY <2>3, <3>1, RowOfCommit DEF FailedForwardNudged
      <3>3. Seen(mem[ChannelOf[e]]) \subseteq Seen(nudge)
        <4>1. nudge = Fold(mem[ChannelOf[e]], e)
          BY DEF Fold
        <4> HIDE DEF nudge
        <4> QED
          BY <4>1, SeenFacts
      <3>4. Seen(row[ChannelOf[e]]) \subseteq Seen(mem[ChannelOf[e]])
        BY <2>3, <3>1 DEF FailedForwardNudged, Ready, NudgeInv
      <3> HIDE DEF nudge
      <3> QED
        BY <3>2, <3>3, <3>4
    <2>4. CASE row' = row
      BY <2>4
    <2>5. \/ CycleCommitted \/ row' = row
          \/ \E o \in ops : StoreCommits(o)
          \/ \E e \in Nudges : FailedForwardNudged(e)
      BY NextCases DEF Spawn, Crash, RunPrepared, CycleSkipped, CycleSeedRefused,
           CycleUncommitted, RetentionResult, StoreChecks, StoreRefuses, InitialFeeEnds,
           InitialFeeDecided, InitialFeeResult, OtherTrigger, FailedForwardNoNudge,
           NewChannelRefused, NewChannel, store, vars
    <2> QED
      BY <2>1, <2>2, <2>3, <2>4, <2>5
  <1>3. PairInv /\ NudgeInv /\ [Next]_vars => NudgeInv'
    BY NudgeStep
  <1> QED
    BY <1>1, <1>2, <1>3, PairAlways, PTL DEF Spec, NudgesNeverLost

\* What the owner keeps and what its pending calls and the store hold agree in
\* every state, whatever fails or restarts in between (fee_scheduler.rs).
THEOREM OwnerAgrees == Spec => []OwnerAndStoreAgree
  <1>1. /\ TypeOK /\ SeedBindingNeverInvalid /\ EveryResultIsAwaited /\ DeferredNeverStranded /\ DecidesOnce
        => OwnerAndStoreAgree
    BY DEF OwnerAndStoreAgree
  <1> QED
    BY TypeCorrect, SeedBindingValid, ResultsAwaited, DeferredHasACall, DecidedOnce, <1>1, PTL

-----------------------------------------------------------------------------
(***************************************************************************)
(* The fee decision: what the operators it is built from return, then the  *)
(* inductive invariant, action by action, and the three theorems.          *)
(***************************************************************************)
LEMMA MaxTwo ==
    ASSUME NEW a \in Int, NEW b \in Int
    PROVE  Max({a, b}) = IF a >= b THEN a ELSE b
  <1>1. \E x \in {a, b} : \A y \in {a, b} : x >= y OBVIOUS
  <1>2. Max({a, b}) \in {a, b} /\ \A y \in {a, b} : Max({a, b}) >= y
    BY <1>1 DEF Max
  <1> QED BY <1>2

LEMMA MinTwo ==
    ASSUME NEW a \in Int, NEW b \in Int
    PROVE  Min({a, b}) = IF a <= b THEN a ELSE b
  <1>1. \E x \in {a, b} : \A y \in {a, b} : x <= y OBVIOUS
  <1>2. Min({a, b}) \in {a, b} /\ \A y \in {a, b} : Min({a, b}) <= y
    BY <1>1 DEF Min
  <1> QED BY <1>2

LEMMA MinThree ==
    ASSUME NEW a \in Int, NEW b \in Int, NEW c \in Int
    PROVE  Min({a, b, c}) \in {a, b, c} /\ \A y \in {a, b, c} : Min({a, b, c}) <= y
  <1>1. \E x \in {a, b, c} : \A y \in {a, b, c} : x <= y OBVIOUS
  <1> QED BY <1>1 DEF Min

LEMMA ClampedIs ==
    ASSUME NEW x \in Int, NEW lo \in Int, NEW hi \in Int
    PROVE  Clamped(x, lo, hi) = IF hi <= lo THEN lo ELSE IF x <= lo THEN lo ELSE IF x <= hi THEN x ELSE hi
  <1>1. Min({hi, x}) = IF hi <= x THEN hi ELSE x BY MinTwo
  <1>2. Min({hi, x}) \in Int BY <1>1
  <1>3. Clamped(x, lo, hi) = IF lo >= Min({hi, x}) THEN lo ELSE Min({hi, x}) BY <1>2, MaxTwo DEF Clamped
  <1> QED BY <1>1, <1>3

LEMMA AbsMaxNat == AbsMaxFee \in Nat BY DEF AbsMaxFee

LEMMA DecidedFee ==
    ASSUME NEW f \in Int, NEW lo \in Nat, NEW hi \in Nat
    PROVE  /\ decide_set_channel_fee(f, {}, lo, hi) \in Nat
           /\ f >= 0 => decide_set_channel_fee(f, {}, lo, hi) <= f \/ decide_set_channel_fee(f, {}, lo, hi) <= lo
  <1> DEFINE c == Clamped(f, AbsMinFee, AbsMaxFee)
  <1>1. AbsMinFee = 0 /\ AbsMaxFee \in Nat BY AbsMaxNat DEF AbsMinFee
  <1>2. c \in Nat /\ (f >= 0 => c <= f)
    BY <1>1, ClampedIs
  <1> HIDE DEF c
  <1>3. Min({hi, c}) = IF hi <= c THEN hi ELSE c BY <1>2, MinTwo
  <1>4. Min({hi, c}) \in Nat BY <1>2, <1>3
  <1>5. Max({lo, Min({hi, c})}) = IF lo >= Min({hi, c}) THEN lo ELSE Min({hi, c}) BY <1>4, MaxTwo
  <1>6. decide_set_channel_fee(f, {}, lo, hi) = Max({lo, Min({hi, c})})
    BY DEF decide_set_channel_fee, c
  <1> QED BY <1>2, <1>3, <1>4, <1>5, <1>6

\* ceiling and half-even rounding of n / d.
LEMMA CeilIs ==
    ASSUME NEW n \in Int, NEW d \in Nat, d > 0
    PROVE  CeilOf(n, d) \in Int /\ (n >= 0 => CeilOf(n, d) >= 0)
  <1>1. (-n) \div d \in Int OBVIOUS
  <1>2. n >= 0 => (-n) \div d <= 0 OBVIOUS
  <1> QED BY <1>1, <1>2 DEF CeilOf

\* Rounding never crosses an integer.
LEMMA RoundIs ==
    ASSUME NEW n \in Int, NEW k \in Int
    PROVE  /\ RoundEven(n, 100) \in Int
           /\ n <= 100 * k => RoundEven(n, 100) <= k
           /\ n >= 100 * k => RoundEven(n, 100) >= k
  <1> DEFINE q == n \div 100  r == n % 100
  <1>1. q \in Int /\ r \in 0..99 /\ n = 100 * q + r OBVIOUS
  <1>2. RoundEven(n, 100) = IF 2 * r > 100 \/ (2 * r = 100 /\ q % 2 = 1) THEN q + 1 ELSE q
    BY DEF RoundEven
  <1>3. RoundEven(n, 100) \in {q, q + 1} /\ (r = 0 => RoundEven(n, 100) = q) BY <1>1, <1>2
  <1> HIDE DEF q, r
  <1> QED BY <1>1, <1>3

Ratios == {10, 15, 20, 30, 35, 45, 60}

LEMMA RatioIs ==
    ASSUME NEW woke \in BOOLEAN, NEW std \in Nat, NEW prof \in {"active", "conservative"}
    PROVE  target_blend_ratio(woke, std, prof) \in Ratios
  <1> DEFINE p == Profiles[prof]
             base == IF std >= 200 THEN p.sparseBlend ELSE IF std >= 100 THEN 30 ELSE IF std >= 50 THEN 45 ELSE 60
             A == IF prof # "active" THEN p.blend ELSE base
             B == IF woke THEN p.wakeBlend ELSE base
  <1>1. p.sparseBlend \in {20, 10} /\ p.blend \in {35, 20} /\ p.wakeBlend \in {15, 10}
    BY DEF Profiles
  <1>2. base \in Ratios /\ A \in Ratios /\ B \in Ratios BY <1>1 DEF Ratios
  <1>3. target_blend_ratio(woke, std, prof) = Min({base, A, B})
    <2>1. ({base} \cup (IF prof # "active" THEN {p.blend} ELSE {})
                     \cup (IF woke THEN {p.wakeBlend} ELSE {})) = {base, A, B}
      OBVIOUS
    <2> QED BY <2>1 DEF target_blend_ratio
  <1> HIDE DEF base, A, B
  <1>4. base \in Int /\ A \in Int /\ B \in Int BY <1>2 DEF Ratios
  <1>5. Min({base, A, B}) \in {base, A, B} BY <1>4, MinThree
  <1> QED BY <1>2, <1>3, <1>5

\* Rounding a ratio of a distance moves by at most the distance.
LEMMA ShareIs ==
    ASSUME NEW want \in Int, NEW ratio \in Ratios
    PROVE  /\ RoundEven(want * ratio, 100) \in Int
           /\ want >= 0 => RoundEven(want * ratio, 100) \in 0..want
           /\ want <= 0 => RoundEven(want * ratio, 100) \in want..0
  <1>1. want * ratio \in Int /\ (want >= 0 => want * ratio >= 100 * 0 /\ want * ratio <= 100 * want)
                             /\ (want <= 0 => want * ratio <= 100 * 0 /\ want * ratio >= 100 * want)
    BY DEF Ratios
  <1>2. /\ want * ratio <= 100 * want => RoundEven(want * ratio, 100) <= want
        /\ want * ratio >= 100 * want => RoundEven(want * ratio, 100) >= want
    BY <1>1, RoundIs
  <1>3. /\ RoundEven(want * ratio, 100) \in Int
        /\ want * ratio <= 100 * 0 => RoundEven(want * ratio, 100) <= 0
        /\ want * ratio >= 100 * 0 => RoundEven(want * ratio, 100) >= 0
    <2>1. 0 \in Int OBVIOUS
    <2> QED BY <1>1, <2>1, RoundIs
  <1> HIDE DEF Ratios
  <1> QED BY <1>1, <1>2, <1>3

LEMMA BlendIs ==
    ASSUME NEW current \in Int, NEW goal \in Int, NEW woke \in BOOLEAN, NEW std \in Nat,
           NEW prof \in {"active", "conservative"}
    PROVE  /\ blend_fee_target(current, goal, woke, std, prof) \in Int
           /\ BlendApproaches(current, goal, woke, std, prof)
  <1> DEFINE ratio == target_blend_ratio(woke, std, prof)
             want  == goal - current
             delta == RoundEven(want * ratio, 100)
             b     == blend_fee_target(current, goal, woke, std, prof)
  <1>1. ratio \in Ratios BY RatioIs
  <1>2. b = current + (IF want # 0 /\ delta = 0 THEN (IF want > 0 THEN 1 ELSE -1) ELSE delta)
    BY DEF blend_fee_target
  <1>3. /\ delta \in Int
        /\ want >= 0 => delta \in 0..want
        /\ want <= 0 => delta \in want..0
    <2>1. want \in Int OBVIOUS
    <2> HIDE DEF want, ratio
    <2> QED BY <1>1, <2>1, ShareIs
  <1>4. BlendApproaches(current, goal, woke, std, prof)
          <=> /\ current < goal => b \in (current + 1)..goal
              /\ current > goal => b \in goal..(current - 1)
              /\ current = goal => b = current
    BY DEF BlendApproaches
  <1> HIDE DEF delta
  <1>5. current < goal => b \in (current + 1)..goal BY <1>2, <1>3
  <1>6. current > goal => b \in goal..(current - 1) BY <1>2, <1>3
  <1>7. current = goal => b = current BY <1>2, <1>3
  <1>8. b \in Int BY <1>2, <1>3
  <1> QED BY <1>4, <1>5, <1>6, <1>7, <1>8

LEMMA StepCapIs ==
    ASSUME NEW current \in Int, NEW woke \in BOOLEAN, NEW prof \in {"active", "conservative"}
    PROVE  fee_step_cap(current, woke, prof) \in Nat /\ fee_step_cap(current, woke, prof) > 0
  <1> DEFINE p == Profiles[prof]
  <1>1. /\ p.ratio \in Nat /\ p.wakeRatio \in Nat
        /\ p.min \in Nat /\ p.wakeMin \in Nat /\ p.min > 0 /\ p.wakeMin > 0
    BY DEF Profiles
  <1> DEFINE least == IF woke THEN p.wakeMin ELSE p.min
             share == IF woke THEN p.wakeRatio ELSE p.ratio
             top   == Max({current, 1})
             step  == CeilOf(top * share, 100)
  <1>2. fee_step_cap(current, woke, prof) = Max({least, step}) BY DEF fee_step_cap
  <1>3. least \in Nat /\ least > 0 /\ share \in Nat BY <1>1
  <1>4. top \in Int BY MaxTwo
  <1> HIDE DEF least, share, top
  <1>5. top * share \in Int BY <1>3, <1>4
  <1>6. step \in Int BY <1>5, CeilIs
  <1> HIDE DEF step
  <1>7. Max({least, step}) = IF least >= step THEN least ELSE step BY <1>3, <1>6, MaxTwo
  <1> QED BY <1>2, <1>3, <1>6, <1>7

\* A damped fee lies between the fee and its target, no further than the step cap,
\* and moves unless it is there.
LEMMA DampedIs ==
    ASSUME NEW current \in Int, NEW target \in Int, NEW woke \in BOOLEAN,
           NEW prof \in {"active", "conservative"}, NEW d, d = apply_damped_fee_target(current, target, woke, prof)
    PROVE  /\ d \in Int
           /\ target >= current => d \in current..target /\ d - current <= fee_step_cap(current, woke, prof)
           /\ target <= current => d \in target..current /\ current - d <= fee_step_cap(current, woke, prof)
           /\ target # current => d # current
  <1> DEFINE cap == fee_step_cap(current, woke, prof)
  <1>1. cap \in Nat /\ cap > 0 BY StepCapIs
  <1>2. d = Clamped(target, current - cap, current + cap) BY DEF apply_damped_fee_target
  <1> HIDE DEF cap
  <1>3. current - cap \in Int /\ current + cap \in Int BY <1>1
  <1>4. d = IF current + cap <= current - cap THEN current - cap
            ELSE IF target <= current - cap THEN current - cap
            ELSE IF target <= current + cap THEN target ELSE current + cap
    BY <1>2, <1>3, ClampedIs
  <1>5. /\ d \in Int
        /\ target >= current => d \in current..target /\ d - current <= cap
        /\ target <= current => d \in target..current /\ current - d <= cap
        /\ target # current => d # current
    BY <1>1, <1>4
  <1> QED BY <1>5 DEF cap

LEMMA AgesAre == AgeCap \in Nat /\ AgeCap >= RefreshAge /\ AgeCap >= MinObservation
  BY MaxTwo, DecisionAssumption DEF AgeCap

LEMMA EpisodeCapIs ==
    ASSUME NEW e \in Nat
    PROVE  EpisodeCap(e) \in Nat /\ EpisodeCap(e) >= e
  <1>1. 4 * e \in Int /\ e + Headroom \in Int /\ Headroom \in Nat BY DecisionAssumption
  <1>2. Max({4 * e, e + Headroom}) = IF 4 * e >= e + Headroom THEN 4 * e ELSE e + Headroom
    BY <1>1, MaxTwo
  <1> QED BY <1>1, <1>2 DEF EpisodeCap

LEMMA ResyncIs ==
    ASSUME NEW tracked \in Nat, NEW actual \in Nat
    PROVE  /\ resync_broadcast_fee(tracked, actual) \in Nat
           /\ tracked = actual => resync_broadcast_fee(tracked, actual) = tracked
  BY DEF resync_broadcast_fee

LEMMA CurrentIs ==
    ASSUME DecisionTypeOK
    PROVE  Current \in Nat /\ (Current = chain \/ (chain = 0 /\ Current = MinFee))
  BY DecisionAssumption DEF DecisionTypeOK, Current

LEMMA ExplorationIs ==
    ASSUME NEW current \in Int, NEW floor \in Nat, NEW least \in Nat
    PROVE  exploration_fee_target(current, floor, least, TRUE) \in Nat
  <1> DEFINE base == Max({floor, least})
             room == IF TRUE THEN 50 ELSE 35
             left == 100 - (IF TRUE THEN 25 ELSE 50)
             cand == Max({CeilOf(base * 125, 100), base + RoundEven((current - base) * room, 100)})
             down == RoundEven(current * left, 100)
  <1>1. base \in Nat BY MaxTwo
  <1>8. room = 50 /\ left = 75 OBVIOUS
  <1> HIDE DEF base, room, left
  <1>2. CeilOf(base * 125, 100) \in Int BY <1>1, CeilIs
  <1>3. RoundEven((current - base) * room, 100) \in Int /\ down \in Int
    <2>1. (current - base) * room \in Int /\ current * left \in Int /\ 0 \in Int BY <1>1, <1>8
    <2> QED BY <2>1, RoundIs
  <1>4. cand \in Int
    <2>1. base + RoundEven((current - base) * room, 100) \in Int BY <1>1, <1>3
    <2> QED BY <1>2, <2>1, MaxTwo
  <1> HIDE DEF cand, down
  <1>5. Min({cand, down}) \in Int BY <1>3, <1>4, MinTwo
  <1>6. Max({base, Min({cand, down})}) = IF base >= Min({cand, down}) THEN base ELSE Min({cand, down})
    BY <1>1, <1>5, MaxTwo
  <1>7. PICK x : x = exploration_fee_target(current, floor, least, TRUE) OBVIOUS
  <1>9. x = IF current <= base THEN base ELSE Max({base, Min({cand, down})})
    BY <1>7 DEF exploration_fee_target, base, cand, down, room, left
  <1>10. x \in Nat BY <1>1, <1>5, <1>6, <1>9
  <1> QED BY <1>7, <1>10

-----------------------------------------------------------------------------
LEMMA TrippedIs ==
    ASSUME DecisionTypeOK, NEW c \in CycleState
    PROVE  /\ Tripped(c) \in CycleState
           /\ Tripped(c).entry \in Nat /\ Tripped(c).entry >= 1
           /\ Tripped(c).entry = (IF ~c.congested \/ c.entry <= 0 THEN Max({Current, 1}) ELSE c.entry)
           /\ Tripped(c).congested = TRUE /\ Tripped(c).quiet = 0
           /\ Tripped(c).bcast = c.bcast /\ Tripped(c).bcastAge = c.bcastAge
           /\ Tripped(c).refreshAge = c.refreshAge /\ Tripped(c).upd = c.upd
           /\ Tripped(c).sleeping = c.sleeping /\ Tripped(c).left = c.left
  <1>1. Current \in Nat BY CurrentIs
  <1>2. Max({Current, 1}) \in Nat /\ Max({Current, 1}) >= 1 BY <1>1, MaxTwo
  <1>3. PICK e : e = (IF ~c.congested \/ c.entry <= 0 THEN Max({Current, 1}) ELSE c.entry) OBVIOUS
  <1>4. c.entry \in Nat /\ 0 \in 0..QuietCycles BY DecisionAssumption DEF CycleState
  <1>5. e \in Nat /\ e >= 1 BY <1>2, <1>3, <1>4
  <1>6. Tripped(c) = [c EXCEPT !.quiet = 0, !.congested = TRUE, !.entry = e]
    BY <1>3 DEF Tripped, CycleState
  <1> QED BY <1>3, <1>4, <1>5, <1>6 DEF CycleState

\* What congestion asks for stays under the cap of the episode, unless it is no raise.
LEMMA CongestedFeeIs ==
    ASSUME DecisionTypeOK, NEW c \in CycleState, NEW woke \in BOOLEAN
    PROVE  /\ CongestedFee(c, woke, MaxFee) \in Nat
           /\ \/ CongestedFee(c, woke, MaxFee) <= Current
              \/ CongestedFee(c, woke, MaxFee) <= Floor
              \/ CongestedFee(c, woke, MaxFee) <= EpisodeCap(Tripped(c).entry)
  <1>1. PICK cur : cur = Current OBVIOUS
  <1>2. PICK e : e = Tripped(c).entry OBVIOUS
  <1>3. PICK ecap : ecap = EpisodeCap(e) OBVIOUS
  <1>4. cur \in Nat /\ e \in Nat /\ (~c.congested => e >= cur)
    <2>1. cur \in Nat BY <1>1, CurrentIs
    <2>2. Max({cur, 1}) >= cur BY <2>1, MaxTwo
    <2> QED BY <1>1, <1>2, <2>1, <2>2, TrippedIs
  <1>5. ecap \in Nat /\ ecap >= e BY <1>3, <1>4, EpisodeCapIs
  <1>6. MaxFee \in Nat /\ Floor \in Nat /\ Headroom \in Nat BY DecisionAssumption
  <1>7. PICK r : r = Max({2 * cur, cur + Headroom}) OBVIOUS
  <1>8. r \in Nat
    <2>1. 2 * cur \in Int /\ cur + Headroom \in Int BY <1>4, <1>6
    <2>2. r = IF 2 * cur >= cur + Headroom THEN 2 * cur ELSE cur + Headroom BY <1>7, <2>1, MaxTwo
    <2> QED BY <1>4, <1>6, <2>2
  <1>9. PICK m : m = Min({MaxFee, ecap, r}) OBVIOUS
  <1>10. m \in Nat /\ m <= ecap
    <2>2. MaxFee \in Int /\ ecap \in Int /\ r \in Int BY <1>5, <1>6, <1>8
    <2>3. /\ Min({MaxFee, ecap, r}) \in {MaxFee, ecap, r}
          /\ \A y \in {MaxFee, ecap, r} : Min({MaxFee, ecap, r}) <= y
      BY <2>2, MinThree
    <2>1. m \in {MaxFee, ecap, r} /\ \A y \in {MaxFee, ecap, r} : m <= y
      BY <1>9, <2>3
    <2> QED BY <1>5, <1>6, <1>8, <2>1
  <1>11. PICK cap : cap = Max({cur, m}) OBVIOUS
  <1>12. cap \in Nat /\ (cap = cur \/ cap <= ecap) /\ cap >= cur BY <1>4, <1>10, <1>11, MaxTwo
  <1>13. PICK half : half = Min({(3 * cur) \div 2, cap}) OBVIOUS
  <1>14. half \in Nat /\ half <= cap
    <2>1. (3 * cur) \div 2 \in Nat BY <1>4
    <2> QED BY <1>12, <1>13, <2>1, MinTwo
  <1>15. PICK floor : floor = Max({Floor, half}) OBVIOUS
  <1>16. floor \in Nat /\ (floor = Floor \/ floor <= cap) BY <1>6, <1>14, <1>15, MaxTwo
  <1>17. PICK top : top = (IF floor >= MaxFee THEN floor + 10 ELSE MaxFee) OBVIOUS
  <1>18. top \in Nat BY <1>6, <1>16, <1>17
  <1>19. PICK goal : goal = Max({floor, Min({top, cap})}) OBVIOUS
  <1>20. goal \in Nat /\ (goal <= Floor \/ goal <= cap)
    <2>1. PICK n : n = Min({top, cap}) OBVIOUS
    <2>2. n \in Nat /\ n <= cap BY <1>12, <1>18, <2>1, MinTwo
    <2>3. Max({floor, n}) = IF floor >= n THEN floor ELSE n BY <1>16, <2>2, MaxTwo
    <2> QED BY <1>6, <1>12, <1>16, <1>19, <2>1, <2>2, <2>3
  <1>21. PICK b : b = blend_fee_target(cur, goal, woke, 0, "active") OBVIOUS
  <1>22. PICK d : d = apply_damped_fee_target(cur, b, woke, "active") OBVIOUS
  <1>23. b \in Nat /\ (b <= cur \/ b <= goal)
    <2>1. b \in Int /\ BlendApproaches(cur, goal, woke, 0, "active")
      BY <1>4, <1>20, <1>21, BlendIs
    <2>2. /\ cur < goal => b \in (cur + 1)..goal
          /\ cur > goal => b \in goal..(cur - 1)
          /\ cur = goal => b = cur
      BY <1>21, <2>1 DEF BlendApproaches
    <2> QED BY <1>4, <1>20, <2>1, <2>2
  <1>24. d \in Nat /\ (d <= cur \/ d <= b)
    <2>1. /\ d \in Int
          /\ b >= cur => d \in cur..b
          /\ b <= cur => d \in b..cur
      BY <1>4, <1>22, <1>23, DampedIs
    <2> QED BY <1>4, <1>23, <2>1
  <1>25. PICK j : j = Max({Floor, Min({MaxFee, cap})}) OBVIOUS
  <1>26. j \in Nat /\ (j <= Floor \/ j <= cap)
    <2>1. Min({MaxFee, cap}) \in Nat /\ Min({MaxFee, cap}) <= cap BY <1>6, <1>12, MinTwo
    <2> QED BY <1>6, <1>25, <2>1, MaxTwo
  <1>27. CongestedFee(c, woke, MaxFee) = IF ~c.congested THEN j ELSE d
    BY <1>1, <1>2, <1>3, <1>7, <1>9, <1>11, <1>13, <1>15, <1>17, <1>19, <1>21, <1>22, <1>25
    DEF CongestedFee
  <1>28. PICK f : f = CongestedFee(c, woke, MaxFee) OBVIOUS
  <1>29. f = j \/ f = d BY <1>27, <1>28
  <1>30. f \in Nat /\ (f <= cur \/ f <= Floor \/ f <= ecap)
    BY <1>4, <1>5, <1>6, <1>12, <1>20, <1>23, <1>24, <1>26, <1>29
  <1> QED BY <1>1, <1>2, <1>3, <1>28, <1>30

-----------------------------------------------------------------------------
Twins(c, t) ==
    /\ c.sleeping = t.sleeping /\ c.left = t.left
    /\ c.upd = t.upd
    /\ c.bcast = t.bcast /\ c.bcastAge = t.bcastAge
    /\ c.refreshAge = t.refreshAge

\* The episode of two cycle records is the same.
SameEpisode(c, d) == d.congested = c.congested /\ d.entry = c.entry /\ d.quiet = c.quiet

LEMMA NudgedIs == ASSUME DecisionTypeOK PROVE NudgedFee \in Nat
  <1>1. PICK cur : cur = Current OBVIOUS
  <1>2. cur \in Nat BY <1>1, CurrentIs
  <1>3. cur + 1 \in Int /\ cur - 1 \in Int BY <1>2
  <1>4. MinFee \in Nat /\ MaxFee \in Nat BY DecisionAssumption
  <1>5. decide_set_channel_fee(cur + 1, {}, MinFee, MaxFee) \in Nat BY <1>3, <1>4, DecidedFee
  <1>6. decide_set_channel_fee(cur - 1, {}, MinFee, MaxFee) \in Nat BY <1>3, <1>4, DecidedFee
  <1> QED BY <1>1, <1>5, <1>6 DEF NudgedFee

LEMMA AwakeIs ==
    ASSUME NEW c \in CycleState
    PROVE  /\ Awake(c) \in CycleState /\ Awake(c).sleeping = FALSE /\ Awake(c).left = 0
           /\ Awake(c).upd = c.upd /\ Awake(c).bcast = c.bcast /\ Awake(c).bcastAge = c.bcastAge
           /\ Awake(c).refreshAge = c.refreshAge /\ SameEpisode(c, Awake(c))
           /\ Awake(c).state = c.state
  <1>1. 0 \in -1..SleepTicks BY DecisionAssumption
  <1> QED BY <1>1 DEF Awake, CycleState, SameEpisode

LEMMA AwakeTsIs ==
    ASSUME NEW t \in FeeState
    PROVE  /\ AwakeTs(t) \in FeeState /\ AwakeTs(t).sleeping = FALSE /\ AwakeTs(t).left = 0
           /\ AwakeTs(t).upd = t.upd /\ AwakeTs(t).bcast = t.bcast /\ AwakeTs(t).bcastAge = t.bcastAge
           /\ AwakeTs(t).refreshAge = t.refreshAge
  <1>1. 0 \in -1..SleepTicks /\ 0 \in 0..StableRequired BY DecisionAssumption
  <1> QED BY <1>1 DEF AwakeTs, FeeState

-----------------------------------------------------------------------------
\* What the end of a decision leaves, from the records c and t, the fee decided and
\* the history h.
Settled(c, rate, new, state, h) ==
    /\ chain' \in Nat /\ cyc' \in CycleState /\ ts' \in FeeState
    /\ Twins(cyc', ts') /\ SameEpisode(c, cyc')
    /\ hist' = h \/ hist' = [h EXCEPT !.ours = TRUE]
    /\ hist'.ours => cyc'.bcast = chain'
    /\ \/ chain' = chain
       \/ cyc'.state = "REFRESH" /\ RefreshDue(c, rate)
       \/ cyc'.state = state /\ (chain' <= new \/ chain' <= MinFee)

LEMMA Literals == 0 \in Age /\ 0 \in -1..SleepTicks /\ 0 \in 0..StableRequired /\ -1 \in Age
  BY AgesAre, DecisionAssumption DEF Age

LEMMA SettleIs ==
    ASSUME DecisionTypeOK, NEW in, in.rate \in Rates, NEW c \in CycleState, NEW t \in FeeState,
           Twins(c, t), NEW new \in Nat, NEW state \in States, NEW h \in History,
           h.ours => c.bcast = chain, Settle(in, c, t, new, state, h)
    PROVE  Settled(c, in.rate, new, state, h)
  <1>1. PICK held : held = [c EXCEPT !.pending = PendingTarget(new)] OBVIOUS
  <1>2. PICK fee_ : fee_ = decide_set_channel_fee(new, {}, MinFee, MaxFee) OBVIOUS
  <1>3. fee_ \in Nat /\ (fee_ <= new \/ fee_ <= MinFee) BY <1>2, DecidedFee, DecisionAssumption
  <1>4. chain \in Nat BY DEF DecisionTypeOK
  <1>5. held \in CycleState /\ SameEpisode(c, held) /\ Twins(held, t) /\ held.bcast = c.bcast
    <2>1. PendingTarget(new) \in Nat BY DEF PendingTarget
    <2> QED BY <1>1, <2>1 DEF CycleState, SameEpisode, Twins
  <1>6. h.ours \in BOOLEAN /\ [h EXCEPT !.ours = TRUE].ours = TRUE BY DEF History
  <1>7. \/ /\ RefreshDue(c, in.rate)
           /\ Refreshed(held, t)
           /\ hist' = [h EXCEPT !.ours = TRUE]
        \/ BothUpd(held, t, in.rate) /\ UNCHANGED chain /\ hist' = h
        \/ /\ new = chain
           /\ BothUpd([c EXCEPT !.pending = 0, !.bcast = new, !.state = state],
                      [t EXCEPT !.bcast = new], in.rate)
           /\ UNCHANGED chain /\ hist' = [h EXCEPT !.ours = TRUE]
        \/ /\ Applied(c, t, fee_, state, in.rate)
           /\ hist' = [h EXCEPT !.ours = TRUE]
        \/ Refused(c, t, fee_, in.rate) /\ hist' = h
    BY <1>1, <1>2 DEF Settle
  <1>8. CASE RefreshDue(c, in.rate) /\ Refreshed(held, t) /\ hist' = [h EXCEPT !.ours = TRUE]
    <2>1. NudgedFee \in Nat BY NudgedIs
    <2>2. PICK n : n = NudgedFee OBVIOUS
    <2>3. PICK a : a = Awake(held) OBVIOUS
    <2>4. PICK b : b = AwakeTs(t) OBVIOUS
    <2>5. /\ chain' = n
          /\ cyc' = [a EXCEPT !.refreshAge = 0, !.bcast = n, !.bcastAge = 0, !.upd = 0, !.state = "REFRESH"]
          /\ ts' = [b EXCEPT !.refreshAge = 0, !.bcast = n, !.bcastAge = 0, !.upd = 0]
      BY <1>8, <2>2, <2>3, <2>4 DEF Refreshed
    <2>6. a \in CycleState /\ a.sleeping = FALSE /\ a.left = 0 /\ SameEpisode(held, a)
      BY <1>5, <2>3, AwakeIs
    <2>7. b \in FeeState /\ b.sleeping = FALSE /\ b.left = 0 BY <2>4, AwakeTsIs
    <2>8. "REFRESH" \in States BY DEF States
    <2>9. /\ cyc' \in CycleState /\ cyc'.sleeping = a.sleeping /\ cyc'.left = a.left
          /\ cyc'.refreshAge = 0 /\ cyc'.bcast = n /\ cyc'.bcastAge = 0 /\ cyc'.upd = 0
          /\ cyc'.state = "REFRESH" /\ SameEpisode(a, cyc')
      BY <2>1, <2>2, <2>5, <2>6, <2>8, Literals DEF CycleState, SameEpisode
    <2>10. /\ ts' \in FeeState /\ ts'.sleeping = b.sleeping /\ ts'.left = b.left
           /\ ts'.refreshAge = 0 /\ ts'.bcast = n /\ ts'.bcastAge = 0 /\ ts'.upd = 0
      BY <2>1, <2>2, <2>5, <2>7, Literals DEF FeeState
    <2>11. SameEpisode(c, cyc') BY <1>5, <2>6, <2>9 DEF SameEpisode
    <2>12. Twins(cyc', ts') BY <2>6, <2>7, <2>9, <2>10 DEF Twins
    <2> QED BY <1>8, <2>1, <2>2, <2>5, <2>9, <2>10, <2>11, <2>12 DEF Settled
  <1>9. CASE BothUpd(held, t, in.rate) /\ UNCHANGED chain /\ hist' = h
    <2>1. /\ cyc' = [held EXCEPT !.upd = 0]
          /\ ts' = [t EXCEPT !.upd = 0, !.rate = in.rate]
      BY <1>9 DEF BothUpd
    <2>2. /\ cyc' \in CycleState /\ SameEpisode(held, cyc') /\ cyc'.bcast = held.bcast
          /\ cyc'.sleeping = held.sleeping /\ cyc'.left = held.left /\ cyc'.upd = 0
          /\ cyc'.bcastAge = held.bcastAge /\ cyc'.refreshAge = held.refreshAge
      BY <1>5, <2>1, Literals DEF CycleState, SameEpisode
    <2>3. /\ ts' \in FeeState /\ ts'.bcast = t.bcast
          /\ ts'.sleeping = t.sleeping /\ ts'.left = t.left /\ ts'.upd = 0
          /\ ts'.bcastAge = t.bcastAge /\ ts'.refreshAge = t.refreshAge
      BY <2>1, Literals DEF FeeState
    <2>4. SameEpisode(c, cyc') BY <1>5, <2>2 DEF SameEpisode
    <2>5. Twins(cyc', ts') BY <1>5, <2>2, <2>3 DEF Twins
    <2> QED BY <1>4, <1>5, <1>9, <2>2, <2>3, <2>4, <2>5 DEF Settled
  <1>10. CASE /\ new = chain
              /\ BothUpd([c EXCEPT !.pending = 0, !.bcast = new, !.state = state],
                         [t EXCEPT !.bcast = new], in.rate)
              /\ UNCHANGED chain /\ hist' = [h EXCEPT !.ours = TRUE]
    <2>1. /\ cyc' = [[c EXCEPT !.pending = 0, !.bcast = new, !.state = state] EXCEPT !.upd = 0]
          /\ ts' = [[t EXCEPT !.bcast = new] EXCEPT !.upd = 0, !.rate = in.rate]
      BY <1>10 DEF BothUpd
    <2>2. /\ cyc' \in CycleState /\ SameEpisode(c, cyc') /\ cyc'.bcast = new
          /\ cyc'.sleeping = c.sleeping /\ cyc'.left = c.left /\ cyc'.upd = 0
          /\ cyc'.bcastAge = c.bcastAge /\ cyc'.refreshAge = c.refreshAge
      BY <2>1, Literals DEF CycleState, SameEpisode
    <2>3. /\ ts' \in FeeState /\ ts'.bcast = new
          /\ ts'.sleeping = t.sleeping /\ ts'.left = t.left /\ ts'.upd = 0
          /\ ts'.bcastAge = t.bcastAge /\ ts'.refreshAge = t.refreshAge
      BY <2>1, Literals DEF FeeState
    <2>4. Twins(cyc', ts') BY <2>2, <2>3 DEF Twins
    <2> QED BY <1>4, <1>10, <2>2, <2>3, <2>4 DEF Settled
  <1>11. CASE Applied(c, t, fee_, state, in.rate) /\ hist' = [h EXCEPT !.ours = TRUE]
    <2>1. PICK woken \in BOOLEAN : woken = (state \in {"EXPLORATION", "EXPLORATION_SUCCESS"})
      <3>1. (state \in {"EXPLORATION", "EXPLORATION_SUCCESS"}) \in BOOLEAN OBVIOUS
      <3> QED BY <3>1, Zenon
    <2>2. /\ chain' = fee_
          /\ cyc' = [c EXCEPT !.upd = 0, !.bcast = fee_, !.bcastAge = 0, !.pending = 0, !.state = state,
                        !.sleeping = IF woken THEN FALSE ELSE @,
                        !.left = IF woken THEN 0 ELSE @]
          /\ ts' = [t EXCEPT !.upd = 0, !.bcast = fee_, !.bcastAge = 0, !.rate = in.rate,
                       !.stable = IF woken THEN 0 ELSE @,
                       !.sleeping = IF woken THEN FALSE ELSE @,
                       !.left = IF woken THEN 0 ELSE @]
      BY <1>11, <2>1 DEF Applied
    <2>3. /\ cyc' \in CycleState /\ SameEpisode(c, cyc') /\ cyc'.bcast = fee_ /\ cyc'.state = state
          /\ cyc'.sleeping = (IF woken THEN FALSE ELSE c.sleeping)
          /\ cyc'.left = (IF woken THEN 0 ELSE c.left)
          /\ cyc'.upd = 0 /\ cyc'.bcastAge = 0 /\ cyc'.refreshAge = c.refreshAge
      BY <1>3, <2>2, Literals DEF CycleState, SameEpisode
    <2>4. /\ ts' \in FeeState /\ ts'.bcast = fee_
          /\ ts'.sleeping = (IF woken THEN FALSE ELSE t.sleeping)
          /\ ts'.left = (IF woken THEN 0 ELSE t.left)
          /\ ts'.upd = 0 /\ ts'.bcastAge = 0 /\ ts'.refreshAge = t.refreshAge
      BY <1>3, <2>2, Literals DEF FeeState
    <2>5. Twins(cyc', ts') BY <2>3, <2>4 DEF Twins
    <2> QED BY <1>3, <1>11, <2>2, <2>3, <2>4, <2>5 DEF Settled
  <1>12. CASE Refused(c, t, fee_, in.rate) /\ hist' = h
    <2>1. /\ cyc' = [c EXCEPT !.upd = 0]
          /\ ts' = [t EXCEPT !.upd = 0, !.rate = in.rate] /\ chain' = chain
      BY <1>12 DEF Refused, BothUpd
    <2>2. /\ cyc' \in CycleState /\ SameEpisode(c, cyc') /\ cyc'.bcast = c.bcast
          /\ cyc'.sleeping = c.sleeping /\ cyc'.left = c.left /\ cyc'.upd = 0
          /\ cyc'.bcastAge = c.bcastAge /\ cyc'.refreshAge = c.refreshAge
      BY <2>1, Literals DEF CycleState, SameEpisode
    <2>3. /\ ts' \in FeeState /\ ts'.bcast = t.bcast
          /\ ts'.sleeping = t.sleeping /\ ts'.left = t.left /\ ts'.upd = 0
          /\ ts'.bcastAge = t.bcastAge /\ ts'.refreshAge = t.refreshAge
      BY <2>1, Literals DEF FeeState
    <2>4. Twins(cyc', ts') BY <2>2, <2>3 DEF Twins
    <2> QED BY <1>4, <1>12, <2>1, <2>2, <2>3, <2>4 DEF Settled
  <1> QED BY <1>7, <1>8, <1>9, <1>10, <1>11, <1>12

-----------------------------------------------------------------------------
\* The record's episode is the one the history has seen.
EpisodeOf(c, h) ==
    IF h.quiet < QuietCycles
    THEN c.congested /\ c.quiet = h.quiet /\ c.entry = h.base /\ h.base >= 1
    ELSE ~c.congested

WakesOnce == hist.wakes <= 1 /\ (armed => hist.wakes = 0)

DecisionInv ==
    /\ DecisionTypeOK
    /\ Twins(cyc, ts)
    /\ hist.ours => cyc.bcast = chain
    /\ WakesOnce
    /\ EpisodeOf(cyc, hist)

\* What a step may not do.
RaiseBounded ==
    (hist'.ours /\ cyc'.state = "CONGESTION" /\ chain' > chain) =>
        chain' <= Max({Floor, EpisodeCap(hist'.base)})
RefreshDueBefore ==
    (hist'.ours /\ cyc'.state = "REFRESH" /\ chain' # chain) =>
        /\ cyc.bcastAge >= RefreshAge
        /\ cyc.refreshAge \in {Never} \cup RefreshAge..AgeCap
Kept == DecisionInv' /\ RaiseBounded /\ RefreshDueBefore

\* What resynchronising and waking do not touch.
SameRecord(c, d) ==
    /\ SameEpisode(c, d) /\ d.upd = c.upd
    /\ d.bcastAge = c.bcastAge /\ d.refreshAge = c.refreshAge

LEMMA SyncedIs ==
    ASSUME DecisionInv
    PROVE  /\ CycSynced \in CycleState /\ TsSynced \in FeeState
           /\ Twins(CycSynced, TsSynced) /\ SameRecord(cyc, CycSynced)
           /\ hist.ours => CycSynced.bcast = chain
  <1>1. cyc \in CycleState /\ ts \in FeeState /\ chain \in Nat /\ cyc.bcast \in Nat /\ cyc.bcast = ts.bcast
    BY DEF DecisionInv, DecisionTypeOK, CycleState, Twins
  <1>2. PICK r : r = resync_broadcast_fee(cyc.bcast, chain) OBVIOUS
  <1>3. r \in Nat /\ (cyc.bcast = chain => r = chain) BY <1>1, <1>2, ResyncIs
  <1>4. CycSynced = [cyc EXCEPT !.bcast = r] /\ TsSynced = [ts EXCEPT !.bcast = r]
    BY <1>1, <1>2 DEF CycSynced, TsSynced
  <1>5. CycSynced \in CycleState /\ CycSynced.bcast = r /\ SameRecord(cyc, CycSynced)
        /\ CycSynced.sleeping = cyc.sleeping /\ CycSynced.left = cyc.left
    BY <1>1, <1>3, <1>4 DEF CycleState, SameRecord, SameEpisode
  <1>6. /\ TsSynced \in FeeState /\ TsSynced.bcast = r /\ TsSynced.sleeping = ts.sleeping
        /\ TsSynced.left = ts.left /\ TsSynced.upd = ts.upd
        /\ TsSynced.bcastAge = ts.bcastAge /\ TsSynced.refreshAge = ts.refreshAge
    BY <1>1, <1>3, <1>4 DEF FeeState
  <1>7. Twins(CycSynced, TsSynced)
    BY <1>5, <1>6 DEF Twins, DecisionInv, SameRecord
  <1> QED BY <1>3, <1>5, <1>6, <1>7 DEF DecisionInv

LEMMA WokenIs ==
    ASSUME DecisionInv
    PROVE  /\ WokenCyc \in CycleState /\ WokenTs \in FeeState
           /\ Twins(WokenCyc, WokenTs) /\ SameRecord(cyc, WokenCyc)
           /\ hist.ours => WokenCyc.bcast = chain
  <1>1. PICK c : c = CycSynced OBVIOUS
  <1>2. PICK t : t = TsSynced OBVIOUS
  <1>3. /\ c \in CycleState /\ t \in FeeState /\ Twins(c, t) /\ SameRecord(cyc, c)
        /\ hist.ours => c.bcast = chain
    BY <1>1, <1>2, SyncedIs
  <1>4. CASE ts.sleeping
    <2>1. WokenCyc = Awake(c) /\ WokenTs = AwakeTs(t) BY <1>1, <1>2, <1>4 DEF WokenCyc, WokenTs
    <2>2. /\ Awake(c) \in CycleState /\ Awake(c).sleeping = FALSE /\ Awake(c).left = 0
          /\ Awake(c).bcast = c.bcast /\ SameRecord(c, Awake(c))
      BY <1>3, AwakeIs DEF SameRecord
    <2>3. /\ AwakeTs(t) \in FeeState /\ AwakeTs(t).sleeping = FALSE /\ AwakeTs(t).left = 0
          /\ AwakeTs(t).upd = t.upd /\ AwakeTs(t).bcast = t.bcast /\ AwakeTs(t).bcastAge = t.bcastAge
          /\ AwakeTs(t).refreshAge = t.refreshAge
      BY <1>3, AwakeTsIs
    <2>4. Twins(Awake(c), AwakeTs(t)) BY <1>3, <2>2, <2>3 DEF Twins, SameRecord
    <2>5. SameRecord(cyc, Awake(c)) BY <1>3, <2>2 DEF SameRecord, SameEpisode
    <2> QED BY <1>3, <2>1, <2>2, <2>3, <2>4, <2>5
  <1>5. CASE ~ts.sleeping
    <2>1. WokenCyc = c /\ WokenTs = t BY <1>1, <1>2, <1>5 DEF WokenCyc, WokenTs
    <2> QED BY <1>3, <2>1
  <1> QED BY <1>4, <1>5

LEMMA HistoryIs ==
    ASSUME DecisionInv
    PROVE  /\ HistQuiet \in History /\ HistQuiet.wakes = hist.wakes /\ HistQuiet.ours = hist.ours
           /\ MayCongest =>
                /\ HistCongested \in History /\ HistCongested.wakes = hist.wakes
                /\ HistCongested.ours = hist.ours
  <1>1. hist \in History /\ hist.quiet \in 0..QuietCycles /\ hist.trips \in 0..MaxEpisodes
    BY DEF DecisionInv, DecisionTypeOK, History
  <1>2. QuietCycles \in Nat \ {0} /\ MaxEpisodes \in Nat BY DecisionAssumption
  <1>3. PICK q : q = Min({hist.quiet + 1, QuietCycles}) OBVIOUS
  <1>4. q \in 0..QuietCycles BY <1>1, <1>2, <1>3, MinTwo
  <1>5. HistQuiet = [hist EXCEPT !.quiet = q] BY <1>1, <1>3 DEF HistQuiet, History
  <1>6. HistQuiet \in History /\ HistQuiet.wakes = hist.wakes /\ HistQuiet.ours = hist.ours
    BY <1>1, <1>4, <1>5 DEF History
  <1>7. ASSUME MayCongest
        PROVE  /\ HistCongested \in History /\ HistCongested.wakes = hist.wakes
               /\ HistCongested.ours = hist.ours
    <2>1. PICK m : m = Max({Current, 1}) OBVIOUS
    <2>2. m \in Nat BY <2>1, CurrentIs, MaxTwo DEF DecisionInv
    <2>3. PICK b : b = (IF hist.quiet >= QuietCycles THEN m ELSE hist.base) OBVIOUS
    <2>4. PICK n : n = (IF hist.quiet >= QuietCycles THEN hist.trips + 1 ELSE hist.trips) OBVIOUS
    <2>5. b \in Nat BY <1>1, <2>2, <2>3 DEF History
    <2>6. n \in 0..MaxEpisodes BY <1>1, <1>2, <1>7, <2>4 DEF MayCongest
    <2>7. HistCongested = [hist EXCEPT !.base = b, !.trips = n, !.quiet = 0]
      BY <1>1, <2>1, <2>3, <2>4 DEF HistCongested, History
    <2>8. 0 \in 0..QuietCycles BY <1>2
    <2> QED BY <1>1, <2>5, <2>6, <2>7, <2>8 DEF History
  <1> QED BY <1>6, <1>7

\* An evaluated cycle without congestion, and one with it, in the record and in the
\* history.
LEMMA QuieterIs ==
    ASSUME DecisionInv, NEW c \in CycleState, SameRecord(cyc, c)
    PROVE  /\ Quieter(c) \in CycleState /\ EpisodeOf(Quieter(c), HistQuiet)
           /\ Quieter(c).sleeping = c.sleeping /\ Quieter(c).left = c.left /\ Quieter(c).upd = c.upd
           /\ Quieter(c).bcast = c.bcast /\ Quieter(c).bcastAge = c.bcastAge
           /\ Quieter(c).refreshAge = c.refreshAge /\ Quieter(c).state = c.state
  <1>1. /\ hist \in History /\ hist.quiet \in 0..QuietCycles /\ hist.base \in Nat
        /\ QuietCycles \in Nat \ {0}
    BY DecisionAssumption DEF DecisionInv, DecisionTypeOK, History
  <1>2. IF hist.quiet < QuietCycles
        THEN c.congested /\ c.quiet = hist.quiet /\ c.entry = hist.base /\ hist.base >= 1
        ELSE ~c.congested
    BY DEF DecisionInv, EpisodeOf, SameRecord, SameEpisode
  <1>3. PICK q : q = Min({hist.quiet + 1, QuietCycles}) OBVIOUS
  <1>4. q = IF hist.quiet + 1 <= QuietCycles THEN hist.quiet + 1 ELSE QuietCycles
    BY <1>1, <1>3, MinTwo
  <1>5. HistQuiet.quiet = q /\ HistQuiet.base = hist.base
    BY <1>1, <1>3 DEF HistQuiet, History
  <1>6. CASE ~c.congested
    <2>1. Quieter(c) = c BY <1>6 DEF Quieter
    <2>2. ~(q < QuietCycles) BY <1>1, <1>2, <1>4, <1>6
    <2> QED BY <1>5, <1>6, <2>1, <2>2 DEF EpisodeOf
  <1>7. CASE c.congested /\ c.quiet + 1 >= QuietCycles
    <2>1. Quieter(c) = [c EXCEPT !.congested = FALSE, !.entry = 0, !.quiet = 0]
      BY <1>7 DEF Quieter
    <2>2. ~(q < QuietCycles) BY <1>1, <1>2, <1>4, <1>7
    <2>3. 0 \in 0..QuietCycles BY <1>1
    <2>4. PICK d : d = [c EXCEPT !.congested = FALSE, !.entry = 0, !.quiet = 0] OBVIOUS
    <2>5. d \in CycleState BY <2>3, <2>4 DEF CycleState
    <2>6. /\ ~d.congested
          /\ d.sleeping = c.sleeping /\ d.left = c.left /\ d.upd = c.upd
          /\ d.bcast = c.bcast /\ d.bcastAge = c.bcastAge
          /\ d.refreshAge = c.refreshAge /\ d.state = c.state
      BY <2>4 DEF CycleState
    <2> QED BY <1>5, <2>1, <2>2, <2>4, <2>5, <2>6 DEF EpisodeOf
  <1>8. CASE c.congested /\ ~(c.quiet + 1 >= QuietCycles)
    <2>1. PICK k : k = c.quiet + 1 OBVIOUS
    <2>2. Quieter(c) = [c EXCEPT !.quiet = k] BY <1>8, <2>1 DEF Quieter, CycleState
    <2>3. hist.quiet < QuietCycles BY <1>2, <1>8
    <2>4. k = q /\ q < QuietCycles /\ k \in 0..QuietCycles BY <1>1, <1>2, <1>4, <1>8, <2>1, <2>3
    <2>5. /\ Quieter(c) \in CycleState /\ Quieter(c).congested = c.congested
          /\ Quieter(c).quiet = k /\ Quieter(c).entry = c.entry
          /\ Quieter(c).sleeping = c.sleeping /\ Quieter(c).left = c.left /\ Quieter(c).upd = c.upd
          /\ Quieter(c).bcast = c.bcast /\ Quieter(c).bcastAge = c.bcastAge
          /\ Quieter(c).refreshAge = c.refreshAge /\ Quieter(c).state = c.state
      BY <2>2, <2>4 DEF CycleState
    <2> QED BY <1>2, <1>5, <1>8, <2>3, <2>4, <2>5 DEF EpisodeOf
  <1> QED BY <1>6, <1>7, <1>8

LEMMA TrippedEpisode ==
    ASSUME DecisionInv, NEW c \in CycleState, SameRecord(cyc, c)
    PROVE  /\ EpisodeOf(Tripped(c), HistCongested)
           /\ HistCongested.base = Tripped(c).entry
  <1>1. /\ hist \in History /\ hist.quiet \in 0..QuietCycles /\ hist.base \in Nat
        /\ QuietCycles \in Nat \ {0}
    BY DecisionAssumption DEF DecisionInv, DecisionTypeOK, History
  <1>2. IF hist.quiet < QuietCycles
        THEN c.congested /\ c.quiet = hist.quiet /\ c.entry = hist.base /\ hist.base >= 1
        ELSE ~c.congested
    BY DEF DecisionInv, EpisodeOf, SameRecord, SameEpisode
  <1>3. PICK m : m = Max({Current, 1}) OBVIOUS
  <1>4. /\ Tripped(c).entry \in Nat /\ Tripped(c).entry >= 1
        /\ Tripped(c).entry = (IF ~c.congested \/ c.entry <= 0 THEN m ELSE c.entry)
        /\ Tripped(c).congested = TRUE /\ Tripped(c).quiet = 0
    BY <1>3, TrippedIs DEF DecisionInv
  <1>5. /\ HistCongested.base = (IF hist.quiet >= QuietCycles THEN m ELSE hist.base)
        /\ HistCongested.quiet = 0
    BY <1>1, <1>3 DEF HistCongested, History
  <1>6. HistCongested.base = Tripped(c).entry
    <2>1. CASE hist.quiet < QuietCycles BY <1>1, <1>2, <1>4, <1>5, <2>1
    <2>2. CASE ~(hist.quiet < QuietCycles) BY <1>1, <1>2, <1>4, <1>5, <2>2
    <2> QED BY <2>1, <2>2
  <1>7. 0 < QuietCycles BY <1>1
  <1> QED BY <1>4, <1>5, <1>6, <1>7 DEF EpisodeOf

LEMMA SettledKeeps ==
    ASSUME DecisionInv, NEW c \in CycleState, NEW rate, NEW new \in Nat, NEW state \in States,
           NEW h \in History, EpisodeOf(c, h), h.wakes = hist.wakes,
           c.bcastAge = cyc.bcastAge, c.refreshAge = cyc.refreshAge, state # "REFRESH",
           state = "CONGESTION" => new <= Current \/ new <= Floor \/ new <= EpisodeCap(h.base),
           Settled(c, rate, new, state, h), UNCHANGED <<policy, armed>>, explore' \in BOOLEAN
    PROVE  Kept
  <1>1. h.base \in Nat /\ h.wakes \in Nat BY DEF History
  <1>2. /\ hist' \in History /\ hist'.base = h.base /\ hist'.wakes = h.wakes /\ hist'.quiet = h.quiet
    <2>1. CASE hist' = h BY <2>1
    <2>2. CASE hist' = [h EXCEPT !.ours = TRUE] BY <2>2 DEF History
    <2> QED BY <2>1, <2>2 DEF Settled
  <1>3. DecisionInv'
    <2>1. DecisionTypeOK' BY <1>2 DEF DecisionTypeOK, DecisionInv, Settled
    <2>2. WakesOnce' BY <1>2 DEF DecisionInv, WakesOnce
    <2>3. EpisodeOf(cyc', hist') BY <1>2 DEF Settled, EpisodeOf, SameEpisode
    <2> QED BY <2>1, <2>2, <2>3 DEF DecisionInv, Settled
  <1>4. RaiseBounded
    <2> SUFFICES ASSUME cyc'.state = "CONGESTION", chain' > chain
                 PROVE  chain' <= Max({Floor, EpisodeCap(hist'.base)})
      BY DEF RaiseBounded
    <2>1. chain \in Nat /\ chain' \in Nat BY <1>3 DEF DecisionInv, DecisionTypeOK
    <2>2. state = "CONGESTION" /\ (chain' <= new \/ chain' <= MinFee)
      BY <2>1 DEF Settled
    <2>3. PICK e : e = EpisodeCap(h.base) OBVIOUS
    <2>4. e \in Nat BY <1>1, <2>3, EpisodeCapIs
    <2>5. PICK cur : cur = Current OBVIOUS
    <2>6. cur \in Nat /\ (cur = chain \/ cur = MinFee) BY <2>5, CurrentIs DEF DecisionInv
    <2>7. new <= cur \/ new <= Floor \/ new <= e BY <2>2, <2>3, <2>5
    <2>8. MinFee \in Nat /\ Floor \in Nat /\ MinFee <= Floor BY DecisionAssumption
    <2>9. chain' <= Floor \/ chain' <= e BY <2>1, <2>2, <2>4, <2>6, <2>7, <2>8
    <2>10. PICK m : m = Max({Floor, e}) OBVIOUS
    <2>11. m = IF Floor >= e THEN Floor ELSE e BY <2>4, <2>8, <2>10, MaxTwo
    <2>12. chain' <= m BY <2>1, <2>4, <2>8, <2>9, <2>11
    <2> QED BY <1>2, <2>3, <2>10, <2>12
  <1>5. RefreshDueBefore
    <2> SUFFICES ASSUME cyc'.state = "REFRESH", chain' # chain
                 PROVE  /\ cyc.bcastAge >= RefreshAge
                        /\ cyc.refreshAge \in {Never} \cup RefreshAge..AgeCap
      BY DEF RefreshDueBefore
    <2>1. RefreshDue(c, rate) BY DEF Settled
    <2>2. /\ cyc.bcastAge >= RefreshAge
          /\ cyc.refreshAge = Never \/ cyc.refreshAge >= RefreshAge
      BY <2>1 DEF RefreshDue
    <2>3. cyc.refreshAge \in -1..AgeCap BY DEF DecisionInv, DecisionTypeOK, CycleState, Age
    <2>4. AgeCap \in Nat /\ RefreshAge \in Nat BY AgesAre, DecisionAssumption
    <2> QED BY <2>2, <2>3, <2>4 DEF Never
  <1> QED BY <1>3, <1>4, <1>5 DEF Kept

-----------------------------------------------------------------------------
LEMMA InputIs ==
    ASSUME DecisionInv, NEW in \in Inputs
    PROVE  in.rate \in Rates /\ in.target \in Nat /\ (in.congested => MayCongest)
  <1>1. RatesSeen \subseteq Rates BY DEF RatesSeen, DecisionInv, DecisionTypeOK, FeeState
  <1>2. /\ in.rate \in RatesSeen /\ in.target \in Targets
        /\ in.congested \in { b \in Disturbed("congestion") : b => MayCongest }
    BY DEF Inputs
  <1>3. Targets \subseteq Nat BY DecisionAssumption
  <1>4. in.congested => MayCongest BY <1>2, Zenon
  <1> QED BY <1>1, <1>2, <1>3, <1>4

\* The records the decision proper begins with.
LEMMA BeginsWith ==
    ASSUME DecisionInv, NEW c, c = WokenCyc
    PROVE  /\ c \in CycleState /\ SameRecord(cyc, c)
           /\ c.bcastAge = cyc.bcastAge /\ c.refreshAge = cyc.refreshAge
           /\ hist.ours => c.bcast = chain
  BY WokenIs DEF SameRecord

LEMMA CongestedKeeps ==
    ASSUME DecisionInv, NEW in \in Inputs, Congested(in)
    PROVE  Kept
  <1>1. PICK c \in {WokenCyc}, t \in {WokenTs} :
           \E new \in {CongestedFee(c, ts.sleeping, MaxFee)}, tripped \in {Tripped(c)} :
              Settle(in, tripped, t, new, "CONGESTION", HistCongested)
    BY DEF Congested
  <1>2. PICK new \in {CongestedFee(c, ts.sleeping, MaxFee)}, tripped \in {Tripped(c)} :
           Settle(in, tripped, t, new, "CONGESTION", HistCongested)
    BY <1>1
  <1>3. /\ c \in CycleState /\ SameRecord(cyc, c) /\ c.bcastAge = cyc.bcastAge
        /\ c.refreshAge = cyc.refreshAge /\ (hist.ours => c.bcast = chain)
    BY BeginsWith
  <1>4. t \in FeeState /\ Twins(c, t) BY WokenIs
  <1>5. ts.sleeping \in BOOLEAN BY DEF DecisionInv, DecisionTypeOK, FeeState
  <1>6. new \in Nat /\ (new <= Current \/ new <= Floor \/ new <= EpisodeCap(tripped.entry))
    BY <1>3, <1>5, CongestedFeeIs DEF DecisionInv
  <1>7. /\ tripped \in CycleState /\ tripped.bcast = c.bcast /\ tripped.bcastAge = c.bcastAge
        /\ tripped.refreshAge = c.refreshAge /\ tripped.upd = c.upd
        /\ tripped.sleeping = c.sleeping /\ tripped.left = c.left
    BY <1>3, TrippedIs DEF DecisionInv
  <1>8. Twins(tripped, t) BY <1>4, <1>7 DEF Twins
  <1>9. EpisodeOf(tripped, HistCongested) /\ HistCongested.base = tripped.entry
    BY <1>3, TrippedEpisode
  <1>10. PICK h : h = HistCongested OBVIOUS
  <1>11. h \in History /\ h.wakes = hist.wakes /\ h.ours = hist.ours
    BY <1>10, HistoryIs, InputIs DEF Congested
  <1>12. in.rate \in Rates BY InputIs
  <1>13. "CONGESTION" \in States BY DEF States
  <1>14. Settled(tripped, in.rate, new, "CONGESTION", h)
    BY <1>2, <1>3, <1>4, <1>6, <1>7, <1>8, <1>10, <1>11, <1>12, <1>13, SettleIs DEF DecisionInv
  <1>15. UNCHANGED <<policy, armed>> /\ explore' \in BOOLEAN
    BY DEF Congested, DecisionInv, DecisionTypeOK
  <1>16. "CONGESTION" # "REFRESH" OBVIOUS
  <1> QED BY <1>3, <1>6, <1>7, <1>9, <1>10, <1>11, <1>13, <1>14, <1>15, <1>16, SettledKeeps

LEMMA ExploringKeeps ==
    ASSUME DecisionInv, NEW in \in Inputs, Exploring(in)
    PROVE  Kept
  <1>1. PICK from : from = (IF in.rate > 0 THEN Max({Current, Floor}) ELSE Current) OBVIOUS
  <1>2. PICK state : state = (IF in.rate > 0 THEN "EXPLORATION_SUCCESS" ELSE "EXPLORATION") OBVIOUS
  <1>3. PICK c \in {Quieter(WokenCyc)}, t \in {WokenTs} :
           \E new \in {exploration_fee_target(from, Floor, MinFee, TRUE)} :
              Settle(in, c, t, new, state, HistQuiet)
    BY <1>1, <1>2 DEF Exploring
  <1>4. PICK new \in {exploration_fee_target(from, Floor, MinFee, TRUE)} :
           Settle(in, c, t, new, state, HistQuiet)
    BY <1>3
  <1>5. from \in Int
    <2>1. Current \in Int /\ Floor \in Int BY CurrentIs, DecisionAssumption DEF DecisionInv
    <2> QED BY <1>1, <2>1, MaxTwo
  <1>6. new \in Nat BY <1>5, ExplorationIs, DecisionAssumption
  <1>7. PICK w : w = WokenCyc OBVIOUS
  <1>8. /\ w \in CycleState /\ SameRecord(cyc, w) /\ w.bcastAge = cyc.bcastAge
        /\ w.refreshAge = cyc.refreshAge /\ (hist.ours => w.bcast = chain)
    BY <1>7, BeginsWith
  <1>9. t \in FeeState /\ Twins(w, t) BY <1>7, WokenIs
  <1>10. /\ c \in CycleState /\ EpisodeOf(c, HistQuiet)
         /\ c.sleeping = w.sleeping /\ c.left = w.left /\ c.upd = w.upd
         /\ c.bcast = w.bcast /\ c.bcastAge = w.bcastAge /\ c.refreshAge = w.refreshAge
    BY <1>7, <1>8, QuieterIs
  <1>11. Twins(c, t) BY <1>9, <1>10 DEF Twins
  <1>12. PICK h : h = HistQuiet OBVIOUS
  <1>13. h \in History /\ h.wakes = hist.wakes /\ h.ours = hist.ours BY <1>12, HistoryIs
  <1>14. in.rate \in Rates BY InputIs
  <1>15. state \in States /\ state # "CONGESTION" /\ state # "REFRESH" BY <1>2 DEF States
  <1>16. Settled(c, in.rate, new, state, h)
    BY <1>4, <1>6, <1>8, <1>9, <1>10, <1>11, <1>12, <1>13, <1>14, <1>15, SettleIs DEF DecisionInv
  <1>17. UNCHANGED <<policy, armed>> /\ explore' \in BOOLEAN
    <2>1. explore' = ~(in.rate > 0) BY DEF Exploring
    <2> QED BY <2>1 DEF Exploring
  <1> QED BY <1>6, <1>8, <1>10, <1>12, <1>13, <1>15, <1>16, <1>17, SettledKeeps

LEMMA SampledKeeps ==
    ASSUME DecisionInv, NEW in \in Inputs, Sampled(in)
    PROVE  Kept
  <1>1. PICK c \in {Quieter(WokenCyc)},
             t \in {[WokenTs EXCEPT !.stable = StableAfter(WokenTs, in.rate)]} :
          \E new \in {apply_damped_fee_target(Current, in.target, ts.sleeping, "active")},
             kept \in {IF c.pending > 0 /\ PendingIsStale(c.pending, Current, in.target, c.bcast, Floor, MaxFee)
                       THEN [c EXCEPT !.pending = 0] ELSE c} :
             Settle(in, kept, t, new, "DTS", HistQuiet)
    BY DEF Sampled
  <1>2. PICK new \in {apply_damped_fee_target(Current, in.target, ts.sleeping, "active")},
             kept \in {IF c.pending > 0 /\ PendingIsStale(c.pending, Current, in.target, c.bcast, Floor, MaxFee)
                       THEN [c EXCEPT !.pending = 0] ELSE c} :
             Settle(in, kept, t, new, "DTS", HistQuiet)
    BY <1>1
  <1>3. new \in Nat
    <2>1. PICK cur : cur = Current OBVIOUS
    <2>2. cur \in Nat BY <2>1, CurrentIs DEF DecisionInv
    <2>3. PICK goal : goal = in.target OBVIOUS
    <2>4. PICK woke : woke = ts.sleeping OBVIOUS
    <2>5. goal \in Nat BY <2>3, InputIs
    <2>6. woke \in BOOLEAN BY <2>4 DEF DecisionInv, DecisionTypeOK, FeeState
    <2>7. new = apply_damped_fee_target(cur, goal, woke, "active") BY <1>2, <2>1, <2>3, <2>4
    <2>8. cur \in Int /\ goal \in Int BY <2>2, <2>5
    <2>9. /\ new \in Int
          /\ goal >= cur => new \in cur..goal
          /\ goal <= cur => new \in goal..cur
      BY <2>6, <2>7, <2>8, DampedIs
    <2> QED BY <2>2, <2>5, <2>9
  <1>4. PICK w : w = WokenCyc OBVIOUS
  <1>5. /\ w \in CycleState /\ SameRecord(cyc, w) /\ w.bcastAge = cyc.bcastAge
        /\ w.refreshAge = cyc.refreshAge /\ (hist.ours => w.bcast = chain)
    BY <1>4, BeginsWith
  <1>6. PICK s : s = WokenTs OBVIOUS
  <1>7. s \in FeeState /\ Twins(w, s) BY <1>4, <1>6, WokenIs
  <1>8. PICK n : n = StableAfter(s, in.rate) OBVIOUS
  <1>9. n \in 0..StableRequired
    <2>1. s.stable \in 0..StableRequired /\ StableRequired \in Nat
      BY <1>7, DecisionAssumption DEF FeeState
    <2>2. Min({s.stable + 1, StableRequired}) \in 0..StableRequired BY <2>1, MinTwo
    <2>3. 0 \in 0..StableRequired BY <2>1
    <2> QED BY <1>8, <2>1, <2>2, <2>3 DEF StableAfter
  <1>10. t = [s EXCEPT !.stable = n] BY <1>6, <1>8
  <1>11. /\ t \in FeeState /\ t.sleeping = s.sleeping /\ t.left = s.left /\ t.upd = s.upd
         /\ t.bcast = s.bcast /\ t.bcastAge = s.bcastAge /\ t.refreshAge = s.refreshAge
    BY <1>7, <1>9, <1>10 DEF FeeState
  <1>12. /\ c \in CycleState /\ EpisodeOf(c, HistQuiet)
         /\ c.sleeping = w.sleeping /\ c.left = w.left /\ c.upd = w.upd
         /\ c.bcast = w.bcast /\ c.bcastAge = w.bcastAge /\ c.refreshAge = w.refreshAge
    BY <1>4, <1>5, QuieterIs
  <1>13. /\ kept \in CycleState /\ SameEpisode(c, kept)
         /\ kept.sleeping = c.sleeping /\ kept.left = c.left /\ kept.upd = c.upd
         /\ kept.bcast = c.bcast /\ kept.bcastAge = c.bcastAge /\ kept.refreshAge = c.refreshAge
    <2>1. kept = c \/ kept = [c EXCEPT !.pending = 0] BY <1>2
    <2>2. CASE kept = c BY <1>12, <2>2 DEF SameEpisode
    <2>3. CASE kept = [c EXCEPT !.pending = 0] BY <1>12, <2>3 DEF CycleState, SameEpisode
    <2> QED BY <2>1, <2>2, <2>3
  <1>14. Twins(kept, t) BY <1>7, <1>11, <1>12, <1>13 DEF Twins
  <1>15. PICK h : h = HistQuiet OBVIOUS
  <1>16. h \in History /\ h.wakes = hist.wakes /\ h.ours = hist.ours BY <1>15, HistoryIs
  <1>17. EpisodeOf(kept, h) BY <1>12, <1>13, <1>15 DEF EpisodeOf, SameEpisode
  <1>18. in.rate \in Rates BY InputIs
  <1>19. "DTS" \in States /\ "DTS" # "CONGESTION" /\ "DTS" # "REFRESH" BY DEF States
  <1>20. Settled(kept, in.rate, new, "DTS", h)
    BY <1>2, <1>3, <1>5, <1>11, <1>12, <1>13, <1>14, <1>15, <1>16, <1>18, <1>19, SettleIs DEF DecisionInv
  <1>21. UNCHANGED <<policy, armed>> /\ explore' \in BOOLEAN
    BY DEF Sampled, DecisionInv, DecisionTypeOK
  <1> QED BY <1>3, <1>5, <1>12, <1>13, <1>16, <1>17, <1>19, <1>20, <1>21, SettledKeeps

-----------------------------------------------------------------------------
LEMMA SleepEntryKeeps ==
    ASSUME DecisionInv, NEW in \in Inputs, SleepEntry(in)
    PROVE  Kept
  <1>1. PICK w : w = WokenCyc OBVIOUS
  <1>2. PICK s : s = WokenTs OBVIOUS
  <1>3. PICK c : c = Quieter(w) OBVIOUS
  <1>4. /\ w \in CycleState /\ SameRecord(cyc, w) /\ (hist.ours => w.bcast = chain)
    BY <1>1, BeginsWith
  <1>5. s \in FeeState /\ Twins(w, s) BY <1>1, <1>2, WokenIs
  <1>6. /\ c \in CycleState /\ EpisodeOf(c, HistQuiet)
        /\ c.sleeping = w.sleeping /\ c.left = w.left /\ c.upd = w.upd
        /\ c.bcast = w.bcast /\ c.bcastAge = w.bcastAge /\ c.refreshAge = w.refreshAge
    BY <1>3, <1>4, QuieterIs
  <1>7. /\ cyc' = [c EXCEPT !.sleeping = TRUE, !.left = SleepTicks, !.upd = 0]
        /\ ts' = [s EXCEPT !.sleeping = TRUE, !.left = SleepTicks, !.upd = 0, !.rate = in.rate,
                           !.stable = StableRequired]
        /\ hist' = HistQuiet /\ UNCHANGED <<chain, policy, explore, armed>>
    BY <1>1, <1>2, <1>3 DEF SleepEntry, Rest
  <1>8. SleepTicks \in -1..SleepTicks /\ StableRequired \in 0..StableRequired /\ 0 \in Age
    BY DecisionAssumption, Literals
  <1>9. /\ cyc' \in CycleState /\ cyc'.sleeping = TRUE /\ cyc'.left = SleepTicks /\ cyc'.upd = 0
        /\ cyc'.bcast = c.bcast /\ cyc'.bcastAge = c.bcastAge /\ cyc'.refreshAge = c.refreshAge
        /\ SameEpisode(c, cyc')
    BY <1>6, <1>7, <1>8 DEF CycleState, SameEpisode
  <1>10. in.rate \in Rates BY InputIs
  <1>11. /\ ts' \in FeeState /\ ts'.sleeping = TRUE /\ ts'.left = SleepTicks /\ ts'.upd = 0
         /\ ts'.bcast = s.bcast /\ ts'.bcastAge = s.bcastAge /\ ts'.refreshAge = s.refreshAge
    BY <1>5, <1>7, <1>8, <1>10 DEF FeeState
  <1>12. Twins(cyc', ts') BY <1>5, <1>6, <1>9, <1>11 DEF Twins
  <1>13. hist' \in History /\ hist'.wakes = hist.wakes /\ hist'.ours = hist.ours
    BY <1>7, HistoryIs
  <1>14. EpisodeOf(cyc', hist') BY <1>6, <1>7, <1>9 DEF EpisodeOf, SameEpisode
  <1>15. DecisionTypeOK' BY <1>7, <1>9, <1>11, <1>13 DEF DecisionTypeOK, DecisionInv
  <1>16. WakesOnce' BY <1>7, <1>13 DEF WakesOnce, DecisionInv
  <1>17. hist'.ours => cyc'.bcast = chain' BY <1>4, <1>6, <1>7, <1>9, <1>13
  <1>18. DecisionInv' BY <1>12, <1>14, <1>15, <1>16, <1>17 DEF DecisionInv
  <1>19. chain' = chain /\ chain \in Nat BY <1>7 DEF DecisionInv, DecisionTypeOK
  <1> QED BY <1>18, <1>19 DEF Kept, RaiseBounded, RefreshDueBefore

LEMMA DecideKeeps ==
    ASSUME DecisionInv, NEW in \in Inputs, Decide(in)
    PROVE  Kept
  BY CongestedKeeps, ExploringKeeps, SleepEntryKeeps, SampledKeeps DEF Decide

\* Steps that leave the fee on the channel and the history as they are.
LEMMA RecordsKeep ==
    ASSUME DecisionInv, UNCHANGED <<chain, hist>>, cyc' \in CycleState, ts' \in FeeState,
           Twins(cyc', ts'), SameEpisode(cyc, cyc'), hist.ours => cyc'.bcast = chain,
           policy' \in {"dynamic", "static", "skip"}, explore' \in BOOLEAN, armed' = armed
    PROVE  Kept
  <1>1. DecisionTypeOK' BY DEF DecisionTypeOK, DecisionInv
  <1>2. WakesOnce' BY DEF WakesOnce, DecisionInv
  <1>3. EpisodeOf(cyc', hist') BY DEF EpisodeOf, SameEpisode, DecisionInv
  <1>4. DecisionInv' BY <1>1, <1>2, <1>3 DEF DecisionInv
  <1>5. chain' = chain /\ chain \in Nat BY DEF DecisionInv, DecisionTypeOK
  <1> QED BY <1>4, <1>5 DEF Kept, RaiseBounded, RefreshDueBefore

LEMMA HoldKeeps ==
    ASSUME DecisionInv, NEW in, Hold(in)
    PROVE  Kept
  <1>1. \/ cyc' = WokenCyc /\ ts' = WokenTs
        \/ cyc' = CycSynced /\ ts' = TsSynced
    BY DEF Hold
  <1>2. /\ cyc' \in CycleState /\ ts' \in FeeState /\ Twins(cyc', ts') /\ SameEpisode(cyc, cyc')
        /\ hist.ours => cyc'.bcast = chain
    <2>1. CASE cyc' = WokenCyc /\ ts' = WokenTs BY <2>1, WokenIs DEF SameRecord
    <2>2. CASE cyc' = CycSynced /\ ts' = TsSynced BY <2>2, SyncedIs DEF SameRecord
    <2> QED BY <1>1, <2>1, <2>2
  <1>3. UNCHANGED <<chain, policy, explore, armed, hist>> BY DEF Hold
  <1>4. policy' \in {"dynamic", "static", "skip"} /\ explore' \in BOOLEAN
    BY <1>3 DEF DecisionInv, DecisionTypeOK
  <1> QED BY <1>2, <1>3, <1>4, RecordsKeep

LEMMA StutterKeeps ==
    ASSUME DecisionInv, UNCHANGED decisionVars
    PROVE  Kept
  <1>1. UNCHANGED <<chain, cyc, ts, policy, explore, armed, hist>> BY DEF decisionVars
  <1>2. /\ cyc' \in CycleState /\ ts' \in FeeState /\ Twins(cyc', ts') /\ SameEpisode(cyc, cyc')
        /\ hist.ours => cyc'.bcast = chain
        /\ policy' \in {"dynamic", "static", "skip"} /\ explore' \in BOOLEAN
    BY <1>1 DEF DecisionInv, DecisionTypeOK, SameEpisode
  <1> QED BY <1>1, <1>2, RecordsKeep

LEMMA StaticKeeps ==
    ASSUME DecisionInv, NEW ok, StaticBranch(ok)
    PROVE  Kept
  <1>1. PICK fee_ : fee_ = decide_set_channel_fee(StaticFee, {}, MinFee, MaxFee) OBVIOUS
  <1>2. fee_ \in Nat
    <2>1. StaticFee \in Int /\ MinFee \in Nat /\ MaxFee \in Nat BY DecisionAssumption
    <2> QED BY <1>1, <2>1, DecidedFee
  <1>3. UNCHANGED <<policy, explore, armed>> BY DEF StaticBranch
  <1>4. CASE UNCHANGED <<chain, cyc, ts, hist>>
    BY <1>3, <1>4, StutterKeeps DEF decisionVars
  <1>5. CASE /\ chain' = fee_
             /\ cyc' = [Awake(cyc) EXCEPT !.bcast = fee_, !.bcastAge = 0, !.upd = 0, !.state = "STATIC"]
             /\ ts' = [AwakeTs(ts) EXCEPT !.bcast = fee_, !.bcastAge = 0, !.upd = 0]
             /\ hist' = [hist EXCEPT !.ours = TRUE]
    <2>1. PICK a : a = Awake(cyc) OBVIOUS
    <2>2. PICK b : b = AwakeTs(ts) OBVIOUS
    <2>3. cyc \in CycleState /\ ts \in FeeState /\ Twins(cyc, ts) /\ hist \in History
      BY DEF DecisionInv, DecisionTypeOK
    <2>4. /\ a \in CycleState /\ a.sleeping = FALSE /\ a.left = 0 /\ a.refreshAge = cyc.refreshAge
          /\ SameEpisode(cyc, a)
      BY <2>1, <2>3, AwakeIs
    <2>5. b \in FeeState /\ b.sleeping = FALSE /\ b.left = 0 /\ b.refreshAge = ts.refreshAge
      BY <2>2, <2>3, AwakeTsIs
    <2>6. "STATIC" \in States BY DEF States
    <2>7. /\ cyc' \in CycleState /\ cyc'.bcast = fee_ /\ cyc'.bcastAge = 0 /\ cyc'.upd = 0
          /\ cyc'.state = "STATIC" /\ cyc'.sleeping = a.sleeping /\ cyc'.left = a.left
          /\ cyc'.refreshAge = a.refreshAge /\ SameEpisode(a, cyc')
      BY <1>2, <1>5, <2>1, <2>4, <2>6, Literals DEF CycleState, SameEpisode
    <2>8. /\ ts' \in FeeState /\ ts'.bcast = fee_ /\ ts'.bcastAge = 0 /\ ts'.upd = 0
          /\ ts'.sleeping = b.sleeping /\ ts'.left = b.left /\ ts'.refreshAge = b.refreshAge
      BY <1>2, <1>5, <2>2, <2>5, Literals DEF FeeState
    <2>9. Twins(cyc', ts') BY <2>3, <2>4, <2>5, <2>7, <2>8 DEF Twins
    <2>10. /\ hist' \in History /\ hist'.base = hist.base /\ hist'.quiet = hist.quiet
           /\ hist'.wakes = hist.wakes
      BY <1>5, <2>3 DEF History
    <2>11. EpisodeOf(cyc', hist')
      BY <2>4, <2>7, <2>10 DEF EpisodeOf, SameEpisode, DecisionInv
    <2>12. DecisionTypeOK' BY <1>2, <1>3, <1>5, <2>7, <2>8, <2>10 DEF DecisionTypeOK, DecisionInv
    <2>13. WakesOnce' BY <1>3, <2>10 DEF WakesOnce, DecisionInv
    <2>14. DecisionInv' BY <1>5, <2>7, <2>9, <2>11, <2>12, <2>13 DEF DecisionInv
    <2> QED BY <2>7, <2>14 DEF Kept, RaiseBounded, RefreshDueBefore
  <1> QED BY <1>1, <1>4, <1>5 DEF StaticBranch

LEMMA CycleKeeps ==
    ASSUME DecisionInv, ChannelCycle
    PROVE  Kept
  <1>1. CASE \E in \in Inputs : Decide(in) BY <1>1, DecideKeeps
  <1>2. CASE \E in \in Inputs : Hold(in) BY <1>2, HoldKeeps
  <1>3. CASE SkippedByPolicy BY <1>3, StutterKeeps DEF SkippedByPolicy
  <1>4. CASE \E ok \in { ~b : b \in Disturbed("refusal") } : StaticBranch(ok)
    BY <1>4, StaticKeeps
  <1> QED BY <1>1, <1>2, <1>3, <1>4 DEF ChannelCycle

-----------------------------------------------------------------------------
LEMMA OlderIs == ASSUME NEW age \in Age PROVE Older(age) \in Age
  <1>1. age \in -1..AgeCap /\ AgeCap \in Nat BY AgesAre DEF Age
  <1>2. CASE age = Never BY <1>1, <1>2 DEF Older, Age, Never
  <1>3. CASE age # Never
    <2>1. age + 1 \in Int /\ AgeCap \in Int BY <1>1
    <2>2. Min({age + 1, AgeCap}) = IF age + 1 <= AgeCap THEN age + 1 ELSE AgeCap BY <2>1, MinTwo
    <2> QED BY <1>1, <1>3, <2>2 DEF Older, Age
  <1> QED BY <1>2, <1>3

LEMMA BackdatedIs == ASSUME NEW age \in Age PROVE Backdated(age) \in Age
  <1>1. age \in -1..AgeCap /\ AgeCap \in Nat /\ MinObservation \in Nat /\ MinObservation <= AgeCap
    BY AgesAre, DecisionAssumption DEF Age
  <1>2. CASE age = Never BY <1>1, <1>2 DEF Backdated, Age, Never
  <1>3. CASE age # Never
    <2>1. age \in Int /\ MinObservation \in Int BY <1>1
    <2>2. Max({age, MinObservation}) = IF age >= MinObservation THEN age ELSE MinObservation
      BY <2>1, MaxTwo
    <2> QED BY <1>1, <1>3, <2>2 DEF Backdated, Age
  <1> QED BY <1>2, <1>3

LEMMA RecordsAre ==
    ASSUME DecisionInv
    PROVE  /\ cyc \in CycleState /\ ts \in FeeState /\ Twins(cyc, ts) /\ hist \in History
           /\ policy \in {"dynamic", "static", "skip"} /\ explore \in BOOLEAN /\ armed \in BOOLEAN
           /\ chain \in Nat /\ (hist.ours => cyc.bcast = chain)
  BY DEF DecisionInv, DecisionTypeOK

LEMMA TickKeeps == ASSUME DecisionInv, Tick PROVE Kept
  <1>1. PICK u, b, r, l : /\ u = Older(cyc.upd) /\ b = Older(cyc.bcastAge) /\ r = Older(cyc.refreshAge)
                          /\ l = IF cyc.sleeping /\ cyc.left >= 0 THEN cyc.left - 1 ELSE cyc.left
    OBVIOUS
  <1>2. cyc \in CycleState /\ ts \in FeeState /\ Twins(cyc, ts) BY RecordsAre
  <1>3. u \in Age /\ b \in Age /\ r \in Age
    <2>1. cyc.upd \in Age /\ cyc.bcastAge \in Age /\ cyc.refreshAge \in Age BY <1>2 DEF CycleState
    <2> QED BY <1>1, <2>1, OlderIs
  <1>4. l \in -1..SleepTicks
    <2>1. cyc.left \in -1..SleepTicks /\ SleepTicks \in Nat BY <1>2, DecisionAssumption DEF CycleState
    <2> QED BY <1>1, <2>1
  <1>5. cyc' = [cyc EXCEPT !.upd = u, !.bcastAge = b, !.refreshAge = r, !.left = l]
    BY <1>1, <1>2 DEF Tick, CycleState
  <1>6. ts' = [ts EXCEPT !.upd = u, !.bcastAge = b, !.refreshAge = r, !.left = l]
    BY <1>1, <1>2 DEF Tick, FeeState, Twins
  <1>7. /\ cyc' \in CycleState /\ SameEpisode(cyc, cyc') /\ cyc'.bcast = cyc.bcast
        /\ cyc'.sleeping = cyc.sleeping /\ cyc'.left = l /\ cyc'.upd = u
        /\ cyc'.bcastAge = b /\ cyc'.refreshAge = r
    BY <1>2, <1>3, <1>4, <1>5 DEF CycleState, SameEpisode
  <1>8. /\ ts' \in FeeState /\ ts'.bcast = ts.bcast
        /\ ts'.sleeping = ts.sleeping /\ ts'.left = l /\ ts'.upd = u
        /\ ts'.bcastAge = b /\ ts'.refreshAge = r
    BY <1>2, <1>3, <1>4, <1>6 DEF FeeState
  <1>9. Twins(cyc', ts') BY <1>2, <1>7, <1>8 DEF Twins
  <1>10. UNCHANGED <<chain, policy, explore, armed, hist>> BY DEF Tick
  <1> QED BY <1>7, <1>8, <1>9, <1>10, RecordsAre, RecordsKeep

\* The two records woken together.
LEMMA WokenTogether ==
    ASSUME DecisionInv, NEW c, c = (IF cyc.sleeping THEN Awake(cyc) ELSE cyc),
           NEW t, t = (IF ts.sleeping THEN AwakeTs(ts) ELSE ts)
    PROVE  /\ c \in CycleState /\ t \in FeeState /\ Twins(c, t) /\ SameEpisode(cyc, c)
           /\ c.bcast = cyc.bcast
  <1>1. cyc \in CycleState /\ ts \in FeeState /\ Twins(cyc, ts) BY RecordsAre
  <1>2. cyc.sleeping = ts.sleeping BY <1>1 DEF Twins
  <1>3. CASE cyc.sleeping
    <2>1. PICK a : a = Awake(cyc) OBVIOUS
    <2>2. PICK b : b = AwakeTs(ts) OBVIOUS
    <2>3. /\ a \in CycleState /\ a.sleeping = FALSE /\ a.left = 0
          /\ a.upd = cyc.upd /\ a.bcast = cyc.bcast /\ a.bcastAge = cyc.bcastAge
          /\ a.refreshAge = cyc.refreshAge /\ SameEpisode(cyc, a)
      BY <1>1, <2>1, AwakeIs
    <2>4. /\ b \in FeeState /\ b.sleeping = FALSE /\ b.left = 0
          /\ b.upd = ts.upd /\ b.bcast = ts.bcast /\ b.bcastAge = ts.bcastAge
          /\ b.refreshAge = ts.refreshAge
      BY <1>1, <2>2, AwakeTsIs
    <2>5. Twins(a, b) BY <1>1, <2>3, <2>4 DEF Twins
    <2>6. c = a /\ t = b BY <1>2, <1>3, <2>1, <2>2
    <2> QED BY <2>3, <2>4, <2>5, <2>6
  <1>4. CASE ~cyc.sleeping
    <2>1. c = cyc /\ t = ts BY <1>2, <1>4
    <2> QED BY <1>1, <2>1 DEF SameEpisode
  <1> QED BY <1>3, <1>4

LEMMA PolicyChangeKeeps == ASSUME DecisionInv, HandlePolicyChange PROVE Kept
  <1>1. PICK c : c = (IF cyc.sleeping THEN Awake(cyc) ELSE cyc) OBVIOUS
  <1>2. PICK t : t = (IF ts.sleeping THEN AwakeTs(ts) ELSE ts) OBVIOUS
  <1>3. /\ c \in CycleState /\ t \in FeeState /\ Twins(c, t) /\ SameEpisode(cyc, c)
        /\ c.bcast = cyc.bcast
    BY <1>1, <1>2, WokenTogether
  <1>4. cyc' = c /\ ts' = t /\ UNCHANGED <<chain, policy, explore, armed, hist>>
    BY <1>1, <1>2 DEF HandlePolicyChange
  <1> QED BY <1>3, <1>4, RecordsAre, RecordsKeep

LEMMA VegasKeeps ==
    ASSUME DecisionInv, NEW level \in {"low", "mid", "high"}, VegasUpdate(level)
    PROVE  Kept
  <1>1. UNCHANGED <<chain, policy, explore>> BY DEF VegasUpdate
  <1>2. /\ cyc \in CycleState /\ ts \in FeeState /\ Twins(cyc, ts) /\ hist \in History
        /\ hist.wakes \in Nat /\ chain \in Nat /\ armed \in BOOLEAN
    BY RecordsAre DEF History
  <1>3. CASE armed /\ level = "high"
    <2>1. PICK c : c = (IF cyc.sleeping THEN Awake(cyc) ELSE cyc) OBVIOUS
    <2>2. PICK t : t = (IF ts.sleeping THEN AwakeTs(ts) ELSE ts) OBVIOUS
    <2>3. /\ c \in CycleState /\ t \in FeeState /\ Twins(c, t) /\ SameEpisode(cyc, c)
          /\ c.bcast = cyc.bcast
      BY <2>1, <2>2, WokenTogether
    <2>4. PICK u : u = Backdated(c.upd) OBVIOUS
    <2>5. u \in Age /\ u = Backdated(t.upd) BY <2>3, <2>4, BackdatedIs DEF CycleState, Twins
    <2>6. cyc' = [c EXCEPT !.upd = u] /\ ts' = [t EXCEPT !.upd = u]
      BY <1>3, <2>1, <2>2, <2>3, <2>4, <2>5 DEF VegasUpdate, WakeAll, CycleState, FeeState
    <2>7. /\ cyc' \in CycleState /\ SameEpisode(c, cyc') /\ cyc'.bcast = c.bcast
          /\ cyc'.sleeping = c.sleeping /\ cyc'.left = c.left /\ cyc'.upd = u
          /\ cyc'.bcastAge = c.bcastAge /\ cyc'.refreshAge = c.refreshAge
      BY <2>3, <2>5, <2>6 DEF CycleState, SameEpisode
    <2>8. /\ ts' \in FeeState /\ ts'.bcast = t.bcast
          /\ ts'.sleeping = t.sleeping /\ ts'.left = t.left /\ ts'.upd = u
          /\ ts'.bcastAge = t.bcastAge /\ ts'.refreshAge = t.refreshAge
      BY <2>3, <2>5, <2>6 DEF FeeState
    <2>9. Twins(cyc', ts') BY <2>3, <2>7, <2>8 DEF Twins
    <2>10. SameEpisode(cyc, cyc') BY <2>3, <2>7 DEF SameEpisode
    <2>11. PICK n : n = hist.wakes + 1 OBVIOUS
    <2>12. n = 1 /\ n \in Nat BY <1>2, <1>3, <2>11 DEF DecisionInv, WakesOnce
    <2>13. hist' = [hist EXCEPT !.wakes = n] /\ armed' = FALSE
      BY <1>2, <1>3, <2>11 DEF VegasUpdate, Disarmed, History
    <2>14. /\ hist' \in History /\ hist'.wakes = n /\ hist'.ours = hist.ours
           /\ hist'.quiet = hist.quiet /\ hist'.base = hist.base
      BY <1>2, <2>12, <2>13 DEF History
    <2>15. DecisionTypeOK'
      BY <1>1, <2>7, <2>8, <2>13, <2>14, RecordsAre DEF DecisionTypeOK
    <2>16. WakesOnce' BY <2>12, <2>13, <2>14 DEF WakesOnce
    <2>17. EpisodeOf(cyc', hist') BY <2>10, <2>14 DEF EpisodeOf, SameEpisode, DecisionInv
    <2>18. hist'.ours => cyc'.bcast = chain' BY <1>1, <2>3, <2>7, <2>14, RecordsAre
    <2>19. DecisionInv' BY <2>9, <2>15, <2>16, <2>17, <2>18 DEF DecisionInv
    <2> QED BY <1>1, <1>2, <2>19 DEF Kept, RaiseBounded, RefreshDueBefore
  <1>4. CASE ~(armed /\ level = "high")
    <2>1. PICK n : n = (IF level = "low" THEN 0 ELSE hist.wakes) OBVIOUS
    <2>2. /\ armed' = (armed \/ level = "low")
          /\ hist' = [hist EXCEPT !.wakes = n] /\ UNCHANGED <<cyc, ts>>
      BY <1>2, <1>4, <2>1 DEF VegasUpdate, History
    <2>3. n \in Nat BY <1>2, <2>1
    <2>4. /\ hist' \in History /\ hist'.wakes = n /\ hist'.ours = hist.ours
          /\ hist'.quiet = hist.quiet /\ hist'.base = hist.base
      BY <1>2, <2>2, <2>3 DEF History
    <2>5. armed' \in BOOLEAN BY <2>2
    <2>6. DecisionTypeOK' BY <1>1, <2>2, <2>4, <2>5, RecordsAre DEF DecisionTypeOK
    <2>7. WakesOnce'
      <3>1. CASE level = "low"
        <4>1. n = 0 BY <2>1, <3>1
        <4> QED BY <2>4, <4>1 DEF WakesOnce
      <3>2. CASE level # "low"
        <4>1. n = hist.wakes /\ armed' = armed BY <1>2, <2>1, <2>2, <3>2
        <4> QED BY <2>4, <4>1 DEF WakesOnce, DecisionInv
      <3> QED BY <3>1, <3>2
    <2>8. EpisodeOf(cyc', hist') BY <2>2, <2>4 DEF EpisodeOf, DecisionInv
    <2>9. hist'.ours => cyc'.bcast = chain' BY <1>1, <2>2, <2>4, RecordsAre
    <2>10. Twins(cyc', ts') BY <1>2, <2>2
    <2>11. DecisionInv' BY <2>6, <2>7, <2>8, <2>9, <2>10 DEF DecisionInv
    <2> QED BY <1>1, <1>2, <2>11 DEF Kept, RaiseBounded, RefreshDueBefore
  <1> QED BY <1>3, <1>4

LEMMA OperatorKeeps ==
    ASSUME DecisionInv,
           \/ \E p \in {"dynamic", "static", "skip"} \ {policy} : SetPolicy(p)
           \/ FlagExploration
    PROVE  Kept
  <1>1. /\ UNCHANGED <<chain, cyc, ts, armed, hist>>
        /\ policy' \in {"dynamic", "static", "skip"} /\ explore' \in BOOLEAN
    BY RecordsAre DEF SetPolicy, FlagExploration
  <1>2. SameEpisode(cyc, cyc') BY <1>1 DEF SameEpisode
  <1> QED BY <1>1, <1>2, RecordsAre, RecordsKeep

LEMMA ByHandKeeps ==
    ASSUME DecisionInv, NEW f \in OperatorFees, SetByHand(f)
    PROVE  Kept
  <1>1. /\ chain' = f /\ hist' = [hist EXCEPT !.ours = FALSE]
        /\ UNCHANGED <<cyc, ts, policy, explore, armed>>
    BY DEF SetByHand
  <1>2. f \in Nat BY DecisionAssumption
  <1>3. /\ hist' \in History /\ hist'.ours = FALSE /\ hist'.wakes = hist.wakes
        /\ hist'.quiet = hist.quiet /\ hist'.base = hist.base
    BY <1>1, RecordsAre DEF History
  <1>4. DecisionTypeOK' BY <1>1, <1>2, <1>3, RecordsAre DEF DecisionTypeOK
  <1>5. WakesOnce' BY <1>1, <1>3 DEF WakesOnce, DecisionInv
  <1>6. EpisodeOf(cyc', hist') BY <1>1, <1>3 DEF EpisodeOf, DecisionInv
  <1>7. Twins(cyc', ts') BY <1>1, RecordsAre
  <1>8. DecisionInv' BY <1>3, <1>4, <1>5, <1>6, <1>7 DEF DecisionInv
  <1> QED BY <1>3, <1>8 DEF Kept, RaiseBounded, RefreshDueBefore

LEMMA DecisionKeeps == ASSUME DecisionInv, [DecisionNext]_decisionVars PROVE Kept
  <1>1. CASE ChannelCycle BY <1>1, CycleKeeps
  <1>2. CASE Tick BY <1>2, TickKeeps
  <1>3. CASE HandlePolicyChange BY <1>3, PolicyChangeKeeps
  <1>4. CASE \E level \in {"low", "mid", "high"} : VegasUpdate(level) BY <1>4, VegasKeeps
  <1>5. CASE \E p \in {"dynamic", "static", "skip"} \ {policy} : SetPolicy(p) BY <1>5, OperatorKeeps
  <1>6. CASE FlagExploration BY <1>6, OperatorKeeps
  <1>7. CASE \E f \in OperatorFees \ {chain} : SetByHand(f) BY <1>7, ByHandKeeps
  <1>8. CASE UNCHANGED decisionVars BY <1>8, StutterKeeps
  <1> QED BY <1>1, <1>2, <1>3, <1>4, <1>5, <1>6, <1>7, <1>8 DEF DecisionNext

LEMMA DecisionStarts == ASSUME DecisionInit PROVE DecisionInv
  <1>1. /\ chain \in Nat /\ policy \in {"dynamic", "static", "skip"} /\ explore \in BOOLEAN
        /\ armed \in BOOLEAN
    BY DecisionAssumption DEF DecisionInit
  <1>2. /\ 0 \in -1..SleepTicks /\ 0 \in 0..StableRequired /\ Never \in Age /\ 0 \in 0..QuietCycles
        /\ 0 \in 0..MaxEpisodes /\ QuietCycles \in 0..QuietCycles /\ 0 \in Rates /\ "" \in States
        /\ ~(QuietCycles < QuietCycles)
    BY Literals, DecisionAssumption DEF Never, States
  <1>3. cyc \in CycleState /\ ~cyc.congested /\ cyc.bcast = 0
    BY <1>2 DEF DecisionInit, CycleState
  <1>4. ts \in FeeState BY <1>2 DEF DecisionInit, FeeState
  <1>5. Twins(cyc, ts) BY DEF DecisionInit, Twins
  <1>6. PICK env \in Disturbances :
           hist = [base |-> 0, quiet |-> QuietCycles, trips |-> 0, ours |-> FALSE, wakes |-> 0, env |-> env]
    BY DEF DecisionInit
  <1>7. env \in SUBSET Kinds BY DecisionAssumption
  <1>8. hist \in History /\ hist.quiet = QuietCycles /\ hist.ours = FALSE /\ hist.wakes = 0
    BY <1>2, <1>6, <1>7 DEF History
  <1>9. WakesOnce BY <1>8 DEF WakesOnce
  <1>10. EpisodeOf(cyc, hist) BY <1>2, <1>3, <1>8 DEF EpisodeOf
  <1> QED BY <1>1, <1>3, <1>4, <1>5, <1>8, <1>9, <1>10 DEF DecisionInv, DecisionTypeOK

-----------------------------------------------------------------------------
LEMMA AnchorIs ==
    ASSUME NEW stored \in Nat, NEW cur \in Nat, NEW goal \in Nat, NEW tracked, NEW a,
           a = BlendAnchor(stored, cur, goal, tracked, LowFloor, HighCeiling)
    PROVE  a \in Int /\ (goal >= cur => a \in cur..goal) /\ (goal <= cur => a \in goal..cur)
  <1>1. PICK k : k = Clamped(stored, LowFloor, HighCeiling) OBVIOUS
  <1>2. k \in Int
    <2>1. LowFloor \in Int /\ HighCeiling \in Int /\ stored \in Int BY SteadyAssumption
    <2> QED BY <1>1, <2>1, ClampedIs
  <1>3. PICK lo : lo = Min({cur, goal}) OBVIOUS
  <1>4. PICK hi : hi = Max({cur, goal}) OBVIOUS
  <1>5. lo = (IF cur <= goal THEN cur ELSE goal) /\ hi = (IF cur >= goal THEN cur ELSE goal)
    BY <1>3, <1>4, MinTwo, MaxTwo
  <1>6. CASE stored <= 0 \/ PendingIsStale(stored, cur, goal, tracked, LowFloor, HighCeiling)
    <2>1. a = cur BY <1>6 DEF BlendAnchor
    <2> QED BY <2>1
  <1>7. CASE ~(stored <= 0 \/ PendingIsStale(stored, cur, goal, tracked, LowFloor, HighCeiling))
    <2>1. a = k BY <1>1, <1>7 DEF BlendAnchor
    <2>2. ~(k < lo) /\ ~(k > hi) BY <1>1, <1>3, <1>4, <1>7 DEF PendingIsStale
    <2> QED BY <1>2, <1>5, <2>1, <2>2
  <1> QED BY <1>6, <1>7

SteadyInv ==
    /\ fee \in Nat /\ pending \in Nat
    /\ setting \in [goal : Nat, std : Nat, prof : {"active", "conservative"}, woke : BOOLEAN]

StepToward ==
    fee' # fee =>
        /\ AbsOf(setting.goal - fee') < AbsOf(setting.goal - fee)
        /\ (setting.goal - fee') * (setting.goal - fee) >= 0
        /\ AbsOf(fee' - fee) <= fee_step_cap(fee, setting.woke, setting.prof)

LEMMA SameSign ==
    ASSUME NEW a \in Int, NEW b \in Int, (a >= 0 /\ b >= 0) \/ (a <= 0 /\ b <= 0)
    PROVE  a * b >= 0
  <1>1. CASE a >= 0 /\ b >= 0 BY <1>1
  <1>2. CASE a <= 0 /\ b <= 0
    <2>1. (-a) * (-b) >= 0 BY <1>2
    <2>2. (-a) * (-b) = a * b OBVIOUS
    <2> QED BY <2>1, <2>2
  <1> QED BY <1>1, <1>2

\* A fee that moved from cur to new, between cur and goal and by no more than the cap.
LEMMA NearerIs ==
    ASSUME NEW cur \in Nat, NEW new \in Nat, NEW goal \in Nat, NEW cap \in Nat, new # cur,
           goal >= cur => new \in cur..goal /\ new - cur <= cap,
           goal <= cur => new \in goal..cur /\ cur - new <= cap
    PROVE  /\ AbsOf(goal - new) < AbsOf(goal - cur)
           /\ (goal - new) * (goal - cur) >= 0
           /\ AbsOf(new - cur) <= cap
  <1>1. (goal - new) * (goal - cur) >= 0
    <2>1. PICK x, y : x = goal - new /\ y = goal - cur OBVIOUS
    <2>2. x \in Int /\ y \in Int /\ ((x >= 0 /\ y >= 0) \/ (x <= 0 /\ y <= 0)) BY <2>1
    <2> QED BY <2>1, <2>2, SameSign
  <1>2. AbsOf(goal - new) < AbsOf(goal - cur) /\ AbsOf(new - cur) <= cap
    BY DEF AbsOf
  <1> QED BY <1>1, <1>2

LEMMA SteadyKeeps == ASSUME SteadyInv, [SteadyNext]_steadyVars PROVE SteadyInv' /\ StepToward
  <1>1. CASE UNCHANGED steadyVars
    <2>1. fee' = fee /\ pending' = pending /\ setting' = setting BY <1>1 DEF steadyVars
    <2> QED BY <2>1 DEF SteadyInv, StepToward
  <1>2. CASE SteadyCycle
    <2>1. PICK anchor \in {Anchor} : \E target \in {Blended(anchor)} : \E new \in {Damped(target)} :
             /\ IF SuppressedByAGate(new)
                THEN pending' = Remembered(new) /\ UNCHANGED fee
                ELSE fee' = new /\ pending' = 0
             /\ setting' = [setting EXCEPT !.woke = FALSE]
      BY <1>2 DEF SteadyCycle
    <2>2. PICK target \in {Blended(anchor)} : \E new \in {Damped(target)} :
             /\ IF SuppressedByAGate(new)
                THEN pending' = Remembered(new) /\ UNCHANGED fee
                ELSE fee' = new /\ pending' = 0
             /\ setting' = [setting EXCEPT !.woke = FALSE]
      BY <2>1
    <2>3. PICK new \in {Damped(target)} :
             /\ IF SuppressedByAGate(new)
                THEN pending' = Remembered(new) /\ UNCHANGED fee
                ELSE fee' = new /\ pending' = 0
             /\ setting' = [setting EXCEPT !.woke = FALSE]
      BY <2>2
    <2>4. PICK goal, std, prof, woke, cur, stored :
             /\ goal = setting.goal /\ std = setting.std /\ prof = setting.prof /\ woke = setting.woke
             /\ cur = fee /\ stored = pending
      OBVIOUS
    <2>5. /\ goal \in Nat /\ std \in Nat /\ prof \in {"active", "conservative"} /\ woke \in BOOLEAN
          /\ cur \in Nat /\ stored \in Nat
      BY <2>4 DEF SteadyInv
    <2>6. anchor = BlendAnchor(stored, cur, goal, cur, LowFloor, HighCeiling)
      BY <2>4 DEF Anchor
    <2>7. anchor \in Int /\ (goal >= cur => anchor \in cur..goal) /\ (goal <= cur => anchor \in goal..cur)
      BY <2>5, <2>6, AnchorIs
    <2>8. target = blend_fee_target(anchor, goal, woke, std, prof)
      BY <2>4 DEF Blended
    <2>9. target \in Int /\ BlendApproaches(anchor, goal, woke, std, prof)
      <3>1. goal \in Int BY <2>5
      <3> QED BY <2>5, <2>7, <2>8, <3>1, BlendIs
    <2>10. /\ anchor < goal => target \in (anchor + 1)..goal
           /\ anchor > goal => target \in goal..(anchor - 1)
           /\ anchor = goal => target = anchor
      BY <2>8, <2>9 DEF BlendApproaches
    <2>11. (goal >= cur => target \in cur..goal) /\ (goal <= cur => target \in goal..cur)
      BY <2>5, <2>7, <2>9, <2>10
    <2>12. new = apply_damped_fee_target(cur, target, woke, prof) BY <2>4 DEF Damped
    <2>13. PICK cap : cap = fee_step_cap(cur, woke, prof) OBVIOUS
    <2>14. cap \in Nat BY <2>5, <2>13, StepCapIs
    <2>15. /\ new \in Int
           /\ target >= cur => new \in cur..target /\ new - cur <= cap
           /\ target <= cur => new \in target..cur /\ cur - new <= cap
      BY <2>5, <2>9, <2>12, <2>13, DampedIs
    <2>16. /\ new \in Nat
           /\ goal >= cur => new \in cur..goal /\ new - cur <= cap
           /\ goal <= cur => new \in goal..cur /\ cur - new <= cap
      BY <2>5, <2>9, <2>11, <2>14, <2>15
    <2>17. /\ fee' = cur \/ fee' = new
           /\ pending' \in Nat
      BY <2>3, <2>4, <2>5, <2>16 DEF Remembered
    <2>18. setting' \in [goal : Nat, std : Nat, prof : {"active", "conservative"}, woke : BOOLEAN]
      BY <2>3 DEF SteadyInv
    <2>19. SteadyInv' BY <2>5, <2>16, <2>17, <2>18 DEF SteadyInv
    <2>20. ASSUME fee' # fee
           PROVE  /\ AbsOf(goal - fee') < AbsOf(goal - cur)
                  /\ (goal - fee') * (goal - cur) >= 0
                  /\ AbsOf(fee' - cur) <= cap
      <3>1. fee' = new /\ new # cur BY <2>4, <2>17, <2>20
      <3> QED BY <2>5, <2>14, <2>16, <3>1, NearerIs
    <2>21. StepToward BY <2>4, <2>13, <2>20 DEF StepToward
    <2> QED BY <2>19, <2>21
  <1> QED BY <1>1, <1>2 DEF SteadyNext

LEMMA SteadyStarts == ASSUME SteadyInit \/ SteadyRests PROVE SteadyInv
  <1>1. CASE SteadyInit
    <2>1. setting \in [goal : Goals, std : Deviations, prof : {"active", "conservative"}, woke : BOOLEAN]
      BY <1>1 DEF SteadyInit
    <2>2. setting \in [goal : Nat, std : Nat, prof : {"active", "conservative"}, woke : BOOLEAN]
      BY <2>1, SteadyAssumption
    <2> QED BY <1>1, <2>2, SteadyAssumption DEF SteadyInit, SteadyInv
  <1>2. CASE SteadyRests
    BY <1>2 DEF SteadyRests, SteadyInv
  <1> QED BY <1>1, <1>2

(* The whole decision state is well formed, the two records agree with each   *)
(* other and with the chain, and the episode of the record is the one that    *)
(* happened: the inductive invariant of the fee decision.                     *)
THEOREM DecisionInvariant == DecisionSpec => []DecisionInv
  <1>1. DecisionInit => DecisionInv BY DecisionStarts
  <1>2. DecisionInv /\ [DecisionNext]_decisionVars => DecisionInv' BY DecisionKeeps DEF Kept
  <1> QED BY <1>1, <1>2, PTL DEF DecisionSpec

(* Whatever path wrote them, the two records of a channel agree with each     *)
(* other and with the fee on the channel, and a spike wakes once.             *)
THEOREM RecordsStayInStep == DecisionSpec => []RecordsAgree
  <1>1. DecisionInv => RecordsAgree
    BY DEF DecisionInv, RecordsAgree, TwinsAgree, Twins, TrackedIsOnChain, SpikeWakesOnce, WakesOnce
  <1> QED BY <1>1, DecisionInvariant, PTL

(* The runs' specification is, for the channel and for the steady target, what *)
(* their own modules specify.                                                 *)
LEMMA PartsAreSteps ==
    ASSUME [MCNext]_allVars
    PROVE  [DecisionNext]_decisionVars /\ [SteadyNext]_steadyVars
  <1>1. CASE ChannelMoves /\ DecisionNext BY <1>1 DEF ChannelMoves
  <1>2. CASE SteadyMoves /\ SteadyNext BY <1>2 DEF SteadyMoves
  <1>3. CASE UNCHANGED allVars BY <1>3 DEF allVars
  <1> QED BY <1>1, <1>2, <1>3 DEF MCNext

(* A congestion episode cannot ratchet a fee, a refresh is never early, and a *)
(* step goes toward a steady target, not past it and within the step cap.     *)
THEOREM FeesMoveInMeasure == MCSpec => MovesAreMeasured
  <1>1. MCInit => DecisionInv /\ SteadyInv
    <2>1. ASSUME MCInit PROVE DecisionInit /\ (SteadyInit \/ SteadyRests)
      BY <2>1 DEF MCInit, ChannelRests
    <2> QED BY <2>1, DecisionStarts, SteadyStarts
  <1>2. DecisionInv /\ [MCNext]_allVars => DecisionInv' /\ RaiseBounded /\ RefreshDueBefore
    BY PartsAreSteps, DecisionKeeps DEF Kept
  <1>3. SteadyInv /\ [MCNext]_allVars => SteadyInv' /\ StepToward
    BY PartsAreSteps, SteadyKeeps
  <1>4. EpisodeBounded <=> [][RaiseBounded]_decisionVars BY DEF EpisodeBounded, RaiseBounded
  <1>5. RefreshIsRare <=> [][RefreshDueBefore]_decisionVars BY DEF RefreshIsRare, RefreshDueBefore
  <1>6. StepsTowardTarget <=> [][StepToward]_steadyVars BY DEF StepsTowardTarget, StepToward
  <1> QED BY <1>1, <1>2, <1>3, <1>4, <1>5, <1>6, PTL DEF MCSpec, MovesAreMeasured
===============================================================================
