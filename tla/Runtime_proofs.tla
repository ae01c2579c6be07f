--------------------------- MODULE Runtime_proofs ---------------------------
(***************************************************************************)
(* Theorems about Runtime, for any keys and callers, rosters, forwards and   *)
(* page sizes, tables, channels and settings, and any bounds.  Each part has *)
(* its own invariant; a step of the process moves one part and leaves the    *)
(* others as they were.                                                      *)
(***************************************************************************)
EXTENDS Runtime, SequenceTheorems, SumTheorems

-----------------------------------------------------------------------------
(* The loop: requests, suspension and the durable row                        *)

\* Nothing is in the ingress of a process that is down; a caller that clears
\* the ingress, and an owner that marks the row, find the loop suspended.
Ingress ==
    /\ owner.at = "idle" =>
         /\ pending = <<>>
         /\ \A q \in Requester : req[q] = "idle"
    /\ \A q \in Requester : req[q] \in {"clear", "mark"} => suspended
    /\ owner.at = "mark" => suspended

\* The verdict's boot is never ahead of the process, and this boot's verdict is
\* of a generation it finished.
Verdicts ==
    /\ row.tboot <= boot
    /\ boot > 0 /\ row.tboot = boot => row.terminal \in tally.finished

LoopInv ==
    LoopTypeOK /\ Ingress /\ RequestsAccounted /\ IdleIsHonest /\ Verdicts

USE LoopAssumption, KeyAssumption

OwnerType ==
    [at : {"idle", "check", "pop", "sleep", "wait", "begin", "pass", "terminal", "clear", "mark",
           "ended"}, gen : 0 .. MaxGeneration, ok : BOOLEAN]
TallyType ==
    [accepted : Nat, served : Nat, abandoned : Nat, finished : SUBSET (0 .. MaxGeneration)]

LEMMA LoopStarts == LoopInit => LoopInv
  <1> SUFFICES ASSUME LoopInit PROVE LoopInv OBVIOUS
  <1>1. row \in HealthRow BY DEF LoopInit, HealthRow
  <1>2. tally \in TallyType BY DEF LoopInit, TallyType, Freshly
  <1>3. owner \in OwnerType BY DEF LoopInit, OwnerType, Idle
  <1>4. LoopTypeOK
    <2>1. pending \in Seq(Key) /\ Len(pending) <= MaxPendingKeys BY DEF LoopInit
    <2>2. running \in Key \union {NoKey} /\ boot \in 0 .. MaxBoot
      BY DEF LoopInit
    <2>4. suspended \in BOOLEAN /\ permit \in BOOLEAN
      BY Zenon DEF LoopInit
    <2>3. req \in [Requester -> {"idle", "notify", "record", "suspend", "clear", "mark"}]
      BY DEF LoopInit
    <2> QED BY <1>1, <1>2, <1>3, <2>1, <2>2, <2>3, <2>4 DEF LoopTypeOK, OwnerType, TallyType
  <1>5. Ingress /\ IdleIsHonest /\ RequestsAccounted
    BY DEF LoopInit, Ingress, IdleIsHonest, RequestsAccounted, Idle
  <1>6. Verdicts BY DEF LoopInit, Verdicts
  <1> QED BY <1>4, <1>5, <1>6 DEF LoopInv

\* The durable row keeps its type through every update of it.
LEMMA RowTyped == LoopTypeOK /\ LoopNext => row' \in HealthRow
  <1> SUFFICES ASSUME LoopTypeOK, LoopNext PROVE row' \in HealthRow OBVIOUS
  <1>0. row \in HealthRow /\ boot \in 0 .. MaxBoot /\ owner.gen \in 0 .. MaxGeneration
    BY DEF LoopTypeOK
  <1>1. CASE row' = row BY <1>0, <1>1
  <1>2. CASE Start BY <1>0, <1>2 DEF Start, Reconciled, Registered, HealthRow
  <1>3. ASSUME NEW q \in Requester, NEW ok \in BOOLEAN, RequestMark(q, ok) PROVE row' \in HealthRow
    BY <1>0, <1>3 DEF RequestMark, HealthRow
  <1>4. ASSUME NEW ok \in BOOLEAN, OwnerMark(ok) PROVE row' \in HealthRow
    BY <1>0, <1>4 DEF OwnerMark, HealthRow
  <1>6. ASSUME NEW ok \in BOOLEAN, OwnerBegin(ok) PROVE row' \in HealthRow
    <2>1. CASE row' = row BY <1>0, <2>1
    <2>2. CASE row' = BeginPass(row) /\ row.generation < MaxGeneration
      <3>1. row.generation + 1 \in 0 .. MaxGeneration BY <1>0, <2>2 DEF HealthRow
      <3> QED BY <1>0, <2>2, <3>1 DEF BeginPass, HealthRow
    <2> QED BY <1>6, <2>1, <2>2 DEF OwnerBegin
  <1>5. ASSUME NEW ok \in BOOLEAN, OwnerTerminal(ok) PROVE row' \in HealthRow
    BY <1>0, <1>5, ZenonT(40) DEF OwnerTerminal, TerminalUpdate, HealthRow
  <1> QED
    BY <1>1, <1>2, <1>3, <1>4, <1>5, <1>6
        DEF LoopNext, CrashLoop, RequesterStep, NotifyWork, RequestSuspend, RequestClear,
            RecordBackpressure, Request, OwnerStep, OwnerCheck, OwnerPop, OwnerEmpty, OwnerSleep,
            OwnerClear, OwnerPass

LEMMA TallyTyped == LoopTypeOK /\ LoopNext => tally' \in TallyType
  <1> SUFFICES ASSUME LoopTypeOK, LoopNext PROVE tally' \in TallyType OBVIOUS
  <1>0. /\ tally \in TallyType /\ Len(pending) \in Nat /\ owner.gen \in 0 .. MaxGeneration
    BY DEF LoopTypeOK, TallyType
  <1>1. CASE tally' = tally BY <1>0, <1>1
  <1>2. CASE Start BY <1>2 DEF Start, Freshly, TallyType
  <1>3. ASSUME NEW n \in {0, 1}, ClearIngress(n) PROVE tally' \in TallyType
    BY <1>0, <1>3, SMTT(40) DEF ClearIngress, TallyType
  <1>4. ASSUME NEW q \in Requester, NEW k \in Key, Request(q, k) PROVE tally' \in TallyType
    BY <1>0, <1>4, SMTT(40) DEF Request, TallyType
  <1>5. ASSUME NEW ok \in BOOLEAN, OwnerPass(ok) PROVE tally' \in TallyType
    BY <1>0, <1>5, SMTT(40) DEF OwnerPass, TallyType
  <1>6. ASSUME NEW ok \in BOOLEAN, OwnerTerminal(ok) PROVE tally' \in TallyType
    BY <1>0, <1>3, <1>6 DEF OwnerTerminal, TallyType
  <1> QED
    BY <1>1, <1>2, <1>3, <1>4, <1>5, <1>6
        DEF LoopNext, CrashLoop, RequesterStep, NotifyWork, RequestSuspend, RequestClear,
            RecordBackpressure, RequestMark, OwnerStep, OwnerCheck, OwnerPop, OwnerEmpty,
            OwnerSleep, OwnerClear, OwnerBegin, OwnerMark

LEMMA OwnerTyped ==
    LoopTypeOK /\ LoopNext => owner' \in OwnerType /\ boot' \in 0 .. MaxBoot
  <1> SUFFICES ASSUME LoopTypeOK, LoopNext PROVE owner' \in OwnerType /\ boot' \in 0 .. MaxBoot
    OBVIOUS
  <1>0. /\ owner \in OwnerType /\ row \in HealthRow /\ boot \in 0 .. MaxBoot
        /\ boot' = boot \/ Start
    BY DEF LoopTypeOK, OwnerType, LoopNext, CrashLoop, RequesterStep, NotifyWork, RequestSuspend,
           RequestClear, RecordBackpressure, RequestMark, Request, OwnerStep, OwnerCheck, OwnerPop,
           OwnerEmpty, OwnerSleep, OwnerClear, OwnerBegin, OwnerPass, OwnerTerminal, OwnerMark
  <1>1. boot' \in 0 .. MaxBoot BY <1>0 DEF Start
  <1>2. CASE owner' = owner BY <1>0, <1>1, <1>2
  <1>3. ASSUME NEW p \in {"check", "pop", "sleep", "wait", "clear", "mark", "begin", "ended"}, At(p)
        PROVE  owner' \in OwnerType
    BY <1>0, <1>3 DEF At, OwnerType
  <1>4. CASE CrashLoop BY <1>1, <1>4 DEF CrashLoop, Idle, OwnerType
  <1>5. ASSUME NEW ok \in BOOLEAN, OwnerBegin(ok) PROVE owner' \in OwnerType
    <2>1. CASE At("mark") BY <1>3, <2>1
    <2>2. CASE owner' = [owner EXCEPT !.at = "pass", !.gen = row.generation + 1]
               /\ row.generation < MaxGeneration
      <3>1. row.generation + 1 \in 0 .. MaxGeneration BY <1>0, <2>2 DEF HealthRow
      <3> QED BY <1>0, <2>2, <3>1 DEF OwnerType
    <2> QED BY <1>5, <2>1, <2>2 DEF OwnerBegin
  <1>6. ASSUME NEW ok \in BOOLEAN, OwnerPass(ok) PROVE owner' \in OwnerType
    BY <1>0, <1>6 DEF OwnerPass, OwnerType
  <1> QED
    BY <1>1, <1>2, <1>3, <1>4, <1>5, <1>6
        DEF LoopNext, Start, RequesterStep, NotifyWork, RequestSuspend, RequestClear,
            RecordBackpressure, RequestMark, Request, OwnerStep, OwnerCheck, OwnerPop, OwnerEmpty,
            OwnerSleep, OwnerClear, OwnerTerminal, OwnerMark

LEMMA IngressTyped ==
    LoopTypeOK /\ LoopNext =>
      /\ running' \in Key \union {NoKey} /\ suspended' \in BOOLEAN /\ permit' \in BOOLEAN
      /\ pending' \in Seq(Key) /\ Len(pending') <= MaxPendingKeys
      /\ req' \in [Requester -> {"idle", "notify", "record", "suspend", "clear", "mark"}]
  <1> SUFFICES ASSUME LoopTypeOK, LoopNext
               PROVE  /\ running' \in Key \union {NoKey}
                      /\ suspended' \in BOOLEAN /\ permit' \in BOOLEAN
                      /\ pending' \in Seq(Key) /\ Len(pending') <= MaxPendingKeys
                      /\ req' \in [Requester -> {"idle", "notify", "record", "suspend", "clear", "mark"}]
    OBVIOUS
  <1>0. /\ running \in Key \union {NoKey} /\ suspended \in BOOLEAN /\ permit \in BOOLEAN
        /\ pending \in Seq(Key) /\ Len(pending) <= MaxPendingKeys
        /\ req \in [Requester -> {"idle", "notify", "record", "suspend", "clear", "mark"}]
    BY DEF LoopTypeOK
  <1>1. /\ running' \in Key \union {NoKey} /\ suspended' \in BOOLEAN /\ permit' \in BOOLEAN
        /\ req' \in [Requester -> {"idle", "notify", "record", "suspend", "clear", "mark"}]
    <2>1. CASE OwnerPop
      BY <1>0, <2>1 DEF OwnerPop
    <2>2. CASE ~OwnerPop
      BY <1>0, <2>2, ZenonT(40) DEF LoopNext, Start, CrashLoop, ClearIngress, RequesterStep, NotifyWork,
          RequestSuspend, RequestClear, RecordBackpressure, RequestMark, Request, OwnerStep,
          OwnerCheck, OwnerEmpty, OwnerSleep, OwnerClear, OwnerBegin, OwnerPass, OwnerTerminal,
          OwnerMark
    <2> QED BY <2>1, <2>2
  <1>2. pending' \in Seq(Key) /\ Len(pending') <= MaxPendingKeys
    <2>1. CASE pending' = pending \/ pending' = <<>>
      <3>1. CASE pending' = pending BY <1>0, <3>1
      <3>2. CASE pending' = <<>>
        <4>1. <<>> \in Seq(Key) /\ Len(<<>>) = 0 /\ 0 <= MaxPendingKeys OBVIOUS
        <4> QED BY <3>2, <4>1
      <3> QED BY <2>1, <3>1, <3>2
    <2>2. CASE OwnerPop BY <1>0, <2>2 DEF OwnerPop
    <2>3. ASSUME NEW q \in Requester, NEW k \in Key, Request(q, k)
          PROVE  pending' \in Seq(Key) /\ Len(pending') <= MaxPendingKeys
      <3>1. CASE pending' = Append(pending, k) /\ ~(Len(pending) >= MaxPendingKeys)
        BY <1>0, <3>1
      <3> QED BY <2>1, <2>3, <3>1 DEF Request
    <2> QED
      BY <2>1, <2>2, <2>3 DEF LoopNext, Start, CrashLoop, ClearIngress, RequesterStep, NotifyWork,
          RequestSuspend, RequestClear, RecordBackpressure, RequestMark, OwnerStep, OwnerCheck,
          OwnerEmpty, OwnerSleep, OwnerClear, OwnerBegin, OwnerPass, OwnerTerminal, OwnerMark
  <1> QED BY <1>1, <1>2

LEMMA LoopTyped == LoopTypeOK /\ LoopNext => LoopTypeOK'
  BY RowTyped, TallyTyped, OwnerTyped, IngressTyped DEF LoopTypeOK, TallyType, OwnerType

\* A caller raises the flag before it clears; a crash empties everything.
LEMMA IngressStep == LoopInv /\ LoopNext => Ingress'
  <1> SUFFICES ASSUME LoopInv, LoopNext PROVE Ingress' OBVIOUS
  <1>0. /\ owner \in [at : {"idle", "check", "pop", "sleep", "wait", "begin", "pass", "terminal",
                        "clear", "mark", "ended"}, gen : 0 .. MaxGeneration, ok : BOOLEAN]
        /\ req \in [Requester -> {"idle", "notify", "record", "suspend", "clear", "mark"}]
    BY DEF LoopInv, LoopTypeOK
  <1>00. Ingress BY DEF LoopInv
  <1> USE <1>0, <1>00 DEF Ingress, At
  <1>1. CASE Start BY <1>1 DEF Start
  <1>2. CASE CrashLoop BY <1>2 DEF CrashLoop, Idle
  <1>3. ASSUME NEW q \in Requester, NotifyWork(q) PROVE Ingress'
    BY <1>3 DEF NotifyWork
  <1>4. ASSUME NEW q \in Requester, RequestSuspend(q) PROVE Ingress'
    BY <1>4 DEF RequestSuspend
  <1>5. ASSUME NEW q \in Requester, RequestClear(q) PROVE Ingress'
    BY <1>5 DEF RequestClear, ClearIngress
  <1>6. ASSUME NEW q \in Requester, NEW ok \in BOOLEAN, RecordBackpressure(q, ok) \/ RequestMark(q, ok)
        PROVE  Ingress'
    BY <1>6 DEF RecordBackpressure, RequestMark
  <1>7. ASSUME NEW q \in Requester, NEW k \in Key, Request(q, k) PROVE Ingress'
    BY <1>7 DEF Request
  <1>8. CASE OwnerPop BY <1>8 DEF OwnerPop
  <1>9. CASE OwnerCheck \/ OwnerEmpty \/ OwnerSleep \/ OwnerClear
    BY <1>9 DEF OwnerCheck, OwnerEmpty, OwnerSleep, OwnerClear
  <1>10. ASSUME NEW ok \in BOOLEAN, OwnerBegin(ok) PROVE Ingress'
    BY <1>10 DEF OwnerBegin, BeginPass, ClearIngress
  <1>11. ASSUME NEW ok \in BOOLEAN, OwnerPass(ok) PROVE Ingress'
    BY <1>11 DEF OwnerPass
  <1>12. ASSUME NEW ok \in BOOLEAN, OwnerTerminal(ok) PROVE Ingress'
    BY <1>12 DEF OwnerTerminal, Terminates, TerminalUpdate, ClearIngress
  <1>13. ASSUME NEW ok \in BOOLEAN, OwnerMark(ok) PROVE Ingress'
    BY <1>13 DEF OwnerMark
  <1> QED
    BY <1>1, <1>2, <1>3, <1>4, <1>5, <1>6, <1>7, <1>8, <1>9, <1>10, <1>11, <1>12, <1>13
        DEF LoopNext, OwnerStep, RequesterStep

\* What leaves the queue goes to the owner's hand or to the abandoned.
LEMMA AccountedStep == LoopInv /\ LoopNext => RequestsAccounted'
  <1> SUFFICES ASSUME LoopInv, LoopNext PROVE RequestsAccounted' OBVIOUS
  <1>0. /\ owner \in [at : {"idle", "check", "pop", "sleep", "wait", "begin", "pass", "terminal",
                        "clear", "mark", "ended"}, gen : 0 .. MaxGeneration, ok : BOOLEAN]
        /\ req \in [Requester -> {"idle", "notify", "record", "suspend", "clear", "mark"}]
    BY DEF LoopInv, LoopTypeOK
  <1>00. /\ tally \in [accepted : Nat, served : Nat, abandoned : Nat, finished : SUBSET (0 .. MaxGeneration)]
         /\ pending \in Seq(Key) /\ RequestsAccounted
         /\ owner.at = "idle" => pending = <<>> /\ \A q \in Requester : req[q] = "idle"
    BY DEF LoopInv, LoopTypeOK, Ingress
  <1> USE <1>0, <1>00 DEF RequestsAccounted, InHand, At
  <1>1. CASE Start BY <1>1 DEF Start, Freshly
  <1>2. CASE CrashLoop BY <1>2 DEF CrashLoop, Idle
  <1>3. ASSUME NEW q \in Requester, NotifyWork(q) PROVE RequestsAccounted'
    BY <1>3 DEF NotifyWork
  <1>4. ASSUME NEW q \in Requester, RequestSuspend(q) PROVE RequestsAccounted'
    BY <1>4 DEF RequestSuspend
  <1>5. ASSUME NEW q \in Requester, RequestClear(q) PROVE RequestsAccounted'
    BY <1>5, SMTT(40) DEF RequestClear, ClearIngress
  <1>6. ASSUME NEW q \in Requester, NEW ok \in BOOLEAN, RecordBackpressure(q, ok) \/ RequestMark(q, ok)
        PROVE  RequestsAccounted'
    BY <1>6 DEF RecordBackpressure, RequestMark
  <1>7. ASSUME NEW q \in Requester, NEW k \in Key, Request(q, k) PROVE RequestsAccounted'
    <2>1. CASE pending' = Append(pending, k) /\ tally' = [tally EXCEPT !.accepted = @ + 1]
      <3>1. Len(pending') = Len(pending) + 1 /\ tally'.accepted = tally.accepted + 1
            /\ tally'.served = tally.served /\ tally'.abandoned = tally.abandoned
            /\ Len(pending) \in Nat
        BY <2>1
      <3>2. owner' = owner BY <1>7 DEF Request
      <3>4. tally.accepted \in Nat /\ tally.served \in Nat /\ tally.abandoned \in Nat
        OBVIOUS
      <3>5. InHand' = InHand /\ InHand \in Nat BY <3>2
      <3>3. owner.at # "idle" => tally.accepted = Len(pending) + InHand + tally.served + tally.abandoned
        OBVIOUS
      <3> HIDE DEF InHand
      <3> QED BY <3>1, <3>2, <3>4, <3>5, <3>3
    <2> QED BY <1>7, <2>1 DEF Request
  <1>8. CASE OwnerPop BY <1>8 DEF OwnerPop
  <1>9. CASE OwnerCheck \/ OwnerEmpty \/ OwnerSleep \/ OwnerClear
    BY <1>9 DEF OwnerCheck, OwnerEmpty, OwnerSleep, OwnerClear
  <1>10. ASSUME NEW ok \in BOOLEAN, OwnerBegin(ok) PROVE RequestsAccounted'
    <2>1. CASE ClearIngress(1) /\ At("mark")
      <3>1. Len(pending') = 0 /\ tally'.abandoned = tally.abandoned + Len(pending) + 1
            /\ tally'.accepted = tally.accepted /\ tally'.served = tally.served
        BY <2>1 DEF ClearIngress
      <3> QED BY <1>10, <2>1, <3>1 DEF OwnerBegin
    <2> QED BY <1>10, <2>1 DEF OwnerBegin
  <1>11. ASSUME NEW ok \in BOOLEAN, OwnerPass(ok) PROVE RequestsAccounted'
    BY <1>11 DEF OwnerPass
  <1>12. ASSUME NEW ok \in BOOLEAN, OwnerTerminal(ok) PROVE RequestsAccounted'
    <2>1. CASE ClearIngress(0) /\ At("mark")
      <3>1. Len(pending') = 0 /\ tally'.abandoned = tally.abandoned + Len(pending)
            /\ tally'.accepted = tally.accepted /\ tally'.served = tally.served
        BY <2>1 DEF ClearIngress
      <3> QED BY <1>12, <2>1, <3>1 DEF OwnerTerminal
    <2> QED BY <1>12, <2>1 DEF OwnerTerminal
  <1>13. ASSUME NEW ok \in BOOLEAN, OwnerMark(ok) PROVE RequestsAccounted'
    BY <1>13 DEF OwnerMark
  <1> QED
    BY <1>1, <1>2, <1>3, <1>4, <1>5, <1>6, <1>7, <1>8, <1>9, <1>10, <1>11, <1>12, <1>13
        DEF LoopNext, OwnerStep, RequesterStep

\* Only a suspension forgets the key that is running.
LEMMA IdleStep == LoopInv /\ LoopNext => IdleIsHonest'
  <1> SUFFICES ASSUME LoopInv, LoopNext PROVE IdleIsHonest' OBVIOUS
  <1>0. /\ owner \in [at : {"idle", "check", "pop", "sleep", "wait", "begin", "pass", "terminal",
                        "clear", "mark", "ended"}, gen : 0 .. MaxGeneration, ok : BOOLEAN]
        /\ req \in [Requester -> {"idle", "notify", "record", "suspend", "clear", "mark"}]
    BY DEF LoopInv, LoopTypeOK
  <1>00. /\ running \in Key \union {NoKey} /\ pending \in Seq(Key) /\ IdleIsHonest /\ Ingress
    BY DEF LoopInv, LoopTypeOK
  <1> USE <1>0, <1>00 DEF IdleIsHonest, Ingress, At
  <1>1. CASE Start BY <1>1 DEF Start
  <1>2. CASE CrashLoop BY <1>2 DEF CrashLoop, Idle
  <1>3. ASSUME NEW q \in Requester, NotifyWork(q) PROVE IdleIsHonest'
    BY <1>3 DEF NotifyWork
  <1>4. ASSUME NEW q \in Requester, RequestSuspend(q) PROVE IdleIsHonest'
    BY <1>4 DEF RequestSuspend
  <1>5. ASSUME NEW q \in Requester, RequestClear(q) PROVE IdleIsHonest'
    BY <1>5 DEF RequestClear, ClearIngress
  <1>6. ASSUME NEW q \in Requester, NEW ok \in BOOLEAN, RecordBackpressure(q, ok) \/ RequestMark(q, ok)
        PROVE  IdleIsHonest'
    BY <1>6 DEF RecordBackpressure, RequestMark
  <1>7. ASSUME NEW q \in Requester, NEW k \in Key, Request(q, k) PROVE IdleIsHonest'
    BY <1>7 DEF Request
  <1>8. CASE OwnerPop BY <1>8 DEF OwnerPop
  <1>9. CASE OwnerCheck \/ OwnerEmpty \/ OwnerSleep \/ OwnerClear
    BY <1>9 DEF OwnerCheck, OwnerEmpty, OwnerSleep, OwnerClear
  <1>10. ASSUME NEW ok \in BOOLEAN, OwnerBegin(ok) PROVE IdleIsHonest'
    BY <1>10 DEF OwnerBegin, BeginPass, ClearIngress
  <1>11. ASSUME NEW ok \in BOOLEAN, OwnerPass(ok) PROVE IdleIsHonest'
    BY <1>11 DEF OwnerPass
  <1>12. ASSUME NEW ok \in BOOLEAN, OwnerTerminal(ok) PROVE IdleIsHonest'
    BY <1>12 DEF OwnerTerminal, Terminates, TerminalUpdate, ClearIngress
  <1>13. ASSUME NEW ok \in BOOLEAN, OwnerMark(ok) PROVE IdleIsHonest'
    BY <1>13 DEF OwnerMark
  <1> QED
    BY <1>1, <1>2, <1>3, <1>4, <1>5, <1>6, <1>7, <1>8, <1>9, <1>10, <1>11, <1>12, <1>13
        DEF LoopNext, OwnerStep, RequesterStep

\* A restart reconciles the open pass without signing it.
LEMMA VerdictStep == LoopInv /\ LoopNext => Verdicts'
  <1> SUFFICES ASSUME LoopInv, LoopNext PROVE Verdicts' OBVIOUS
  <1>0. row \in HealthRow /\ boot \in 0 .. MaxBoot /\ Verdicts
        /\ tally \in [accepted : Nat, served : Nat, abandoned : Nat, finished : SUBSET (0 .. MaxGeneration)]
    BY DEF LoopInv, LoopTypeOK
  <1> USE <1>0 DEF HealthRow, Verdicts, At
  <1>1. CASE Start BY <1>1 DEF Start, Reconciled, Registered, Freshly
  <1>2. CASE CrashLoop BY <1>2 DEF CrashLoop, Idle
  <1>3. ASSUME NEW q \in Requester, NotifyWork(q) PROVE Verdicts'
    BY <1>3 DEF NotifyWork
  <1>4. ASSUME NEW q \in Requester, RequestSuspend(q) PROVE Verdicts'
    BY <1>4 DEF RequestSuspend
  <1>5. ASSUME NEW q \in Requester, RequestClear(q) PROVE Verdicts'
    BY <1>5 DEF RequestClear, ClearIngress
  <1>6. ASSUME NEW q \in Requester, NEW ok \in BOOLEAN, RecordBackpressure(q, ok) \/ RequestMark(q, ok)
        PROVE  Verdicts'
    BY <1>6 DEF RecordBackpressure, RequestMark
  <1>7. ASSUME NEW q \in Requester, NEW k \in Key, Request(q, k) PROVE Verdicts'
    BY <1>7 DEF Request
  <1>8. CASE OwnerPop BY <1>8 DEF OwnerPop
  <1>9. CASE OwnerCheck \/ OwnerEmpty \/ OwnerSleep \/ OwnerClear
    BY <1>9 DEF OwnerCheck, OwnerEmpty, OwnerSleep, OwnerClear
  <1>10. ASSUME NEW ok \in BOOLEAN, OwnerBegin(ok) PROVE Verdicts'
    BY <1>10 DEF OwnerBegin, BeginPass, ClearIngress
  <1>11. ASSUME NEW ok \in BOOLEAN, OwnerPass(ok) PROVE Verdicts'
    BY <1>11 DEF OwnerPass
  <1>12. ASSUME NEW ok \in BOOLEAN, OwnerTerminal(ok) PROVE Verdicts'
    <2>1. CASE row' = TerminalUpdate(row, owner.gen, owner.ok)
               /\ tally' = [tally EXCEPT !.finished = @ \union {owner.gen}]
      <3>1. row'.tboot = boot /\ row'.terminal = owner.gen /\ owner.gen \in tally'.finished
        BY <2>1 DEF TerminalUpdate
      <3> QED BY <1>12, <3>1 DEF OwnerTerminal
    <2>2. CASE row' = row /\ ClearIngress(0)
      BY <1>12, <2>2 DEF OwnerTerminal, ClearIngress
    <2> QED BY <1>12, <2>1, <2>2 DEF OwnerTerminal
  <1>13. ASSUME NEW ok \in BOOLEAN, OwnerMark(ok) PROVE Verdicts'
    BY <1>13 DEF OwnerMark
  <1> QED
    BY <1>1, <1>2, <1>3, <1>4, <1>5, <1>6, <1>7, <1>8, <1>9, <1>10, <1>11, <1>12, <1>13
        DEF LoopNext, OwnerStep, RequesterStep

LEMMA LoopStep == LoopInv /\ LoopNext => LoopInv'
  <1> SUFFICES ASSUME LoopInv, LoopNext PROVE LoopInv' OBVIOUS
  <1>0. LoopTypeOK' BY LoopTyped DEF LoopInv
  <1>1. Ingress' BY IngressStep DEF LoopInv
  <1>2. RequestsAccounted' BY AccountedStep DEF LoopInv
  <1>3. IdleIsHonest' BY IdleStep DEF LoopInv
  <1>4. Verdicts' BY VerdictStep DEF LoopInv
  <1> QED BY <1>0, <1>1, <1>2, <1>3, <1>4 DEF LoopInv

LEMMA LoopStays == LoopInv /\ UNCHANGED loopVars => LoopInv'
  BY DEF LoopInv, LoopTypeOK, HealthRow, Ingress, RequestsAccounted, InHand, IdleIsHonest,
         Verdicts, loopVars

\* A result the health surface reports was recorded by this process.
LEMMA LoopReports == LoopInv => LoopsAreHonest
  BY DEF LoopInv, LoopsAreHonest, LoopTypeOK, HealthRow, Verdicts, VerdictIsOfThisBoot,
         CurrentBootStatus

\* A pass begins on a row that is active, or in a process that just started.
LEMMA PassesFollowTheMarker ==
    LoopTypeOK /\ LoopNext /\ ~row.active /\ boot' = boot => row'.generation = row.generation
  <1> SUFFICES ASSUME LoopTypeOK, LoopNext, ~row.active, boot' = boot
               PROVE  row'.generation = row.generation
    OBVIOUS
  <1>0. row \in HealthRow /\ boot \in Nat BY DEF LoopTypeOK
  <1>1. ~Start BY <1>0 DEF Start
  <1>2. CASE row' = row BY <1>2
  <1>3. ASSUME NEW q \in Requester, NEW ok \in BOOLEAN, RequestMark(q, ok)
        PROVE  row'.generation = row.generation
    BY <1>0, <1>3 DEF RequestMark, HealthRow
  <1>4. ASSUME NEW ok \in BOOLEAN, OwnerBegin(ok) \/ OwnerMark(ok)
        PROVE  row'.generation = row.generation
    BY <1>0, <1>4 DEF OwnerBegin, MayBegin, OwnerMark, HealthRow
  <1>5. ASSUME NEW ok \in BOOLEAN, OwnerTerminal(ok) PROVE row'.generation = row.generation
    BY <1>0, <1>5 DEF OwnerTerminal, TerminalUpdate, HealthRow
  <1> QED
    BY <1>1, <1>2, <1>3, <1>4, <1>5
        DEF LoopNext, CrashLoop, RequesterStep, NotifyWork, RequestSuspend, RequestClear,
            RecordBackpressure, Request, OwnerStep, OwnerCheck, OwnerPop, OwnerEmpty, OwnerSleep,
            OwnerClear, OwnerPass

HIDE KeyAssumption
HIDE LoopAssumption

-----------------------------------------------------------------------------
(* The lifecycle: startup, the receipt, and the drain program                *)

USE LifecycleAssumption

nOwners == Len(ActionOwners) + Len(ObserverOwners)
DrainAt(i) == drain[DrainOrder[i]]

\* A receipt of this process was written by its last phase; a startup that went
\* past the first phase found the stores distinct.
StartupInv ==
    /\ receipt <= process
    /\ up.live /\ receipt # 0 /\ receipt = process => Completed
    /\ up.reached >= 1 /\ ~up.failed => ~up.alias
    /\ NeverOpensAlias

\* The drain task is where the ledger says it is: each owner of the drain order
\* has answered once its turn is over and not before; a lost task leaves a prefix.
LedgerInv ==
    /\ pc # PanicAt =>
         \A i \in 1 .. nOwners : (DrainAt(i) = "unreported") <=> (pc <= i + 2)
    /\ \A i, k \in 1 .. nOwners :
         i < k /\ DrainAt(i) = "unreported" => DrainAt(k) = "unreported"

\* One failure at most for each of the three steps that can fail.
FailureInv ==
    /\ pc \in {0, 1} => failures = 0
    /\ pc = 2 => failures <= 1
    /\ pc # PanicAt /\ pc <= 3 + nOwners => failures <= 2

LifeInv ==
    LifeTypeOK /\ StartupInv /\ LedgerInv /\ FailureInv /\ CompletedIsComplete

LEMMA SecondPart ==
    ASSUME NEW S, NEW s \in Seq(S), NEW t \in Seq(S), NEW i \in 1 .. Len(t)
    PROVE  (s \o t)[i + Len(s)] = t[i]
  <1>1. Len(s) \in Nat /\ Len(t) \in Nat OBVIOUS
  <1>2. PICK k \in 1 .. Len(s) + Len(t) : k = i + Len(s) BY <1>1
  <1>3. ~(k <= Len(s)) /\ k - Len(s) = i BY <1>1, <1>2
  <1>4. (s \o t)[k] = IF k <= Len(s) THEN s[k] ELSE t[k - Len(s)] BY ConcatProperties
  <1> QED BY <1>2, <1>3, <1>4

\* The two rosters, the drain order and the program are sequences, and nothing of
\* the program is both a step and an owner.
LEMMA ProgramShape ==
    /\ Len(ActionOwners) \in Nat /\ Len(ObserverOwners) \in Nat /\ nOwners \in Nat
    /\ Len(DrainOrder) = nOwners /\ Len(Program) = 2 * nOwners + 3
    /\ DOMAIN Program = 1 .. 2 * nOwners + 3
    /\ Program[1] \in DrainSteps /\ Program[2] \in DrainSteps
    /\ \A i \in 1 .. nOwners : Program[i + 2] = DrainOrder[i]
    /\ Program[nOwners + 3] \in DrainSteps
    /\ \A i \in 1 .. nOwners : Program[i + nOwners + 3] = JoinOrder[i]
  <1> DEFINE S == Range(ActionOwners) \union Range(ObserverOwners) \union DrainSteps
  <1>1. /\ ActionOwners \in Seq(S) /\ ObserverOwners \in Seq(S)
        /\ <<"stop_intake", "persist_cursors">> \in Seq(S) /\ <<"flush">> \in Seq(S)
    <2>1. ActionOwners \in Seq(Range(ActionOwners)) /\ ObserverOwners \in Seq(Range(ObserverOwners))
      OBVIOUS
    <2>2. Range(ActionOwners) \subseteq S /\ Range(ObserverOwners) \subseteq S OBVIOUS
    <2>3. "stop_intake" \in S /\ "persist_cursors" \in S /\ "flush" \in S BY DEF DrainSteps
    <2> HIDE DEF S
    <2>4. Seq(Range(ActionOwners)) \subseteq Seq(S) /\ Seq(Range(ObserverOwners)) \subseteq Seq(S)
      BY <2>2
    <2> QED BY <2>1, <2>3, <2>4
  <1> HIDE DEF S
  <1>2. /\ DrainOrder \in Seq(S) /\ JoinOrder \in Seq(S)
        /\ Len(ActionOwners) \in Nat /\ Len(ObserverOwners) \in Nat /\ nOwners \in Nat
        /\ Len(DrainOrder) = nOwners /\ Len(JoinOrder) = nOwners
    BY <1>1 DEF DrainOrder, JoinOrder, nOwners
  <1> DEFINE P2 == <<"stop_intake", "persist_cursors">> \o DrainOrder
             P3 == P2 \o <<"flush">>
  <1>3. /\ P2 \in Seq(S) /\ Len(P2) = nOwners + 2
        /\ P2[1] = "stop_intake" /\ P2[2] = "persist_cursors"
        /\ \A i \in 1 .. nOwners : P2[i + 2] = DrainOrder[i]
    BY <1>1, <1>2
  <1> HIDE DEF P2
  <1>4. /\ P3 \in Seq(S) /\ Len(P3) = nOwners + 3
        /\ \A i \in 1 .. nOwners + 2 : P3[i] = P2[i]
        /\ P3[nOwners + 3] = "flush"
    BY <1>1, <1>2, <1>3
  <1> HIDE DEF P3
  <1>5. /\ P3 \o JoinOrder \in Seq(S) /\ Len(P3 \o JoinOrder) = 2 * nOwners + 3
        /\ \A i \in 1 .. nOwners + 3 : (P3 \o JoinOrder)[i] = P3[i]
        /\ \A i \in 1 .. nOwners : (P3 \o JoinOrder)[i + nOwners + 3] = JoinOrder[i]
    <2>1. /\ P3 \o JoinOrder \in Seq(S) /\ Len(P3 \o JoinOrder) = Len(P3) + Len(JoinOrder)
          /\ \A i \in 1 .. Len(P3) + Len(JoinOrder) :
               (P3 \o JoinOrder)[i] = IF i <= Len(P3) THEN P3[i] ELSE JoinOrder[i - Len(P3)]
      <3>1. P3 \in Seq(S) /\ JoinOrder \in Seq(S) BY <1>2, <1>4
      <3> QED BY ONLY <3>1, ConcatProperties
    <2>2. ASSUME NEW i \in 1 .. nOwners PROVE (P3 \o JoinOrder)[i + nOwners + 3] = JoinOrder[i]
      <3>0. nOwners \in Nat /\ i \in Nat /\ Len(P3) = nOwners + 3 /\ Len(JoinOrder) = nOwners
        BY <1>2, <1>4
      <3>1. i + nOwners + 3 = i + Len(P3) /\ i \in 1 .. Len(JoinOrder) BY ONLY <2>2, <3>0
      <3>2. (P3 \o JoinOrder)[i + Len(P3)] = JoinOrder[i] 
        <4>1. P3 \in Seq(S) /\ JoinOrder \in Seq(S) BY <1>2, <1>4
        <4> QED BY ONLY <3>1, <4>1, SecondPart
      <3> QED BY <3>1, <3>2
    <2>3. ASSUME NEW i \in 1 .. nOwners + 3 PROVE (P3 \o JoinOrder)[i] = P3[i]
      <3>1. i \in 1 .. Len(P3) + Len(JoinOrder) /\ i <= Len(P3) BY <1>2, <1>4
      <3> QED BY <2>1, <3>1
    <2>4. Len(P3) + Len(JoinOrder) = 2 * nOwners + 3 BY <1>2, <1>4
    <2> QED BY <2>1, <2>2, <2>3, <2>4
  <1>6. Program = P3 \o JoinOrder BY DEF Program, P2, P3
  <1>7. DOMAIN Program = 1 .. Len(Program) BY <1>5, <1>6
  <1> QED BY <1>2, <1>3, <1>4, <1>5, <1>6, <1>7 DEF DrainSteps

\* The owners are the drain order, without repetition.
LEMMA OwnersShape ==
    /\ \A i \in 1 .. nOwners : DrainOrder[i] \in Owner /\ JoinOrder[i] \in Owner
    /\ \A i, k \in 1 .. nOwners : DrainOrder[i] = DrainOrder[k] => i = k
    /\ \A a \in Range(ActionOwners) : \E i \in 1 .. Len(ActionOwners) : DrainOrder[i] = a
    /\ \A o \in Range(ObserverOwners) :
         \E i \in 1 .. nOwners : i > Len(ActionOwners) /\ DrainOrder[i] = o
    /\ Owner \cap DrainSteps = {}
  <1> DEFINE S == Range(ActionOwners) \union Range(ObserverOwners)
             a == Len(ActionOwners)
             o == Len(ObserverOwners)
  <1>1. ActionOwners \in Seq(S) /\ ObserverOwners \in Seq(S)
    <2>1. ActionOwners \in Seq(Range(ActionOwners)) /\ ObserverOwners \in Seq(Range(ObserverOwners))
      OBVIOUS
    <2>2. Range(ActionOwners) \subseteq S /\ Range(ObserverOwners) \subseteq S OBVIOUS
    <2> HIDE DEF S
    <2>3. Seq(Range(ActionOwners)) \subseteq Seq(S) /\ Seq(Range(ObserverOwners)) \subseteq Seq(S)
      BY <2>2
    <2> QED BY <2>1, <2>3
  <1> HIDE DEF S
  <1>2. /\ a \in Nat /\ o \in Nat /\ nOwners = a + o
        /\ DOMAIN ActionOwners = 1 .. a /\ DOMAIN ObserverOwners = 1 .. o
    BY <1>1 DEF nOwners
  <1>3. /\ DOMAIN DrainOrder = 1 .. nOwners /\ DOMAIN JoinOrder = 1 .. nOwners
        /\ \A i \in 1 .. a : DrainOrder[i] = ActionOwners[i] /\ JoinOrder[i + o] = ActionOwners[i]
        /\ \A i \in 1 .. o : DrainOrder[i + a] = ObserverOwners[i] /\ JoinOrder[i] = ObserverOwners[i]
    BY <1>1, <1>2 DEF DrainOrder, JoinOrder
  <1> HIDE DEF a, o
  <1>4. \A i \in 1 .. nOwners : i \in 1 .. a \/ (i - a \in 1 .. o /\ i = (i - a) + a)
    BY <1>2
  <1>5. \A i \in 1 .. nOwners : i \in 1 .. o \/ (i - o \in 1 .. a /\ i = (i - o) + o)
    BY <1>2
  <1>6. \A i, k \in 1 .. nOwners : JoinOrder[i] = JoinOrder[k] => i = k
    BY <1>3 DEF JoinOrder, IsInjective
  <1>7. \A i \in 1 .. nOwners : DrainOrder[i] \in Owner
    BY <1>3 DEF Owner, DrainOrder, Range
  <1>8. \A i \in 1 .. nOwners : JoinOrder[i] \in Owner
    <2> SUFFICES ASSUME NEW i \in 1 .. nOwners PROVE JoinOrder[i] \in Owner OBVIOUS
    <2>1. CASE i \in 1 .. o
      <3>1. i + a \in 1 .. nOwners BY <1>2, <2>1
      <3> QED BY <1>3, <1>7, <2>1, <3>1
    <2>2. CASE i - o \in 1 .. a /\ i = (i - o) + o
      <3>1. i - o \in 1 .. nOwners BY <1>2, <2>2
      <3> QED BY <1>3, <1>7, <2>2, <3>1
    <2> QED BY <1>5, <2>1, <2>2
  <1>9. \A i \in 1 .. a, k \in 1 .. o : ActionOwners[i] # ObserverOwners[k]
    <2> SUFFICES ASSUME NEW i \in 1 .. a, NEW k \in 1 .. o, ActionOwners[i] = ObserverOwners[k] PROVE FALSE
      OBVIOUS
    <2>1. i + o \in 1 .. nOwners /\ k \in 1 .. nOwners /\ i + o # k BY <1>2
    <2> QED BY <1>3, <1>6, <2>1
  <1>10. \A i, k \in 1 .. nOwners : DrainOrder[i] = DrainOrder[k] => i = k
    <2> SUFFICES ASSUME NEW i \in 1 .. nOwners, NEW k \in 1 .. nOwners, DrainOrder[i] = DrainOrder[k]
                 PROVE  i = k
      OBVIOUS
    <2>1. CASE i \in 1 .. a /\ k \in 1 .. a
      <3>1. i + o \in 1 .. nOwners /\ k + o \in 1 .. nOwners BY <1>2, <2>1
      <3>2. i + o = k + o BY <1>3, <1>6, <2>1, <3>1
      <3> QED BY <1>2, <2>1, <3>2
    <2>2. CASE i \notin 1 .. a /\ k \notin 1 .. a
      <3>1. /\ i - a \in 1 .. o /\ k - a \in 1 .. o /\ i = (i - a) + a /\ k = (k - a) + a
            /\ i - a \in 1 .. nOwners /\ k - a \in 1 .. nOwners
        BY <1>2, <1>4, <2>2
      <3>2. i - a = k - a BY <1>3, <1>6, <3>1
      <3> QED BY <3>1, <3>2
    <2>3. CASE (i \in 1 .. a) # (k \in 1 .. a)
      BY <1>3, <1>4, <1>9, <2>3
    <2> QED BY <2>1, <2>2, <2>3
  <1>11. \A b \in Range(ActionOwners) : \E i \in 1 .. a : DrainOrder[i] = b
    BY <1>2, <1>3 DEF Range
  <1>12. \A b \in Range(ObserverOwners) : \E i \in 1 .. nOwners : i > a /\ DrainOrder[i] = b
    <2> SUFFICES ASSUME NEW b \in Range(ObserverOwners)
                 PROVE  \E i \in 1 .. nOwners : i > a /\ DrainOrder[i] = b
      OBVIOUS
    <2>1. PICK k \in 1 .. o : ObserverOwners[k] = b BY <1>2 DEF Range
    <2>2. k + a \in 1 .. nOwners /\ k + a > a BY <1>2
    <2> QED BY <1>3, <2>1, <2>2
  <1>13. Owner \cap DrainSteps = {}
    <2> SUFFICES ASSUME NEW b \in Owner, b \in DrainSteps PROVE FALSE OBVIOUS
    <2>1. PICK i \in 1 .. nOwners : DrainOrder[i] = b BY <1>3 DEF Owner, DrainOrder, Range
    <2>2. \E k \in 1 .. nOwners : JoinOrder[k] = b
      <3>1. CASE i \in 1 .. a
        <4>1. i + o \in 1 .. nOwners BY <1>2, <3>1
        <4> QED BY <1>3, <2>1, <3>1, <4>1
      <3>2. CASE i - a \in 1 .. o /\ i = (i - a) + a
        <4>1. i - a \in 1 .. nOwners BY <1>2, <3>2
        <4> QED BY <1>3, <2>1, <3>2, <4>1
      <3> QED BY <1>4, <3>1, <3>2
    <2>3. b \in Range(ObserverOwners \o ActionOwners) BY <1>3, <2>2 DEF JoinOrder, Range
    <2> QED BY <2>3
  <1> QED BY <1>7, <1>8, <1>10, <1>11, <1>12, <1>13 DEF a

LEMMA LifeStarts == LifeInit => LifeInv
  <1> SUFFICES ASSUME LifeInit PROVE LifeInv OBVIOUS
  <1>0. nOwners \in Nat BY ProgramShape
  <1>1. LifeTypeOK
    BY <1>0, ProgramShape
        DEF LifeInit, LifeTypeOK, Down, Unreported, NoVerdict, StartupPhases, PanicAt
  <1>2. StartupInv BY DEF LifeInit, StartupInv, Down, NeverOpensAlias, Completed
  <1>3. \A i \in 1 .. nOwners : DrainAt(i) = "unreported"
    BY OwnersShape DEF LifeInit, DrainAt, Unreported
  <1>4. LedgerInv BY <1>0, <1>3 DEF LifeInit, LedgerInv
  <1>5. FailureInv BY DEF LifeInit, FailureInv
  <1>6. CompletedIsComplete BY DEF LifeInit, CompletedIsComplete, NoVerdict
  <1> QED BY <1>1, <1>2, <1>4, <1>5, <1>6 DEF LifeInv

\* Where the drain task stands says what it does next.
LEMMA ProgramCounter ==
    /\ PanicAt = 2 * nOwners + 5 /\ DoneAt = 2 * nOwners + 4 /\ nOwners \in Nat
    /\ \A i \in DOMAIN Program : i \in 1 .. 2 * nOwners + 3
    /\ \A i \in DOMAIN Program : Program[i] \in DrainSteps => i \in {1, 2, nOwners + 3}
    /\ \A i \in DOMAIN Program : Program[i] \in Owner /\ i <= 2 + Len(DrainOrder) =>
          /\ i - 2 \in 1 .. nOwners /\ Program[i] = DrainOrder[i - 2] /\ i = (i - 2) + 2
    /\ \A i \in DOMAIN Program : i > 3 + Len(DrainOrder) => Program[i] \in Owner
  <1>1. /\ nOwners \in Nat /\ PanicAt = 2 * nOwners + 5 /\ DoneAt = 2 * nOwners + 4
        /\ DOMAIN Program = 1 .. 2 * nOwners + 3 /\ Len(DrainOrder) = nOwners
    BY ProgramShape DEF PanicAt, DoneAt
  <1>2. ASSUME NEW i \in DOMAIN Program
        PROVE  \/ i \in {1, 2, nOwners + 3}
               \/ i - 2 \in 1 .. nOwners /\ i = (i - 2) + 2
               \/ i - (nOwners + 3) \in 1 .. nOwners /\ i = (i - (nOwners + 3)) + nOwners + 3
    <2>1. \A n \in Nat : \A k \in 1 .. 2 * n + 3 :
            \/ k \in {1, 2, n + 3}
            \/ k - 2 \in 1 .. n /\ k = (k - 2) + 2
            \/ k - (n + 3) \in 1 .. n /\ k = (k - (n + 3)) + n + 3
      OBVIOUS
    <2> QED BY <1>1, <2>1
  <1>3. ASSUME NEW i \in DOMAIN Program, Program[i] \in DrainSteps PROVE i \in {1, 2, nOwners + 3}
    <2>1. CASE i - 2 \in 1 .. nOwners /\ i = (i - 2) + 2
      BY <1>3, <2>1, ProgramShape, OwnersShape
    <2>2. CASE i - (nOwners + 3) \in 1 .. nOwners /\ i = (i - (nOwners + 3)) + nOwners + 3
      BY <1>3, <2>2, ProgramShape, OwnersShape, SMTT(40)
    <2> QED BY <1>2, <2>1, <2>2
  <1>4. ASSUME NEW i \in DOMAIN Program, Program[i] \in Owner, i <= 2 + Len(DrainOrder)
        PROVE  /\ i - 2 \in 1 .. nOwners /\ Program[i] = DrainOrder[i - 2] /\ i = (i - 2) + 2
    <2>1. i # 1 /\ i # 2 BY <1>4, ProgramShape, OwnersShape
    <2>2. i - 2 \in 1 .. nOwners /\ i = (i - 2) + 2 BY <1>1, <1>4, <2>1
    <2> QED BY <2>2, ProgramShape
  <1>5. ASSUME NEW i \in DOMAIN Program, i > 3 + Len(DrainOrder) PROVE Program[i] \in Owner
    <2>1. \A n \in Nat : \A k \in 1 .. 2 * n + 3 :
            k > 3 + n => k - (n + 3) \in 1 .. n /\ k = (k - (n + 3)) + n + 3
      OBVIOUS
    <2>2. i - (nOwners + 3) \in 1 .. nOwners /\ i = (i - (nOwners + 3)) + nOwners + 3 BY <1>1, <1>5, <2>1
    <2>3. Program[(i - (nOwners + 3)) + nOwners + 3] = JoinOrder[i - (nOwners + 3)]
      BY <2>2, ProgramShape
    <2> QED BY <2>2, <2>3, OwnersShape
  <1> QED BY <1>1, <1>3, <1>4, <1>5

\* Two paths that pass the check do not open one file.
LEMMA DistinctIsNotAliased == \A f \in StorePaths : DistinctStores(f) => ~Aliased(f)
  BY DEF StorePaths, DistinctStores, Aliased

StartupType ==
    [reached : 0 .. Len(StartupPhases), failed : BOOLEAN, live : BOOLEAN, alias : BOOLEAN]

\* Phase n reached, with its failure and what was found of the paths.
Reached(u, n, a, b) == [u EXCEPT !.reached = n, !.failed = a, !.alias = b]

LEMMA StartupStays ==
    LifeInv /\ LifeNext =>
      StartupInv' /\ up' \in StartupType /\ process' \in 0 .. MaxProcess /\ receipt' \in 0 .. MaxProcess
  <1> DEFINE Goal == /\ StartupInv' /\ up' \in StartupType
                     /\ process' \in 0 .. MaxProcess /\ receipt' \in 0 .. MaxProcess
  <1> SUFFICES ASSUME LifeInv, LifeNext PROVE Goal OBVIOUS
  <1>0. /\ up \in StartupType /\ process \in 0 .. MaxProcess /\ receipt \in 0 .. MaxProcess
        /\ StartupInv /\ Len(StartupPhases) = 6 /\ StartupPhases[6] = "receipt"
        /\ \A i \in 1 .. 5 : StartupPhases[i] # "receipt"
    BY DEF LifeInv, LifeTypeOK, StartupPhases, StartupType
  <1>1. CASE Begin
    <2>1. process' \in 0 .. MaxProcess /\ receipt' \in 0 .. MaxProcess /\ receipt' < process'
      BY <1>0, <1>1 DEF Begin, StartupInv
    <2>2. up' = [reached |-> 0, failed |-> FALSE, live |-> TRUE, alias |-> FALSE]
      BY <1>1 DEF Begin, Down
    <2> QED BY <1>0, <2>1, <2>2 DEF StartupInv, NeverOpensAlias, StartupType
  <1>2. ASSUME NEW f \in StorePaths, IdentifyStores(f) PROVE Goal
    <2> DEFINE d == DistinctStores(f)
               l == Aliased(f)
    <2>0. up' = Reached(up, 1, ~d, l) /\ UNCHANGED <<process, receipt>>
      BY <1>2 DEF IdentifyStores, Reached
    <2>2. d \in BOOLEAN /\ (~d) \in BOOLEAN /\ l \in BOOLEAN /\ (d => ~l)
      BY DistinctIsNotAliased DEF DistinctStores, Aliased
    <2> HIDE DEF d, l
    <2>4. PICK e \in BOOLEAN : e = ~d BY <2>2
    <2>1. up' = Reached(up, 1, e, l) /\ 1 \in 0 .. Len(StartupPhases) BY <1>0, <2>0, <2>4
    <2>9. up' \in StartupType BY <1>0, <2>1, <2>2 DEF StartupType, Reached
    <2>3. up'.reached = 1 /\ up'.failed = e /\ up'.alias = l /\ up'.live = up.live
      BY <1>0, <2>1, <2>2 DEF StartupType, Reached
    <2>5. ~(receipt # 0 /\ receipt = process /\ up.live)
      BY <1>0, <1>2 DEF StartupInv, Completed, IdentifyStores
    <2>6. up'.reached >= 1 /\ ~up'.failed => ~up'.alias BY <2>2, <2>3, <2>4
    <2>7. ~(up'.reached > 1) BY <2>3
    <2>8. receipt' <= process' /\ ~(up'.live /\ receipt' # 0 /\ receipt' = process')
      BY <1>0, <2>0, <2>3, <2>5 DEF StartupInv
    <2> QED BY <1>0, <2>0, <2>9, <2>6, <2>7, <2>8 DEF StartupInv, NeverOpensAlias
  <1>3. ASSUME NEW ok \in BOOLEAN, StartupStep(ok) PROVE Goal
    <2>1. /\ up.reached \in 1 .. 5 /\ ~up.failed /\ up.live
          /\ up' = [up EXCEPT !.reached = @ + 1, !.failed = ~ok] /\ process' = process
          /\ receipt' = IF StartupPhases[up.reached + 1] = "receipt" /\ ok THEN process ELSE receipt
      BY <1>0, <1>3 DEF StartupStep
    <2>2. up' \in StartupType /\ up'.reached = up.reached + 1 /\ up'.failed = ~ok
          /\ up'.live = up.live /\ up'.alias = up.alias
      <3>1. up.reached + 1 \in 0 .. 6 /\ (~ok) \in BOOLEAN BY <2>1
      <3>2. PICK e \in BOOLEAN : e = ~ok BY <3>1
      <3>3. up' = [up EXCEPT !.reached = up.reached + 1, !.failed = e] BY <2>1, <3>2
      <3>4. up' \in StartupType /\ up'.reached = up.reached + 1 /\ up'.failed = e
            /\ up'.live = up.live /\ up'.alias = up.alias
        BY <1>0, <3>1, <3>3 DEF StartupType
      <3> QED BY <3>2, <3>4
    <2>4. ~(receipt # 0 /\ receipt = process) /\ ~up.alias
      BY <1>0, <2>1 DEF StartupInv, Completed
    <2>5. receipt' \in {process, receipt} /\ (receipt' = process => (up.reached = 5 /\ ok) \/ receipt = process)
      BY <1>0, <2>1
    <2>6. receipt' \in 0 .. MaxProcess /\ receipt' <= process' BY <1>0, <2>1, <2>5 DEF StartupInv
    <2>7. receipt' # 0 /\ receipt' = process' => up'.reached = 6 /\ ~up'.failed
      <3>1. SUFFICES ASSUME receipt' # 0, receipt' = process' PROVE up'.reached = 6 /\ ~up'.failed
        OBVIOUS
      <3>2. receipt' = process BY <2>1, <3>1
      <3>3. up.reached = 5 /\ ok BY <2>1, <2>4, <2>5, <3>1, <3>2, Zenon
      <3>4. up'.reached = 6 BY <2>2, <3>3
      <3>5. ~up'.failed BY <2>2, <3>3, Zenon
      <3> QED BY <3>4, <3>5
    <2> QED BY <1>0, <2>1, <2>2, <2>4, <2>6, <2>7 DEF StartupInv, NeverOpensAlias, Completed
  <1>4. CASE CrashProcess
    BY <1>0, <1>4 DEF CrashProcess, Down, StartupInv, NeverOpensAlias, StartupType
  <1>5. CASE UNCHANGED <<process, up, receipt>>
    BY <1>0, <1>5 DEF StartupInv, NeverOpensAlias, Completed
  <1> QED
    BY <1>1, <1>2, <1>3, <1>4, <1>5
        DEF LifeNext, ShutdownCall, ShutdownReturns, DrainTask, DrainStep, DrainOwner, JoinOwner,
            DrainPanics

\* The types of the drain task and of the ledger.
LedgerType ==
    /\ pc \in 0 .. PanicAt
    /\ drain \in [Owner -> DrainAcks \union {"unreported"}]
    /\ join \in [Owner -> JoinAcks \union {"unreported"}]

LEMMA LedgerTyped == LifeInv /\ LifeNext => LedgerType'
  <1> SUFFICES ASSUME LifeInv, LifeNext PROVE LedgerType' OBVIOUS
  <1>0. LedgerType BY DEF LifeInv, LifeTypeOK, LedgerType
  <1>1. pc' \in 0 .. PanicAt
    <2>1. CASE pc \in DOMAIN Program /\ pc' = pc + 1 BY <2>1, ProgramCounter
    <2>2. CASE pc' \in {pc, 0, 1, PanicAt} BY <1>0, <2>2, ProgramCounter DEF LedgerType
    <2> QED
      BY <2>1, <2>2 DEF LifeNext, Begin, CrashProcess, ShutdownCall, ShutdownReturns, StartupStep,
          IdentifyStores, DrainTask, DrainStep, DrainOwner, JoinOwner, DrainPanics
  <1>2. drain' \in [Owner -> DrainAcks \union {"unreported"}]
    <2>1. CASE drain' = drain BY <1>0, <2>1 DEF LedgerType
    <2>2. CASE drain' = Unreported BY <2>2 DEF Unreported
    <2>3. ASSUME NEW a \in DrainAcks, DrainOwner(a)
          PROVE  drain' \in [Owner -> DrainAcks \union {"unreported"}]
      BY <1>0, <2>3 DEF DrainOwner, LedgerType
    <2> QED
      BY <2>1, <2>2, <2>3 DEF LifeNext, Begin, CrashProcess, ShutdownCall, ShutdownReturns,
          StartupStep, IdentifyStores, DrainTask, DrainStep, JoinOwner, DrainPanics
  <1>3. join' \in [Owner -> JoinAcks \union {"unreported"}]
    <2>1. CASE join' = join BY <1>0, <2>1 DEF LedgerType
    <2>2. CASE join' = Unreported BY <2>2 DEF Unreported
    <2>3. ASSUME NEW a \in JoinAcks, JoinOwner(a)
          PROVE  join' \in [Owner -> JoinAcks \union {"unreported"}]
      BY <1>0, <2>3 DEF JoinOwner, LedgerType
    <2> QED
      BY <2>1, <2>2, <2>3 DEF LifeNext, Begin, CrashProcess, ShutdownCall, ShutdownReturns,
          StartupStep, IdentifyStores, DrainTask, DrainStep, DrainOwner, DrainPanics
  <1> QED BY <1>1, <1>2, <1>3 DEF LedgerType

\* One answer moves the drain task past one owner and no further.
LEMMA LedgerStays == LifeInv /\ LifeNext => LedgerInv'
  <1> SUFFICES ASSUME LifeInv, LifeNext PROVE LedgerInv' OBVIOUS
  <1>0. LedgerType /\ LedgerInv BY DEF LifeInv, LifeTypeOK, LedgerType
  <1>n. /\ nOwners \in Nat /\ nOwners' = nOwners /\ PanicAt = 2 * nOwners + 5 /\ PanicAt' = PanicAt
        /\ DrainOrder' = DrainOrder
    BY ProgramCounter DEF nOwners, PanicAt, DrainOrder, Program, JoinOrder
  <1>1. CASE drain' = drain /\ pc' = pc
    BY <1>0, <1>1, <1>n DEF LedgerInv, DrainAt
  <1>2. CASE drain' = Unreported /\ pc' = 0
    <2>1. \A i \in 1 .. nOwners : DrainAt(i)' = "unreported"
      BY <1>2, <1>n, OwnersShape DEF DrainAt, Unreported
    <2> QED BY <1>2, <1>n, <2>1 DEF LedgerInv
  <1>3. CASE ShutdownCall
    <2>1. pc = 0 /\ pc' = 1 /\ drain' = drain BY <1>3 DEF ShutdownCall
    <2> QED BY <1>0, <1>n, <2>1 DEF LedgerInv, DrainAt
  <1>4. ASSUME NEW ok \in BOOLEAN, DrainStep(ok) PROVE LedgerInv'
    <2>1. pc \in {1, 2, nOwners + 3} /\ pc' = pc + 1 /\ drain' = drain
      BY <1>4, ProgramCounter DEF DrainStep
    <2>2. \A i \in 1 .. nOwners : (pc <= i + 2) <=> (pc + 1 <= i + 2) BY <1>n, <2>1
    <2>3. pc # PanicAt /\ pc' # PanicAt BY <1>n, <2>1
    <2> QED BY <1>0, <1>n, <2>1, <2>2, <2>3 DEF LedgerInv, DrainAt
  <1>5. ASSUME NEW a \in DrainAcks, DrainOwner(a) PROVE LedgerInv'
    <2>1. PICK k \in 1 .. nOwners : /\ pc = k + 2 /\ pc' = pc + 1 /\ Program[pc] = DrainOrder[k]
                                    /\ drain' = [drain EXCEPT ![DrainOrder[k]] = a]
      <3>1. /\ pc - 2 \in 1 .. nOwners /\ Program[pc] = DrainOrder[pc - 2] /\ pc = (pc - 2) + 2
            /\ pc' = pc + 1 /\ drain' = [drain EXCEPT ![Program[pc]] = a]
        BY <1>5, ProgramCounter DEF DrainOwner
      <3> QED BY <3>1
    <2>2. a # "unreported" BY DEF DrainAcks
    <2>3. ASSUME NEW i \in 1 .. nOwners
          PROVE  DrainAt(i)' = IF i = k THEN a ELSE DrainAt(i)
      <3>1. DrainOrder[i] \in Owner /\ DrainOrder[k] \in Owner /\ (DrainOrder[i] = DrainOrder[k] => i = k)
        BY OwnersShape
      <3> QED BY <1>0, <1>n, <2>1, <3>1 DEF DrainAt, LedgerType
    <2>4. pc # PanicAt /\ pc' # PanicAt BY <1>n, <2>1
    <2>5. \A i \in 1 .. nOwners : (DrainAt(i) = "unreported") <=> (pc <= i + 2)
      BY <1>0, <2>4 DEF LedgerInv
    <2>6. ASSUME NEW i \in 1 .. nOwners PROVE (DrainAt(i)' = "unreported") <=> (pc' <= i + 2)
      BY <2>1, <2>2, <2>3, <2>5
    <2> QED BY <1>n, <2>1, <2>4, <2>6 DEF LedgerInv
  <1>6. ASSUME NEW a \in JoinAcks, JoinOwner(a) PROVE LedgerInv'
    <2>1. pc \in DOMAIN Program /\ pc > 3 + Len(DrainOrder) /\ pc' = pc + 1 /\ drain' = drain
      BY <1>6 DEF JoinOwner
    <2>2. pc > 3 + nOwners /\ pc \in 1 .. 2 * nOwners + 3 BY <2>1, ProgramCounter, ProgramShape
    <2>3. \A i \in 1 .. nOwners : ~(pc <= i + 2) /\ ~(pc' <= i + 2) BY <1>n, <2>1, <2>2
    <2>4. pc # PanicAt BY <1>n, <2>2
    <2> QED BY <1>0, <1>n, <2>1, <2>3, <2>4 DEF LedgerInv, DrainAt
  <1>7. CASE DrainPanics
    <2>1. pc' = PanicAt /\ drain' = drain BY <1>7 DEF DrainPanics
    <2> QED BY <1>0, <1>n, <2>1 DEF LedgerInv, DrainAt
  <1> QED
    BY <1>1, <1>2, <1>3, <1>4, <1>5, <1>6, <1>7
        DEF LifeNext, Begin, CrashProcess, ShutdownReturns, StartupStep, IdentifyStores, DrainTask

LEMMA FailuresStay == LifeInv /\ LifeNext => FailureInv' /\ failures' \in 0 .. 3
  <1> SUFFICES ASSUME LifeInv, LifeNext PROVE FailureInv' /\ failures' \in 0 .. 3 OBVIOUS
  <1>0. FailureInv /\ failures \in 0 .. 3 /\ pc \in 0 .. PanicAt BY DEF LifeInv, LifeTypeOK
  <1>n. /\ nOwners \in Nat /\ nOwners' = nOwners /\ PanicAt = 2 * nOwners + 5 /\ PanicAt' = PanicAt
    BY ProgramCounter DEF nOwners, PanicAt, DrainOrder, Program, JoinOrder
  <1>1. CASE failures' = failures /\ pc' = pc
    BY <1>0, <1>1, <1>n DEF FailureInv
  <1>2. CASE failures' = 0 BY <1>2 DEF FailureInv
  <1>3. CASE ShutdownCall
    BY <1>0, <1>3, <1>n DEF ShutdownCall, FailureInv
  <1>4. ASSUME NEW ok \in BOOLEAN, DrainStep(ok) PROVE FailureInv' /\ failures' \in 0 .. 3
    <2>1. pc \in {1, 2, nOwners + 3} /\ pc' = pc + 1 /\ failures' \in {failures, failures + 1}
      BY <1>4, ProgramCounter DEF DrainStep
    <2>2. CASE pc = 1 BY <1>0, <1>n, <2>1, <2>2 DEF FailureInv
    <2>3. CASE pc = 2 BY <1>0, <1>n, <2>1, <2>3 DEF FailureInv
    <2>4. CASE pc = nOwners + 3 BY <1>0, <1>n, <2>1, <2>4 DEF FailureInv
    <2> QED BY <2>1, <2>2, <2>3, <2>4
  <1>5. CASE pc \in DOMAIN Program /\ pc > 2 /\ pc' = pc + 1 /\ failures' = failures
    BY <1>0, <1>5, <1>n, ProgramCounter DEF FailureInv
  <1>6. CASE pc' = PanicAt /\ failures' = failures
    BY <1>0, <1>6, <1>n DEF FailureInv
  <1>7. ASSUME NEW a, DrainOwner(a) \/ JoinOwner(a)
        PROVE  pc \in DOMAIN Program /\ pc > 2 /\ pc' = pc + 1 /\ failures' = failures
    BY <1>n, <1>7, ProgramCounter, ProgramShape DEF DrainOwner, JoinOwner
  <1> QED
    BY <1>1, <1>2, <1>3, <1>4, <1>5, <1>6, <1>7
        DEF LifeNext, Begin, CrashProcess, ShutdownReturns, StartupStep, IdentifyStores, DrainTask,
            DrainPanics

\* A verdict is taken once; the task that had ended does not move again.
LEMMA VerdictStays ==
    LifeInv /\ LifeNext =>
      CompletedIsComplete' /\ verdict' \in {NoVerdict, "completed", "failed", "timed_out"}
  <1> SUFFICES ASSUME LifeInv, LifeNext
               PROVE  CompletedIsComplete' /\ verdict' \in {NoVerdict, "completed", "failed", "timed_out"}
    OBVIOUS
  <1>0. CompletedIsComplete /\ verdict \in {NoVerdict, "completed", "failed", "timed_out"}
    BY DEF LifeInv, LifeTypeOK
  <1>n. DoneAt' = DoneAt /\ DoneAt \notin DOMAIN Program /\ DoneAt # 0 /\ Owner' = Owner
    BY ProgramCounter DEF DoneAt, Program, JoinOrder, DrainOrder, Owner
  <1>1. CASE UNCHANGED <<pc, failures, drain, join, verdict>>
    BY <1>0, <1>1, <1>n DEF CompletedIsComplete
  <1>2. CASE verdict' = NoVerdict
    BY <1>2 DEF CompletedIsComplete, NoVerdict
  <1>3. CASE ShutdownReturns
    <2>1. verdict' \in {Outcome(TRUE), Outcome(FALSE)} /\ UNCHANGED <<pc, failures, drain, join>>
      BY <1>3 DEF ShutdownReturns
    <2>2. CASE verdict' = "completed"
      <3>1. pc = DoneAt /\ failures = 0 /\ Clean BY <2>1, <2>2 DEF Outcome
      <3>2. \A o \in Owner :
              <<drain[o], join[o]>> \in {<<"not_spawned", "not_spawned">>, <<"drained", "joined">>}
        BY <3>1 DEF Clean, DrainIsClean, JoinIsClean, AcksConsistent
      <3> QED BY <1>n, <2>1, <2>2, <3>1, <3>2 DEF CompletedIsComplete
    <2>3. CASE verdict' # "completed"
      BY <2>1, <2>3 DEF CompletedIsComplete, Outcome
    <2> QED BY <2>2, <2>3
  <1>4. CASE verdict' = verdict /\ (pc \in DOMAIN Program \/ pc = 0)
    BY <1>0, <1>4, <1>n DEF CompletedIsComplete
  <1> QED
    BY <1>1, <1>2, <1>3, <1>4
        DEF LifeNext, Begin, CrashProcess, ShutdownCall, StartupStep, IdentifyStores, DrainTask,
            DrainStep, DrainOwner, JoinOwner, DrainPanics

LEMMA LifeStep == LifeInv /\ LifeNext => LifeInv'
  BY StartupStays, LedgerTyped, LedgerStays, FailuresStay, VerdictStays
      DEF LifeInv, LifeTypeOK, StartupType, LedgerType

LEMMA LifeStays == LifeInv /\ UNCHANGED lifeVars => LifeInv'
  <1> SUFFICES ASSUME LifeInv, UNCHANGED lifeVars PROVE LifeInv' OBVIOUS
  <1>1. LifeTypeOK' BY DEF LifeInv, LifeTypeOK, lifeVars
  <1>2. StartupInv' BY DEF LifeInv, StartupInv, NeverOpensAlias, Completed, lifeVars
  <1>3. LedgerInv' BY DEF LifeInv, LedgerInv, DrainAt, lifeVars
  <1>4. FailureInv' /\ CompletedIsComplete' BY DEF LifeInv, FailureInv, CompletedIsComplete, lifeVars
  <1> QED BY <1>1, <1>2, <1>3, <1>4 DEF LifeInv

\* An action owner comes before an observer in the drain order.
LEMMA LifeReports == LifeInv => LifecycleIsHonest
  <1> SUFFICES ASSUME LifeInv PROVE LifecycleIsHonest OBVIOUS
  <1>1. ReceiptProvesStartup
    BY DEF LifeInv, StartupInv, ReceiptProvesStartup, ClassifyStartupReceipt
  <1>2. ObserversOutliveActions
    <2> SUFFICES ASSUME NEW o \in Range(ObserverOwners), NEW a \in Range(ActionOwners),
                        drain[a] = "unreported"
                 PROVE  drain[o] = "unreported"
      BY DEF ObserversOutliveActions
    <2>1. PICK i \in 1 .. Len(ActionOwners) : DrainOrder[i] = a BY OwnersShape
    <2>2. PICK k \in 1 .. nOwners : k > Len(ActionOwners) /\ DrainOrder[k] = o BY OwnersShape
    <2>3. i \in 1 .. nOwners /\ i < k BY <2>1, <2>2, ProgramShape DEF nOwners
    <2> QED BY <2>1, <2>2, <2>3 DEF LifeInv, LedgerInv, DrainAt
  <1> QED BY <1>1, <1>2 DEF LifeInv, StartupInv, LifecycleIsHonest

HIDE LifecycleAssumption

-----------------------------------------------------------------------------
(* Notification intake and hydration                                         *)

USE IntakeAssumption

\* The forwards of the node were received at a time of its clock; what reached
\* the store is settled, at the time the node received it.
Recorded ==
    /\ now >= 1
    /\ \A f \in Fwd : node[f].status # "none" => node[f].recv \in 1 .. now
    /\ \A r \in store : \E f \in Fwd : r = RowOf(f) /\ node[f].status = "settled"
    /\ \A f \in hyd.got : node[f].status = "settled"

\* Hydration runs in a process that is up.
HydratesUp == hyd.at # "off" => plug.up

\* Behind the page cursor, a settled forward of the window is in the pages read,
\* in the live queue or in the store.
Filled ==
    hyd.at \in {"page", "insert", "done"} /\ ~plug.lost =>
      \A f \in Fwd :
        node[f].status = "settled" /\ node[f].recv > hyd.start /\ (hyd.at = "page" => f < hyd.next) =>
          \/ f \in hyd.got
          \/ \E e \in events : e.fwd = f
          \/ RowOf(f) \in store

\* Hydration starts at the first page and ends with nothing left to insert.
FromTheFirst == (hyd.at = "cursor" => hyd.next = 0) /\ (hyd.at = "done" => hyd.got = {})

IntakeInv == IntakeTypeOK /\ Recorded /\ HydratesUp /\ Filled /\ FromTheFirst

\* The least and the greatest element of a set of forwards.
LEMMA MinOfNats ==
    ASSUME NEW T \in SUBSET Nat, T # {}
    PROVE  Min(T) \in T /\ \A y \in T : Min(T) <= y
  BY Minimum DEF Min

LEMMA MaxOfBounded ==
    ASSUME NEW T \in SUBSET Nat, T # {}, NEW b \in Nat, \A y \in T : y <= b
    PROVE  Max(T) \in T /\ \A y \in T : y <= Max(T)
  <1> DEFINE U == {n \in Nat : \A y \in T : y <= n}
  <1>1. PICK m \in U : \A n \in U : m <= n BY Minimum
  <1>2. m \in T
    <2>1. SUFFICES ASSUME m \notin T PROVE FALSE OBVIOUS
    <2>2. \A y \in T : y < m BY <1>1, <2>1
    <2>0. PICK y \in T : TRUE OBVIOUS
    <2>3. m >= 1 BY <2>0, <2>2
    <2>4. m - 1 \in U BY <2>2, <2>3
    <2> QED BY <1>1, <2>4
  <1>3. \A y \in T : y <= m BY <1>1
  <1> QED BY <1>2, <1>3 DEF Max

LEMMA MaxOfTwo ==
    ASSUME NEW a \in Nat, NEW b \in Nat
    PROVE  Max({a, b}) \in Nat /\ Max({a, b}) >= a /\ Max({a, b}) >= b /\ Max({a, b}) \in {a, b}
  <1>1. \A y \in {a, b} : y <= a + b OBVIOUS
  <1>2. {a, b} \in SUBSET Nat /\ {a, b} # {} /\ a + b \in Nat OBVIOUS
  <1> QED BY <1>1, <1>2, MaxOfBounded

\* Both parsers give the whole second the node received the forward in.
LEMMA ParsersAgree ==
    ASSUME NEW t \in Nat, NEW float \in BOOLEAN
    PROVE  JsonTimestamp(Wire(t, float), float) = t
  <1>1. (2 * t + 1) \div 2 = t OBVIOUS
  <1> QED BY <1>1 DEF JsonTimestamp, Wire

\* The newest stored forward is one of the store.
LEMMA LastIsStored ==
    ASSUME IntakeTypeOK, store # {}, Recorded
    PROVE  \E l \in Nat : LastForwardTs = {l} /\ \E r \in store : r.ts = l
  <1> DEFINE T == {r.ts : r \in store}
  <1>1. T \in SUBSET Nat /\ T # {} /\ now \in Nat /\ \A y \in T : y <= now
    <2>1. now \in Nat /\ \A r \in store : r.ts \in Nat BY DEF IntakeTypeOK
    <2>2. \A r \in store : \E f \in Fwd : r.ts = node[f].recv /\ node[f].status = "settled"
      BY DEF Recorded, RowOf
    <2>3. \A r \in store : r.ts <= now BY <2>1, <2>2 DEF Recorded
    <2> QED BY <2>1, <2>3
  <1>2. Max(T) \in T BY <1>1, MaxOfBounded
  <1> QED BY <1>2 DEF LastForwardTs, IntakeTypeOK

LEMMA StartIsNat ==
    ASSUME IntakeTypeOK, Recorded, NEW s \in HydrationStart(LastForwardTs, now)
    PROVE  s \in Nat
  <1>1. now \in Nat BY DEF IntakeTypeOK
  <1>2. CASE store = {} BY <1>1, <1>2 DEF HydrationStart, LastForwardTs, Minus
  <1>3. CASE store # {}
    <2>1. PICK l \in Nat : LastForwardTs = {l} BY <1>3, LastIsStored
    <2>2. Max({l}) = l
      <3>1. {l} \in SUBSET Nat /\ {l} # {} /\ \A y \in {l} : y <= l OBVIOUS
      <3> QED BY <3>1, MaxOfBounded
    <2>3. Minus(l, Overlap) \in Nat /\ Minus(now, Window + 1) \in Nat BY <1>1 DEF Minus
    <2>4. s = Max({Minus(l, Overlap), Minus(now, Window + 1)})
      BY <2>1, <2>2 DEF HydrationStart
    <2> QED BY <2>3, <2>4, MaxOfTwo
  <1> QED BY <1>2, <1>3

-----------------------------------------------------------------------------
(* Paging                                                                    *)

LEMMA ListedFinite ==
    ASSUME NEW from
    PROVE  IsFiniteSet(Listed(from)) /\ Listed(from) \in SUBSET Nat /\ \A f \in Listed(from) : f <= Forwards
  <1>1. IsFiniteSet(1 .. Forwards) BY FS_Interval
  <1>2. Listed(from) \subseteq 1 .. Forwards BY DEF Listed, Fwd
  <1>3. IsFiniteSet(Listed(from)) BY <1>1, <1>2, FS_Subset
  <1> QED BY <1>2, <1>3

\* A page holds a beginning of the listing.
LEMMA PageIsPrefix ==
    ASSUME NEW from, NEW f \in Listed(from), NEW g \in Page(from), f < g
    PROVE  f \in Page(from)
  <1> DEFINE B(x) == {h \in Listed(from) : h < x}
  <1>1. IsFiniteSet(Listed(from)) /\ Listed(from) \in SUBSET Nat BY ListedFinite
  <1>2. g \in Listed(from) /\ Cardinality(B(g)) < PageLimit BY DEF Page
  <1>3. B(f) \subseteq B(g) /\ IsFiniteSet(B(g))
    <2>1. B(g) \subseteq Listed(from) OBVIOUS
    <2>2. IsFiniteSet(B(g)) BY <1>1, <2>1, FS_Subset
    <2>3. ASSUME NEW h \in B(f) PROVE h \in B(g) BY <1>1, <1>2, <2>3
    <2> QED BY <2>2, <2>3
  <1>4. Cardinality(B(f)) <= Cardinality(B(g)) BY <1>3, FS_Subset
  <1>5. Cardinality(B(f)) \in Nat /\ Cardinality(B(g)) \in Nat
    BY <1>3, FS_Subset, FS_CardinalityType
  <1>6. Cardinality(B(f)) < PageLimit BY <1>2, <1>4, <1>5
  <1> QED BY <1>6 DEF Page

\* A page that is not full ends the listing.
LEMMA ShortPageIsAll ==
    ASSUME NEW from, Cardinality(Page(from)) < PageLimit
    PROVE  Page(from) = Listed(from)
  <1>0. Page(from) \subseteq Listed(from) BY DEF Page
  <1>1. SUFFICES ASSUME NEW f0 \in Listed(from), f0 \notin Page(from) PROVE FALSE BY <1>0
  <1> DEFINE Rest == Listed(from) \ Page(from)
             B(x) == {h \in Listed(from) : h < x}
  <1>2. Rest \in SUBSET Nat /\ Rest # {} BY <1>1, ListedFinite
  <1>3. PICK f \in Rest : \A y \in Rest : f <= y BY <1>2, Minimum
  <1>4. ASSUME NEW h \in B(f) PROVE h \in Page(from)
    <2>1. h \in Listed(from) /\ h < f /\ h \in Nat /\ f \in Nat BY <1>3, <1>4, ListedFinite
    <2> QED BY <1>3, <2>1
  <1>5. IsFiniteSet(Page(from)) BY <1>0, ListedFinite, FS_Subset
  <1>6. /\ Cardinality(B(f)) <= Cardinality(Page(from))
        /\ Cardinality(B(f)) \in Nat /\ Cardinality(Page(from)) \in Nat
    BY <1>4, <1>5, FS_Subset, FS_CardinalityType
  <1>7. Cardinality(B(f)) < PageLimit BY <1>6
  <1>8. f \in Page(from) BY <1>3, <1>7 DEF Page
  <1> QED BY <1>3, <1>8

\* A full page ends at its greatest index; nothing settled before it is left out.
LEMMA FullPageAdvances ==
    ASSUME NEW from, ~(Cardinality(Page(from)) < PageLimit)
    PROVE  /\ NextAfter(Page(from)) \in Nat
           /\ \A f \in Listed(from) : f < NextAfter(Page(from)) => f \in Page(from)
  <1>1. Page(from) # {} BY FS_EmptySet
  <1>2. Page(from) \subseteq Listed(from) BY DEF Page
  <1>3. Page(from) \in SUBSET Nat /\ \A y \in Page(from) : y <= Forwards BY <1>2, ListedFinite
  <1>4. Max(Page(from)) \in Page(from) /\ \A y \in Page(from) : y <= Max(Page(from))
    BY <1>1, <1>3, MaxOfBounded
  <1>5. ASSUME NEW f \in Listed(from), f < NextAfter(Page(from)) PROVE f \in Page(from)
    <2>1. f \in Nat /\ Max(Page(from)) \in Nat /\ (f = Max(Page(from)) \/ f < Max(Page(from)))
      BY <1>3, <1>4, <1>5, ListedFinite DEF NextAfter
    <2> QED BY <1>4, <2>1, PageIsPrefix
  <1> QED BY <1>3, <1>4, <1>5 DEF NextAfter

-----------------------------------------------------------------------------
(* Each step of intake                                                       *)

HydType ==
    [at : {"off", "cursor", "page", "insert", "done", "skipped", "aborted"},
     start : Nat, next : Nat, pages : Nat, got : SUBSET Fwd]
NodeType == [Fwd -> [status : {"none", "offered", "settled", "failed"}, recv : 0 .. MaxTime, done : 0 .. MaxTime]]
RowType == [cols : {Cols[f] : f \in Fwd}, ts : Nat, done : Nat]

LEMMA IntakeStarts == IntakeInit => IntakeInv
  <1> SUFFICES ASSUME IntakeInit PROVE IntakeInv OBVIOUS
  <1>1. node \in NodeType BY DEF IntakeInit, NotYet, NodeType
  <1>2. hyd \in HydType BY DEF IntakeInit, NoHydration, HydType
  <1>3. now = 1 /\ events = {} /\ store = {} /\ plug = [up |-> FALSE, starts |-> 0, lost |-> FALSE]
        /\ hyd = NoHydration /\ \A f \in Fwd : node[f].status = "none"
    BY DEF IntakeInit, NotYet
  <1>4. plug \in [up : BOOLEAN, starts : 0 .. MaxStarts, lost : BOOLEAN] BY <1>3
  <1>5. hyd.at = "off" /\ hyd.got = {} BY <1>3 DEF NoHydration
  <1>6. IntakeTypeOK
    <2>1. now \in 0 .. MaxTime BY <1>3
    <2>2. events \subseteq [fwd : Fwd, float : BOOLEAN] /\ store \subseteq RowType BY <1>3
    <2> QED BY <1>1, <1>2, <1>4, <2>1, <2>2 DEF RowType,  IntakeTypeOK, NodeType, HydType
  <1>7. Recorded BY <1>3, <1>5 DEF Recorded
  <1> QED BY <1>5, <1>6, <1>7 DEF IntakeInv, HydratesUp, Filled, FromTheFirst

\* A row parsed from either source.
LEMMA RowParsed ==
    ASSUME IntakeInv, NEW f \in Fwd, NEW float \in BOOLEAN
    PROVE  ForwardRow(f, float) = RowOf(f) /\ RowOf(f) \in RowType
  <1>1. node[f].recv \in Nat /\ node[f].done \in Nat BY DEF IntakeInv, IntakeTypeOK
  <1> QED BY <1>1, ParsersAgree DEF ForwardRow, RowOf, RowType

\* What insert_forward_ignore_dup leaves in the store.
LEMMA InsertKeeps ==
    ASSUME IntakeInv, NEW f \in Fwd, node[f].status = "settled", NEW float \in BOOLEAN, NEW ok \in BOOLEAN,
           InsertForward(ForwardRow(f, float), ok)
    PROVE  /\ store' \subseteq RowType
           /\ \A r \in store' : \E g \in Fwd : r = RowOf(g) /\ node[g].status = "settled"
           /\ store \subseteq store'
           /\ ok => RowOf(f) \in store'
  <1>0. store \subseteq RowType /\ \A r \in store : \E g \in Fwd : r = RowOf(g) /\ node[g].status = "settled"
    BY DEF IntakeInv, IntakeTypeOK, Recorded, RowType
  <1>1. CASE ok
    <2>1. store' = store \union {RowOf(f)} BY <1>1, RowParsed DEF InsertForward
    <2>2. RowOf(f) \in RowType BY RowParsed
    <2> QED BY <1>0, <2>1, <2>2
  <1>2. CASE ~ok
    BY <1>0, <1>2 DEF InsertForward
  <1> QED BY <1>1, <1>2

\* A row stays the row of its forward while that forward is as it was.
LEMMA RowStays ==
    ASSUME NEW f \in Fwd, node'[f] = node[f]
    PROVE  RowOf(f)' = RowOf(f)
  BY DEF RowOf

LEMMA OfferStep == ASSUME IntakeInv, NEW f \in Fwd, Offer(f) PROVE IntakeInv'
  <1>0. /\ node \in NodeType /\ now \in 1 .. MaxTime /\ node[f].status = "none"
        /\ node' = [node EXCEPT ![f] = [status |-> "offered", recv |-> now, done |-> 0]]
        /\ UNCHANGED <<now, events, store, hyd, plug>>
    BY DEF IntakeInv, IntakeTypeOK, Recorded, NodeType, Offer
  <1>1. /\ node' \in NodeType /\ node'[f].status = "offered" /\ node'[f].recv = now
        /\ \A g \in Fwd \ {f} : node'[g] = node[g]
    BY <1>0 DEF NodeType
  <1>2. \A r \in store' : \E g \in Fwd : r = RowOf(g)' /\ node'[g].status = "settled"
    <2> SUFFICES ASSUME NEW r \in store PROVE \E g \in Fwd : r = RowOf(g)' /\ node'[g].status = "settled"
      BY <1>0
    <2>1. PICK g \in Fwd : r = RowOf(g) /\ node[g].status = "settled" BY DEF IntakeInv, Recorded
    <2>2. node'[g] = node[g] BY <1>0, <1>1, <2>1
    <2> QED BY <2>1, <2>2, RowStays
  <1>3. \A g \in hyd.got : g \in Fwd \ {f}
    BY <1>0 DEF IntakeInv, IntakeTypeOK, Recorded
  <1>4. IntakeTypeOK' BY <1>0, <1>1 DEF IntakeInv, IntakeTypeOK, NodeType
  <1>5. Recorded' BY <1>0, <1>1, <1>2, <1>3 DEF IntakeInv, Recorded
  <1>6. Filled' BY <1>0, <1>1, RowStays DEF IntakeInv, Filled
  <1> QED BY <1>0, <1>4, <1>5, <1>6 DEF IntakeInv, HydratesUp, FromTheFirst

\* A forward that settles while hydration runs is in the live queue.
LEMMA ResolveStep ==
    ASSUME IntakeInv, NEW f \in Fwd, NEW s \in {"settled", "failed"}, Resolve(f, s) PROVE IntakeInv'
  <1>0. /\ node \in NodeType /\ node[f].status = "offered" /\ now \in 1 .. MaxTime
        /\ node' = [node EXCEPT ![f] = [@ EXCEPT !.status = s, !.done = now]] /\ UNCHANGED <<now, store, hyd, plug>>
        /\ events' = IF plug.up THEN events \union {[fwd |-> f, float |-> TRUE]} ELSE events
    BY DEF IntakeInv, IntakeTypeOK, Recorded, NodeType, Resolve
  <1>1. /\ node' \in NodeType /\ node'[f].status = s /\ node'[f].recv = node[f].recv
        /\ \A g \in Fwd \ {f} : node'[g] = node[g]
    <2> DEFINE R == [status : {"none", "offered", "settled", "failed"}, recv : 0 .. MaxTime, done : 0 .. MaxTime]
    <2>1. PICK r \in R : r = node[f] BY <1>0 DEF NodeType
    <2> DEFINE x == [r EXCEPT !.status = s, !.done = now]
    <2>2. x \in R /\ x.status = s /\ x.recv = r.recv
      <3>1. now \in 0 .. MaxTime /\ s \in {"none", "offered", "settled", "failed"} BY <1>0
      <3> QED BY <2>1, <3>1
    <2>3. node' = [node EXCEPT ![f] = x] BY <1>0, <2>1
    <2> HIDE DEF x, R
    <2>4. node \in [Fwd -> R] BY <1>0 DEF NodeType, R
    <2>5. node' \in [Fwd -> R] /\ node'[f] = x /\ \A g \in Fwd \ {f} : node'[g] = node[g] BY <2>2, <2>3, <2>4
    <2> QED BY <2>1, <2>2, <2>5 DEF NodeType, R
  <1>2. events' \subseteq [fwd : Fwd, float : BOOLEAN] /\ events \subseteq events'
    <2>1. [fwd |-> f, float |-> TRUE] \in [fwd : Fwd, float : BOOLEAN] OBVIOUS
    <2>2. events \subseteq [fwd : Fwd, float : BOOLEAN] BY DEF IntakeInv, IntakeTypeOK
    <2> QED BY <1>0, <2>1, <2>2
  <1>3. IntakeTypeOK' BY <1>0, <1>1, <1>2 DEF IntakeInv, IntakeTypeOK, NodeType
  <1>4. Recorded'
    <2>1. \A r \in store' : \E g \in Fwd : r = RowOf(g)' /\ node'[g].status = "settled"
      <3> SUFFICES ASSUME NEW r \in store PROVE \E g \in Fwd : r = RowOf(g)' /\ node'[g].status = "settled"
        BY <1>0
      <3>1. PICK g \in Fwd : r = RowOf(g) /\ node[g].status = "settled" BY DEF IntakeInv, Recorded
      <3>2. node'[g] = node[g] BY <1>0, <1>1, <3>1
      <3> QED BY <3>1, <3>2, RowStays
    <2>2. \A g \in hyd.got : g \in Fwd \ {f} BY <1>0 DEF IntakeInv, IntakeTypeOK, Recorded
    <2>3. \A g \in Fwd : node'[g].status # "none" => node'[g].recv \in 1 .. now
      BY <1>0, <1>1 DEF IntakeInv, Recorded
    <2> QED BY <1>0, <1>1, <2>1, <2>2, <2>3 DEF IntakeInv, Recorded
  <1>5. Filled'
    <2>1. CASE plug.up
      <3>1. [fwd |-> f, float |-> TRUE] \in events' BY <1>0, <2>1
      <3>2. \E e \in events' : e.fwd = f BY <3>1
      <3> QED BY <1>0, <1>1, <1>2, <3>2, RowStays DEF IntakeInv, Filled
    <2>2. CASE ~plug.up
      <3>1. hyd.at = "off" BY <2>2 DEF IntakeInv, HydratesUp
      <3> QED BY <1>0, <3>1 DEF Filled
    <2> QED BY <2>1, <2>2
  <1> QED BY <1>0, <1>3, <1>4, <1>5 DEF IntakeInv, HydratesUp, FromTheFirst

LEMMA PassStepKeeps == ASSUME IntakeInv, Pass PROVE IntakeInv'
  <1>1. now' = now + 1 /\ now < MaxTime /\ now \in Nat /\ UNCHANGED <<node, events, store, hyd, plug>>
    BY DEF IntakeInv, IntakeTypeOK, Pass, RowType
  <1>2. IntakeTypeOK' BY <1>1 DEF IntakeInv, IntakeTypeOK, RowType
  <1>3. Recorded' BY <1>1 DEF IntakeInv, Recorded, RowOf
  <1> QED BY <1>1, <1>2, <1>3 DEF IntakeInv, HydratesUp, Filled, FromTheFirst, RowOf

LEMMA ForwardEventStep ==
    ASSUME IntakeInv, NEW e \in events, NEW ok \in BOOLEAN, ForwardEvent(e, ok) PROVE IntakeInv'
  <1>0. /\ e.fwd \in Fwd /\ e.float \in BOOLEAN /\ events' = events \ {e} /\ UNCHANGED <<now, node, hyd>>
        /\ plug \in [up : BOOLEAN, starts : 0 .. MaxStarts, lost : BOOLEAN]
    BY DEF IntakeInv, IntakeTypeOK, ForwardEvent, RowType
  <1>1. CASE node[e.fwd].status = "settled"
    <2>1. /\ InsertForward(ForwardRow(e.fwd, e.float), ok) /\ plug' = [plug EXCEPT !.lost = @ \/ ~ok]
      BY <1>1 DEF ForwardEvent
    <2>2. /\ store' \subseteq RowType /\ store \subseteq store'
          /\ \A r \in store' : \E g \in Fwd : r = RowOf(g) /\ node[g].status = "settled"
          /\ ok => RowOf(e.fwd) \in store'
      BY <1>0, <1>1, <2>1, InsertKeeps
    <2>3. plug' \in [up : BOOLEAN, starts : 0 .. MaxStarts, lost : BOOLEAN] /\ plug'.up = plug.up
      BY <1>0, <2>1
    <2>4. ~plug'.lost => ok /\ ~plug.lost BY <1>0, <2>1
    <2>5. IntakeTypeOK' BY <1>0, <2>2, <2>3 DEF IntakeInv, IntakeTypeOK, RowType
    <2>6. Recorded' BY <1>0, <2>2 DEF IntakeInv, Recorded, RowOf
    <2>7. Filled' BY <1>0, <2>2, <2>4 DEF IntakeInv, Filled, RowOf
    <2> QED BY <1>0, <2>3, <2>5, <2>6, <2>7 DEF IntakeInv, HydratesUp, FromTheFirst
  <1>2. CASE node[e.fwd].status # "settled"
    <2>1. UNCHANGED <<store, plug>> BY <1>2 DEF ForwardEvent
    <2>2. IntakeTypeOK' BY <1>0, <2>1 DEF IntakeInv, IntakeTypeOK, RowType
    <2>3. Filled' BY <1>0, <1>2, <2>1 DEF IntakeInv, Filled, RowOf
    <2> QED BY <1>0, <2>1, <2>2, <2>3 DEF IntakeInv, Recorded, HydratesUp, FromTheFirst, RowOf
  <1> QED BY <1>1, <1>2

LEMMA PlugStep == ASSUME IntakeInv, PluginStart \/ PluginStop PROVE IntakeInv'
  <1>0. plug \in [up : BOOLEAN, starts : 0 .. MaxStarts, lost : BOOLEAN] BY DEF IntakeInv, IntakeTypeOK, RowType
  <1>1. /\ hyd' \in HydType /\ hyd'.at \in {"off", "cursor"} /\ hyd'.got = {}
        /\ hyd'.next = 0 /\ (hyd'.at # "off" => plug'.up)
    BY DEF PluginStart, PluginStop, NoHydration, HydType
  <1>2. plug' \in [up : BOOLEAN, starts : 0 .. MaxStarts, lost : BOOLEAN]
    <2>1. CASE PluginStart
      <3>1. plug' = [up |-> TRUE, starts |-> plug.starts + 1, lost |-> FALSE]
            /\ plug.starts + 1 \in 0 .. MaxStarts
        BY <1>0, <2>1 DEF PluginStart
      <3> QED BY <3>1
    <2>2. CASE PluginStop BY <1>0, <2>2 DEF PluginStop
    <2> QED BY <2>1, <2>2
  <1>3. UNCHANGED <<now, node, store>> /\ events' \subseteq events
    BY DEF PluginStart, PluginStop
  <1>4. IntakeTypeOK' BY <1>1, <1>2, <1>3 DEF IntakeInv, IntakeTypeOK, HydType, RowType
  <1> QED BY <1>1, <1>3, <1>4 DEF IntakeInv, Recorded, HydratesUp, Filled, FromTheFirst, RowOf

LEMMA CursorStep == ASSUME IntakeInv, ReadCursor PROVE IntakeInv'
  <1>0. hyd \in HydType /\ hyd.at = "cursor" /\ plug.up /\ UNCHANGED <<now, node, events, store, plug>>
    BY DEF IntakeInv, IntakeTypeOK, HydType, HydratesUp, ReadCursor, RowType
  <1>1. CASE hyd' = [hyd EXCEPT !.at = "aborted"] \/ hyd' = [hyd EXCEPT !.at = "skipped"]
    <2>1. hyd' \in HydType /\ hyd'.at \in {"aborted", "skipped"} /\ hyd'.got = hyd.got
      BY <1>0, <1>1 DEF HydType
    <2> QED
      BY <1>0, <2>1 DEF IntakeInv, IntakeTypeOK, HydType, Recorded, HydratesUp, Filled, FromTheFirst, RowOf, RowType
  <1>2. ASSUME NEW s \in HydrationStart(LastForwardTs, now), hyd' = [hyd EXCEPT !.at = "page", !.start = s]
        PROVE  IntakeInv'
    <2>1. s \in Nat BY StartIsNat DEF IntakeInv
    <2>2. /\ hyd' \in HydType /\ hyd'.at = "page" /\ hyd'.got = hyd.got /\ hyd'.next = hyd.next
          /\ hyd'.start = s
      BY <1>0, <1>2, <2>1 DEF HydType
    <2>3. hyd.next = 0 BY <1>0 DEF IntakeInv, FromTheFirst
    <2>4. Filled' BY <1>0, <2>2, <2>3 DEF Filled, Fwd, RowOf
    <2> QED
      BY <1>0, <2>2, <2>4 DEF IntakeInv, IntakeTypeOK, HydType, Recorded, HydratesUp, FromTheFirst, RowOf, RowType
  <1> QED BY <1>1, <1>2 DEF ReadCursor

\* One page: everything settled behind its end is in it or before it.
LEMMA FetchStep == ASSUME IntakeInv, FetchPage PROVE IntakeInv'
  <1> DEFINE page == Page(hyd.next)
             got == hyd.got \union {f \in page : JsonTimestamp(Wire(node[f].recv, TRUE), TRUE) > hyd.start}
  <1>0. /\ hyd \in HydType /\ hyd.at = "page" /\ plug.up /\ UNCHANGED <<now, node, events, store, plug>>
    BY DEF IntakeInv, IntakeTypeOK, HydType, HydratesUp, FetchPage, RowType
  <1>1. /\ page \subseteq Listed(hyd.next) /\ page \subseteq Fwd /\ \A f \in page : node[f].status = "settled"
    BY DEF Page, Listed
  <1>2. got \subseteq Fwd /\ \A f \in got : node[f].status = "settled"
    BY <1>0, <1>1 DEF IntakeInv, Recorded, HydType, RowOf
  <1>3. \A f \in page : node[f].recv > hyd.start => f \in got
    <2>1. ASSUME NEW f \in page PROVE JsonTimestamp(Wire(node[f].recv, TRUE), TRUE) = node[f].recv
      <3>1. node[f].recv \in Nat BY <1>1, <2>1 DEF IntakeInv, IntakeTypeOK, RowType
      <3> QED BY <3>1, ParsersAgree
    <2> QED BY <2>1
  <1>4. hyd.got \subseteq got OBVIOUS
  <1>5. \/ hyd' = [hyd EXCEPT !.at = "aborted"]
        \/ hyd' = [hyd EXCEPT !.at = "insert", !.got = got] /\ Cardinality(page) < PageLimit
        \/ /\ hyd' = [hyd EXCEPT !.next = NextAfter(page), !.pages = @ + 1, !.got = got]
           /\ ~(Cardinality(page) < PageLimit)
    BY DEF FetchPage
  <1>6. IntakeInv /\ hyd.next \in Nat /\ hyd.start \in Nat BY <1>0 DEF HydType
  <1>7. \A f \in Fwd : node[f].status = "settled" => f \in Listed(hyd.next) \/ f < hyd.next
    BY <1>6 DEF Listed, Fwd
  <1> HIDE DEF got, page
  <1>8. CASE hyd' = [hyd EXCEPT !.at = "aborted"]
    <2>1. hyd' \in HydType /\ hyd'.at = "aborted" /\ hyd'.got = hyd.got BY <1>0, <1>8 DEF HydType
    <2> QED
      BY <1>0, <2>1 DEF IntakeInv, IntakeTypeOK, HydType, Recorded, HydratesUp, Filled, FromTheFirst, RowOf, RowType
  <1>9. CASE hyd' = [hyd EXCEPT !.at = "insert", !.got = got] /\ Cardinality(page) < PageLimit
    <2>1. hyd' \in HydType /\ hyd'.at = "insert" /\ hyd'.got = got /\ hyd'.start = hyd.start
      BY <1>0, <1>2, <1>9 DEF HydType
    <2>2. page = Listed(hyd.next) BY <1>9, ShortPageIsAll DEF page
    <2>3. Filled'
      BY <1>0, <1>3, <1>4, <1>7, <2>1, <2>2 DEF IntakeInv, Filled, RowOf
    <2> QED
      BY <1>0, <1>2, <2>1, <2>3 DEF IntakeInv, IntakeTypeOK, HydType, Recorded, HydratesUp, FromTheFirst, RowOf, RowType
  <1>10. CASE /\ hyd' = [hyd EXCEPT !.next = NextAfter(page), !.pages = @ + 1, !.got = got]
              /\ ~(Cardinality(page) < PageLimit)
    <2>1. /\ NextAfter(page) \in Nat /\ hyd.pages + 1 \in Nat
          /\ \A f \in Listed(hyd.next) : f < NextAfter(page) => f \in page
      BY <1>0, <1>10, FullPageAdvances DEF page, HydType
    <2>2. /\ hyd' \in HydType /\ hyd'.at = "page" /\ hyd'.got = got /\ hyd'.start = hyd.start
          /\ hyd'.next = NextAfter(page)
      BY <1>0, <1>2, <1>10, <2>1 DEF HydType
    <2>3. Filled'
      BY <1>0, <1>3, <1>4, <1>7, <2>1, <2>2 DEF IntakeInv, Filled, RowOf
    <2> QED
      BY <1>0, <1>2, <2>2, <2>3 DEF IntakeInv, IntakeTypeOK, HydType, Recorded, HydratesUp, FromTheFirst, RowOf, RowType
  <1> QED BY <1>5, <1>8, <1>9, <1>10

LEMMA InsertFetchedStep ==
    ASSUME IntakeInv, NEW ok \in BOOLEAN, InsertFetched(ok) PROVE IntakeInv'
  <1>0. /\ hyd \in HydType /\ hyd.at = "insert" /\ plug.up /\ UNCHANGED <<now, node, events>>
        /\ plug \in [up : BOOLEAN, starts : 0 .. MaxStarts, lost : BOOLEAN]
    BY DEF IntakeInv, IntakeTypeOK, HydType, HydratesUp, InsertFetched, RowType
  <1>1. CASE hyd.got = {}
    <2>1. hyd' = [hyd EXCEPT !.at = "done"] /\ UNCHANGED <<store, plug>> BY <1>1 DEF InsertFetched
    <2>2. hyd' \in HydType /\ hyd'.at = "done" /\ hyd'.got = hyd.got /\ hyd'.start = hyd.start
      BY <1>0, <2>1 DEF HydType
    <2>3. Filled' BY <1>0, <2>1, <2>2 DEF IntakeInv, Filled, RowOf
    <2> QED
      BY <1>0, <1>1, <2>1, <2>2, <2>3 DEF IntakeInv, IntakeTypeOK, HydType, Recorded, HydratesUp, FromTheFirst, RowOf, RowType
  <1>2. CASE hyd.got # {}
    <2> DEFINE f == Min(hyd.got)
    <2>1. f \in hyd.got /\ f \in Fwd /\ node[f].status = "settled"
      <3>1. hyd.got \in SUBSET Nat /\ hyd.got \in SUBSET Fwd BY <1>0 DEF HydType, Fwd
      <3> QED BY <1>2, <3>1, MinOfNats DEF IntakeInv, Recorded, RowOf
    <2>2. /\ InsertForward(ForwardRow(f, FALSE), ok) /\ plug' = [plug EXCEPT !.lost = @ \/ ~ok]
          /\ hyd' = [hyd EXCEPT !.got = @ \ {f}]
      BY <1>2 DEF InsertFetched
    <2> HIDE DEF f
    <2>3. /\ store' \subseteq RowType /\ store \subseteq store'
          /\ \A r \in store' : \E g \in Fwd : r = RowOf(g) /\ node[g].status = "settled"
          /\ ok => RowOf(f) \in store'
      BY <2>1, <2>2, InsertKeeps
    <2>4. plug' \in [up : BOOLEAN, starts : 0 .. MaxStarts, lost : BOOLEAN] /\ plug'.up = plug.up
      BY <1>0, <2>2
    <2>5. ~plug'.lost => ok /\ ~plug.lost BY <1>0, <2>2
    <2>6. /\ hyd' \in HydType /\ hyd'.at = "insert" /\ hyd'.got = hyd.got \ {f}
          /\ hyd'.start = hyd.start
      BY <1>0, <2>2 DEF HydType
    <2>7. IntakeTypeOK' BY <1>0, <2>3, <2>4, <2>6 DEF IntakeInv, IntakeTypeOK, HydType, RowType
    <2>8. Recorded' BY <1>0, <2>3, <2>6 DEF IntakeInv, Recorded, RowOf
    <2>9. Filled' BY <1>0, <2>3, <2>5, <2>6 DEF IntakeInv, Filled, RowOf
    <2> QED BY <1>0, <2>4, <2>6, <2>7, <2>8, <2>9 DEF IntakeInv, HydratesUp, FromTheFirst
  <1> QED BY <1>1, <1>2

LEMMA IntakeStep == IntakeInv /\ IntakeNext => IntakeInv'
  BY OfferStep, ResolveStep, PassStepKeeps, ForwardEventStep, PlugStep, CursorStep, FetchStep,
     InsertFetchedStep DEF IntakeNext

LEMMA IntakeStays == IntakeInv /\ UNCHANGED intakeVars => IntakeInv'
  BY DEF IntakeInv, IntakeTypeOK, Recorded, HydratesUp, Filled, FromTheFirst, intakeVars, RowOf, RowType

LEMMA IntakeReports == IntakeInv => IntakeIsWhole
  <1> SUFFICES ASSUME IntakeInv PROVE IntakeIsWhole OBVIOUS
  <1>1. NoDoubleRow BY DEF IntakeInv, IntakeTypeOK, Recorded, NoDoubleRow, RowOf, RowType
  <1>2. HydrationFillsWindow BY DEF IntakeInv, Filled, FromTheFirst, HydrationFillsWindow, RowOf
  <1> QED BY <1>1, <1>2 DEF IntakeInv, IntakeIsWhole

\* The start of a backfill is behind every forward of the overlap.
LEMMA BackfillReachesBack ==
    ASSUME IntakeInv, ReadCursor, hyd'.at = "page", NEW f \in Fwd, node[f].status = "settled",
           node[f].recv + Overlap > Max({0} \union LastForwardTs), node[f].recv + Window > now
    PROVE  node[f].recv > hyd'.start
  <1>0. hyd \in HydType /\ now \in Nat /\ node[f].recv \in Nat /\ node[f].recv >= 1
    BY DEF IntakeInv, IntakeTypeOK, HydType, Recorded
  <1>1. PICK s \in HydrationStart(LastForwardTs, now) : hyd' = [hyd EXCEPT !.at = "page", !.start = s]
    BY <1>0 DEF ReadCursor, HydType
  <1>2. hyd'.start = s BY <1>0, <1>1 DEF HydType
  <1>3. CASE store = {}
    <2>1. s = Minus(now, Window) BY <1>1, <1>3 DEF HydrationStart, LastForwardTs
    <2> QED BY <1>0, <1>2, <2>1 DEF Minus
  <1>4. CASE store # {}
    <2>1. PICK l \in Nat : LastForwardTs = {l} BY <1>4, LastIsStored DEF IntakeInv
    <2>2. Max({l}) = l
      <3>1. {l} \in SUBSET Nat /\ {l} # {} /\ \A y \in {l} : y <= l OBVIOUS
      <3> QED BY <3>1, MaxOfBounded
    <2>3. Minus(l, Overlap) \in Nat /\ Minus(now, Window + 1) \in Nat BY <1>0 DEF Minus
    <2>4. s = Max({Minus(l, Overlap), Minus(now, Window + 1)})
      BY <1>1, <2>1, <2>2 DEF HydrationStart
    <2>5. s \in {Minus(l, Overlap), Minus(now, Window + 1)} BY <2>3, <2>4, MaxOfTwo
    <2>6. Max({0} \union LastForwardTs) >= l
      <3>1. {0} \union LastForwardTs = {0, l} BY <2>1
      <3> QED BY <3>1, MaxOfTwo
    <2>7. Max({0} \union LastForwardTs) \in Nat
      <3>1. {0} \union LastForwardTs = {0, l} BY <2>1
      <3> QED BY <3>1, MaxOfTwo
    <2> QED BY <1>0, <1>2, <2>3, <2>5, <2>6, <2>7 DEF Minus
  <1> QED BY <1>3, <1>4

HIDE IntakeAssumption

-----------------------------------------------------------------------------
(* The retention sweep                                                       *)

USE RetentionAssumption

RowsType == [Table -> [young : 0 .. MaxYoung, old : 0 .. MaxRows]]

LEMMA RetStarts == RetInit => rows \in RowsType
  BY DEF RetInit, RowsType

LEMMA RetStep == rows \in RowsType /\ RetNext => rows' \in RowsType
  <1> SUFFICES ASSUME rows \in RowsType, RetNext PROVE rows' \in RowsType OBVIOUS
  <1>1. CASE rows' = rows BY <1>1
  <1>2. ASSUME NEW t \in Table, Record(t) PROVE rows' \in RowsType
    BY <1>2 DEF Record, RowsType
  <1>3. ASSUME NEW t \in Table, Expire(t) PROVE rows' \in RowsType
    <2>1. /\ rows[t].young - 1 \in 0 .. MaxYoung /\ rows[t].old + 1 \in 0 .. MaxRows
          /\ rows' = [rows EXCEPT ![t] = [young |-> rows[t].young - 1, old |-> rows[t].old + 1]]
      BY <1>3 DEF Expire, RowsType
    <2> QED BY <2>1 DEF RowsType
  <1>4. CASE SweepBatch
    <2> DEFINE t == sweep.index
               gone == Lesser(Eligible(t), BatchRows)
    <2>1. rows' = [rows EXCEPT ![t].old = @ - gone] BY <1>4 DEF SweepBatch
    <2>2. CASE t \in Table
      <3>1. rows[t].old \in 0 .. MaxRows /\ rows[t].old - gone \in 0 .. MaxRows
        BY <2>2 DEF RowsType, Eligible, Lesser
      <3> HIDE DEF gone, t
      <3> QED BY <2>1, <2>2, <3>1 DEF RowsType
    <2>3. CASE t \notin Table
      <3> HIDE DEF gone, t
      <3> QED BY <2>1, <2>3 DEF RowsType
    <2> QED BY <2>2, <2>3
  <1> QED
    BY <1>1, <1>2, <1>3, <1>4
        DEF RetNext, ScheduleSweep, SweepFails, SweepEnds, SweepResult, Tick, RestartKeeper

SweepType ==
    [at : {"none", "running", "swept", "failed", "lost"}, index : Table, batches : 0 .. MaxBatches,
     empty : 0 .. Targets, next : Table]
KeeperType ==
    [cursor : Table, inFlight : BOOLEAN, failures : 0 .. MaxFaults, silent : 0 .. MaxSilence + 1,
     truncated : Never .. Tolerance + 1]

\* Every failure the owner counts, or is about to count, is a fault that happened.
FailuresHappened == keeper.failures + (IF sweep.at = "failed" THEN 1 ELSE 0) <= faults

RetInv == RetTypeOK /\ FailuresHappened

LEMMA Tables == Targets \in Nat \ {0} /\ Table = 0 .. Targets - 1 /\ 0 \in Table
                /\ \A t \in Table : After(t) \in Table /\ (t + 1) % Targets \in Table
  BY DEF Targets, Table, After

LEMMA RetInvStarts == RetInit => RetInv
  <1> SUFFICES ASSUME RetInit PROVE RetInv OBVIOUS
  <1>1. sweep \in SweepType BY Tables DEF RetInit, NoSweep, SweepType
  <1>2. keeper \in KeeperType BY Tables DEF RetInit, FreshKeeper, KeeperType, Never
  <1>3. faults = 0 /\ keeper.failures = 0 /\ sweep.at = "none"
    BY DEF RetInit, NoSweep, FreshKeeper
  <1> QED BY <1>1, <1>2, <1>3, RetStarts DEF RetInv, RetTypeOK, RowsType, SweepType, KeeperType, FailuresHappened

LEMMA RetInvStep == RetInv /\ RetNext => RetInv'
  <1> DEFINE Goal == sweep' \in SweepType /\ keeper' \in KeeperType /\ faults' \in 0 .. MaxFaults /\ FailuresHappened'
  <1> SUFFICES ASSUME RetInv, RetNext PROVE Goal
    BY RetStep DEF RetInv, RetTypeOK, RowsType, SweepType, KeeperType
  <1>0. sweep \in SweepType /\ keeper \in KeeperType /\ faults \in 0 .. MaxFaults /\ FailuresHappened
    BY DEF RetInv, RetTypeOK, SweepType, KeeperType
  <1>1. CASE UNCHANGED <<sweep, keeper, faults>> BY <1>0, <1>1 DEF FailuresHappened
  <1>2. ASSUME NEW ok \in BOOLEAN, ScheduleSweep(ok) PROVE Goal
    <2>1. CASE /\ sweep' = [NoSweep EXCEPT !.at = "running", !.index = keeper.cursor, !.next = keeper.cursor]
               /\ keeper' = [keeper EXCEPT !.inFlight = TRUE] /\ faults' = faults
      <3>1. keeper.cursor \in Table BY <1>0 DEF KeeperType
      <3>2. sweep' \in SweepType /\ sweep'.at = "running"
        <4>1. PICK c \in Table : c = keeper.cursor BY <3>1
        <4>2. sweep' = [at |-> "running", index |-> c, batches |-> 0, empty |-> 0, next |-> c]
          BY <2>1, <4>1 DEF NoSweep
        <4>3. 0 \in 0 .. MaxBatches /\ 0 \in 0 .. Targets BY Tables
        <4> QED BY <4>2, <4>3 DEF SweepType
      <3>3. keeper' \in KeeperType /\ keeper'.failures = keeper.failures BY <1>0, <2>1 DEF KeeperType
      <3> QED BY <1>0, <2>1, <3>2, <3>3 DEF FailuresHappened, KeeperType
    <2>2. CASE /\ faults < MaxFaults /\ faults' = faults + 1 /\ sweep' = sweep
               /\ keeper' = [keeper EXCEPT !.failures = @ + 1]
      <3>1. keeper.failures + 1 \in 0 .. MaxFaults BY <1>0, <2>2 DEF FailuresHappened, KeeperType
      <3>2. keeper' \in KeeperType /\ keeper'.failures = keeper.failures + 1 BY <1>0, <2>2, <3>1 DEF KeeperType
      <3> QED BY <1>0, <2>2, <3>2 DEF FailuresHappened, KeeperType
    <2> QED BY <1>2, <2>1, <2>2 DEF ScheduleSweep
  <1>3. CASE SweepBatch
    <2>1. /\ sweep.at = "running" /\ sweep.batches < MaxBatches /\ sweep.empty < Targets
          /\ UNCHANGED <<keeper, faults>>
          /\ \/ sweep' = [[sweep EXCEPT !.index = (sweep.index + 1) % Targets] EXCEPT !.empty = @ + 1]
             \/ sweep' = [[sweep EXCEPT !.index = (sweep.index + 1) % Targets] EXCEPT
                             !.empty = 0, !.batches = @ + 1, !.next = After(sweep.index)]
      BY <1>3 DEF SweepBatch
    <2>2. /\ (sweep.index + 1) % Targets \in Table /\ After(sweep.index) \in Table
          /\ sweep.empty + 1 \in 0 .. Targets /\ 0 \in 0 .. Targets /\ sweep.batches + 1 \in 0 .. MaxBatches
      <3>1. sweep.index \in Table /\ sweep.empty \in 0 .. Targets /\ sweep.batches \in 0 .. MaxBatches
        BY <1>0 DEF SweepType
      <3>2. (sweep.index + 1) % Targets \in Table /\ After(sweep.index) \in Table BY <3>1, Tables
      <3>3. /\ sweep.empty + 1 \in 0 .. Targets /\ 0 \in 0 .. Targets
            /\ sweep.batches + 1 \in 0 .. MaxBatches
        <4>1. \A n \in Nat : 0 \in 0 .. n /\ \A k \in 0 .. n : k < n => k + 1 \in 0 .. n OBVIOUS
        <4>2. Targets \in Nat /\ MaxBatches \in Nat BY Tables
        <4> QED BY <2>1, <3>1, <4>1, <4>2
      <3> QED BY <3>2, <3>3
    <2>3. sweep' \in SweepType /\ sweep'.at = "running" BY <1>0, <2>1, <2>2 DEF SweepType
    <2> QED BY <1>0, <2>1, <2>3 DEF FailuresHappened
  <1>4. CASE SweepEnds BY <1>0, <1>4 DEF SweepEnds, SweepType, FailuresHappened
  <1>5. ASSUME NEW how \in {"failed", "lost"}, SweepFails(how) PROVE Goal
    BY <1>0, <1>5 DEF SweepFails, SweepType, FailuresHappened, KeeperType
  <1>6. CASE SweepResult
    <2>1. sweep' \in SweepType /\ sweep'.at = "none" /\ faults' = faults
      BY <1>6, Tables DEF SweepResult, NoSweep, SweepType
    <2>2. CASE sweep.at = "failed"
      <3>1. keeper' = [keeper EXCEPT !.inFlight = FALSE, !.failures = @ + 1] BY <1>6, <2>2 DEF SweepResult
      <3>2. keeper.failures + 1 \in 0 .. MaxFaults BY <1>0, <2>2 DEF FailuresHappened, KeeperType
      <3>3. keeper' \in KeeperType /\ keeper'.failures = keeper.failures + 1 BY <1>0, <3>1, <3>2 DEF KeeperType
      <3>4. keeper.failures + 1 <= faults /\ keeper.failures \in Nat
        BY <1>0, <2>2 DEF FailuresHappened, KeeperType
      <3> QED BY <1>0, <2>1, <3>3, <3>4 DEF FailuresHappened
    <2>3. CASE sweep.at # "failed"
      <3>1. PICK n \in {Never, 0, keeper.truncated} :
              keeper' = [keeper EXCEPT !.inFlight = FALSE, !.cursor = sweep.next, !.silent = 0, !.truncated = n]
        BY <1>6, <2>3 DEF SweepResult
      <3>2. sweep.next \in Table /\ n \in Never .. Tolerance + 1 /\ 0 \in 0 .. MaxSilence + 1
        BY <1>0 DEF SweepType, KeeperType, Never
      <3>3. keeper' \in KeeperType /\ keeper'.failures = keeper.failures BY <1>0, <3>1, <3>2 DEF KeeperType
      <3> QED BY <1>0, <2>1, <2>3, <3>3 DEF FailuresHappened
    <2> QED BY <2>2, <2>3
  <1>7. CASE Tick
    <2>1. PICK a \in 0 .. MaxSilence + 1, b \in Never .. Tolerance + 1 :
            keeper' = [keeper EXCEPT !.silent = a, !.truncated = b] /\ UNCHANGED <<sweep, faults>>
      <3>1. keeper.silent \in 0 .. MaxSilence + 1 /\ keeper.truncated \in Never .. Tolerance + 1
        BY <1>0 DEF KeeperType
      <3>2. PICK a : a = Lesser(keeper.silent + 1, MaxSilence + 1) OBVIOUS
      <3>3. PICK b : b = IF keeper.truncated = Never THEN Never ELSE Lesser(keeper.truncated + 1, Tolerance + 1)
        OBVIOUS
      <3>4. a \in 0 .. MaxSilence + 1 BY <3>1, <3>2 DEF Lesser
      <3>5. b \in Never .. Tolerance + 1 BY <3>1, <3>3 DEF Lesser, Never
      <3>6. keeper' = [keeper EXCEPT !.silent = a, !.truncated = b] /\ UNCHANGED <<sweep, faults>>
        BY <1>7, <3>2, <3>3 DEF Tick
      <3> QED BY <3>4, <3>5, <3>6
    <2>2. keeper' \in KeeperType /\ keeper'.failures = keeper.failures BY <1>0, <2>1 DEF KeeperType
    <2> QED BY <1>0, <2>1, <2>2 DEF FailuresHappened
  <1>8. CASE RestartKeeper
    <2>1. sweep' \in SweepType /\ sweep'.at = "none" BY <1>8, Tables DEF RestartKeeper, NoSweep, SweepType
    <2>2. keeper' \in KeeperType /\ keeper'.failures = 0
      BY <1>8, Tables DEF RestartKeeper, FreshKeeper, KeeperType, Never
    <2> QED BY <1>0, <1>8, <2>1, <2>2 DEF RestartKeeper, FailuresHappened
  <1> QED
    BY <1>1, <1>2, <1>3, <1>4, <1>5, <1>6, <1>7, <1>8 DEF RetNext, Record, Expire

\* While a sweep runs, rows are only taken, and of the snapshots only those past
\* the newest KeepLast.
LEMMA SweepIsCareful ==
    ASSUME rows \in RowsType, RetNext, sweep.at = "running"
    PROVE  /\ \A t \in Table : rows'[t].young = rows[t].young
           /\ rows'[Snapshots].old < rows[Snapshots].old => rows'[Snapshots].old >= KeepLast
  <1>0. Snapshots \in Table BY DEF Snapshots, Table, Targets
  <1>1. CASE rows' = rows BY <1>0, <1>1 DEF RowsType
  <1>2. CASE SweepBatch
    <2> DEFINE u == sweep.index
               gone == Lesser(Eligible(u), BatchRows)
    <2>1. rows' = [rows EXCEPT ![u].old = @ - gone] BY <1>2 DEF SweepBatch
    <2>2. \A t \in Table : rows'[t].young = rows[t].young BY <2>1 DEF RowsType
    <2>3. ASSUME rows'[Snapshots].old < rows[Snapshots].old PROVE rows'[Snapshots].old >= KeepLast
      <3>1. u = Snapshots BY <1>0, <2>1, <2>3 DEF RowsType
      <3>2. rows'[Snapshots].old = rows[Snapshots].old - gone /\ rows[Snapshots].old \in Nat
        BY <1>0, <2>1, <3>1 DEF RowsType
      <3>3. gone = Lesser(IF rows[Snapshots].old > KeepLast THEN rows[Snapshots].old - KeepLast ELSE 0, BatchRows)
        BY <3>1 DEF Eligible
      <3> HIDE DEF gone
      <3> QED BY <2>3, <3>2, <3>3 DEF Lesser
    <2> QED BY <2>2, <2>3
  <1> QED
    BY <1>1, <1>2 DEF RetNext, Record, Expire, ScheduleSweep, SweepFails, SweepEnds, SweepResult, Tick,
        RestartKeeper

LEMMA RetInvStays == RetInv /\ UNCHANGED retVars => RetInv'
  BY DEF RetInv, RetTypeOK, FailuresHappened, retVars

HIDE RetentionAssumption

-----------------------------------------------------------------------------
(* The flow pass, its evidence and the startup snapshot                      *)

USE FlowAssumption

\* The configuration a pass may have read is one the node has shown.
ConfInv ==
    /\ conf.option \in conf.past
    /\ conf.cache \in conf.past \union {Refused}
    /\ conf.past \subseteq Setting \union {Unset, Bad}
    /\ DefaultIsProven

\* A pass under way has a number of its own; a suspended loop has none under way.
PassInv ==
    /\ pass.at \notin {"idle", "queued"} => pass.stamp >= 1
    /\ pass.at \notin {"idle", "queued"} => health = "incomplete"
    /\ health = "suspended" => pass.at = "idle"
    /\ cad = "sleep" => pass.at = "idle"
    /\ pass.at = "queued" => pass.stamp < MaxPass

\* Before its verdict a pass that persisted already moved the rows it saw; with
\* the verdict the rows of this process are the channels a pass covered.
RowsInv ==
    /\ \A s \in Scid : flow[s] <= proc
    /\ pass.at = "verdict" =>
         \A s \in Scid : (flow[s] = proc) <=>
            s \in (asked \union EligibleScids(pass.seen)) \intersect Observed(pass.seen)
    /\ pass.at # "verdict" /\ health # "suspended" =>
         \A s \in Scid : (flow[s] = proc) <=> s \in asked

\* A peer that is still to be recorded has no record.
PeersInv == \A p \in Scid : peers.events[p] <= 1 /\ (p \in peers.todo => peers.events[p] = 0)

FlowInv == FlowTypeOK /\ ConfInv /\ PassInv /\ TablesAgree /\ RowsInv /\ PeersInv

\* The types, by variable.
ConfType ==
    [override : Setting \union {Unset, Bad}, option : Setting \union {Unset, Bad},
     cache : Setting \union {Unset, Bad, Refused},
     past : SUBSET (Setting \union {Unset, Bad}), changes : 0 .. MaxChange]
PassType ==
    [at : {"idle", "queued", "config", "channels", "history", "persist", "verdict"},
     setting : Setting \union {Unset, Default}, seen : [Scid -> ChanState], stamp : 0 .. MaxPass]
PeersType ==
    [at : {"idle", "insert", "done"}, todo : SUBSET Scid, events : [Scid -> 0 .. 2]]
TablesType ==
    /\ flow \in [Scid -> 0 .. MaxFlowBoot] /\ kalman \in [Scid -> 0 .. MaxPass]
    /\ temporal \in [Scid -> 0 .. MaxPass]

LEMMA FlowStarts == FlowInit => FlowInv
  <1> SUFFICES ASSUME FlowInit PROVE FlowInv OBVIOUS
  <1>1. chan \in [Scid -> ChanState] BY DEF FlowInit, ChanState
  <1>2. conf \in ConfType /\ ConfInv
    <2>1. PICK o \in Setting \union {Unset} :
            conf = [override |-> Unset, option |-> o, cache |-> Refused, past |-> {o}, changes |-> 0]
      BY DEF FlowInit
    <2>2. conf \in ConfType BY <2>1 DEF ConfType
    <2>3. pass.setting = Unset /\ Unset # Default BY DEF FlowInit, NoPass, Unset, Default
    <2> QED BY <2>1, <2>2, <2>3 DEF ConfInv, DefaultIsProven
  <1>3. pass \in PassType /\ pass.at = "idle" BY DEF FlowInit, NoPass, PassType, ChanState
  <1>4. /\ flow = NoRows /\ kalman = NoRows /\ temporal = NoRows /\ proc = 1 /\ asked = {}
        /\ cad = "sleep" /\ health = "never_run"
    BY DEF FlowInit
  <1>5. TablesType BY <1>4 DEF TablesType, NoRows
  <1>6. peers \in PeersType /\ PeersInv BY DEF FlowInit, NoRows, PeersType, PeersInv
  <1>7. FlowTypeOK
    BY <1>1, <1>2, <1>3, <1>4, <1>5, <1>6 DEF FlowTypeOK, ConfType, PassType, TablesType, PeersType
  <1>8. TablesAgree /\ RowsInv /\ PassInv
    BY <1>3, <1>4 DEF TablesAgree, RowsInv, PassInv, NoRows
  <1> QED BY <1>2, <1>6, <1>7, <1>8 DEF FlowInv

LEMMA FlowTypes ==
    FlowTypeOK <=>
      /\ chan \in [Scid -> ChanState] /\ conf \in ConfType /\ cad \in {"sleep", "wait", "ended"}
      /\ pass \in PassType /\ TablesType
      /\ health \in {"never_run", "incomplete", "passed", "error", "suspended"}
      /\ proc \in 1 .. MaxFlowBoot /\ asked \subseteq Scid /\ peers \in PeersType
  BY DEF FlowTypeOK, ConfType, PassType, TablesType, PeersType

\* A pass that is over, and what persisting leaves in a table.
LEMMA OverIsIdle ==
    ASSUME pass \in PassType
    PROVE  /\ PassOver \in PassType /\ PassOver.at = "idle" /\ PassOver.setting = Unset
           /\ PassOver.stamp = pass.stamp
  BY DEF PassOver, NoPass, PassType, ChanState

\* Steps that move neither the tables, the pass, the health nor the process.
LEMMA WorldStep ==
    ASSUME FlowInv, chan' \in [Scid -> ChanState], conf' \in ConfType,
           conf'.option \in conf'.past, conf.past \subseteq conf'.past, conf'.cache = conf.cache,
           UNCHANGED <<cad, pass, flow, kalman, temporal, health, proc, asked, peers>>
    PROVE  FlowInv'
  <1>1. FlowTypeOK' BY FlowTypes DEF FlowInv, FlowTypeOK, ConfType
  <1>2. ConfInv' BY DEF FlowInv, ConfInv, DefaultIsProven, ConfType
  <1>3. PassInv' /\ TablesAgree' /\ PeersInv' BY DEF FlowInv, PassInv, TablesAgree, PeersInv
  <1>4. RowsInv' BY DEF FlowInv, RowsInv, EligibleScids, Observed
  <1> QED BY <1>1, <1>2, <1>3, <1>4 DEF FlowInv

LEMMA ChannelStep ==
    ASSUME FlowInv, NEW s \in Scid, NEW st \in ChanState, ChannelChanges(s, st) PROVE FlowInv'
  <1>0. chan \in [Scid -> ChanState] /\ conf \in ConfType /\ ConfInv BY FlowTypes DEF FlowInv
  <1>1. chan' \in [Scid -> ChanState] BY <1>0 DEF ChannelChanges
  <1>2. /\ conf' \in ConfType /\ conf'.option = conf.option /\ conf'.past = conf.past
        /\ conf'.cache = conf.cache
    BY <1>0 DEF ChannelChanges, ConfType
  <1> QED BY <1>0, <1>1, <1>2, WorldStep DEF ChannelChanges, ConfInv

\* A configuration with an override, or an option, of the operator's.
LEMMA ConfOverride ==
    ASSUME NEW c \in ConfType, NEW v \in Setting \union {Unset, Bad}, NEW n \in 0 .. MaxChange
    PROVE  [c EXCEPT !.override = v, !.changes = n] \in ConfType
  BY DEF ConfType

LEMMA ConfOption ==
    ASSUME NEW c \in ConfType, NEW v \in Setting \union {Unset, Bad}, NEW n \in 0 .. MaxChange,
           NEW past \in SUBSET (Setting \union {Unset, Bad})
    PROVE  [c EXCEPT !.option = v, !.past = past, !.changes = n] \in ConfType
  BY DEF ConfType

LEMMA OperatorStep ==
    ASSUME FlowInv, NEW field \in {"override", "option"}, NEW v \in Setting \union {Unset, Bad},
           Operator(field, v)
    PROVE  FlowInv'
  <1>0. chan' \in [Scid -> ChanState] /\ conf \in ConfType /\ ConfInv /\ conf.changes < MaxChange
    BY FlowTypes DEF FlowInv, Operator
  <1>a. conf.changes + 1 \in 0 .. MaxChange BY <1>0 DEF ConfType
  <1>b. v \in Setting \union {Unset, Bad} OBVIOUS
  <1>1. CASE field = "override"
    <2>1. conf' = [conf EXCEPT !.override = v, !.changes = conf.changes + 1] BY <1>1 DEF Operator
    <2>2. conf' \in ConfType BY <1>0, <1>a, <1>b, <2>1, ConfOverride
    <2>3. conf'.option = conf.option /\ conf'.past = conf.past /\ conf'.cache = conf.cache
      BY <1>0, <2>1 DEF ConfType
    <2> QED BY <1>0, <2>2, <2>3, WorldStep DEF Operator, ConfInv
  <1>2. CASE field # "override"
    <2>1. conf' = [conf EXCEPT !.option = v, !.past = conf.past \union {v}, !.changes = conf.changes + 1]
      BY <1>2 DEF Operator
    <2>2. conf.past \union {v} \in SUBSET (Setting \union {Unset, Bad}) BY <1>0 DEF ConfType
    <2>3. conf' \in ConfType BY <1>0, <1>a, <1>b, <2>1, <2>2, ConfOption
    <2>4. conf'.option = v /\ conf'.past = conf.past \union {v} /\ conf'.cache = conf.cache
      BY <1>0, <2>1 DEF ConfType
    <2> QED BY <1>0, <2>3, <2>4, WorldStep DEF Operator, ConfInv
  <1> QED BY <1>1, <1>2

\* A new process: no row is of its boot yet.
LEMMA RestartStep == ASSUME FlowInv, RestartFlow PROVE FlowInv'
  <1>0. /\ conf \in ConfType /\ pass \in PassType /\ peers \in PeersType /\ TablesType /\ ConfInv
        /\ chan \in [Scid -> ChanState] /\ proc \in 1 .. MaxFlowBoot
    BY FlowTypes DEF FlowInv
  <1>1. /\ proc' = proc + 1 /\ proc' \in 1 .. MaxFlowBoot /\ cad' = "sleep" /\ pass' = PassOver
        /\ health' = "never_run" /\ asked' = {} /\ UNCHANGED <<chan, flow, kalman, temporal>>
    BY <1>0 DEF RestartFlow
  <1>2. /\ conf' \in ConfType /\ conf'.cache = Refused /\ conf'.past = {conf.option} /\ conf'.option = conf.option
    BY <1>0 DEF RestartFlow, ConfType
  <1>3. peers' \in PeersType /\ peers'.events = peers.events /\ peers'.todo = {}
    BY <1>0 DEF RestartFlow, PeersType
  <1>4. FlowTypeOK' BY <1>0, <1>1, <1>2, <1>3, OverIsIdle, FlowTypes DEF FlowTypeOK, ConfType, PassType, PeersType, TablesType
  <1>5. ConfInv'
    <2>1. Unset # Default BY DEF Unset, Default
    <2> QED BY <1>0, <1>1, <1>2, <2>1, OverIsIdle DEF ConfInv, DefaultIsProven, ConfType
  <1>6. RowsInv'
    BY <1>0, <1>1, OverIsIdle DEF FlowInv, RowsInv, TablesType
  <1>7. PassInv' /\ TablesAgree' /\ PeersInv'
    BY <1>0, <1>1, <1>3, OverIsIdle DEF FlowInv, PassInv, TablesAgree, PeersInv
  <1> QED BY <1>4, <1>5, <1>6, <1>7 DEF FlowInv

\* The types of an invariant state.
LEMMA TypesHold ==
    ASSUME FlowInv
    PROVE  /\ chan \in [Scid -> ChanState] /\ conf \in ConfType /\ pass \in PassType /\ TablesType
           /\ peers \in PeersType /\ cad \in {"sleep", "wait", "ended"} /\ proc \in 1 .. MaxFlowBoot
           /\ health \in {"never_run", "incomplete", "passed", "error", "suspended"}
           /\ asked \subseteq Scid
  BY FlowTypes DEF FlowInv

\* Steps that leave the tables alone, of a pass that has not yet persisted.
LEMMA PassMoves ==
    ASSUME FlowInv, pass' \in PassType, conf' \in ConfType, ConfInv', PassInv',
           cad' \in {"sleep", "wait", "ended"},
           health' \in {"never_run", "incomplete", "passed", "error", "suspended"},
           pass.at # "verdict", pass'.at # "verdict", health # "suspended",
           UNCHANGED <<chan, flow, kalman, temporal, proc, asked, peers>>
    PROVE  FlowInv'
  <1>1. FlowTypeOK'
    BY TypesHold, FlowTypes DEF FlowTypeOK, ConfType, PassType, PeersType, TablesType
  <1>2. TablesAgree' /\ PeersInv' BY DEF FlowInv, TablesAgree, PeersInv
  <1>3. RowsInv' BY DEF FlowInv, RowsInv
  <1> QED BY <1>1, <1>2, <1>3 DEF FlowInv

\* Steps that leave everything but the cadence and the snapshot alone.
LEMMA SideMoves ==
    ASSUME FlowInv, cad' \in {"sleep", "wait", "ended"}, peers' \in PeersType, PeersInv',
           cad' = "sleep" => pass.at = "idle",
           UNCHANGED <<chan, conf, pass, flow, kalman, temporal, health, proc, asked>>
    PROVE  FlowInv'
  <1>1. FlowTypeOK'
    BY TypesHold, FlowTypes DEF FlowTypeOK, ConfType, PassType, PeersType, TablesType
  <1>2. ConfInv' /\ PassInv' /\ TablesAgree'
    BY DEF FlowInv, ConfInv, DefaultIsProven, PassInv, TablesAgree
  <1>3. RowsInv' BY DEF FlowInv, RowsInv, EligibleScids, Observed
  <1> QED BY <1>1, <1>2, <1>3 DEF FlowInv

LEMMA CadenceStep == ASSUME FlowInv, NEW ok \in BOOLEAN, CadenceTick(ok) PROVE FlowInv'
  <1>0. /\ pass \in PassType /\ peers \in PeersType /\ PeersInv /\ ConfInv /\ PassInv
        /\ conf \in ConfType
        /\ health \in {"never_run", "incomplete", "passed", "error", "suspended"}
    BY TypesHold DEF FlowInv
  <1>1. CASE ok /\ health # "suspended"
    <2>1. pass' = [pass EXCEPT !.at = "queued"] BY <1>1 DEF CadenceTick
    <2>2. /\ pass' \in PassType /\ pass'.at = "queued" /\ pass'.setting = pass.setting
          /\ pass'.stamp = pass.stamp
      BY <1>0, <2>1 DEF PassType
    <2>3. ConfInv' BY <1>0, <2>2 DEF ConfInv, DefaultIsProven, CadenceTick
    <2>4. PassInv' BY <1>1, <2>2 DEF PassInv, CadenceTick
    <2>6. pass.at = "idle" BY DEF FlowInv, PassInv, CadenceTick
    <2>5. cad' \in {"sleep", "wait", "ended"} BY DEF CadenceTick
    <2> QED BY <1>0, <1>1, <2>2, <2>3, <2>4, <2>5, <2>6, PassMoves DEF CadenceTick
  <1>2. CASE ~(ok /\ health # "suspended")
    <2>1. pass' = pass BY <1>2 DEF CadenceTick
    <2>2. cad' \in {"sleep", "wait", "ended"} BY DEF CadenceTick
    <2>3. PeersInv' BY <1>0 DEF PeersInv, CadenceTick
    <2>4. pass.at = "idle" BY DEF FlowInv, PassInv, CadenceTick
    <2> QED BY <1>0, <2>1, <2>4, <2>2, <2>3, SideMoves DEF CadenceTick
  <1> QED BY <1>1, <1>2

LEMMA SleepStep == ASSUME FlowInv, CadenceSleeps PROVE FlowInv'
  <1>1. PeersInv' BY DEF FlowInv, PeersInv, CadenceSleeps
  <1> QED BY <1>1, TypesHold, SideMoves DEF CadenceSleeps

LEMMA BeginStep == ASSUME FlowInv, NEW ok \in BOOLEAN, PassBegins(ok) PROVE FlowInv'
  <1>0. /\ pass \in PassType /\ PassInv /\ ConfInv /\ conf \in ConfType /\ pass.at = "queued"
        /\ cad # "sleep" /\ cad \in {"sleep", "wait", "ended"} /\ health # "suspended"
    BY TypesHold DEF FlowInv, PassBegins, PassInv
  <1>1. CASE ok
    <2>1. pass' = [pass EXCEPT !.at = "config", !.stamp = pass.stamp + 1] /\ health' = "incomplete"
      BY <1>1 DEF PassBegins
    <2>2. pass.stamp + 1 \in 0 .. MaxPass BY <1>0 DEF PassInv, PassType
    <2>3. pass' \in PassType BY <1>0, <2>1, <2>2 DEF PassType
    <2>4. /\ pass'.at = "config" /\ pass'.stamp = pass.stamp + 1 /\ pass'.setting = pass.setting
      BY <1>0, <2>1 DEF PassType
    <2>5. ConfInv' BY <1>0, <2>4 DEF ConfInv, DefaultIsProven, PassBegins
    <2>6. PassInv' BY <1>0, <2>1, <2>2, <2>4 DEF PassInv, PassBegins, PassType
    <2> QED BY <1>0, <2>1, <2>3, <2>4, <2>5, <2>6, PassMoves DEF PassBegins
  <1>2. CASE ~ok
    <2>1. pass' = [pass EXCEPT !.at = "idle"] /\ health' = "suspended" BY <1>2 DEF PassBegins
    <2>2. pass' \in PassType /\ pass'.at = "idle" /\ pass'.setting = pass.setting
      BY <1>0, <2>1 DEF PassType
    <2>3. ConfInv' BY <1>0, <2>2 DEF ConfInv, DefaultIsProven, PassBegins
    <2>4. PassInv' BY <1>0, <2>1, <2>2 DEF PassInv
    <2> QED BY <1>0, <2>1, <2>2, <2>3, <2>4, PassMoves DEF PassBegins
  <1> QED BY <1>1, <1>2

\* A refused pass leaves the tables and the channels a pass covered alone.
LEMMA FailStep ==
    ASSUME FlowInv, Fails, pass.at \notin {"idle", "queued", "verdict"},
           conf' \in ConfType, conf'.option \in conf'.past,
           conf'.cache \in conf'.past \union {Refused},
           UNCHANGED <<chan, cad, proc, peers>>
    PROVE  FlowInv'
  <1>1. /\ pass' \in PassType /\ pass'.at = "idle" /\ pass'.setting = Unset /\ health' = "error"
    BY TypesHold, OverIsIdle DEF Fails
  <1>2. Unset # Default BY DEF Unset, Default
  <1>3. ConfInv' BY <1>1, <1>2 DEF ConfInv, DefaultIsProven, ConfType
  <1>4. PassInv' BY <1>1 DEF FlowInv, PassInv
  <1>5. health # "suspended" BY DEF FlowInv, PassInv
  <1> QED BY <1>1, <1>3, <1>4, <1>5, TypesHold, PassMoves DEF Fails

\* An option the pass read, and the setting it resolves to.
LEMMA SettingIsShown ==
    ASSUME NEW past, past \subseteq Setting \union {Unset, Bad},
           NEW o \in past \union {Refused}, NEW r \in Setting \union {Unset, Bad},
           ResolveFlowConfig(r, o) # Refused
    PROVE  /\ ResolveFlowConfig(r, o) \in Setting \union {Default}
           /\ ResolveFlowConfig(r, o) = Default => Unset \in past
  <1>1. /\ Unset # Bad /\ Unset # Default /\ Unset # Refused /\ Bad # Default /\ Bad # Refused
        /\ Default # Refused
    BY DEF Unset, Bad, Default, Refused
  <1>2. r # Refused /\ r # Default /\ \A x \in Setting : x # Default /\ x # Refused /\ x # Unset /\ x # Bad
    BY <1>1, FlowAssumption
  <1> HIDE DEF Unset, Bad, Default, Refused
  <1>3. CASE r # Unset BY <1>1, <1>2, <1>3 DEF ResolveFlowConfig, DefaultOrRefuse
  <1>4. CASE r = Unset BY <1>1, <1>2, <1>4 DEF ResolveFlowConfig, DefaultOrRefuse
  <1> QED BY <1>3, <1>4

LEMMA ConfigStep ==
    ASSUME FlowInv, NEW ok \in BOOLEAN, NEW read \in BOOLEAN, PassReadsConfig(ok, read) PROVE FlowInv'
  <1> DEFINE v == ResolveFlowConfig(conf.override, Refreshed(ok))
  <1>0. /\ pass \in PassType /\ PassInv /\ ConfInv /\ conf \in ConfType /\ pass.at = "config"
        /\ cad # "sleep" /\ cad \in {"sleep", "wait", "ended"} /\ health = "incomplete"
        /\ pass.stamp >= 1 /\ cad' = cad
    BY TypesHold DEF FlowInv, PassReadsConfig, PassInv
  <1>1. Refreshed(ok) \in conf.past \union {Refused} BY <1>0 DEF Refreshed, ConfInv
  <1>2. Refreshed(ok) \in Setting \union {Unset, Bad, Refused} BY <1>0, <1>1 DEF ConfInv
  <1>3. /\ conf' \in ConfType /\ conf'.option = conf.option /\ conf'.past = conf.past
        /\ conf'.cache = Refreshed(ok)
    BY <1>0, <1>2 DEF PassReadsConfig, ConfType
  <1>4. conf'.option \in conf'.past /\ conf'.cache \in conf'.past \union {Refused}
    BY <1>0, <1>1, <1>3 DEF ConfInv
  <1>5. CASE read /\ v # Refused
    <2>1. pass' = [pass EXCEPT !.at = "channels", !.setting = v] BY <1>5 DEF PassReadsConfig
    <2>2. conf.override \in Setting \union {Unset, Bad} BY <1>0 DEF ConfType
    <2>3. v \in Setting \union {Default} /\ (v = Default => Unset \in conf.past)
      BY <1>0, <1>1, <1>5, <2>2, SettingIsShown DEF ConfInv
    <2>4. v \in Setting \union {Unset, Default} BY <2>3
    <2> HIDE DEF v
    <2>5. /\ pass' \in PassType /\ pass'.at = "channels" /\ pass'.setting = v
          /\ pass'.stamp = pass.stamp
      BY <1>0, <2>1, <2>4 DEF PassType
    <2>6. ConfInv' BY <1>0, <1>3, <1>4, <2>3, <2>5 DEF ConfInv, DefaultIsProven
    <2>7. health' = health BY <1>5 DEF PassReadsConfig, v
    <2>8. PassInv' BY <1>0, <2>5, <2>7 DEF PassInv
    <2>9. UNCHANGED <<chan, flow, kalman, temporal, proc, asked, peers>>
      BY <1>5 DEF PassReadsConfig, v
    <2> QED BY <1>0, <1>3, <2>5, <2>6, <2>7, <2>8, <2>9, PassMoves
  <1>6. CASE ~(read /\ v # Refused)
    <2>1. Fails /\ UNCHANGED <<chan, cad, proc, peers>> BY <1>6 DEF PassReadsConfig
    <2> QED BY <1>0, <1>3, <1>4, <2>1, FailStep
  <1> QED BY <1>5, <1>6

LEMMA ListStep == ASSUME FlowInv, PassReadsChannels PROVE FlowInv'
  <1>0. /\ pass \in PassType /\ PassInv /\ ConfInv /\ conf \in ConfType /\ pass.at = "channels"
        /\ cad # "sleep" /\ cad \in {"sleep", "wait", "ended"} /\ health = "incomplete"
        /\ pass.stamp >= 1 /\ chan \in [Scid -> ChanState]
    BY TypesHold DEF FlowInv, PassReadsChannels, PassInv
  <1>1. /\ pass' \in PassType /\ pass'.at = "history" /\ pass'.setting = pass.setting
        /\ pass'.stamp = pass.stamp
    BY <1>0 DEF PassReadsChannels, PassType
  <1>2. ConfInv' BY <1>0, <1>1 DEF ConfInv, DefaultIsProven, PassReadsChannels
  <1>3. PassInv' BY <1>0, <1>1 DEF PassInv, PassReadsChannels
  <1> QED BY <1>0, <1>1, <1>2, <1>3, PassMoves DEF PassReadsChannels

LEMMA ComputeStep == ASSUME FlowInv, NEW ok \in BOOLEAN, PassComputes(ok) PROVE FlowInv'
  <1>0. /\ pass \in PassType /\ PassInv /\ ConfInv /\ conf \in ConfType /\ pass.at = "history"
        /\ cad # "sleep" /\ cad \in {"sleep", "wait", "ended"} /\ health = "incomplete"
        /\ pass.stamp >= 1 /\ UNCHANGED <<chan, conf, cad, proc, peers>>
    BY TypesHold DEF FlowInv, PassComputes, PassInv
  <1>1. CASE ok /\ \A s \in Scid : pass.seen[s] # "malformed"
    <2>1. /\ pass' = [pass EXCEPT !.at = "persist"]
          /\ UNCHANGED <<flow, kalman, temporal, health, asked>>
      BY <1>1 DEF PassComputes
    <2>2. /\ pass' \in PassType /\ pass'.at = "persist" /\ pass'.setting = pass.setting
          /\ pass'.stamp = pass.stamp
      BY <1>0, <2>1 DEF PassType
    <2>3. ConfInv' BY <1>0, <2>2 DEF ConfInv, DefaultIsProven
    <2>4. PassInv' BY <1>0, <2>1, <2>2 DEF PassInv
    <2> QED BY <1>0, <2>1, <2>2, <2>3, <2>4, PassMoves
  <1>2. CASE ~(ok /\ \A s \in Scid : pass.seen[s] # "malformed")
    <2>1. Fails BY <1>2 DEF PassComputes
    <2> QED BY <1>0, <2>1, FailStep DEF ConfInv
  <1> QED BY <1>1, <1>2

\* What one transaction leaves in a table.
LEMMA ReconciledRows ==
    ASSUME NEW N \in Nat, NEW tab \in [Scid -> 0 .. N], NEW v \in 0 .. N, NEW seen
    PROVE  /\ Reconciled3(tab, seen, v) \in [Scid -> 0 .. N]
           /\ \A s \in Scid :
                Reconciled3(tab, seen, v)[s] =
                  IF seen[s] = "normal" THEN v ELSE IF seen[s] # "gone" THEN tab[s] ELSE 0
  BY DEF Reconciled3, EligibleScids, Observed

LEMMA PersistStep == ASSUME FlowInv, NEW ok \in BOOLEAN, PassPersists(ok) PROVE FlowInv'
  <1>0. /\ pass \in PassType /\ PassInv /\ ConfInv /\ conf \in ConfType /\ pass.at = "persist"
        /\ health = "incomplete" /\ pass.stamp >= 1 /\ pass.stamp \in 0 .. MaxPass /\ TablesType
        /\ proc \in 1 .. MaxFlowBoot /\ UNCHANGED <<chan, conf, cad, proc, peers>>
    BY TypesHold DEF FlowInv, PassPersists, PassInv, PassType
  <1>1. CASE ok
    <2>1. /\ flow' = Reconciled3(flow, pass.seen, proc)
          /\ kalman' = Reconciled3(kalman, pass.seen, pass.stamp)
          /\ temporal' = Reconciled3(temporal, pass.seen, pass.stamp)
          /\ pass' = [pass EXCEPT !.at = "verdict"] /\ UNCHANGED <<health, asked>>
      BY <1>1 DEF PassPersists
    <2>2. /\ pass' \in PassType /\ pass'.at = "verdict" /\ pass'.setting = pass.setting
          /\ pass'.stamp = pass.stamp /\ pass'.seen = pass.seen
      BY <1>0, <2>1 DEF PassType
    <2>3. /\ MaxFlowBoot \in Nat /\ MaxPass \in Nat /\ proc \in 0 .. MaxFlowBoot
          /\ pass.stamp \in 0 .. MaxPass /\ flow \in [Scid -> 0 .. MaxFlowBoot]
          /\ kalman \in [Scid -> 0 .. MaxPass] /\ temporal \in [Scid -> 0 .. MaxPass]
      BY <1>0, FlowAssumption DEF TablesType
    <2>4. /\ flow' \in [Scid -> 0 .. MaxFlowBoot]
          /\ \A s \in Scid : flow'[s] = IF pass.seen[s] = "normal" THEN proc
                                        ELSE IF pass.seen[s] # "gone" THEN flow[s] ELSE 0
      <3>1. flow' = Reconciled3(flow, pass.seen, proc) BY <2>1
      <3>2. proc \in 0 .. MaxFlowBoot /\ MaxFlowBoot \in Nat /\ flow \in [Scid -> 0 .. MaxFlowBoot]
        BY <2>3
      <3> QED BY ONLY <3>1, <3>2, ReconciledRows
    <2>5. /\ kalman' \in [Scid -> 0 .. MaxPass]
          /\ \A s \in Scid : kalman'[s] = IF pass.seen[s] = "normal" THEN pass.stamp
                                          ELSE IF pass.seen[s] # "gone" THEN kalman[s] ELSE 0
      BY ONLY <2>1, <2>3, ReconciledRows
    <2>6. /\ temporal' \in [Scid -> 0 .. MaxPass]
          /\ \A s \in Scid : temporal'[s] = IF pass.seen[s] = "normal" THEN pass.stamp
                                            ELSE IF pass.seen[s] # "gone" THEN temporal[s] ELSE 0
      BY ONLY <2>1, <2>3, ReconciledRows
    <2>7. TablesAgree' BY <1>0, <2>3, <2>4, <2>5, <2>6 DEF FlowInv, TablesAgree
    <2>8. RowsInv'
      <3>1. \A s \in Scid : flow'[s] <= proc'
        BY <1>0, <2>3, <2>4 DEF FlowInv, RowsInv
      <3>2. \A s \in Scid : (flow[s] = proc) <=> s \in asked
        BY <1>0 DEF FlowInv, RowsInv
      <3>3. \A s \in Scid : (flow'[s] = proc') <=>
              s \in (asked' \union EligibleScids(pass'.seen)) \intersect Observed(pass'.seen)
        BY <1>0, <2>1, <2>2, <2>4, <3>2 DEF EligibleScids, Observed
      <3> QED BY <2>2, <3>1, <3>3 DEF RowsInv
    <2>9. PassInv' /\ ConfInv' /\ PeersInv'
      BY <1>0, <2>1, <2>2 DEF FlowInv, PassInv, ConfInv, DefaultIsProven, PeersInv
    <2>10. FlowTypeOK'
      BY <1>0, <2>1, <2>2, <2>4, <2>5, <2>6, TypesHold, FlowTypes
      DEF FlowTypeOK, ConfType, PassType, PeersType
    <2> QED BY <2>7, <2>8, <2>9, <2>10 DEF FlowInv
  <1>2. CASE ~ok
    <2>1. Fails BY <1>2 DEF PassPersists
    <2> QED BY <1>0, <2>1, FailStep DEF ConfInv
  <1> QED BY <1>1, <1>2

LEMMA FinishStep == ASSUME FlowInv, NEW ok \in BOOLEAN, PassFinishes(ok) PROVE FlowInv'
  <1>0. /\ pass \in PassType /\ PassInv /\ ConfInv /\ conf \in ConfType /\ pass.at = "verdict"
        /\ health = "incomplete" /\ cad # "sleep"
        /\ UNCHANGED <<chan, conf, cad, flow, kalman, temporal, proc, peers>>
    BY TypesHold DEF FlowInv, PassFinishes, PassInv
  <1>1. pass' \in PassType /\ pass'.at = "idle" /\ pass'.setting = Unset
    BY <1>0, OverIsIdle DEF PassFinishes
  <1>2. health' = IF ok THEN "passed" ELSE "suspended" BY DEF PassFinishes
  <1>3. asked' = IF ok THEN (asked \union EligibleScids(pass.seen)) \intersect Observed(pass.seen)
                       ELSE asked
    BY DEF PassFinishes
  <1>4. Unset # Default BY DEF Unset, Default
  <1>5. ConfInv' BY <1>0, <1>1, <1>4 DEF ConfInv, DefaultIsProven
  <1>6. PassInv' BY <1>0, <1>1 DEF PassInv
  <1>7. RowsInv' BY <1>0, <1>1, <1>2, <1>3 DEF FlowInv, RowsInv
  <1>8. TablesAgree' /\ PeersInv' BY <1>0 DEF FlowInv, TablesAgree, PeersInv
  <1>9. asked' \subseteq Scid BY <1>3, TypesHold DEF EligibleScids, Observed
  <1>10. FlowTypeOK'
    BY <1>0, <1>1, <1>2, <1>9, TypesHold, FlowTypes DEF FlowTypeOK, ConfType, PassType, TablesType, PeersType
  <1> QED BY <1>5, <1>6, <1>7, <1>8, <1>10 DEF FlowInv

LEMMA SnapshotStep ==
    ASSUME FlowInv, SnapshotPlan \/ \E ok \in BOOLEAN : SnapshotInsert(ok) PROVE FlowInv'
  <1>0. /\ peers \in PeersType /\ PeersInv /\ cad \in {"sleep", "wait", "ended"}
        /\ cad = "sleep" => pass.at = "idle"
    BY TypesHold DEF FlowInv, PassInv
  <1>1. /\ UNCHANGED <<chan, conf, cad, pass, flow, kalman, temporal, health, proc, asked>>
    BY DEF SnapshotPlan, SnapshotInsert
  <1>2. peers' \in PeersType /\ PeersInv'
    <2>1. CASE SnapshotPlan
      <3>1. /\ peers'.at = "insert" /\ peers'.events = peers.events
            /\ peers'.todo = {p \in Scid : chan[p] = "normal" /\ peers.events[p] = 0}
            /\ peers' \in PeersType
        BY <1>0, <2>1 DEF SnapshotPlan, PeersType
      <3> QED BY <1>0, <3>1 DEF PeersInv
    <2>2. CASE peers' = [peers EXCEPT !.at = "done", !.todo = {}]
      <3>1. peers' \in PeersType /\ peers'.events = peers.events /\ peers'.todo = {}
        BY <1>0, <2>2 DEF PeersType
      <3> QED BY <1>0, <3>1 DEF PeersInv
    <2>3. ASSUME NEW p \in peers.todo,
                 peers' = [peers EXCEPT !.todo = @ \ {p}, !.events[p] = @ + 1]
          PROVE  peers' \in PeersType /\ PeersInv'
      <3>1. p \in Scid /\ peers.events[p] = 0 BY <1>0, <2>3 DEF PeersType, PeersInv
      <3>2. peers' = [peers EXCEPT !.todo = peers.todo \ {p},
                                   !.events = [peers.events EXCEPT ![p] = 1]]
        BY <1>0, <2>3, <3>1 DEF PeersType
      <3>3. [peers.events EXCEPT ![p] = 1] \in [Scid -> 0 .. 2] BY <1>0 DEF PeersType
      <3>4. /\ peers' \in PeersType /\ peers'.todo = peers.todo \ {p}
            /\ peers'.events = [peers.events EXCEPT ![p] = 1]
        BY <1>0, <3>2, <3>3 DEF PeersType
      <3> QED BY <1>0, <3>1, <3>4 DEF PeersInv, PeersType
    <2> QED BY <2>1, <2>2, <2>3 DEF SnapshotInsert
  <1> QED BY <1>0, <1>1, <1>2, SideMoves

\* Every step of the flow pass, its world and the startup snapshot.
LEMMA FlowStep == FlowInv /\ (FlowNext \/ PeersNext) => FlowInv'
  <1>1. ASSUME FlowInv, PassStep PROVE FlowInv'
    BY <1>1, BeginStep, ConfigStep, ListStep, ComputeStep, PersistStep, FinishStep DEF PassStep
  <1>2. ASSUME FlowInv, FlowNext PROVE FlowInv'
    BY <1>1, <1>2, ChannelStep, OperatorStep, RestartStep, CadenceStep, SleepStep DEF FlowNext
  <1>3. ASSUME FlowInv, PeersNext PROVE FlowInv'
    BY <1>3, ChannelStep, RestartStep, SnapshotStep DEF PeersNext
  <1> QED BY <1>2, <1>3

LEMMA FlowStays == FlowInv /\ UNCHANGED flowVars => FlowInv'
  <1> SUFFICES ASSUME FlowInv, UNCHANGED flowVars PROVE FlowInv' OBVIOUS
  <1>1. PeersInv' /\ (cad' = "sleep" => pass.at = "idle") BY DEF FlowInv, PeersInv, PassInv, flowVars
  <1> QED BY <1>1, TypesHold, SideMoves DEF flowVars

\* What the evidence reader answers of an invariant state.
LEMMA FlowReports == FlowInv => FlowIsProven
  <1> SUFFICES ASSUME FlowInv PROVE FlowIsProven OBVIOUS
  <1>1. EvidenceIsProven
    <2>1. health = "passed" => \A s \in Scid : (flow[s] = proc) <=> s \in asked
      BY DEF FlowInv, RowsInv, PassInv
    <2>2. proc # 0 BY TypesHold
    <2> QED BY <2>1, <2>2 DEF EvidenceIsProven, FlowEvidence
  <1>2. SnapshotOnce BY DEF FlowInv, PeersInv, SnapshotOnce
  <1> QED BY <1>1, <1>2 DEF FlowInv, ConfInv, FlowIsProven

\* Only a pass that saw the channel gone drops its filter.
LEMMA FiltersKept ==
    ASSUME FlowInv, FlowNext \/ PeersNext, NEW s \in Scid, kalman[s] # 0, kalman'[s] = 0
    PROVE  pass.seen[s] = "gone"
  <1>1. CASE kalman' = kalman BY <1>1
  <1>2. CASE \E ok \in BOOLEAN : PassPersists(ok)
    <2>1. pass.stamp \in 0 .. MaxPass /\ pass.stamp >= 1 /\ kalman \in [Scid -> 0 .. MaxPass]
      BY <1>2, TypesHold DEF FlowInv, PassInv, PassPersists, PassType, TablesType
    <2>2. kalman' = Reconciled3(kalman, pass.seen, pass.stamp) \/ kalman' = kalman
      BY <1>2 DEF PassPersists, Fails
    <2>3. kalman' = kalman \/ kalman'[s] = IF pass.seen[s] = "normal" THEN pass.stamp
                                           ELSE IF pass.seen[s] # "gone" THEN kalman[s] ELSE 0
      BY <2>1, <2>2, ReconciledRows, FlowAssumption
    <2> QED BY <2>1, <2>3
  <1> QED
    BY <1>1, <1>2 DEF FlowNext, PeersNext, PassStep, ChannelChanges, Operator, RestartFlow, CadenceTick,
       CadenceSleeps, PassBegins, PassReadsConfig, PassReadsChannels, PassComputes, PassFinishes, Fails,
       SnapshotPlan, SnapshotInsert

HIDE FlowAssumption

-----------------------------------------------------------------------------
(* The process: one part moves, the others stay                              *)

RuntimeInv == LoopInv /\ LifeInv /\ IntakeInv /\ RetInv /\ FlowInv

LEMMA RuntimeStarts == RuntimeInit => RuntimeInv
  BY LoopStarts, LifeStarts, IntakeStarts, RetInvStarts, FlowStarts DEF RuntimeInit, RuntimeInv

LEMMA RuntimeStays == RuntimeInv /\ UNCHANGED runtimeVars => RuntimeInv'
  BY LoopStays, LifeStays, IntakeStays, RetInvStays, FlowStays DEF RuntimeInv, runtimeVars

LEMMA RuntimeStep == RuntimeInv /\ [RuntimeNext]_runtimeVars => RuntimeInv'
  <1> SUFFICES ASSUME RuntimeInv, RuntimeNext PROVE RuntimeInv' BY RuntimeStays
  <1>0. LoopInv /\ LifeInv /\ IntakeInv /\ RetInv /\ FlowInv BY DEF RuntimeInv
  <1>1. ASSUME LoopMoves, LoopNext PROVE RuntimeInv'
    BY <1>0, <1>1, LoopStep, LifeStays, IntakeStays, RetInvStays, FlowStays DEF LoopMoves, RuntimeInv
  <1>2. ASSUME LifeMoves, LifeNext PROVE RuntimeInv'
    BY <1>0, <1>2, LoopStays, LifeStep, IntakeStays, RetInvStays, FlowStays DEF LifeMoves, RuntimeInv
  <1>3. ASSUME IntakeMoves, IntakeNext PROVE RuntimeInv'
    BY <1>0, <1>3, LoopStays, LifeStays, IntakeStep, RetInvStays, FlowStays DEF IntakeMoves, RuntimeInv
  <1>4. ASSUME RetMoves, RetNext PROVE RuntimeInv'
    BY <1>0, <1>4, LoopStays, LifeStays, IntakeStays, RetInvStep, FlowStays DEF RetMoves, RuntimeInv
  <1>5. ASSUME FlowMoves \/ PeersMove, FlowNext \/ PeersNext PROVE RuntimeInv'
    BY <1>0, <1>5, LoopStays, LifeStays, IntakeStays, RetInvStays, FlowStep
    DEF FlowMoves, PeersMove, RuntimeInv
  <1> QED BY <1>1, <1>2, <1>3, <1>4, <1>5 DEF RuntimeNext

\* Each of the process's machines keeps its own invariant while the others step:
\* the loops, the lifecycle, the intake, the retention sweep and the flow pass
\* (loop_health.rs, lifecycle.rs, notify.rs and hydration.rs, fee_scheduler.rs,
\* flow_owner.rs).
THEOREM RuntimeInvariant == RuntimeSpec => []RuntimeInv
  BY RuntimeStarts, RuntimeStep, PTL DEF RuntimeSpec

\* Every accepted request of a loop is queued, in the owner's hand, run or
\* counted as abandoned, a loop that says it is idle has nothing running, and a
\* result the health surface reports was recorded by this process
\* (loop_health.rs: request, suspend_shared, begin, finish, current_boot_status).
THEOREM LoopsHonest == RuntimeSpec => []LoopsAreHonest
  <1>1. RuntimeInv => LoopsAreHonest BY LoopReports DEF RuntimeInv
  <1> QED BY <1>1, RuntimeInvariant, PTL

\* A start-up receipt proves the whole start-up, no store is opened twice under
\* two names, and a completed shutdown drained and joined every owner, the
\* observers after the action owners (lifecycle.rs: startup, shutdown).
THEOREM LifecycleHonest == RuntimeSpec => []LifecycleIsHonest
  <1>1. RuntimeInv => LifecycleIsHonest BY LifeReports DEF RuntimeInv
  <1> QED BY <1>1, RuntimeInvariant, PTL

\* Whichever of live events and hydration read it, a row is that of a settled
\* forward, so none has two; and a backfill that ends without a failure leaves no
\* settled forward of its window without its row, for any page size and any
\* listing (notify.rs, hydration.rs).
THEOREM IntakeWhole == RuntimeSpec => []IntakeIsWhole
  <1>1. RuntimeInv => IntakeIsWhole BY IntakeReports DEF RuntimeInv
  <1> QED BY <1>1, RuntimeInvariant, PTL

\* The three tables are of one pass, the evidence reader serves what completed
\* passes of this boot found, a default is used only when a reply showed the
\* option unset, and no peer is recorded twice (flow_owner.rs, flow_evidence.rs,
\* flow_config.rs, startup_snapshot.rs).
THEOREM FlowProven == RuntimeSpec => []FlowIsProven
  <1>1. RuntimeInv => FlowIsProven BY FlowReports DEF RuntimeInv
  <1> QED BY <1>1, RuntimeInvariant, PTL

LEMMA NoPassBegins ==
    RuntimeInv /\ [RuntimeNext]_runtimeVars =>
      [~row.active /\ boot' = boot => row'.generation = row.generation]_loopVars
  <1> SUFFICES ASSUME RuntimeInv, RuntimeNext, ~(UNCHANGED loopVars), ~row.active, boot' = boot
               PROVE  row'.generation = row.generation
    BY DEF runtimeVars
  <1>1. LoopNext BY DEF RuntimeNext, LifeMoves, IntakeMoves, RetMoves, FlowMoves, PeersMove
  <1> QED BY <1>1, PassesFollowTheMarker DEF RuntimeInv, LoopInv

LEMMA BackfillStep ==
    RuntimeInv /\ [RuntimeNext]_runtimeVars =>
      [hyd.at = "cursor" /\ hyd'.at = "page" =>
         \A f \in Fwd :
           /\ node[f].status = "settled" /\ node[f].recv + Overlap > Max({0} \union LastForwardTs)
           /\ node[f].recv + Window > now
           => node[f].recv > hyd'.start]_intakeVars
  <1> SUFFICES ASSUME RuntimeInv, RuntimeNext, ~(UNCHANGED intakeVars), hyd.at = "cursor", hyd'.at = "page",
                      NEW f \in Fwd, node[f].status = "settled",
                      node[f].recv + Overlap > Max({0} \union LastForwardTs), node[f].recv + Window > now
               PROVE  node[f].recv > hyd'.start
    BY DEF runtimeVars
  <1>1. IntakeNext BY DEF RuntimeNext, LoopMoves, LifeMoves, RetMoves, FlowMoves, PeersMove
  <1>2. ~(UNCHANGED hyd) OBVIOUS
  <1>3. ~(\E g \in Fwd : Offer(g) \/ \E s \in {"settled", "failed"} : Resolve(g, s)) /\ ~Pass
    <2>1. ASSUME NEW g \in Fwd, Offer(g) PROVE FALSE BY <1>2, <2>1 DEF Offer
    <2>2. ASSUME NEW g \in Fwd, NEW s \in {"settled", "failed"}, Resolve(g, s) PROVE FALSE
      BY <1>2, <2>2, Zenon DEF Resolve
    <2> QED BY <1>2, <2>1, <2>2 DEF Pass
  <1>4. ~PluginStart /\ ~PluginStop BY DEF PluginStart, PluginStop, NoHydration
  <1>5. ~FetchPage /\ ~(\E ok \in BOOLEAN : InsertFetched(ok))
    BY DEF FetchPage, InsertFetched
  <1>6. ~(\E e \in events, ok \in BOOLEAN : ForwardEvent(e, ok))
    BY <1>2 DEF ForwardEvent
  <1>7. ReadCursor BY <1>1, <1>3, <1>4, <1>5, <1>6 DEF IntakeNext
  <1> QED BY <1>7, BackfillReachesBack DEF RuntimeInv

LEMMA SweepStep ==
    RuntimeInv /\ [RuntimeNext]_runtimeVars =>
      [sweep.at = "running" =>
         /\ \A t \in Table : rows'[t].young = rows[t].young
         /\ rows'[Snapshots].old < rows[Snapshots].old => rows'[Snapshots].old >= KeepLast]_retVars
  <1> SUFFICES ASSUME RuntimeInv, RuntimeNext, ~(UNCHANGED retVars), sweep.at = "running"
               PROVE  /\ \A t \in Table : rows'[t].young = rows[t].young
                      /\ rows'[Snapshots].old < rows[Snapshots].old => rows'[Snapshots].old >= KeepLast
    BY DEF runtimeVars
  <1>1. RetNext BY DEF RuntimeNext, LoopMoves, LifeMoves, IntakeMoves, FlowMoves, PeersMove
  <1>2. rows \in RowsType BY DEF RuntimeInv, RetInv, RetTypeOK, RowsType
  <1> QED BY <1>1, <1>2, SweepIsCareful

LEMMA FilterStep ==
    RuntimeInv /\ [RuntimeNext]_runtimeVars =>
      [\A s \in Scid : kalman[s] # 0 /\ kalman'[s] = 0 => pass.seen[s] = "gone"]_flowVars
  <1> SUFFICES ASSUME RuntimeInv, RuntimeNext, ~(UNCHANGED flowVars), NEW s \in Scid,
                      kalman[s] # 0, kalman'[s] = 0
               PROVE  pass.seen[s] = "gone"
    BY DEF runtimeVars
  <1>1. FlowNext \/ PeersNext BY DEF RuntimeNext, LoopMoves, LifeMoves, IntakeMoves, RetMoves
  <1> QED BY <1>1, FiltersKept DEF RuntimeInv

\* No step begins a pass of a suspended loop, opens a backfill short of its
\* overlap, sweeps a row that has not expired, or drops the filter of a channel
\* the pass saw (loop_health.rs:begin, hydration.rs, retention.rs, flow_owner.rs).
THEOREM StepsCareful == RuntimeSpec => StepsAreCareful
  <1>1. RuntimeInv => RetTypeOK BY DEF RuntimeInv, RetInv
  <1>2. RuntimeSpec => []RuntimeInv BY RuntimeInvariant
  <1>3. RuntimeSpec => [][RuntimeNext]_runtimeVars BY PTL DEF RuntimeSpec
  <1>4. RuntimeSpec => NoPassAfterMarker BY <1>2, <1>3, NoPassBegins, PTL DEF NoPassAfterMarker
  <1>5. RuntimeSpec => BackfillOverlaps BY <1>2, <1>3, BackfillStep, PTL DEF BackfillOverlaps
  <1>6. RuntimeSpec => SweepTakesOnlyExpired BY <1>2, <1>3, SweepStep, PTL DEF SweepTakesOnlyExpired
  <1>7. RuntimeSpec => FiltersOutliveStates BY <1>2, <1>3, FilterStep, PTL DEF FiltersOutliveStates
  <1> QED BY <1>1, <1>2, <1>4, <1>5, <1>6, <1>7, PTL DEF StepsAreCareful
=============================================================================
