------------------------- MODULE EconGovernor_proofs -------------------------
(***************************************************************************)
(* The budget rail and the governor over it, for any reservations, callers,  *)
(* windows, budgets and intents: commitments stay within the budget, money   *)
(* in flight stays held, a spent hold has its event, what has ended is never *)
(* used again.  Then two small machines: the flush watcher (FeeTriggers) and *)
(* the cache of bleeder verdicts (CapitalAlgorithms).                        *)
(***************************************************************************)
EXTENDS EconGovernor, FeeTriggers, CapitalAlgorithms, SumTheorems

-----------------------------------------------------------------------------
(***************************************************************************)
(* The sums of the rail.                                                     *)
(***************************************************************************)

LEMMA RowFacts ==
    ASSUME NEW row \in Row
    PROVE  /\ row.status \in Status /\ row.sats \in Nat /\ row.age \in Ages
           /\ ActiveSats(row) \in Nat /\ ActiveSats(row) <= row.sats
  <1>1. row.status \in Status /\ row.sats \in Nat /\ row.age \in Ages BY DEF Row
  <1> QED BY <1>1 DEF ActiveSats

LEMMA EntryFacts ==
    ASSUME NEW entry \in Entry, NEW w \in Int
    PROVE  /\ entry.sats \in Nat /\ entry.age \in Int /\ entry.age \in Ages
           /\ Within(entry, w) \in Nat /\ Within(entry, w) <= entry.sats
  <1>1. entry.sats \in Nat /\ entry.age \in Ages BY DEF Entry
  <1> QED BY <1>1 DEF Within, Ages

\* A window sum is a number, and a longer window counts no less.
LEMMA WindowGrows ==
    ASSUME NEW S, IsFiniteSet(S), NEW f \in [S -> Entry], NEW w \in Int, NEW v \in Int, w <= v
    PROVE  InWindow(f, S, w) \in Nat /\ InWindow(f, S, v) \in Nat
           /\ InWindow(f, S, w) <= InWindow(f, S, v)
  <1> DEFINE g == [x \in S |-> Within(f[x], w)]
             h == [x \in S |-> Within(f[x], v)]
  <1>1. \A x \in S : g[x] \in Nat /\ h[x] \in Nat BY EntryFacts
  <1>2. \A x \in S : g[x] <= h[x]
    <2> TAKE x \in S
    <2>1. f[x].age \in Int /\ f[x].sats \in Nat BY EntryFacts
    <2> QED BY <2>1 DEF Within
  <1>3. InWindow(f, S, w) = SumFunctionOnSet(g, S) /\ InWindow(f, S, v) = SumFunctionOnSet(h, S)
    BY DEF InWindow
  <1> HIDE DEF g, h
  <1> QED BY <1>1, <1>2, <1>3, SumIsNat, SumPointwise

\* Entries that only grow older count no more.
LEMMA WindowAges ==
    ASSUME NEW S, IsFiniteSet(S), NEW f \in [S -> Entry], NEW k \in [S -> Entry], NEW w \in Int,
           \A x \in S : k[x].sats = f[x].sats /\ f[x].age <= k[x].age
    PROVE  InWindow(f, S, w) \in Nat /\ InWindow(k, S, w) \in Nat
           /\ InWindow(k, S, w) <= InWindow(f, S, w)
  <1> DEFINE g == [x \in S |-> Within(k[x], w)]
             h == [x \in S |-> Within(f[x], w)]
  <1>1. \A x \in S : g[x] \in Nat /\ h[x] \in Nat BY EntryFacts
  <1>2. \A x \in S : g[x] <= h[x]
    <2> TAKE x \in S
    <2>1. /\ f[x].age \in Int /\ f[x].sats \in Nat /\ k[x].age \in Int
          /\ k[x].sats = f[x].sats /\ f[x].age <= k[x].age
      BY EntryFacts
    <2> QED BY <2>1 DEF Within
  <1>3. InWindow(k, S, w) = SumFunctionOnSet(g, S) /\ InWindow(f, S, w) = SumFunctionOnSet(h, S)
    BY DEF InWindow
  <1> HIDE DEF g, h
  <1> QED BY <1>1, <1>2, <1>3, SumIsNat, SumPointwise

\* One new entry adds at most its amount.
LEMMA WindowGains ==
    ASSUME NEW S, IsFiniteSet(S), NEW f \in [S -> Entry], NEW w \in Int,
           NEW y \in S, NEW entry \in Entry
    PROVE  /\ InWindow(f, S, w) \in Nat /\ InWindow([f EXCEPT ![y] = entry], S, w) \in Nat
           /\ InWindow([f EXCEPT ![y] = entry], S, w) <= InWindow(f, S, w) + entry.sats
  <1> DEFINE k == [f EXCEPT ![y] = entry]
             g == [x \in S |-> Within(k[x], w)]
             h == [x \in S |-> Within(f[x], w)]
             T == S \ {y}
  <1>1. k \in [S -> Entry] /\ k[y] = entry /\ \A x \in T : k[x] = f[x] OBVIOUS
  <1>2. \A x \in S : g[x] \in Nat /\ h[x] \in Nat BY <1>1, EntryFacts
  <1>3. InWindow(k, S, w) = SumFunctionOnSet(g, S) /\ InWindow(f, S, w) = SumFunctionOnSet(h, S)
    BY DEF InWindow
  <1>4. g[y] <= entry.sats /\ entry.sats \in Nat BY <1>1, EntryFacts
  <1>5. \A x \in T : g[x] = h[x] BY <1>1
  <1>6. IsFiniteSet(T) BY FS_Subset
  <1> HIDE DEF g, h, k
  <1>7. /\ SumFunctionOnSet(g, S) = g[y] + SumFunctionOnSet(g, T)
        /\ SumFunctionOnSet(h, S) = h[y] + SumFunctionOnSet(h, T)
    BY <1>2, SumRemove
  <1>8. SumFunctionOnSet(g, T) = SumFunctionOnSet(h, T) BY <1>5, <1>6, SumSame
  <1>9. SumFunctionOnSet(h, T) \in Nat BY <1>2, <1>6, SumIsNat
  <1>10. g[y] \in Nat /\ h[y] \in Nat BY <1>2
  <1>11. /\ SumFunctionOnSet(g, S) \in Nat /\ SumFunctionOnSet(h, S) \in Nat
         /\ SumFunctionOnSet(g, S) <= SumFunctionOnSet(h, S) + entry.sats
    BY <1>4, <1>7, <1>8, <1>9, <1>10
  <1> QED BY <1>3, <1>11 DEF k

\* Holds that no row raises do not grow.
LEMMA HeldShrinks ==
    ASSUME NEW S, IsFiniteSet(S), NEW f \in [S -> Row], NEW k \in [S -> Row],
           \A x \in S : ActiveSats(k[x]) <= ActiveSats(f[x])
    PROVE  TotalHeld(f, S) \in Nat /\ TotalHeld(k, S) \in Nat /\ TotalHeld(k, S) <= TotalHeld(f, S)
  <1> DEFINE g == [x \in S |-> ActiveSats(k[x])]
             h == [x \in S |-> ActiveSats(f[x])]
  <1>1. \A x \in S : g[x] \in Nat /\ h[x] \in Nat BY RowFacts
  <1>2. \A x \in S : g[x] <= h[x] OBVIOUS
  <1>3. TotalHeld(k, S) = SumFunctionOnSet(g, S) /\ TotalHeld(f, S) = SumFunctionOnSet(h, S)
    BY DEF TotalHeld
  <1> HIDE DEF g, h
  <1> QED BY <1>1, <1>2, <1>3, SumIsNat, SumPointwise

\* Replacing one row replaces its hold.
LEMMA HeldReplaces ==
    ASSUME NEW S, IsFiniteSet(S), NEW f \in [S -> Row], NEW y \in S, NEW row \in Row
    PROVE  /\ TotalHeld(f, S) \in Nat /\ TotalHeld([f EXCEPT ![y] = row], S) \in Nat
           /\ ActiveSats(f[y]) \in Nat /\ ActiveSats(row) \in Nat
           /\ TotalHeld([f EXCEPT ![y] = row], S) + ActiveSats(f[y]) = TotalHeld(f, S) + ActiveSats(row)
  <1> DEFINE k == [f EXCEPT ![y] = row]
             g == [x \in S |-> ActiveSats(k[x])]
             h == [x \in S |-> ActiveSats(f[x])]
             T == S \ {y}
  <1>1. k \in [S -> Row] /\ k[y] = row /\ \A x \in T : k[x] = f[x] OBVIOUS
  <1>2. \A x \in S : g[x] \in Nat /\ h[x] \in Nat BY <1>1, RowFacts
  <1>3. TotalHeld(k, S) = SumFunctionOnSet(g, S) /\ TotalHeld(f, S) = SumFunctionOnSet(h, S)
    BY DEF TotalHeld
  <1>4. g[y] = ActiveSats(row) /\ h[y] = ActiveSats(f[y]) BY <1>1
  <1>5. \A x \in T : g[x] = h[x] BY <1>1
  <1>6. IsFiniteSet(T) BY FS_Subset
  <1> HIDE DEF g, h, k
  <1>7. /\ SumFunctionOnSet(g, S) = g[y] + SumFunctionOnSet(g, T)
        /\ SumFunctionOnSet(h, S) = h[y] + SumFunctionOnSet(h, T)
    BY <1>2, SumRemove
  <1>8. SumFunctionOnSet(g, T) = SumFunctionOnSet(h, T) BY <1>5, <1>6, SumSame
  <1>9. SumFunctionOnSet(h, T) \in Nat BY <1>2, <1>6, SumIsNat
  <1>10. g[y] \in Nat /\ h[y] \in Nat BY <1>2
  <1>11. /\ SumFunctionOnSet(g, S) \in Nat /\ SumFunctionOnSet(h, S) \in Nat
         /\ SumFunctionOnSet(g, S) + h[y] = SumFunctionOnSet(h, S) + g[y]
    BY <1>7, <1>8, <1>9, <1>10
  <1> QED BY <1>3, <1>4, <1>10, <1>11 DEF k

-----------------------------------------------------------------------------
(***************************************************************************)
(* The inductive invariant.                                                  *)
(***************************************************************************)

\* A reservation call carries what its gate saw.
CallsAsk ==
    \A c \in Caller : call[c] # NoCall =>
        /\ call[c].rid \in Operator /\ call[c].sats > 0 /\ call[c].budget \in Budgets

\* Who pays under which id, and for how long: the reason why no sweep by age
\* meets a running payment.
PaymentsAreTimely ==
    \A r \in Rid :
        /\ pay[r] # "idle" => r \in Operator \cup Rebalance
        /\ pay[r] = "parked" => r \in Rebalance
        /\ pay[r] = "running" /\ r \notin OnChain => resv[r].age <= PayBound

\* An active hold of an intent is for its worst-case cost.
EnvelopesHold ==
    \A i \in Intent :
        /\ CostOf[i] > 0 /\ resv[RidOf[i]].status = "active"
              => resv[RidOf[i]].sats = CostOf[i]
        /\ token[i] = "executing" => CostOf[i] > 0

RailInv == TypeOK /\ CallsAsk /\ PaymentsAreTimely /\ InFlightIsHeld /\ SpentHasEvent /\ ExposureBounded
BudgetInv == RailInv /\ EconTypeOK /\ EnvelopesHold

USE SpendBudgetAssumption, EconAssumption

LEMMA AgesFacts ==
    /\ Ages \subseteq Int /\ 0 \in Ages /\ Cap \in Nat
    /\ \A n \in Ages : n \in Nat /\ Plus(n) \in Ages /\ n <= Plus(n)
    /\ \A n \in Ages : n < PayBound => Plus(n) <= PayBound
  BY DEF Ages, Cap, Plus

LEMMA SumsTyped ==
    ASSUME TypeOK, NEW w \in Int
    PROVE  /\ Holds \in Nat /\ Committed(w) \in Nat /\ over \in Nat
           /\ Reserved \in Nat /\ Inherited \in Nat
           /\ InWindow(cost, Rid, w) \in Nat /\ InWindow(settled, Rid, w) \in Nat
           /\ InWindow(event, Event, w) \in Nat
  <1>1. /\ resv \in [Rid -> Row] /\ legacy \in [LegacyRid -> Row] /\ cost \in [Rid -> Entry]
        /\ settled \in [Rid -> Entry] /\ event \in [Event -> Entry] /\ over \in Nat
    BY DEF TypeOK
  <1>2. TotalHeld(resv, Rid) \in Nat
    <2>1. \A x \in Rid : ActiveSats(resv[x]) <= ActiveSats(resv[x]) BY <1>1, RowFacts
    <2> QED BY <1>1, <2>1, HeldShrinks
  <1>3. TotalHeld(legacy, LegacyRid) \in Nat
    <2>1. \A x \in LegacyRid : ActiveSats(legacy[x]) <= ActiveSats(legacy[x]) BY <1>1, RowFacts
    <2> QED BY <1>1, <2>1, HeldShrinks
  <1>4. /\ InWindow(cost, Rid, w) \in Nat /\ InWindow(settled, Rid, w) \in Nat
        /\ InWindow(event, Event, w) \in Nat
    BY <1>1, WindowGrows
  <1> QED BY <1>1, <1>2, <1>3, <1>4 DEF Holds, Reserved, Inherited, Committed

LEMMA SumsTypedNext ==
    ASSUME TypeOK'
    PROVE  /\ Holds' \in Nat /\ Committed(DayWindow)' \in Nat /\ over' \in Nat
           /\ Reserved' \in Nat /\ Inherited' \in Nat
  <1>1. /\ resv' \in [Rid -> Row] /\ legacy' \in [LegacyRid -> Row] /\ cost' \in [Rid -> Entry]
        /\ settled' \in [Rid -> Entry] /\ event' \in [Event -> Entry] /\ over' \in Nat
    BY DEF TypeOK
  <1>2. TotalHeld(resv', Rid) \in Nat
    <2>1. \A x \in Rid : ActiveSats(resv'[x]) <= ActiveSats(resv'[x]) BY <1>1, RowFacts
    <2> QED BY <1>1, <2>1, HeldShrinks
  <1>3. TotalHeld(legacy', LegacyRid) \in Nat
    <2>1. \A x \in LegacyRid : ActiveSats(legacy'[x]) <= ActiveSats(legacy'[x]) BY <1>1, RowFacts
    <2> QED BY <1>1, <2>1, HeldShrinks
  <1>4. Reserved' \in Nat /\ Inherited' \in Nat /\ Holds' \in Nat
    BY <1>2, <1>3 DEF Holds, Reserved, Inherited, TotalHeld
  <1>5. /\ InWindow(cost', Rid, DayWindow) \in Nat /\ InWindow(settled', Rid, DayWindow) \in Nat
        /\ InWindow(event', Event, DayWindow) \in Nat
    BY <1>1, WindowGrows
  <1>6. Committed(DayWindow)' \in Nat BY <1>5 DEF Committed, InWindow
  <1> QED BY <1>1, <1>4, <1>6

LEMMA CommittedGrows ==
    ASSUME TypeOK, NEW w \in Int, NEW v \in Int, w <= v
    PROVE  Committed(w) <= Committed(v)
  <1>1. /\ InWindow(cost, Rid, w) <= InWindow(cost, Rid, v)
        /\ InWindow(settled, Rid, w) <= InWindow(settled, Rid, v)
        /\ InWindow(event, Event, w) <= InWindow(event, Event, v)
    BY WindowGrows DEF TypeOK
  <1> QED BY <1>1, SumsTyped DEF Committed

\* Exposure that grows by no more than what is recorded beside the rail.
LEMMA ExposureKept ==
    ASSUME TypeOK, TypeOK', ExposureBounded, Inherited' <= Inherited,
           Reserved' + Committed(DayWindow)' + over <= Reserved + Committed(DayWindow) + over'
    PROVE  ExposureBounded'
  <1>1. /\ Reserved \in Nat /\ Inherited \in Nat /\ Committed(DayWindow) \in Nat /\ over \in Nat
        /\ Holds = Reserved + Inherited
    BY SumsTyped DEF Holds
  <1>2. /\ Reserved' \in Nat /\ Inherited' \in Nat /\ Committed(DayWindow)' \in Nat /\ over' \in Nat
        /\ Holds' = Reserved' + Inherited'
    BY SumsTypedNext DEF Holds
  <1>3. CASE \E b \in Budgets : Holds + Committed(DayWindow) <= b + over
    <2>1. PICK b \in Budgets : Holds + Committed(DayWindow) <= b + over BY <1>3
    <2>2. Holds' + Committed(DayWindow)' <= b + over' BY <1>1, <1>2, <2>1
    <2> QED BY <2>2 DEF ExposureBounded
  <1>4. CASE Reserved + Committed(DayWindow) <= over
    <2>1. Reserved' + Committed(DayWindow)' <= over' BY <1>1, <1>2, <1>4
    <2> QED BY <2>1 DEF ExposureBounded
  <1> QED BY <1>3, <1>4 DEF ExposureBounded

LEMMA InheritedSame ==
    ASSUME TypeOK, UNCHANGED legacy
    PROVE  Inherited' = Inherited /\ Inherited' <= Inherited
  <1>1. Inherited' = Inherited BY DEF Inherited, TotalHeld
  <1>2. 0 \in Int OBVIOUS
  <1>3. Inherited \in Nat BY <1>2, SumsTyped
  <1> QED BY <1>1, <1>3

-----------------------------------------------------------------------------
(***************************************************************************)
(* What the ways of changing a hold do to the rail.                          *)
(***************************************************************************)

\* The sums see only the variables they are made of.
LEMMA CommittedSame ==
    ASSUME UNCHANGED <<settled, event, cost>>, NEW w \in Int
    PROVE  Committed(w)' = Committed(w)
  BY DEF Committed, InWindow

LEMMA HoldsShrink ==
    ASSUME TypeOK, resv' \in [Rid -> Row], legacy' \in [LegacyRid -> Row],
           \A r \in Rid : ActiveSats(resv'[r]) <= ActiveSats(resv[r]),
           \A l \in LegacyRid : ActiveSats(legacy'[l]) <= ActiveSats(legacy[l])
    PROVE  Reserved' <= Reserved /\ Inherited' <= Inherited
  <1>1. resv \in [Rid -> Row] /\ legacy \in [LegacyRid -> Row] BY DEF TypeOK
  <1>2. /\ TotalHeld(resv, Rid) \in Nat /\ TotalHeld(resv', Rid) \in Nat
        /\ TotalHeld(resv', Rid) <= TotalHeld(resv, Rid)
    BY <1>1, HeldShrinks
  <1>3. /\ TotalHeld(legacy, LegacyRid) \in Nat /\ TotalHeld(legacy', LegacyRid) \in Nat
        /\ TotalHeld(legacy', LegacyRid) <= TotalHeld(legacy, LegacyRid)
    BY <1>1, HeldShrinks
  <1>4. Reserved' = TotalHeld(resv', Rid) /\ Inherited' = TotalHeld(legacy', LegacyRid)
    BY DEF Reserved, Inherited, TotalHeld
  <1> QED BY <1>2, <1>3, <1>4 DEF Reserved, Inherited

\* reserve_spend_body: what it grants fits the budget together with everything
\* held and committed, and its row had not ended.
LEMMA Granting ==
    ASSUME TypeOK, SpentHasEvent, NEW r \in Rid, NEW a \in Nat, NEW b \in Budgets,
           NEW w \in Int, DayWindow <= w, NEW weekly, Grantable(r, a, b, w, weekly),
           Hold(r, a), UNCHANGED <<legacy, settled, event, cost, over>>
    PROVE  /\ resv' \in [Rid -> Row]
           /\ resv'[r].status = "active" /\ resv'[r].sats = a /\ resv'[r].age = 0
           /\ \A x \in Rid \ {r} : resv'[x] = resv[x]
           /\ ~Terminal(resv[r].status)
           /\ SpentHasEvent' /\ ExposureBounded'
  <1> DEFINE row == [status |-> "active", sats |-> a, age |-> 0]
  <1>1. resv \in [Rid -> Row] /\ legacy \in [LegacyRid -> Row] BY DEF TypeOK
  <1>2. row \in Row /\ row.status = "active" /\ row.sats = a /\ row.age = 0
    BY AgesFacts DEF Row, Status
  <1>3. resv' = [resv EXCEPT ![r] = row] BY DEF Hold
  <1> HIDE DEF row
  <1>4. /\ resv' \in [Rid -> Row] /\ resv'[r] = row
        /\ \A x \in Rid \ {r} : resv'[x] = resv[x]
    BY <1>1, <1>2, <1>3
  <1>5. ~Terminal(resv[r].status) BY DEF Grantable
  <1>6. SpentHasEvent'
    <2>1. \A x \in Rid \ Rebalance : resv[x].status = "spent" <=> settled[x].sats > 0
      BY DEF SpentHasEvent
    <2>2. resv[r].status # "spent" /\ resv'[r].status # "spent" BY <1>2, <1>4, <1>5 DEF Terminal
    <2>3. \A x \in Rid : x # r => resv'[x].status = resv[x].status BY <1>4
    <2>4. \A x \in Rid \ Rebalance : resv'[x].status = "spent" <=> settled'[x].sats > 0
      BY <2>1, <2>2, <2>3
    <2> QED BY <2>4 DEF SpentHasEvent
  <1>7. ExposureBounded'
    <2>0. IsFiniteSet(Rid) OBVIOUS
    <2>a. /\ TotalHeld([resv EXCEPT ![r] = row], Rid) \in Nat
          /\ TotalHeld([resv EXCEPT ![r] = row], Rid) + ActiveSats(resv[r])
                = TotalHeld(resv, Rid) + ActiveSats(row)
          /\ ActiveSats(resv[r]) \in Nat
      BY ONLY <1>1, <1>2, <2>0, r \in Rid, HeldReplaces
    <2>1. /\ TotalHeld(resv', Rid) \in Nat
          /\ TotalHeld(resv', Rid) + ActiveSats(resv[r]) = TotalHeld(resv, Rid) + ActiveSats(row)
          /\ ActiveSats(resv[r]) \in Nat
      BY ONLY <1>3, <2>a
    <2>2. ActiveSats(row) = a BY <1>2 DEF ActiveSats
    <2>3. Holds' = TotalHeld(resv', Rid) + Inherited
      BY DEF Holds, Reserved, Inherited, TotalHeld
    <2>4. Holds = TotalHeld(resv, Rid) + Inherited BY DEF Holds, Reserved
    <2>5. a <= b - (Holds + Committed(w) - ActiveSats(resv[r]))
      BY DEF Grantable, Remaining, Replaced
    <2>6. DayWindow \in Int OBVIOUS
    <2>7. Committed(DayWindow) <= Committed(w) BY <2>6, CommittedGrows
    <2>8. Committed(DayWindow)' = Committed(DayWindow) BY <2>6, CommittedSame
    <2>9. /\ Holds \in Nat /\ Committed(w) \in Nat /\ Committed(DayWindow) \in Nat /\ over \in Nat
          /\ TotalHeld(resv, Rid) \in Nat /\ Inherited \in Nat
      BY <2>6, SumsTyped DEF Reserved
    <2>10. b \in Nat /\ over' = over OBVIOUS
    <2>11. Holds' + Committed(DayWindow)' <= b + over'
      BY <2>1, <2>2, <2>3, <2>4, <2>5, <2>7, <2>8, <2>9, <2>10
    <2> QED BY <2>11 DEF ExposureBounded
  <1> QED BY <1>2, <1>4, <1>5, <1>6, <1>7

\* Releasing active rows.
LEMMA Releasing ==
    ASSUME TypeOK, SpentHasEvent, ExposureBounded, NEW R \in SUBSET Rid, Released(R),
           \A r \in R : resv[r].status = "active",
           legacy' \in [LegacyRid -> Row],
           \A l \in LegacyRid : ActiveSats(legacy'[l]) <= ActiveSats(legacy[l]),
           UNCHANGED <<settled, event, cost, over>>
    PROVE  /\ resv' \in [Rid -> Row]
           /\ \A r \in R : resv'[r].status = "released" /\ resv'[r].age = resv[r].age
           /\ \A r \in Rid \ R : resv'[r] = resv[r]
           /\ Reserved' <= Reserved /\ Inherited' <= Inherited /\ SpentHasEvent'
  <1>1. resv \in [Rid -> Row] BY DEF TypeOK
  <1>2. \A r \in R : resv'[r] = [resv[r] EXCEPT !.status = "released"] BY DEF Released
  <1>3. \A r \in Rid \ R : resv'[r] = resv[r] BY DEF Released
  <1>4. ASSUME NEW row \in Row
        PROVE  /\ [row EXCEPT !.status = "released"] \in Row
               /\ [row EXCEPT !.status = "released"].status = "released"
               /\ [row EXCEPT !.status = "released"].age = row.age
    BY DEF Row, Status
  <1>5. \A r \in R : resv'[r] \in Row /\ resv'[r].status = "released" /\ resv'[r].age = resv[r].age
    <2> TAKE r \in R
    <2>1. resv[r] \in Row BY <1>1
    <2> DEFINE row == resv[r]
    <2>2. [row EXCEPT !.status = "released"] = resv'[r] BY <1>2
    <2> HIDE DEF row
    <2>3. row \in Row /\ row.age = resv[r].age BY <2>1 DEF row
    <2> QED BY ONLY <1>4, <2>2, <2>3
  <1>6. resv' \in [Rid -> Row] BY <1>1, <1>3, <1>5 DEF Released
  <1>7. \A r \in Rid : ActiveSats(resv'[r]) <= ActiveSats(resv[r])
    <2> TAKE r \in Rid
    <2>1. CASE r \in R
      <3>1. ActiveSats(resv'[r]) = 0 BY <1>5, <2>1 DEF ActiveSats
      <3> QED BY <1>1, <3>1, RowFacts
    <2>2. CASE r \notin R BY <1>1, <1>3, <2>2, RowFacts
    <2> QED BY <2>1, <2>2
  <1>8. Reserved' <= Reserved /\ Inherited' <= Inherited BY <1>6, <1>7, HoldsShrink
  <1>9. SpentHasEvent'
    <2>1. \A x \in Rid \ Rebalance : resv[x].status = "spent" <=> settled[x].sats > 0
      BY DEF SpentHasEvent
    <2>2. \A x \in R : resv[x].status # "spent" /\ resv'[x].status # "spent" BY <1>5
    <2>3. \A x \in Rid : x \notin R => resv'[x].status = resv[x].status BY <1>3
    <2>4. \A x \in Rid \ Rebalance : resv'[x].status = "spent" <=> settled'[x].sats > 0
      BY <2>1, <2>2, <2>3
    <2> QED BY <2>4 DEF SpentHasEvent
  <1> QED BY <1>3, <1>5, <1>6, <1>8, <1>9

\* mark_spent_in_tx: the flip of an active row.
LEMMA Spending ==
    ASSUME TypeOK, NEW r \in Rid, Spent(r), resv[r].status = "active"
    PROVE  /\ resv' \in [Rid -> Row]
           /\ resv'[r].status = "spent" /\ resv'[r].age = resv[r].age
           /\ \A x \in Rid \ {r} : resv'[x] = resv[x]
           /\ resv[r].sats \in Nat /\ Reserved' \in Nat /\ Reserved' + resv[r].sats = Reserved
  <1> DEFINE row == [resv[r] EXCEPT !.status = "spent"]
  <1>1. resv \in [Rid -> Row] /\ resv[r] \in Row BY DEF TypeOK
  <1>2. row \in Row /\ row.status = "spent" /\ row.age = resv[r].age
    BY <1>1 DEF Row, Status
  <1>3. resv' = [resv EXCEPT ![r] = row] BY DEF Spent
  <1> HIDE DEF row
  <1>4. resv' \in [Rid -> Row] /\ resv'[r] = row /\ \A x \in Rid \ {r} : resv'[x] = resv[x]
    BY <1>1, <1>2, <1>3
  <1>0. IsFiniteSet(Rid) OBVIOUS
  <1>a. /\ TotalHeld([resv EXCEPT ![r] = row], Rid) \in Nat /\ TotalHeld(resv, Rid) \in Nat
        /\ TotalHeld([resv EXCEPT ![r] = row], Rid) + ActiveSats(resv[r])
              = TotalHeld(resv, Rid) + ActiveSats(row)
    BY ONLY <1>0, <1>1, <1>2, r \in Rid, HeldReplaces
  <1>5. /\ TotalHeld(resv', Rid) \in Nat /\ TotalHeld(resv, Rid) \in Nat
        /\ TotalHeld(resv', Rid) + ActiveSats(resv[r]) = TotalHeld(resv, Rid) + ActiveSats(row)
    BY ONLY <1>3, <1>a
  <1>6. ActiveSats(row) = 0 /\ ActiveSats(resv[r]) = resv[r].sats BY <1>2 DEF ActiveSats
  <1>7. resv[r].sats \in Nat BY <1>1, RowFacts
  <1>8. Reserved' = TotalHeld(resv', Rid) BY DEF Reserved, TotalHeld
  <1>9. Reserved' + resv[r].sats = Reserved BY <1>5, <1>6, <1>7, <1>8 DEF Reserved
  <1> QED BY <1>2, <1>4, <1>5, <1>7, <1>8, <1>9

-----------------------------------------------------------------------------
(***************************************************************************)
(* The steps of the rail, one lemma each.                                    *)
(***************************************************************************)

\* Outside the operator's and the engine's ids a step leaves an active hold as
\* it is or ends it.
IntentRowsKept ==
    \A r \in Rid \ (Operator \cup Rebalance) :
        resv'[r].status = "active" => resv[r].status = "active" /\ resv'[r].sats = resv[r].sats

LEMMA RailTypes ==
    ASSUME TypeOK
    PROVE  /\ resv \in [Rid -> Row] /\ legacy \in [LegacyRid -> Row] /\ cost \in [Rid -> Entry]
           /\ settled \in [Rid -> Entry] /\ event \in [Event -> Entry] /\ over \in Nat
           /\ pay \in [Rid -> Payment] /\ call \in [Caller -> Call] /\ forced \subseteq Rid
           /\ DayWindow \in Int /\ 0 \in Int
  BY DEF TypeOK

LEMMA CallFacts ==
    ASSUME NEW k \in Call
    PROVE  k.rid \in Rid \cup {"none"} /\ k.sats \in Nat /\ k.budget \in Nat /\ k.lag \in Ages
  BY DEF Call

LEMMA NoCallTyped == NoCall \in Call
  BY AgesFacts DEF NoCall, Call

LEMMA SpendReserveGateStep ==
    ASSUME RailInv, NEW c \in Caller, NEW r \in Rid, NEW a \in Amounts, NEW b \in Budgets,
           SpendReserveGate(c, r, a, b)
    PROVE  RailInv' /\ IntentRowsKept
  <1>1. TypeOK BY DEF RailInv
  <1>2. /\ r \in Operator /\ a > 0
        /\ call' = [call EXCEPT ![c] = [rid |-> r, sats |-> a, budget |-> b, lag |-> 0]]
        /\ UNCHANGED <<resv, legacy, settled, event, cost, pay, forced, over>>
    BY DEF SpendReserveGate
  <1> DEFINE k == [rid |-> r, sats |-> a, budget |-> b, lag |-> 0]
  <1>3. k \in Call /\ k.rid = r /\ k.sats = a /\ k.budget = b BY AgesFacts DEF Call
  <1> HIDE DEF k
  <1>4. call' = [call EXCEPT ![c] = k] BY <1>2 DEF k
  <1>5. TypeOK' BY <1>1, <1>2, <1>3, <1>4 DEF TypeOK
  <1>6. CallsAsk'
    <2>1. \A d \in Caller : call'[d] = IF d = c THEN k ELSE call[d] BY <1>1, <1>4, RailTypes
    <2> QED BY <1>2, <1>3, <2>1 DEF RailInv, CallsAsk
  <1>7. PaymentsAreTimely' BY <1>2 DEF RailInv, PaymentsAreTimely
  <1>8. InFlightIsHeld' /\ SpentHasEvent' BY <1>2 DEF RailInv, InFlightIsHeld, SpentHasEvent
  <1>9. ExposureBounded'
    BY <1>2 DEF RailInv, ExposureBounded, Holds, Reserved, Inherited, TotalHeld, Committed, InWindow
  <1> QED BY <1>2, <1>5, <1>6, <1>7, <1>8, <1>9 DEF RailInv, IntentRowsKept

LEMMA SpendReserveStep ==
    ASSUME RailInv, NEW c \in Caller, SpendReserve(c)
    PROVE  RailInv' /\ IntentRowsKept
  <1> DEFINE k == call[c]
  <1>1. TypeOK /\ SpentHasEvent /\ CallsAsk BY DEF RailInv
  <1>2. /\ k # NoCall /\ call' = [call EXCEPT ![c] = NoCall]
        /\ UNCHANGED <<legacy, settled, event, cost, pay, forced, over>>
    BY DEF SpendReserve
  <1>3. k.rid \in Operator /\ k.sats \in Nat /\ k.budget \in Budgets /\ k.lag \in Nat
    <2>1. k \in Call BY <1>1, RailTypes
    <2> QED BY <1>1, <1>2, <2>1, CallFacts, AgesFacts DEF CallsAsk
  <1>4. CallsAsk' BY <1>1, <1>2, RailTypes DEF CallsAsk
  <1>5. call' \in [Caller -> Call] BY <1>1, <1>2, RailTypes, NoCallTyped
  <1>6. CASE Grantable(k.rid, k.sats, k.budget, DayWindow + k.lag, FALSE)
    <2>1. Hold(k.rid, k.sats) BY <1>6 DEF SpendReserve
    <2>2. k.rid \in Rid /\ DayWindow + k.lag \in Int /\ DayWindow <= DayWindow + k.lag BY <1>3
    <2> HIDE DEF k
    <2>3. /\ resv' \in [Rid -> Row]
          /\ resv'[k.rid].status = "active" /\ resv'[k.rid].age = 0
          /\ \A x \in Rid \ {k.rid} : resv'[x] = resv[x]
          /\ SpentHasEvent' /\ ExposureBounded'
      BY <1>1, <1>2, <1>3, <1>6, <2>1, <2>2, Granting
    <2>4. TypeOK' BY <1>1, <1>2, <1>5, <2>3 DEF TypeOK
    <2>5. PaymentsAreTimely'
      BY <1>2, <2>3, AgesFacts DEF RailInv, PaymentsAreTimely
    <2>6. InFlightIsHeld' BY <1>2, <2>3 DEF RailInv, InFlightIsHeld
    <2>7. IntentRowsKept BY <1>3, <2>3 DEF IntentRowsKept
    <2> QED BY <1>4, <2>3, <2>4, <2>5, <2>6, <2>7 DEF RailInv
  <1>7. CASE ~Grantable(k.rid, k.sats, k.budget, DayWindow + k.lag, FALSE)
    <2>1. resv' = resv BY <1>7 DEF SpendReserve
    <2> HIDE DEF k
    <2>2. TypeOK' BY <1>1, <1>2, <1>5, <2>1 DEF TypeOK
    <2>3. PaymentsAreTimely' BY <1>2, <2>1 DEF RailInv, PaymentsAreTimely
    <2>4. InFlightIsHeld' /\ SpentHasEvent' BY <1>2, <2>1 DEF RailInv, InFlightIsHeld, SpentHasEvent
    <2>5. ExposureBounded'
      BY <1>2, <2>1 DEF RailInv, ExposureBounded, Holds, Reserved, Inherited, TotalHeld, Committed, InWindow
    <2> QED BY <1>4, <2>1, <2>2, <2>3, <2>4, <2>5 DEF RailInv, IntentRowsKept
  <1> QED BY <1>6, <1>7

LEMMA ReserveBudgetStep ==
    ASSUME RailInv, NEW r \in Rid, NEW a \in Amounts, NEW b \in Budgets, ReserveBudget(r, a, b)
    PROVE  RailInv' /\ IntentRowsKept
  <1>1. TypeOK /\ SpentHasEvent BY DEF RailInv
  <1>2. /\ r \in Rebalance /\ Grantable(r, a, b, DayWindow, TRUE) /\ Hold(r, a)
        /\ pay' = [pay EXCEPT ![r] = "running"]
        /\ UNCHANGED <<legacy, settled, event, cost, call, forced, over>>
    BY DEF ReserveBudget
  <1>3. a \in Nat /\ DayWindow \in Int /\ DayWindow <= DayWindow OBVIOUS
  <1>4. /\ resv' \in [Rid -> Row]
        /\ resv'[r].status = "active" /\ resv'[r].age = 0
        /\ \A x \in Rid \ {r} : resv'[x] = resv[x]
        /\ SpentHasEvent' /\ ExposureBounded'
    BY <1>1, <1>2, <1>3, Granting
  <1>5. /\ pay' \in [Rid -> Payment] /\ pay'[r] = "running"
        /\ \A x \in Rid \ {r} : pay'[x] = pay[x]
    BY <1>1, <1>2, RailTypes DEF Payment
  <1>6. TypeOK' BY <1>1, <1>2, <1>4, <1>5 DEF TypeOK
  <1>7. PaymentsAreTimely' BY <1>2, <1>4, <1>5, AgesFacts DEF RailInv, PaymentsAreTimely
  <1>8. InFlightIsHeld' BY <1>2, <1>4, <1>5 DEF RailInv, InFlightIsHeld
  <1>9. IntentRowsKept BY <1>2, <1>4 DEF IntentRowsKept
  <1>10. CallsAsk' BY <1>2 DEF RailInv, CallsAsk
  <1> QED BY <1>4, <1>6, <1>7, <1>8, <1>9, <1>10 DEF RailInv

LEMMA StartSpendStep ==
    ASSUME RailInv, NEW r \in Rid, StartSpend(r)
    PROVE  RailInv' /\ IntentRowsKept
  <1>1. TypeOK BY DEF RailInv
  <1>2. /\ r \in Operator /\ resv[r].status = "active" /\ resv[r].age = 0
        /\ pay' = [pay EXCEPT ![r] = "running"]
        /\ UNCHANGED <<resv, legacy, settled, event, cost, call, forced, over>>
    BY DEF StartSpend
  <1>3. /\ pay' \in [Rid -> Payment] /\ pay'[r] = "running"
        /\ \A x \in Rid \ {r} : pay'[x] = pay[x]
    BY <1>1, <1>2, RailTypes DEF Payment
  <1>4. TypeOK' BY <1>1, <1>2, <1>3 DEF TypeOK
  <1>5. PaymentsAreTimely' BY <1>2, <1>3, AgesFacts DEF RailInv, PaymentsAreTimely
  <1>6. InFlightIsHeld' /\ SpentHasEvent'
    BY <1>2, <1>3 DEF RailInv, InFlightIsHeld, SpentHasEvent
  <1>7. ExposureBounded'
    BY <1>2 DEF RailInv, ExposureBounded, Holds, Reserved, Inherited, TotalHeld, Committed, InWindow
  <1> QED BY <1>2, <1>4, <1>5, <1>6, <1>7 DEF RailInv, CallsAsk, IntentRowsKept

LEMMA MarkSpendReservationSpentStep ==
    ASSUME RailInv, NEW r \in Rid, NEW a \in Amounts, MarkSpendReservationSpent(r, a)
    PROVE  RailInv' /\ IntentRowsKept
  <1>1. TypeOK /\ SpentHasEvent /\ ExposureBounded BY DEF RailInv
  <1>2. /\ r \notin Rebalance /\ pay[r] = "running" /\ a \in Nat
        /\ UNCHANGED <<legacy, event, cost, call, forced>>
    BY DEF MarkSpendReservationSpent
  <1>3. r \in Operator BY <1>2 DEF RailInv, PaymentsAreTimely
  <1>4. CallsAsk' BY <1>2 DEF RailInv, CallsAsk
  <1>5. CASE resv[r].status = "active" /\ a > 0
    <2>1. /\ Spent(r) /\ settled' = [settled EXCEPT ![r] = [sats |-> a, age |-> 0]]
          /\ over' = over + Excess(r, a) /\ pay' = [pay EXCEPT ![r] = "idle"]
      BY <1>5 DEF MarkSpendReservationSpent
    <2>2. /\ resv' \in [Rid -> Row]
          /\ resv'[r].status = "spent" /\ resv'[r].age = resv[r].age
          /\ \A x \in Rid \ {r} : resv'[x] = resv[x]
          /\ resv[r].sats \in Nat /\ Reserved' \in Nat /\ Reserved' + resv[r].sats = Reserved
      BY <1>1, <1>2, <1>5, <2>1, Spending
    <2> DEFINE entry == [sats |-> a, age |-> 0]
    <2>3. entry \in Entry /\ entry.sats = a BY <1>2, AgesFacts DEF Entry
    <2>4. settled' = [settled EXCEPT ![r] = entry] BY <2>1
    <2> HIDE DEF entry
    <2>5. settled' \in [Rid -> Entry] /\ settled'[r] = entry /\ \A x \in Rid \ {r} : settled'[x] = settled[x]
      BY <1>1, <2>3, <2>4, RailTypes
    <2>6. pay' \in [Rid -> Payment] /\ pay'[r] = "idle" /\ \A x \in Rid \ {r} : pay'[x] = pay[x]
      BY <1>1, <2>1, RailTypes DEF Payment
    <2>7. Excess(r, a) \in Nat /\ over \in Nat /\ a <= resv[r].sats + Excess(r, a)
      BY <1>1, <1>2, <2>2, RailTypes DEF Excess
    <2>8. TypeOK' BY <1>1, <1>2, <2>1, <2>2, <2>5, <2>6, <2>7 DEF TypeOK
    <2>9. ExposureBounded'
      <3>1. IsFiniteSet(Rid) /\ settled \in [Rid -> Entry] /\ DayWindow \in Int
        BY <1>1, RailTypes
      <3>2. /\ InWindow(settled, Rid, DayWindow) \in Nat
            /\ InWindow([settled EXCEPT ![r] = entry], Rid, DayWindow)
                  <= InWindow(settled, Rid, DayWindow) + entry.sats
            /\ InWindow([settled EXCEPT ![r] = entry], Rid, DayWindow) \in Nat
        BY ONLY <2>3, <3>1, r \in Rid, WindowGains
      <3>3. Committed(DayWindow)' = InWindow(cost, Rid, DayWindow)
               + InWindow([settled EXCEPT ![r] = entry], Rid, DayWindow)
               + InWindow(event, Event, DayWindow)
        BY <1>2, <2>4 DEF Committed, InWindow
      <3>4. Reserved \in Nat /\ Reserved' \in Nat /\ Committed(DayWindow) \in Nat
            /\ InWindow(cost, Rid, DayWindow) \in Nat /\ InWindow(event, Event, DayWindow) \in Nat
        BY <1>1, <2>8, <3>1, SumsTyped, SumsTypedNext
      <3>5. Committed(DayWindow)' <= Committed(DayWindow) + a
        BY <2>3, <3>2, <3>3, <3>4, <1>2 DEF Committed
      <3>6. Committed(DayWindow)' \in Nat BY <2>8, SumsTypedNext
      <3>7. Reserved' + Committed(DayWindow)' + over <= Reserved + Committed(DayWindow) + over'
        BY <1>2, <2>1, <2>2, <2>7, <3>4, <3>5, <3>6
      <3> QED BY <1>1, <1>2, <2>8, <3>7, InheritedSame, ExposureKept
    <2>10. SpentHasEvent'
      <3>1. \A x \in Rid \ Rebalance : resv[x].status = "spent" <=> settled[x].sats > 0
        BY <1>1 DEF SpentHasEvent
      <3>2. settled'[r].sats > 0 BY <1>5, <2>3, <2>5
      <3>3. \A x \in Rid \ Rebalance : resv'[x].status = "spent" <=> settled'[x].sats > 0
        BY <2>2, <2>5, <3>1, <3>2
      <3> QED BY <3>3 DEF SpentHasEvent
    <2>11. PaymentsAreTimely' BY <2>2, <2>6 DEF RailInv, PaymentsAreTimely
    <2>12. InFlightIsHeld' BY <1>2, <2>2, <2>6 DEF RailInv, InFlightIsHeld
    <2>13. IntentRowsKept BY <1>3, <2>2 DEF IntentRowsKept
    <2> QED BY <1>4, <2>8, <2>9, <2>10, <2>11, <2>12, <2>13 DEF RailInv
  <1>6. CASE ~(resv[r].status = "active" /\ a > 0)
    <2>1. /\ UNCHANGED <<resv, settled, over>>
          /\ pay' = IF resv[r].status = "active" THEN pay ELSE [pay EXCEPT ![r] = "idle"]
      BY <1>6 DEF MarkSpendReservationSpent
    <2>2. pay' \in [Rid -> Payment] /\ \A x \in Rid : pay'[x] = pay[x] \/ pay'[x] = "idle"
      BY <1>1, <2>1, RailTypes DEF Payment
    <2>3. TypeOK' BY <1>1, <1>2, <2>1, <2>2 DEF TypeOK
    <2>4. PaymentsAreTimely' BY <2>1, <2>2 DEF RailInv, PaymentsAreTimely
    <2>5. InFlightIsHeld' /\ SpentHasEvent'
      BY <1>2, <2>1, <2>2 DEF RailInv, InFlightIsHeld, SpentHasEvent
    <2>6. ExposureBounded'
      BY <1>2, <2>1 DEF RailInv, ExposureBounded, Holds, Reserved, Inherited, TotalHeld, Committed, InWindow
    <2> QED BY <1>4, <2>1, <2>3, <2>4, <2>5, <2>6 DEF RailInv, IntentRowsKept
  <1> QED BY <1>5, <1>6

\* What leaves the holds and what enters the window, against the excess.
LEMMA Carried ==
    \A r0, r1, c0, c1, o0, o1, a \in Nat : r1 + a + o0 <= r0 + o1 /\ c1 <= c0 + a => r1 + c1 + o0 <= r0 + c0 + o1
  OBVIOUS

LEMMA FinishSuccessStep ==
    ASSUME RailInv, NEW r \in Rid, NEW a \in Amounts, FinishSuccess(r, a)
    PROVE  RailInv' /\ IntentRowsKept
  <1>1. TypeOK /\ SpentHasEvent /\ ExposureBounded BY DEF RailInv
  <1> DEFINE entry == [sats |-> a, age |-> 0]
  <1>2. /\ r \in Rebalance /\ a \in Nat /\ pay' = [pay EXCEPT ![r] = "idle"]
        /\ cost' = [cost EXCEPT ![r] = entry]
        /\ UNCHANGED <<legacy, settled, event, call, forced>>
    BY DEF FinishSuccess
  <1>3. entry \in Entry /\ entry.sats = a BY <1>2, AgesFacts DEF Entry
  <1> HIDE DEF entry
  <1>4. CallsAsk' BY <1>2 DEF RailInv, CallsAsk
  <1>5. pay' \in [Rid -> Payment] /\ pay'[r] = "idle" /\ \A x \in Rid \ {r} : pay'[x] = pay[x]
    BY <1>1, <1>2, RailTypes DEF Payment
  <1>6. cost' \in [Rid -> Entry] BY <1>1, <1>2, <1>3, RailTypes
  <1>7. /\ resv' \in [Rid -> Row] /\ resv'[r].age = resv[r].age
        /\ \A x \in Rid \ {r} : resv'[x] = resv[x]
        /\ over' \in Nat /\ Reserved \in Nat /\ Reserved' + a + over <= Reserved + over'
    <2>1. over \in Nat /\ Reserved \in Nat BY <1>1, RailTypes, SumsTyped
    <2>2. CASE resv[r].status = "active"
      <3>1. Spent(r) /\ over' = over + Excess(r, a) BY <2>2 DEF FinishSuccess
      <3>2. /\ resv' \in [Rid -> Row] /\ resv'[r].age = resv[r].age
            /\ \A x \in Rid \ {r} : resv'[x] = resv[x]
            /\ resv[r].sats \in Nat /\ Reserved' \in Nat /\ Reserved' + resv[r].sats = Reserved
        BY <1>1, <1>2, <2>2, <3>1, Spending
      <3>3. Excess(r, a) \in Nat /\ a <= resv[r].sats + Excess(r, a) BY <1>2, <3>2 DEF Excess
      <3> QED BY <1>2, <2>1, <3>1, <3>2, <3>3
    <2>3. CASE resv[r].status # "active"
      <3>1. resv' = resv /\ over' = over + a BY <2>3 DEF FinishSuccess
      <3>2. Reserved' = Reserved BY <3>1 DEF Reserved, TotalHeld
      <3> QED BY <1>1, <1>2, <2>1, <3>1, <3>2, RailTypes
    <2> QED BY <2>2, <2>3
  <1>8. TypeOK' BY <1>1, <1>2, <1>5, <1>6, <1>7 DEF TypeOK
  <1>9. ExposureBounded'
    <2>1. IsFiniteSet(Rid) /\ cost \in [Rid -> Entry] /\ DayWindow \in Int /\ over \in Nat
      BY <1>1, RailTypes
    <2>2. /\ InWindow(cost, Rid, DayWindow) \in Nat
          /\ InWindow([cost EXCEPT ![r] = entry], Rid, DayWindow)
                <= InWindow(cost, Rid, DayWindow) + entry.sats
          /\ InWindow([cost EXCEPT ![r] = entry], Rid, DayWindow) \in Nat
      BY ONLY <1>3, <2>1, r \in Rid, WindowGains
    <2>3. Committed(DayWindow)' = InWindow([cost EXCEPT ![r] = entry], Rid, DayWindow)
             + InWindow(settled, Rid, DayWindow) + InWindow(event, Event, DayWindow)
      BY <1>2 DEF Committed, InWindow
    <2>4. Reserved \in Nat /\ Reserved' \in Nat /\ Committed(DayWindow) \in Nat /\ Committed(DayWindow)' \in Nat
          /\ InWindow(settled, Rid, DayWindow) \in Nat /\ InWindow(event, Event, DayWindow) \in Nat
      BY <1>1, <1>8, <2>1, SumsTyped, SumsTypedNext
    <2>5. Committed(DayWindow)' <= Committed(DayWindow) + a
      BY <1>2, <1>3, <2>2, <2>3, <2>4 DEF Committed
    <2>6. a \in Nat /\ over' \in Nat /\ Reserved' + a + over <= Reserved + over'
      BY <1>2, <1>7
    <2>7. Reserved' + Committed(DayWindow)' + over <= Reserved + Committed(DayWindow) + over'
      BY <2>1, <2>4, <2>5, <2>6, Carried
    <2> QED BY <1>1, <1>2, <1>8, <2>7, InheritedSame, ExposureKept
  <1>10. SpentHasEvent' BY <1>1, <1>2, <1>7 DEF SpentHasEvent
  <1>11. PaymentsAreTimely' BY <1>5, <1>7 DEF RailInv, PaymentsAreTimely
  <1>12. InFlightIsHeld' BY <1>2, <1>5, <1>7 DEF RailInv, InFlightIsHeld
  <1>13. IntentRowsKept BY <1>2, <1>7 DEF IntentRowsKept
  <1> QED BY <1>4, <1>8, <1>9, <1>10, <1>11, <1>12, <1>13 DEF RailInv

LEMMA FinishPendingStep ==
    ASSUME RailInv, NEW r \in Rid, FinishPending(r)
    PROVE  RailInv' /\ IntentRowsKept
  <1>1. TypeOK BY DEF RailInv
  <1>2. /\ r \in Rebalance /\ pay[r] = "running" /\ pay' = [pay EXCEPT ![r] = "parked"]
        /\ UNCHANGED <<resv, legacy, settled, event, cost, call, forced, over>>
    BY DEF FinishPending
  <1>3. pay' \in [Rid -> Payment] /\ pay'[r] = "parked" /\ \A x \in Rid \ {r} : pay'[x] = pay[x]
    BY <1>1, <1>2, RailTypes DEF Payment
  <1>4. TypeOK' BY <1>1, <1>2, <1>3 DEF TypeOK
  <1>5. PaymentsAreTimely' BY <1>2, <1>3 DEF RailInv, PaymentsAreTimely
  <1>6. InFlightIsHeld' /\ SpentHasEvent'
    BY <1>2, <1>3 DEF RailInv, InFlightIsHeld, SpentHasEvent
  <1>7. ExposureBounded'
    BY <1>2 DEF RailInv, ExposureBounded, Holds, Reserved, Inherited, TotalHeld, Committed, InWindow
  <1> QED BY <1>2, <1>4, <1>5, <1>6, <1>7 DEF RailInv, CallsAsk, IntentRowsKept

\* Releasing active rows keeps the rail when the payments they stood for have
\* ended or the release is on the operator's account.
LEMMA ReleasingKeepsRail ==
    ASSUME RailInv, NEW R \in SUBSET Rid, Released(R),
           \A r \in R : resv[r].status = "active",
           legacy' \in [LegacyRid -> Row],
           \A l \in LegacyRid : ActiveSats(legacy'[l]) <= ActiveSats(legacy[l]),
           pay' \in [Rid -> Payment], \A r \in Rid : pay'[r] \in {pay[r], "idle"},
           forced \subseteq forced', forced' \subseteq Rid,
           \A r \in R : pay'[r] = "idle" \/ r \in forced',
           UNCHANGED <<settled, event, cost, call, over>>
    PROVE  RailInv' /\ IntentRowsKept
  <1>1. TypeOK /\ SpentHasEvent /\ ExposureBounded BY DEF RailInv
  <1>2. /\ resv' \in [Rid -> Row]
        /\ \A r \in R : resv'[r].status = "released" /\ resv'[r].age = resv[r].age
        /\ \A r \in Rid \ R : resv'[r] = resv[r]
        /\ Reserved' <= Reserved /\ Inherited' <= Inherited /\ SpentHasEvent'
    BY <1>1, Releasing
  <1>3. TypeOK' BY <1>1, <1>2 DEF TypeOK
  <1>4. ExposureBounded'
    <2>1. Committed(DayWindow)' = Committed(DayWindow) BY <1>1, RailTypes, CommittedSame
    <2>2. Reserved \in Nat /\ Reserved' \in Nat /\ Committed(DayWindow) \in Nat /\ over \in Nat
      BY <1>1, <1>3, RailTypes, SumsTyped, SumsTypedNext
    <2>3. Reserved' + Committed(DayWindow)' + over <= Reserved + Committed(DayWindow) + over'
      BY <1>2, <2>1, <2>2
    <2> QED BY <1>1, <1>2, <1>3, <2>3, ExposureKept
  <1>5. CallsAsk' BY DEF RailInv, CallsAsk
  <1>6. PaymentsAreTimely' BY <1>2 DEF RailInv, PaymentsAreTimely
  <1>7. InFlightIsHeld'
    <2> SUFFICES ASSUME NEW r \in Rid, pay'[r] # "idle"
                 PROVE  resv'[r].status = "active" \/ r \in forced'
      BY DEF InFlightIsHeld
    <2>1. pay[r] # "idle" OBVIOUS
    <2>2. resv[r].status = "active" \/ r \in forced BY <2>1 DEF RailInv, InFlightIsHeld
    <2>3. r \in R => r \in forced' OBVIOUS
    <2> QED BY <1>2, <2>2, <2>3
  <1>8. IntentRowsKept BY <1>2 DEF IntentRowsKept
  <1> QED BY <1>2, <1>3, <1>4, <1>5, <1>6, <1>7, <1>8 DEF RailInv

\* Nothing of the sums, rows, calls and forced ids changes.
LEMMA PaymentsOnly ==
    ASSUME RailInv, pay' \in [Rid -> Payment], \A r \in Rid : pay'[r] \in {pay[r], "idle"},
           call' \in [Caller -> Call], \A c \in Caller : call'[c] \in {call[c], NoCall},
           UNCHANGED <<resv, legacy, settled, event, cost, forced, over>>
    PROVE  RailInv' /\ IntentRowsKept
  <1>1. TypeOK' BY DEF RailInv, TypeOK
  <1>2. CallsAsk' BY DEF RailInv, CallsAsk
  <1>3. PaymentsAreTimely' BY DEF RailInv, PaymentsAreTimely
  <1>4. InFlightIsHeld' /\ SpentHasEvent' BY DEF RailInv, InFlightIsHeld, SpentHasEvent
  <1>5. ExposureBounded'
    BY DEF RailInv, ExposureBounded, Holds, Reserved, Inherited, TotalHeld, Committed, InWindow
  <1> QED BY <1>1, <1>2, <1>3, <1>4, <1>5 DEF RailInv, IntentRowsKept

LEMMA LegacyUnchanged ==
    ASSUME TypeOK, UNCHANGED legacy
    PROVE  /\ legacy' \in [LegacyRid -> Row]
           /\ \A l \in LegacyRid : ActiveSats(legacy'[l]) <= ActiveSats(legacy[l])
  <1>1. legacy \in [LegacyRid -> Row] BY RailTypes
  <1> QED BY <1>1, RowFacts

LEMMA FinishFailedStep ==
    ASSUME RailInv, NEW r \in Rid, FinishFailed(r)
    PROVE  RailInv' /\ IntentRowsKept
  <1>1. TypeOK BY DEF RailInv
  <1>2. /\ pay' = [pay EXCEPT ![r] = "idle"]
        /\ UNCHANGED <<legacy, settled, event, cost, call, forced, over>>
    BY DEF FinishFailed
  <1>3. /\ pay' \in [Rid -> Payment] /\ pay'[r] = "idle"
        /\ \A x \in Rid : pay'[x] \in {pay[x], "idle"}
    BY <1>1, <1>2, RailTypes DEF Payment
  <1>4. CASE resv[r].status = "active"
    <2>1. Released({r}) BY <1>4 DEF FinishFailed
    <2>2. {r} \in SUBSET Rid /\ \A x \in {r} : resv[x].status = "active" BY <1>4
    <2>3. \A x \in {r} : pay'[x] = "idle" BY <1>3
    <2>4. forced \subseteq forced' /\ forced' \subseteq Rid BY <1>1, <1>2, RailTypes
    <2> QED BY <1>1, <1>2, <1>3, <2>1, <2>2, <2>3, <2>4, LegacyUnchanged, ReleasingKeepsRail
  <1>5. CASE resv[r].status # "active"
    <2>1. resv' = resv BY <1>5 DEF FinishFailed
    <2> QED BY <1>1, <1>2, <1>3, <2>1, RailTypes, PaymentsOnly
  <1> QED BY <1>4, <1>5

LEMMA CrashStep ==
    ASSUME RailInv, Crash
    PROVE  RailInv' /\ IntentRowsKept
  <1>1. TypeOK BY DEF RailInv
  <1>2. /\ pay' = [r \in Rid |-> IF pay[r] = "running" THEN "idle" ELSE pay[r]]
        /\ call' = [c \in Caller |-> NoCall]
        /\ UNCHANGED <<resv, legacy, settled, event, cost, forced, over>>
    BY DEF Crash
  <1>3. pay' \in [Rid -> Payment] /\ \A r \in Rid : pay'[r] \in {pay[r], "idle"}
    BY <1>1, <1>2, RailTypes DEF Payment
  <1>4. call' \in [Caller -> Call] /\ \A c \in Caller : call'[c] \in {call[c], NoCall}
    BY <1>2, NoCallTyped
  <1> QED BY <1>2, <1>3, <1>4, PaymentsOnly

LEMMA RecordSpendEventStep ==
    ASSUME RailInv, NEW e \in Event, NEW a \in Amounts, RecordSpendEvent(e, a)
    PROVE  RailInv' /\ IntentRowsKept
  <1>1. TypeOK /\ ExposureBounded BY DEF RailInv
  <1> DEFINE entry == [sats |-> a, age |-> 0]
  <1>2. /\ a \in Nat /\ event' = [event EXCEPT ![e] = entry] /\ over' = over + a
        /\ UNCHANGED <<resv, legacy, settled, cost, pay, call, forced>>
    BY DEF RecordSpendEvent
  <1>3. entry \in Entry /\ entry.sats = a BY <1>2, AgesFacts DEF Entry
  <1> HIDE DEF entry
  <1>4. over \in Nat /\ over' \in Nat /\ event' \in [Event -> Entry]
    BY <1>1, <1>2, <1>3, RailTypes
  <1>5. TypeOK' BY <1>1, <1>2, <1>4 DEF TypeOK
  <1>6. ExposureBounded'
    <2>1. IsFiniteSet(Event) /\ event \in [Event -> Entry] /\ DayWindow \in Int
      BY <1>1, RailTypes
    <2>2. /\ InWindow(event, Event, DayWindow) \in Nat
          /\ InWindow([event EXCEPT ![e] = entry], Event, DayWindow)
                <= InWindow(event, Event, DayWindow) + entry.sats
          /\ InWindow([event EXCEPT ![e] = entry], Event, DayWindow) \in Nat
      BY ONLY <1>3, <2>1, e \in Event, WindowGains
    <2>3. Committed(DayWindow)' = InWindow(cost, Rid, DayWindow)
             + InWindow(settled, Rid, DayWindow) + InWindow([event EXCEPT ![e] = entry], Event, DayWindow)
      BY <1>2 DEF Committed, InWindow
    <2>4. Reserved \in Nat /\ Reserved' = Reserved /\ Committed(DayWindow) \in Nat /\ Committed(DayWindow)' \in Nat
          /\ InWindow(settled, Rid, DayWindow) \in Nat /\ InWindow(cost, Rid, DayWindow) \in Nat
      BY <1>1, <1>2, <1>5, <2>1, SumsTyped, SumsTypedNext DEF Reserved, TotalHeld
    <2>5. Committed(DayWindow)' <= Committed(DayWindow) + a
      BY <1>2, <1>3, <2>2, <2>3, <2>4 DEF Committed
    <2>6. Reserved' + Committed(DayWindow)' + over <= Reserved + Committed(DayWindow) + over'
      BY <1>2, <1>4, <2>4, <2>5
    <2> QED BY <1>1, <1>2, <1>5, <2>6, InheritedSame, ExposureKept
  <1>7. /\ CallsAsk' /\ PaymentsAreTimely' /\ InFlightIsHeld' /\ SpentHasEvent'
    BY <1>2 DEF RailInv, CallsAsk, PaymentsAreTimely, InFlightIsHeld, SpentHasEvent
  <1> QED BY <1>2, <1>5, <1>6, <1>7 DEF RailInv, IntentRowsKept

-----------------------------------------------------------------------------
(* The sweeps. *)

\* A stale row whose payment is not parked belongs to no payment: the executor
\* gives up long before a row is stale.
LEMMA StaleIsNotRunning ==
    ASSUME RailInv, NEW r \in Rid, r \notin OnChain, resv[r].age > StaleAge
    PROVE  pay[r] \in {"idle", "parked"}
  <1>1. pay[r] \in Payment /\ resv[r] \in Row BY DEF RailInv, TypeOK
  <1>2. resv[r].age \in Nat BY <1>1, RowFacts, AgesFacts
  <1>3. pay[r] = "running" => resv[r].age <= PayBound BY DEF RailInv, PaymentsAreTimely
  <1> QED BY <1>1, <1>2, <1>3 DEF Payment

LEMMA LegacyReleased ==
    ASSUME TypeOK, NEW L \in SUBSET LegacyRid, ReleaseLegacy(L)
    PROVE  /\ legacy' \in [LegacyRid -> Row]
           /\ \A l \in LegacyRid : ActiveSats(legacy'[l]) <= ActiveSats(legacy[l])
  <1>1. legacy \in [LegacyRid -> Row] BY RailTypes
  <1>2. ASSUME NEW l \in LegacyRid
        PROVE  legacy'[l] \in Row /\ ActiveSats(legacy'[l]) <= ActiveSats(legacy[l])
    <2> DEFINE row == legacy[l]
    <2>1. row \in Row BY <1>1
    <2>2. legacy'[l] = IF l \in L /\ row.status = "active"
                         THEN [row EXCEPT !.status = "released"] ELSE row
      BY DEF ReleaseLegacy
    <2> HIDE DEF row
    <2>3. /\ [row EXCEPT !.status = "released"] \in Row
          /\ [row EXCEPT !.status = "released"].status = "released"
      BY <2>1 DEF Row, Status
    <2>4. ActiveSats(row) \in Nat BY <2>1, RowFacts
    <2>5. legacy'[l] \in Row BY <2>1, <2>2, <2>3
    <2>6. ActiveSats(legacy'[l]) <= ActiveSats(row) BY <2>2, <2>3, <2>4 DEF ActiveSats
    <2> QED BY <2>5, <2>6 DEF row
  <1>3. legacy' \in [LegacyRid -> Row] BY <1>2 DEF ReleaseLegacy
  <1> QED BY <1>2, <1>3

LEMMA CleanupStaleReservationsStep ==
    ASSUME RailInv, CleanupStaleReservations
    PROVE  RailInv' /\ IntentRowsKept
  <1> DEFINE L == {l \in LegacyRid : legacy[l].status = "active" /\ legacy[l].age > StaleAge}
             R == {r \in Stale(Rebalance) : pay[r] # "parked"}
  <1>1. TypeOK BY DEF RailInv
  <1>2. /\ ReleaseLegacy(L) /\ Released(R)
        /\ UNCHANGED <<settled, event, cost, pay, call, forced, over>>
    BY DEF CleanupStaleReservations
  <1>3. \A r \in R : /\ r \in Rid /\ r \notin OnChain /\ resv[r].status = "active"
                     /\ resv[r].age > StaleAge /\ pay[r] # "parked"
    BY DEF Stale
  <1>4. L \in SUBSET LegacyRid /\ R \in SUBSET Rid BY <1>3
  <1> HIDE DEF L, R
  <1>5. /\ legacy' \in [LegacyRid -> Row]
        /\ \A l \in LegacyRid : ActiveSats(legacy'[l]) <= ActiveSats(legacy[l])
    BY <1>1, <1>2, <1>4, LegacyReleased
  <1>6. \A r \in R : pay'[r] = "idle" BY <1>2, <1>3, StaleIsNotRunning
  <1>7. /\ pay' \in [Rid -> Payment] /\ \A r \in Rid : pay'[r] \in {pay[r], "idle"}
        /\ forced \subseteq forced' /\ forced' \subseteq Rid
    BY <1>1, <1>2, RailTypes
  <1> QED BY <1>2, <1>3, <1>4, <1>5, <1>6, <1>7, ReleasingKeepsRail

LEMMA CleanupStaleSpendReservationsStep ==
    ASSUME RailInv, CleanupStaleSpendReservations
    PROVE  RailInv' /\ IntentRowsKept
  <1> DEFINE R == Stale(Rid \ OnChain)
  <1>1. TypeOK BY DEF RailInv
  <1>2. /\ Released(R) /\ forced' = forced \cup {r \in R : pay[r] = "parked"}
        /\ UNCHANGED <<legacy, settled, event, cost, pay, call, over>>
    BY DEF CleanupStaleSpendReservations
  <1>3. \A r \in R : /\ r \in Rid /\ r \notin OnChain /\ resv[r].status = "active"
                     /\ resv[r].age > StaleAge
    BY DEF Stale
  <1>4. R \in SUBSET Rid BY <1>3
  <1> HIDE DEF R
  <1>5. \A r \in R : pay'[r] = "idle" \/ r \in forced' BY <1>2, <1>3, StaleIsNotRunning
  <1>6. /\ pay' \in [Rid -> Payment] /\ \A r \in Rid : pay'[r] \in {pay[r], "idle"}
        /\ forced \subseteq forced' /\ forced' \subseteq Rid
    BY <1>1, <1>2, <1>4, RailTypes
  <1> QED BY <1>1, <1>2, <1>3, <1>4, <1>5, <1>6, LegacyUnchanged, ReleasingKeepsRail

LEMMA OperatorReleaseStep ==
    ASSUME RailInv, NEW R \in SUBSET Rid, OperatorRelease(R)
    PROVE  RailInv' /\ IntentRowsKept
  <1>1. TypeOK BY DEF RailInv
  <1>2. /\ Released(R) /\ forced' = forced \cup R /\ \A r \in R : resv[r].status = "active"
        /\ UNCHANGED <<legacy, settled, event, cost, pay, call, over>>
    BY DEF OperatorRelease
  <1>3. /\ pay' \in [Rid -> Payment] /\ \A r \in Rid : pay'[r] \in {pay[r], "idle"}
        /\ forced \subseteq forced' /\ forced' \subseteq Rid
        /\ \A r \in R : pay'[r] = "idle" \/ r \in forced'
    BY <1>1, <1>2, RailTypes
  <1> QED BY <1>1, <1>2, <1>3, LegacyUnchanged, ReleasingKeepsRail

\* Only the legacy table changes, and none of its holds grows.
LEMMA LegacyOnly ==
    ASSUME RailInv, legacy' \in [LegacyRid -> Row],
           \A l \in LegacyRid : ActiveSats(legacy'[l]) <= ActiveSats(legacy[l]),
           UNCHANGED <<resv, settled, event, cost, pay, call, forced, over>>
    PROVE  RailInv' /\ IntentRowsKept
  <1>1. TypeOK BY DEF RailInv
  <1>2. Released({}) BY <1>1, RailTypes DEF Released
  <1>3. /\ pay' \in [Rid -> Payment] /\ \A r \in Rid : pay'[r] \in {pay[r], "idle"}
        /\ forced \subseteq forced' /\ forced' \subseteq Rid
    BY <1>1, RailTypes
  <1> QED BY <1>2, <1>3, ReleasingKeepsRail

LEMMA ClearAllReservationsStep ==
    ASSUME RailInv, ClearAllReservations
    PROVE  RailInv' /\ IntentRowsKept
  <1>1. TypeOK BY DEF RailInv
  <1>2. /\ ReleaseLegacy(LegacyRid)
        /\ UNCHANGED <<resv, settled, event, cost, pay, call, forced, over>>
    BY DEF ClearAllReservations
  <1> QED BY <1>1, <1>2, LegacyReleased, LegacyOnly

LEMMA LegacyTransitionStep ==
    ASSUME RailInv, NEW l \in LegacyRid, NEW to \in {"released", "spent"}, LegacyTransition(l, to)
    PROVE  RailInv' /\ IntentRowsKept
  <1>1. legacy \in [LegacyRid -> Row] BY RailTypes DEF RailInv
  <1>2. /\ legacy' = [legacy EXCEPT ![l].status = to]
        /\ UNCHANGED <<resv, settled, event, cost, pay, call, forced, over>>
    BY DEF LegacyTransition
  <1> DEFINE row == [legacy[l] EXCEPT !.status = to]
  <1>3. row \in Row /\ row.status = to BY <1>1 DEF Row, Status
  <1>4. legacy' = [legacy EXCEPT ![l] = row] BY <1>2
  <1> HIDE DEF row
  <1>5. /\ legacy' \in [LegacyRid -> Row] /\ legacy'[l] = row
        /\ \A x \in LegacyRid \ {l} : legacy'[x] = legacy[x]
    BY <1>1, <1>3, <1>4
  <1>6. \A x \in LegacyRid : ActiveSats(legacy'[x]) <= ActiveSats(legacy[x])
    <2> TAKE x \in LegacyRid
    <2>1. ActiveSats(legacy[x]) \in Nat BY <1>1, RowFacts
    <2>2. CASE x = l
      <3>1. ActiveSats(legacy'[x]) = 0 BY <1>3, <1>5, <2>2 DEF ActiveSats
      <3> QED BY <2>1, <3>1
    <2>3. CASE x # l BY <1>5, <2>1, <2>3
    <2> QED BY <2>2, <2>3
  <1> QED BY <1>2, <1>5, <1>6, LegacyOnly

-----------------------------------------------------------------------------
(* One unit of time. *)

LEMMA OlderRow ==
    ASSUME NEW S, NEW f \in [S -> Row]
    PROVE  /\ OlderRows(f) \in [S -> Row]
           /\ \A x \in S : /\ OlderRows(f)[x].status = f[x].status /\ OlderRows(f)[x].sats = f[x].sats
                           /\ OlderRows(f)[x].age \in {f[x].age, Plus(f[x].age)}
  <1>1. ASSUME NEW row \in Row, NEW n \in Ages
        PROVE  /\ [row EXCEPT !.age = n] \in Row /\ [row EXCEPT !.age = n].age = n
               /\ [row EXCEPT !.age = n].status = row.status /\ [row EXCEPT !.age = n].sats = row.sats
    BY DEF Row
  <1>2. ASSUME NEW x \in S
        PROVE  /\ OlderRows(f)[x] \in Row
               /\ OlderRows(f)[x].status = f[x].status /\ OlderRows(f)[x].sats = f[x].sats
               /\ OlderRows(f)[x].age \in {f[x].age, Plus(f[x].age)}
    <2> DEFINE row == f[x]
               n == Plus(row.age)
    <2>1. row \in Row /\ row.age \in Ages BY RowFacts
    <2>2. n \in Ages BY <2>1, AgesFacts
    <2>3. OlderRows(f)[x] = IF row.status = "active" THEN [row EXCEPT !.age = n] ELSE row
      BY DEF OlderRows
    <2> HIDE DEF row, n
    <2>4. /\ OlderRows(f)[x] \in Row
          /\ OlderRows(f)[x].status = row.status /\ OlderRows(f)[x].sats = row.sats
          /\ OlderRows(f)[x].age \in {row.age, n}
      BY ONLY <1>1, <2>1, <2>2, <2>3
    <2> QED BY <2>4 DEF row, n
  <1>3. OlderRows(f) \in [S -> Row] BY <1>2 DEF OlderRows
  <1> QED BY <1>2, <1>3

LEMMA OlderEntry ==
    ASSUME NEW S, NEW f \in [S -> Entry]
    PROVE  /\ OlderEntries(f) \in [S -> Entry]
           /\ \A x \in S : OlderEntries(f)[x].sats = f[x].sats /\ f[x].age <= OlderEntries(f)[x].age
  <1>1. ASSUME NEW entry \in Entry, NEW n \in Ages
        PROVE  /\ [entry EXCEPT !.age = n] \in Entry /\ [entry EXCEPT !.age = n].age = n
               /\ [entry EXCEPT !.age = n].sats = entry.sats
    BY DEF Entry
  <1>2. ASSUME NEW x \in S
        PROVE  /\ OlderEntries(f)[x] \in Entry
               /\ OlderEntries(f)[x].sats = f[x].sats /\ f[x].age <= OlderEntries(f)[x].age
    <2> DEFINE entry == f[x]
               n == Plus(entry.age)
    <2>1. entry \in Entry /\ entry.age \in Ages BY DEF Entry
    <2>2. n \in Ages /\ entry.age \in Nat /\ entry.age <= n BY <2>1, AgesFacts
    <2>3. OlderEntries(f)[x] = IF entry.sats > 0 THEN [entry EXCEPT !.age = n] ELSE entry
      BY DEF OlderEntries
    <2> HIDE DEF entry, n
    <2>4. /\ OlderEntries(f)[x] \in Entry
          /\ OlderEntries(f)[x].sats = entry.sats /\ entry.age <= OlderEntries(f)[x].age
      BY ONLY <1>1, <2>1, <2>2, <2>3
    <2> QED BY <2>4 DEF entry
  <1>3. OlderEntries(f) \in [S -> Entry] BY <1>2 DEF OlderEntries
  <1> QED BY <1>2, <1>3

LEMMA TickStep ==
    ASSUME RailInv, Tick
    PROVE  RailInv' /\ IntentRowsKept
  <1>1. TypeOK BY DEF RailInv
  <1>2. /\ \A r \in Rid : pay[r] = "running" /\ r \notin OnChain => resv[r].age < PayBound
        /\ resv' = OlderRows(resv) /\ legacy' = OlderRows(legacy)
        /\ settled' = OlderEntries(settled) /\ event' = OlderEntries(event)
        /\ cost' = OlderEntries(cost)
        /\ call' = [c \in Caller |-> IF call[c] = NoCall THEN NoCall
                                     ELSE [call[c] EXCEPT !.lag = Plus(@)]]
        /\ UNCHANGED <<pay, forced, over>>
    BY DEF Tick
  <1>3. /\ resv' \in [Rid -> Row]
        /\ \A r \in Rid : /\ resv'[r].status = resv[r].status /\ resv'[r].sats = resv[r].sats
                          /\ resv'[r].age \in {resv[r].age, Plus(resv[r].age)}
    BY <1>1, <1>2, RailTypes, OlderRow
  <1>4. /\ legacy' \in [LegacyRid -> Row]
        /\ \A l \in LegacyRid : /\ legacy'[l].status = legacy[l].status
                                /\ legacy'[l].sats = legacy[l].sats
    BY <1>1, <1>2, RailTypes, OlderRow
  <1>5. /\ settled' \in [Rid -> Entry] /\ event' \in [Event -> Entry] /\ cost' \in [Rid -> Entry]
        /\ \A r \in Rid : settled'[r].sats = settled[r].sats /\ settled[r].age <= settled'[r].age
        /\ \A e \in Event : event'[e].sats = event[e].sats /\ event[e].age <= event'[e].age
        /\ \A r \in Rid : cost'[r].sats = cost[r].sats /\ cost[r].age <= cost'[r].age
    BY <1>1, <1>2, RailTypes, OlderEntry
  <1>6. /\ call' \in [Caller -> Call]
        /\ \A c \in Caller : call'[c] # NoCall =>
              /\ call[c] # NoCall /\ call'[c].rid = call[c].rid
              /\ call'[c].sats = call[c].sats /\ call'[c].budget = call[c].budget
    <2>1. ASSUME NEW k \in Call
          PROVE  /\ [k EXCEPT !.lag = Plus(@)] \in Call
                 /\ [k EXCEPT !.lag = Plus(@)].rid = k.rid
                 /\ [k EXCEPT !.lag = Plus(@)].sats = k.sats
                 /\ [k EXCEPT !.lag = Plus(@)].budget = k.budget
      <3>1. Plus(k.lag) \in Ages BY CallFacts, AgesFacts
      <3> QED BY <3>1 DEF Call
    <2>2. ASSUME NEW c \in Caller
          PROVE  /\ call'[c] \in Call
                 /\ call'[c] # NoCall =>
                      /\ call[c] # NoCall /\ call'[c].rid = call[c].rid
                      /\ call'[c].sats = call[c].sats /\ call'[c].budget = call[c].budget
      <3> DEFINE k == call[c]
      <3>1. k \in Call BY <1>1, RailTypes
      <3>2. call'[c] = IF k = NoCall THEN NoCall ELSE [k EXCEPT !.lag = Plus(@)] BY <1>2
      <3> HIDE DEF k
      <3>3. /\ call'[c] \in Call
            /\ call'[c] # NoCall =>
                 /\ k # NoCall /\ call'[c].rid = k.rid
                 /\ call'[c].sats = k.sats /\ call'[c].budget = k.budget
        BY ONLY <2>1, <3>1, <3>2, NoCallTyped
      <3> QED BY <3>3 DEF k
    <2> QED BY <1>2, <2>2
  <1>7. TypeOK' BY <1>1, <1>2, <1>3, <1>4, <1>5, <1>6 DEF TypeOK
  <1>8. CallsAsk' BY <1>6 DEF RailInv, CallsAsk
  <1>9. PaymentsAreTimely'
    <2> SUFFICES ASSUME NEW r \in Rid
                 PROVE  /\ pay'[r] # "idle" => r \in Operator \cup Rebalance
                        /\ pay'[r] = "parked" => r \in Rebalance
                        /\ pay'[r] = "running" /\ r \notin OnChain => resv'[r].age <= PayBound
      BY DEF PaymentsAreTimely
    <2>1. ASSUME pay'[r] = "running", r \notin OnChain PROVE resv'[r].age <= PayBound
      <3>1. resv[r].age \in Ages BY <1>1, RailTypes, RowFacts
      <3>2. resv[r].age < PayBound BY <1>2, <2>1
      <3>3. resv[r].age \in Nat /\ Plus(resv[r].age) <= PayBound BY <3>1, <3>2, AgesFacts
      <3> QED BY <1>3, <3>2, <3>3
    <2> QED BY <1>2, <2>1 DEF RailInv, PaymentsAreTimely
  <1>10. InFlightIsHeld' BY <1>2, <1>3 DEF RailInv, InFlightIsHeld
  <1>11. SpentHasEvent' BY <1>3, <1>5 DEF RailInv, SpentHasEvent
  <1>12. ExposureBounded'
    <2>1. /\ \A r \in Rid : ActiveSats(resv'[r]) <= ActiveSats(resv[r])
          /\ \A l \in LegacyRid : ActiveSats(legacy'[l]) <= ActiveSats(legacy[l])
      <3>1. \A r \in Rid : ActiveSats(resv'[r]) = ActiveSats(resv[r]) BY <1>3 DEF ActiveSats
      <3>2. \A l \in LegacyRid : ActiveSats(legacy'[l]) = ActiveSats(legacy[l]) BY <1>4 DEF ActiveSats
      <3>3. /\ \A r \in Rid : ActiveSats(resv[r]) \in Nat
            /\ \A l \in LegacyRid : ActiveSats(legacy[l]) \in Nat
        BY <1>1, RailTypes, RowFacts
      <3> QED BY <3>1, <3>2, <3>3
    <2>2. Reserved' <= Reserved /\ Inherited' <= Inherited BY <1>1, <1>3, <1>4, <2>1, HoldsShrink
    <2>3. /\ InWindow(cost', Rid, DayWindow) <= InWindow(cost, Rid, DayWindow)
          /\ InWindow(settled', Rid, DayWindow) <= InWindow(settled, Rid, DayWindow)
          /\ InWindow(event', Event, DayWindow) <= InWindow(event, Event, DayWindow)
          /\ InWindow(cost', Rid, DayWindow) \in Nat /\ InWindow(settled', Rid, DayWindow) \in Nat
          /\ InWindow(event', Event, DayWindow) \in Nat
      BY <1>1, <1>5, RailTypes, WindowAges
    <2>4. Committed(DayWindow)' = InWindow(cost', Rid, DayWindow)
             + InWindow(settled', Rid, DayWindow) + InWindow(event', Event, DayWindow)
      BY DEF Committed, InWindow
    <2>5. /\ Reserved \in Nat /\ Reserved' \in Nat /\ Committed(DayWindow) \in Nat /\ over \in Nat
          /\ InWindow(cost, Rid, DayWindow) \in Nat /\ InWindow(settled, Rid, DayWindow) \in Nat
          /\ InWindow(event, Event, DayWindow) \in Nat
      BY <1>1, <1>7, RailTypes, SumsTyped, SumsTypedNext
    <2>6. Committed(DayWindow)' <= Committed(DayWindow) BY <2>3, <2>4, <2>5 DEF Committed
    <2>7. Committed(DayWindow)' \in Nat BY <1>7, SumsTypedNext
    <2>8. Reserved' + Committed(DayWindow)' + over <= Reserved + Committed(DayWindow) + over'
      BY <1>2, <2>2, <2>5, <2>6, <2>7
    <2>9. ExposureBounded BY DEF RailInv
    <2> QED BY <1>1, <1>7, <2>2, <2>8, <2>9, ExposureKept
  <1>13. IntentRowsKept BY <1>3 DEF IntentRowsKept
  <1> QED BY <1>7, <1>8, <1>9, <1>10, <1>11, <1>12, <1>13 DEF RailInv

-----------------------------------------------------------------------------
(***************************************************************************)
(* The governor's steps.                                                     *)
(***************************************************************************)

\* A step of the callers or the sweeps leaves the governor's variables alone.
LEMMA RailStepKeepsGovernor ==
    ASSUME BudgetInv, RailInv', IntentRowsKept, UNCHANGED <<env, slot, token, lres, started, ended, sweep, route>>
    PROVE  BudgetInv'
  <1>1. EconTypeOK' BY DEF BudgetInv, EconTypeOK
  <1>2. EnvelopesHold'
    <2>1. \A i \in Intent : RidOf[i] \in Rid \ (Operator \cup Rebalance) OBVIOUS
    <2> QED BY <2>1 DEF BudgetInv, EnvelopesHold, IntentRowsKept
  <1> QED BY <1>1, <1>2 DEF BudgetInv

LEMMA RailUntouched ==
    ASSUME RailInv, UNCHANGED spendVars
    PROVE  RailInv' /\ IntentRowsKept
  <1>1. TypeOK' BY DEF RailInv, TypeOK, spendVars
  <1>2. CallsAsk' /\ PaymentsAreTimely' /\ InFlightIsHeld' /\ SpentHasEvent'
    BY DEF RailInv, CallsAsk, PaymentsAreTimely, InFlightIsHeld, SpentHasEvent, spendVars
  <1>3. ExposureBounded'
    BY DEF RailInv, ExposureBounded, Holds, Reserved, Inherited, TotalHeld, Committed, InWindow, spendVars
  <1> QED BY <1>1, <1>2, <1>3 DEF RailInv, IntentRowsKept, spendVars

LEMMA LifeFacts ==
    /\ Absent \in LifeAges /\ 0 \in LifeAges /\ LifeAges \subseteq Int
    /\ \A n \in LifeAges : n # Absent => n \in 0 .. Ttl
    /\ \A n \in LifeAges : Life(n) \in LifeAges
    /\ Absent # Ttl
  BY DEF LifeAges, Absent, Life

LEMMA PrunedFacts ==
    ASSUME EconTypeOK
    PROVE  /\ Pruned \in [Intent -> LifeAges]
           /\ \A i \in Intent : Pruned[i] \in 0 .. Ttl - 1 <=> slot[i] \in 0 .. Ttl - 1
           /\ \A i \in Intent : slot[i] \in 0 .. Ttl - 1 => Pruned[i] # Absent
  <1>1. \A i \in Intent : slot[i] \in LifeAges BY DEF EconTypeOK
  <1>2. \A i \in Intent : Pruned[i] = IF slot[i] >= Ttl THEN Absent ELSE slot[i]
    BY DEF Pruned, Expired
  <1> QED BY <1>1, <1>2, LifeFacts DEF LifeAges, Absent, Pruned

\* What the governor's steps that leave the rail alone must keep.
LEMMA GovernorAlone ==
    ASSUME BudgetInv, UNCHANGED spendVars, EconTypeOK',
           \A i \in Intent : token'[i] = "executing" => token[i] = "executing" \/ CostOf[i] > 0
    PROVE  BudgetInv'
  <1>1. RailInv' BY RailUntouched DEF BudgetInv
  <1>2. EnvelopesHold' BY DEF BudgetInv, EnvelopesHold, spendVars
  <1> QED BY <1>1, <1>2 DEF BudgetInv

Tokens == {"none", "logging", "granted", "executing"}

LEMMA ProposalSteps ==
    ASSUME BudgetInv, NEW i \in Intent,
           Propose(i) \/ AuthorizeRefused(i) \/ AuthorizeConflict(i)
    PROVE  BudgetInv'
  <1>1. EconTypeOK BY DEF BudgetInv
  <1>2. UNCHANGED spendVars /\ UNCHANGED <<token, lres, sweep, route>>
    BY DEF Propose, AuthorizeRefused, AuthorizeConflict
  <1>3. env' = [env EXCEPT ![i] = 0] \/ env' = [env EXCEPT ![i] = Absent]
    BY DEF Propose, AuthorizeRefused, AuthorizeConflict, Drop
  <1>4. slot' = slot \/ slot' = Pruned BY DEF Propose, AuthorizeRefused, AuthorizeConflict
  <1>5. started' = started /\ ended' \in {ended, ended \union Keyed(i)} BY DEF Propose, AuthorizeRefused, AuthorizeConflict
  <1>6. env' \in [Intent -> LifeAges] BY <1>1, <1>3, LifeFacts DEF EconTypeOK
  <1>7. slot' \in [Intent -> LifeAges] BY <1>1, <1>4, PrunedFacts DEF EconTypeOK
  <1>8. Keyed(i) \subseteq Rid BY DEF Keyed
  <1>9. EconTypeOK' BY <1>1, <1>2, <1>5, <1>6, <1>7, <1>8 DEF EconTypeOK
  <1> QED BY <1>2, <1>9, GovernorAlone

LEMMA AuthorizeReserveStep ==
    ASSUME BudgetInv, NEW i \in Intent, NEW b \in Budgets, AuthorizeReserve(i, b)
    PROVE  BudgetInv'
  <1>1. EconTypeOK /\ RailInv /\ TypeOK /\ SpentHasEvent /\ EnvelopesHold
    BY DEF BudgetInv, RailInv
  <1>2. /\ slot' = [Pruned EXCEPT ![i] = env[i]] /\ env' = [env EXCEPT ![i] = Absent]
        /\ UNCHANGED <<lres, started, ended, sweep, route, legacy, settled, event, cost, pay, call, forced, over>>
    BY DEF AuthorizeReserve, Drop
  <1>3. token' = token \/ token' = [token EXCEPT ![i] = "logging"] BY DEF AuthorizeReserve
  <1>4. EconTypeOK'
    <2>1. env' \in [Intent -> LifeAges] BY <1>1, <1>2, LifeFacts DEF EconTypeOK
    <2>2. slot' \in [Intent -> LifeAges]
      <3>1. Pruned \in [Intent -> LifeAges] /\ env[i] \in LifeAges
        BY <1>1, PrunedFacts DEF EconTypeOK
      <3> QED BY <1>2, <3>1
    <2>3. token' \in [Intent -> Tokens] BY <1>1, <1>3 DEF EconTypeOK, Tokens
    <2> QED BY <1>1, <1>2, <2>1, <2>2, <2>3 DEF EconTypeOK, Tokens
  <1>5. \A j \in Intent : token'[j] = "executing" => token[j] = "executing"
    BY <1>1, <1>3 DEF EconTypeOK
  <1>6. CASE resv' = resv
    <2>1. UNCHANGED spendVars BY <1>2, <1>6 DEF spendVars
    <2> QED BY <1>4, <1>5, <2>1, GovernorAlone
  <1>7. CASE /\ CostOf[i] > 0 /\ Grantable(RidOf[i], CostOf[i], b, DayWindow, FALSE)
             /\ Hold(RidOf[i], CostOf[i])
    <2>1. /\ RidOf[i] \in Rid /\ CostOf[i] \in Nat /\ DayWindow \in Int /\ DayWindow <= DayWindow
          /\ RidOf[i] \notin Operator \cup Rebalance
      OBVIOUS
    <2>2. UNCHANGED <<legacy, settled, event, cost, over>> BY <1>2
    <2>3. /\ resv' \in [Rid -> Row]
          /\ resv'[RidOf[i]].status = "active" /\ resv'[RidOf[i]].sats = CostOf[i]
          /\ resv'[RidOf[i]].age = 0
          /\ \A x \in Rid \ {RidOf[i]} : resv'[x] = resv[x]
          /\ SpentHasEvent' /\ ExposureBounded'
      BY <1>1, <1>7, <2>1, <2>2, Granting
    <2>4. TypeOK' BY <1>1, <1>2, <2>3 DEF TypeOK
    <2>5. PaymentsAreTimely'
      <3>1. 0 <= PayBound OBVIOUS
      <3> QED BY <1>1, <1>2, <2>3, <3>1 DEF RailInv, PaymentsAreTimely
    <2>6. InFlightIsHeld' BY <1>1, <1>2, <2>3 DEF RailInv, InFlightIsHeld
    <2>7. CallsAsk' BY <1>1, <1>2 DEF RailInv, CallsAsk
    <2>8. EnvelopesHold'
      <3> SUFFICES ASSUME NEW j \in Intent
                   PROVE  /\ CostOf[j] > 0 /\ resv'[RidOf[j]].status = "active"
                                => resv'[RidOf[j]].sats = CostOf[j]
                          /\ token'[j] = "executing" => CostOf[j] > 0
        BY DEF EnvelopesHold
      <3>1. token'[j] = "executing" => CostOf[j] > 0 BY <1>1, <1>5 DEF EnvelopesHold
      <3>2. ASSUME CostOf[j] > 0, resv'[RidOf[j]].status = "active"
            PROVE  resv'[RidOf[j]].sats = CostOf[j]
        <4>1. CASE RidOf[j] = RidOf[i]
          <5>1. j = i BY <1>7, <3>2, <4>1
          <5> QED BY <2>3, <5>1
        <4>2. CASE RidOf[j] # RidOf[i]
          <5>1. resv'[RidOf[j]] = resv[RidOf[j]] BY <2>3, <4>2
          <5> QED BY <1>1, <3>2, <5>1 DEF EnvelopesHold
        <4> QED BY <4>1, <4>2
      <3> QED BY <3>1, <3>2
    <2> QED BY <1>4, <2>3, <2>4, <2>5, <2>6, <2>7, <2>8 DEF BudgetInv, RailInv
  <1> QED BY <1>6, <1>7 DEF AuthorizeReserve

LEMMA LoggingSteps ==
    ASSUME BudgetInv, NEW i \in Intent,
           AuthorizeLogged(i) \/ AuthorizeLogFailed(i) \/ ExecutionStarted(i)
    PROVE  BudgetInv'
  <1>1. EconTypeOK BY DEF BudgetInv
  <1>2. UNCHANGED spendVars /\ UNCHANGED <<env, slot, sweep, route>>
    BY DEF AuthorizeLogged, AuthorizeLogFailed, ExecutionStarted
  <1>3. \/ token' = [token EXCEPT ![i] = "granted"] \/ token' = [token EXCEPT ![i] = "none"]
        \/ CostOf[i] > 0 /\ token' = [token EXCEPT ![i] = "executing"]
    BY DEF AuthorizeLogged, AuthorizeLogFailed, ExecutionStarted
  <1>4. token' \in [Intent -> Tokens] BY <1>1, <1>3 DEF EconTypeOK, Tokens
  <1>5. \A j \in Intent : token'[j] = "executing" => token[j] = "executing" \/ CostOf[j] > 0
    BY <1>1, <1>3 DEF EconTypeOK
  <1>6. lres' \in [Rid -> Nat]
    BY <1>1 DEF EconTypeOK, AuthorizeLogged, AuthorizeLogFailed, ExecutionStarted
  <1>7. started' \subseteq Rid /\ ended' = ended
    BY <1>1 DEF EconTypeOK, AuthorizeLogged, AuthorizeLogFailed, ExecutionStarted
  <1>8. EconTypeOK' BY <1>1, <1>2, <1>4, <1>6, <1>7 DEF EconTypeOK, Tokens
  <1> QED BY <1>2, <1>5, <1>8, GovernorAlone

LEMMA ReleaseTokenStep ==
    ASSUME BudgetInv, NEW i \in Intent, NEW dbOk \in BOOLEAN, NEW logOk \in BOOLEAN,
           ReleaseToken(i, dbOk, logOk)
    PROVE  BudgetInv'
  <1>1. EconTypeOK /\ RailInv /\ TypeOK /\ EnvelopesHold BY DEF BudgetInv, RailInv
  <1>2. /\ token' = [token EXCEPT ![i] = "none"] /\ slot' = [slot EXCEPT ![i] = Absent]
        /\ lres' = IF dbOk /\ logOk THEN [lres EXCEPT ![RidOf[i]] = 0] ELSE lres
        /\ UNCHANGED <<env, started, ended, sweep, route, legacy, settled, event, cost, pay, call, forced, over>>
    BY DEF ReleaseToken
  <1>3. EconTypeOK'
    <2>1. token' \in [Intent -> Tokens] BY <1>1, <1>2 DEF EconTypeOK, Tokens
    <2>2. slot' \in [Intent -> LifeAges] BY <1>1, <1>2, LifeFacts DEF EconTypeOK
    <2>3. lres' \in [Rid -> Nat] BY <1>1, <1>2 DEF EconTypeOK
    <2> QED BY <1>1, <1>2, <2>1, <2>2, <2>3 DEF EconTypeOK, Tokens
  <1>4. \A j \in Intent : token'[j] = "executing" => token[j] = "executing"
    BY <1>1, <1>2 DEF EconTypeOK
  <1>5. CASE resv' = resv
    <2>1. UNCHANGED spendVars BY <1>2, <1>5 DEF spendVars
    <2> QED BY <1>3, <1>4, <2>1, GovernorAlone
  <1>6. CASE resv[RidOf[i]].status = "active" /\ Released({RidOf[i]})
    <2>1. {RidOf[i]} \in SUBSET Rid /\ \A r \in {RidOf[i]} : resv[r].status = "active" BY <1>6
    <2>2. \A r \in {RidOf[i]} : pay'[r] = "idle"
      BY <1>1, <1>2 DEF RailInv, PaymentsAreTimely
    <2>3. /\ pay' \in [Rid -> Payment] /\ \A r \in Rid : pay'[r] \in {pay[r], "idle"}
          /\ forced \subseteq forced' /\ forced' \subseteq Rid
      BY <1>1, <1>2, RailTypes
    <2>4. RailInv' /\ IntentRowsKept
      BY <1>1, <1>2, <1>6, <2>1, <2>2, <2>3, LegacyUnchanged, ReleasingKeepsRail
    <2>5. EnvelopesHold'
      <3>1. \A j \in Intent : RidOf[j] \in Rid \ (Operator \cup Rebalance) OBVIOUS
      <3> QED BY <1>1, <1>4, <2>4, <3>1 DEF EnvelopesHold, IntentRowsKept
    <2> QED BY <1>3, <2>4, <2>5 DEF BudgetInv
  <1> QED BY <1>5, <1>6 DEF ReleaseToken

LEMMA SpendSettledStep ==
    ASSUME BudgetInv, NEW i \in Intent, NEW n \in 0 .. 3, SpendSettled(i, n)
    PROVE  BudgetInv'
  <1> DEFINE r == RidOf[i]
             entry == [sats |-> CostOf[i], age |-> 0]
  <1>1. EconTypeOK /\ RailInv /\ TypeOK /\ EnvelopesHold /\ SpentHasEvent /\ ExposureBounded
    BY DEF BudgetInv, RailInv
  <1>2. /\ token[i] = "executing" /\ token' = [token EXCEPT ![i] = "none"]
        /\ lres' = IF n >= 1 THEN [lres EXCEPT ![r] = 0] ELSE lres
        /\ ended' = IF n >= 2 THEN ended \union {r} ELSE ended
        /\ UNCHANGED <<env, slot, started, sweep, route, legacy, event, cost, pay, call, forced, over>>
    BY DEF SpendSettled
  <1>3. /\ r \in Rid /\ r \notin Operator \cup Rebalance /\ CostOf[i] \in Nat /\ CostOf[i] > 0
        /\ r \in Rid \ (Operator \cup Rebalance)
    BY <1>1, <1>2 DEF EnvelopesHold
  <1>4. EconTypeOK'
    <2>1. token' \in [Intent -> Tokens] BY <1>1, <1>2 DEF EconTypeOK, Tokens
    <2>2. lres' \in [Rid -> Nat] BY <1>1, <1>2 DEF EconTypeOK
    <2>3. ended' \subseteq Rid BY <1>1, <1>2, <1>3 DEF EconTypeOK
    <2> QED BY <1>1, <1>2, <2>1, <2>2, <2>3 DEF EconTypeOK, Tokens
  <1>5. \A j \in Intent : token'[j] = "executing" => token[j] = "executing"
    BY <1>1, <1>2 DEF EconTypeOK
  <1>6. CASE resv[r].status # "active"
    <2>1. UNCHANGED spendVars BY <1>2, <1>6 DEF SpendSettled, spendVars
    <2> QED BY <1>4, <1>5, <2>1, GovernorAlone
  <1>7. CASE resv[r].status = "active"
    <2>1. Spent(r) /\ settled' = [settled EXCEPT ![r] = entry] BY <1>7 DEF SpendSettled
    <2>2. entry \in Entry /\ entry.sats = CostOf[i] BY <1>3, AgesFacts DEF Entry
    <2>3. resv[r].sats = CostOf[i] BY <1>1, <1>3, <1>7 DEF EnvelopesHold
    <2> HIDE DEF r, entry
    <2>4. /\ resv' \in [Rid -> Row]
          /\ resv'[r].status = "spent" /\ resv'[r].age = resv[r].age
          /\ \A x \in Rid \ {r} : resv'[x] = resv[x]
          /\ resv[r].sats \in Nat /\ Reserved' \in Nat /\ Reserved' + resv[r].sats = Reserved
      BY <1>1, <1>2, <1>3, <1>7, <2>1, Spending
    <2>5. settled' \in [Rid -> Entry] /\ settled'[r] = entry /\ \A x \in Rid \ {r} : settled'[x] = settled[x]
      BY <1>1, <1>3, <2>1, <2>2, RailTypes
    <2>6. TypeOK' BY <1>1, <1>2, <2>4, <2>5 DEF TypeOK
    <2>7. ExposureBounded'
      <3>1. IsFiniteSet(Rid) /\ settled \in [Rid -> Entry] /\ DayWindow \in Int
        BY <1>1, RailTypes
      <3>2. /\ InWindow(settled, Rid, DayWindow) \in Nat
            /\ InWindow([settled EXCEPT ![r] = entry], Rid, DayWindow)
                  <= InWindow(settled, Rid, DayWindow) + entry.sats
            /\ InWindow([settled EXCEPT ![r] = entry], Rid, DayWindow) \in Nat
        BY ONLY <1>3, <2>2, <3>1, WindowGains
      <3>3. Committed(DayWindow)' = InWindow(cost, Rid, DayWindow)
               + InWindow([settled EXCEPT ![r] = entry], Rid, DayWindow)
               + InWindow(event, Event, DayWindow)
        BY <1>2, <2>1 DEF Committed, InWindow
      <3>4. Reserved \in Nat /\ Reserved' \in Nat /\ Committed(DayWindow) \in Nat /\ over \in Nat
            /\ InWindow(cost, Rid, DayWindow) \in Nat /\ InWindow(event, Event, DayWindow) \in Nat
        BY <1>1, <2>6, <3>1, RailTypes, SumsTyped, SumsTypedNext
      <3>5. Committed(DayWindow)' <= Committed(DayWindow) + CostOf[i]
        BY <1>3, <2>2, <3>2, <3>3, <3>4 DEF Committed
      <3>6. Committed(DayWindow)' \in Nat BY <2>6, SumsTypedNext
      <3>7. Reserved' + Committed(DayWindow)' + over <= Reserved + Committed(DayWindow) + over'
        BY <1>2, <2>3, <2>4, <3>4, <3>5, <3>6
      <3> QED BY <1>1, <1>2, <2>6, <3>7, InheritedSame, ExposureKept
    <2>8. SpentHasEvent'
      <3>1. \A x \in Rid \ Rebalance : resv[x].status = "spent" <=> settled[x].sats > 0
        BY <1>1 DEF SpentHasEvent
      <3>2. settled'[r].sats > 0 BY <1>3, <2>2, <2>5
      <3>3. \A x \in Rid \ Rebalance : resv'[x].status = "spent" <=> settled'[x].sats > 0
        BY <2>4, <2>5, <3>1, <3>2
      <3> QED BY <3>3 DEF SpentHasEvent
    <2>9. CallsAsk' BY <1>1, <1>2 DEF RailInv, CallsAsk
    <2>10. PaymentsAreTimely' BY <1>1, <1>2, <2>4 DEF RailInv, PaymentsAreTimely
    <2>11. InFlightIsHeld'
      <3>1. pay[r] = "idle" BY <1>1, <1>3 DEF RailInv, PaymentsAreTimely
      <3> QED BY <1>1, <1>2, <2>4, <3>1 DEF RailInv, InFlightIsHeld
    <2>12. IntentRowsKept BY <2>4 DEF IntentRowsKept
    <2>13. EnvelopesHold'
      <3>1. \A j \in Intent : RidOf[j] \in Rid \ (Operator \cup Rebalance) OBVIOUS
      <3> QED BY <1>1, <1>5, <2>12, <3>1 DEF EnvelopesHold, IntentRowsKept
    <2> QED BY <1>4, <2>6, <2>7, <2>8, <2>9, <2>10, <2>11, <2>13 DEF BudgetInv, RailInv
  <1> QED BY <1>6, <1>7

ReconcileStep == ReconcileRead \/ ReconcileReport \/ (\E done \in SUBSET Rid : ReconcileApply(done))
                   \/ ReconcileFailed

\* Only a correction touches what the ledger says, and only of the keys the
\* report lists; and only keys that are not in flight enter a report.
LEMMA ReconcileWrites ==
    ASSUME ReconcileStep
    PROVE  /\ UNCHANGED spendVars /\ UNCHANGED <<env, slot, token, started, route>>
           /\ \/ UNCHANGED <<lres, ended>>
              \/ \E done \in SUBSET Rid :
                   /\ done \subseteq sweep.due /\ sweep' = NoSweep
                   /\ lres' = [r \in Rid |-> IF r \in done THEN sweep.db[r] ELSE lres[r]]
                   /\ ended' = ended \union (done \intersect Journalled)
           /\ sweep'.due \intersect InFlight = {}
  <1>1. CASE ReconcileRead BY <1>1 DEF ReconcileRead
  <1>2. CASE ReconcileReport
    <2>1. sweep'.due = Divergent BY <1>2 DEF ReconcileReport
    <2>2. Divergent \intersect InFlight = {} BY DEF Divergent
    <2> QED BY <1>2, <2>1, <2>2 DEF ReconcileReport
  <1>3. ASSUME NEW done \in SUBSET Rid, ReconcileApply(done)
        PROVE  /\ UNCHANGED spendVars /\ UNCHANGED <<env, slot, token, started, route>>
               /\ done \subseteq sweep.due /\ sweep' = NoSweep
               /\ lres' = [r \in Rid |-> IF r \in done THEN sweep.db[r] ELSE lres[r]]
               /\ ended' = ended \union (done \intersect Journalled)
    BY <1>3 DEF ReconcileApply
  <1>4. CASE ReconcileFailed BY <1>4 DEF ReconcileFailed, NoSweep
  <1>5. NoSweep.due = {} BY DEF NoSweep
  <1> QED BY <1>1, <1>2, <1>3, <1>4, <1>5 DEF ReconcileStep

LEMMA ReconcileSteps ==
    ASSUME BudgetInv, ReconcileStep
    PROVE  BudgetInv'
  <1> DEFINE Sweeps == [step : {"idle", "read", "report"}, db : [Rid -> Nat], due : SUBSET Rid]
  <1>1. EconTypeOK /\ TypeOK BY DEF BudgetInv, RailInv
  <1>2. UNCHANGED spendVars /\ UNCHANGED <<env, slot, token, started, route>> BY ReconcileWrites
  <1>3. \A r \in Rid : Replaced(r) \in Nat BY <1>1, RailTypes, RowFacts DEF Replaced
  <1>4. sweep' \in Sweeps
    <2>1. NoSweep \in Sweeps BY DEF NoSweep
    <2>2. [step |-> "read", db |-> [r \in Rid |-> Replaced(r)], due |-> {}] \in Sweeps BY <1>3
    <2>3. CASE ReconcileReport
      <3>1. sweep.db \in [Rid -> Nat] BY <1>1 DEF EconTypeOK
      <3>2. [r \in Rid |-> IF r \in Divergent THEN sweep.db[r] ELSE 0] \in [Rid -> Nat] BY <3>1
      <3>3. Divergent \subseteq Rid BY DEF Divergent
      <3> QED BY <2>3, <3>2, <3>3 DEF ReconcileReport
    <2> QED BY <2>1, <2>2, <2>3 DEF ReconcileStep, ReconcileRead, ReconcileApply, ReconcileFailed
  <1>5. lres' \in [Rid -> Nat] /\ ended' \subseteq Rid
    <2>1. sweep.db \in [Rid -> Nat] /\ lres \in [Rid -> Nat] /\ ended \subseteq Rid
      BY <1>1 DEF EconTypeOK
    <2> QED BY <2>1, ReconcileWrites
  <1>6. EconTypeOK' BY <1>1, <1>2, <1>4, <1>5 DEF EconTypeOK
  <1>7. \A i \in Intent : token'[i] = "executing" => token[i] = "executing" \/ CostOf[i] > 0
    BY <1>2
  <1> QED BY <1>2, <1>6, <1>7, GovernorAlone

LEMMA GovernorTickStep ==
    ASSUME BudgetInv, GovernorTick
    PROVE  BudgetInv'
  <1>1. EconTypeOK /\ RailInv /\ EnvelopesHold BY DEF BudgetInv
  <1>2. /\ Tick
        /\ env' = [i \in Intent |-> Life(env[i])] /\ slot' = [i \in Intent |-> Life(slot[i])]
        /\ UNCHANGED <<token, lres, started, ended, sweep, route>>
    BY DEF GovernorTick
  <1>3. RailInv' /\ IntentRowsKept BY <1>1, <1>2, TickStep
  <1>4. EconTypeOK' BY <1>1, <1>2, LifeFacts DEF EconTypeOK
  <1>5. EnvelopesHold'
    <2>1. \A j \in Intent : RidOf[j] \in Rid \ (Operator \cup Rebalance) OBVIOUS
    <2> QED BY <1>1, <1>2, <1>3, <2>1 DEF EnvelopesHold, IntentRowsKept
  <1> QED BY <1>3, <1>4, <1>5 DEF BudgetInv

-----------------------------------------------------------------------------
(***************************************************************************)
(* The theorems.                                                             *)
(***************************************************************************)

LEMMA BudgetInit == GovernedInit => BudgetInv
  <1> SUFFICES ASSUME GovernedInit PROVE BudgetInv
    OBVIOUS
  <1>1. NoRow \in Row /\ NoRow.status = "none" /\ NoRow.sats = 0 /\ NoRow.age = 0
    BY AgesFacts DEF NoRow, Row, Status
  <1>2. NoEntry \in Entry /\ NoEntry.sats = 0 /\ NoEntry.age = 0 BY AgesFacts DEF NoEntry, Entry
  <1>3. [status |-> "active", sats |-> 1, age |-> 0] \in Row BY AgesFacts DEF Row, Status
  <1>4. TypeOK BY <1>1, <1>2, <1>3, NoCallTyped DEF GovernedInit, Init, TypeOK, Payment
  <1>5. EconTypeOK BY LifeFacts DEF GovernedInit, EconInit, EconTypeOK, NoSweep
  <1>6. CallsAsk /\ PaymentsAreTimely /\ InFlightIsHeld
    BY DEF GovernedInit, Init, CallsAsk, PaymentsAreTimely, InFlightIsHeld
  <1>7. SpentHasEvent BY <1>1, <1>2 DEF GovernedInit, Init, SpentHasEvent
  <1>8. EnvelopesHold BY <1>1 DEF GovernedInit, Init, EconInit, EnvelopesHold
  <1>9. ExposureBounded
    <2>1. \A r \in Rid : ActiveSats(resv[r]) = 0 BY <1>1 DEF GovernedInit, Init, ActiveSats
    <2>2. Reserved = 0 BY <2>1, SumOfZeros DEF Reserved, TotalHeld
    <2>3. /\ \A r \in Rid : Within(cost[r], DayWindow) = 0 /\ Within(settled[r], DayWindow) = 0
          /\ \A e \in Event : Within(event[e], DayWindow) = 0
      BY <1>2 DEF GovernedInit, Init, Within
    <2>4. /\ InWindow(cost, Rid, DayWindow) = 0 /\ InWindow(settled, Rid, DayWindow) = 0
          /\ InWindow(event, Event, DayWindow) = 0
      BY <2>3, SumOfZeros DEF InWindow
    <2>5. over = 0 BY DEF GovernedInit, Init
    <2> QED BY <2>2, <2>4, <2>5 DEF ExposureBounded, Committed
  <1> QED BY <1>4, <1>5, <1>6, <1>7, <1>8, <1>9 DEF BudgetInv, RailInv

LEMMA CallerSteps ==
    ASSUME RailInv, CallerStep
    PROVE  RailInv' /\ IntentRowsKept
  BY SpendReserveGateStep, SpendReserveStep, ReserveBudgetStep, StartSpendStep,
     MarkSpendReservationSpentStep, FinishSuccessStep, FinishPendingStep, FinishFailedStep,
     CrashStep, RecordSpendEventStep
  DEF CallerStep

LEMMA SweepSteps ==
    ASSUME RailInv, SweepStep
    PROVE  RailInv' /\ IntentRowsKept
  BY CleanupStaleReservationsStep, CleanupStaleSpendReservationsStep, OperatorReleaseStep,
     ClearAllReservationsStep, LegacyTransitionStep
  DEF SweepStep

LEMMA GovernSteps ==
    ASSUME BudgetInv, NEW i \in Intent, Govern(i)
    PROVE  BudgetInv'
  BY ProposalSteps, AuthorizeReserveStep, LoggingSteps, ReleaseTokenStep, SpendSettledStep
  DEF Govern

LEMMA BudgetNext == BudgetInv /\ [GovernedNext]_vars => BudgetInv'
  <1> SUFFICES ASSUME BudgetInv, [GovernedNext]_vars PROVE BudgetInv'
    OBVIOUS
  <1>1. RailInv BY DEF BudgetInv
  <1>2. CASE CallerStep /\ UNCHANGED econVars
    BY <1>1, <1>2, CallerSteps, RailStepKeepsGovernor DEF econVars
  <1>3. CASE SweepStep /\ UNCHANGED econVars
    BY <1>1, <1>3, SweepSteps, RailStepKeepsGovernor DEF econVars
  <1>4. CASE \E i \in Intent : Govern(i) BY <1>4, GovernSteps
  <1>5. CASE ReconcileStep BY <1>5, ReconcileSteps
  <1>6. CASE GovernorTick BY <1>6, GovernorTickStep
  <1>7. CASE UNCHANGED vars
    BY <1>1, <1>7, RailUntouched, RailStepKeepsGovernor DEF vars, econVars
  <1> QED BY <1>2, <1>3, <1>4, <1>5, <1>6, <1>7 DEF GovernedNext, ReconcileStep

\* Every reachable state of the rail and the governor satisfies the invariant.
THEOREM BudgetInvariant == GovernedSpec => []BudgetInv
  <1> QED BY BudgetInit, BudgetNext, PTL DEF GovernedSpec

\* reserve_spend and everything that ends a hold: commitments of the current
\* window stay within the budget, except for what was spent beside the rail;
\* money in flight stays held; a spent hold has its event.
THEOREM BudgetSound == GovernedSpec => []BudgetIsSound
  <1>1. BudgetInv => BudgetIsSound BY DEF BudgetInv, RailInv, BudgetIsSound, AllTypeOK
  <1> QED BY <1>1, BudgetInvariant, PTL

-----------------------------------------------------------------------------
(* What no step does. *)

\* The terminal guard of reserve_spend_body and the flips of active rows only.
LEMMA TerminalStays ==
    ASSUME BudgetInv, GovernedNext, NEW r \in Rid, Terminal(resv[r].status)
    PROVE  resv'[r].status = resv[r].status
  <1>1. TypeOK /\ EconTypeOK /\ RailInv /\ EnvelopesHold BY DEF BudgetInv, RailInv
  <1>2. resv \in [Rid -> Row] /\ resv[r].status # "active" BY <1>1, RailTypes DEF Terminal
  <1>3. ASSUME NEW x \in Rid, NEW a, Hold(x, a), ~Terminal(resv[x].status)
        PROVE  resv'[r].status = resv[r].status
    BY <1>2, <1>3 DEF Hold
  <1>4. ASSUME NEW R \in SUBSET Rid, Released(R), \A x \in R : resv[x].status = "active"
        PROVE  resv'[r].status = resv[r].status
    BY <1>2, <1>4 DEF Released
  <1>5. ASSUME NEW x \in Rid, Spent(x), resv[x].status = "active"
        PROVE  resv'[r].status = resv[r].status
    BY <1>2, <1>5 DEF Spent
  <1>6. CASE CallerStep
    <2>1. ASSUME NEW c \in Caller, SpendReserve(c) PROVE resv'[r].status = resv[r].status
      <3>1. CASE resv' = resv BY <3>1
      <3>2. CASE /\ Grantable(call[c].rid, call[c].sats, call[c].budget, DayWindow + call[c].lag, FALSE)
                 /\ Hold(call[c].rid, call[c].sats)
        <4>1. call[c].rid \in Rid BY <2>1 DEF SpendReserve, BudgetInv, RailInv, CallsAsk
        <4> QED BY <1>3, <3>2, <4>1 DEF Grantable
      <3> QED BY <2>1, <3>1, <3>2 DEF SpendReserve
    <2>2. ASSUME NEW x \in Rid, NEW a \in Amounts, NEW b \in Budgets, ReserveBudget(x, a, b)
          PROVE  resv'[r].status = resv[r].status
      BY <1>3, <2>2 DEF ReserveBudget, Grantable
    <2>3. ASSUME NEW x \in Rid, NEW a \in Amounts,
                 MarkSpendReservationSpent(x, a) \/ FinishSuccess(x, a)
          PROVE  resv'[r].status = resv[r].status
      <3>1. resv' = resv \/ (Spent(x) /\ resv[x].status = "active")
        BY <2>3 DEF MarkSpendReservationSpent, FinishSuccess
      <3> QED BY <1>5, <3>1
    <2>4. ASSUME NEW x \in Rid, FinishFailed(x) PROVE resv'[r].status = resv[r].status
      <3>1. resv' = resv \/ (Released({x}) /\ resv[x].status = "active")
        BY <2>4 DEF FinishFailed
      <3>2. {x} \in SUBSET Rid OBVIOUS
      <3> QED BY <1>4, <3>1, <3>2
    <2>5. ASSUME resv' = resv PROVE resv'[r].status = resv[r].status BY <2>5
    <2>6. (\E c \in Caller, x \in Rid, a \in Amounts, b \in Budgets : SpendReserveGate(c, x, a, b))
            => resv' = resv
      BY DEF SpendReserveGate
    <2>7. (\E x \in Rid : StartSpend(x) \/ FinishPending(x)) => resv' = resv
      BY DEF StartSpend, FinishPending
    <2>8. Crash \/ (\E e \in Event, a \in Amounts : RecordSpendEvent(e, a)) => resv' = resv
      BY DEF Crash, RecordSpendEvent
    <2> QED BY <1>6, <2>1, <2>2, <2>3, <2>4, <2>5, <2>6, <2>7, <2>8 DEF CallerStep
  <1>7. CASE SweepStep
    <2>1. CASE CleanupStaleReservations
      <3> DEFINE R == {x \in Stale(Rebalance) : pay[x] # "parked"}
      <3>1. Released(R) BY <2>1 DEF CleanupStaleReservations
      <3>2. R \in SUBSET Rid /\ \A x \in R : resv[x].status = "active" BY DEF Stale
      <3> QED BY <1>4, <3>1, <3>2
    <2>2. CASE CleanupStaleSpendReservations
      <3>1. Released(Stale(Rid \ OnChain)) BY <2>2 DEF CleanupStaleSpendReservations
      <3>2. /\ Stale(Rid \ OnChain) \in SUBSET Rid
            /\ \A x \in Stale(Rid \ OnChain) : resv[x].status = "active"
        BY DEF Stale
      <3> QED BY <1>4, <3>1, <3>2
    <2>3. ASSUME NEW R \in SUBSET Rid, OperatorRelease(R)
          PROVE  resv'[r].status = resv[r].status
      BY <1>4, <2>3 DEF OperatorRelease
    <2>4. ClearAllReservations
            \/ (\E l \in LegacyRid, to \in {"released", "spent"} : LegacyTransition(l, to))
              => resv' = resv
      BY DEF ClearAllReservations, LegacyTransition
    <2> QED BY <1>7, <2>1, <2>2, <2>3, <2>4 DEF SweepStep
  <1>8. ASSUME NEW i \in Intent, Govern(i) PROVE resv'[r].status = resv[r].status
    <2>1. RidOf[i] \in Rid /\ {RidOf[i]} \in SUBSET Rid OBVIOUS
    <2>2. ASSUME NEW b \in Budgets, AuthorizeReserve(i, b) PROVE resv'[r].status = resv[r].status
      BY <1>3, <2>1, <2>2 DEF AuthorizeReserve, Grantable
    <2>3. ASSUME NEW dbOk \in BOOLEAN, NEW logOk \in BOOLEAN, ReleaseToken(i, dbOk, logOk)
          PROVE  resv'[r].status = resv[r].status
      <3>1. resv' = resv \/ (Released({RidOf[i]}) /\ resv[RidOf[i]].status = "active")
        BY <2>3 DEF ReleaseToken
      <3> QED BY <1>4, <2>1, <3>1
    <2>4. ASSUME NEW n \in 0 .. 3, SpendSettled(i, n) PROVE resv'[r].status = resv[r].status
      <3>1. resv' = resv \/ (Spent(RidOf[i]) /\ resv[RidOf[i]].status = "active")
        BY <2>4 DEF SpendSettled
      <3> QED BY <1>5, <2>1, <3>1
    <2>5. (\/ Propose(i) \/ AuthorizeRefused(i) \/ AuthorizeConflict(i)
           \/ AuthorizeLogged(i) \/ AuthorizeLogFailed(i) \/ ExecutionStarted(i))
              => resv' = resv
      BY DEF Propose, AuthorizeRefused, AuthorizeConflict, AuthorizeLogged, AuthorizeLogFailed,
             ExecutionStarted, spendVars
    <2> QED BY <1>8, <2>2, <2>3, <2>4, <2>5 DEF Govern
  <1>9. CASE GovernorTick
    <2>1. resv' = OlderRows(resv) BY <1>9 DEF GovernorTick, Tick
    <2> QED BY <1>2, <2>1, OlderRow
  <1>10. CASE ReconcileStep BY <1>10, ReconcileWrites DEF spendVars
  <1> QED BY <1>6, <1>7, <1>8, <1>9, <1>10 DEF GovernedNext, ReconcileStep

\* The steps of an intent: each that writes the ledger's hold or a terminal
\* event of a key moves the token or the envelope of an intent of that key.
LEMMA GovernWrites ==
    ASSUME BudgetInv, NEW i \in Intent, Govern(i), NEW r \in Rid,
           lres'[r] # lres[r] \/ (r \in ended' /\ r \notin ended)
    PROVE  RidOf[i] = r /\ <<env'[i], token'[i]>> # <<env[i], token[i]>>
  <1>1. /\ lres \in [Rid -> Nat] /\ token \in [Intent -> Tokens]
        /\ env \in [Intent -> LifeAges] /\ RidOf[i] \in Rid
    BY DEF BudgetInv, EconTypeOK, Tokens
  <1>2. ASSUME NEW n, lres' = [lres EXCEPT ![RidOf[i]] = n] \/ lres' = lres,
               ended' = ended \/ ended' = ended \union {RidOf[i]}
        PROVE  RidOf[i] = r
    BY <1>1, <1>2
  <1>3. CASE AuthorizeConflict(i)
    <2>1. /\ env[i] # Absent /\ env' = [env EXCEPT ![i] = Absent] /\ lres' = lres
          /\ ended' = ended \union Keyed(i) \/ ended' = ended
      BY <1>3 DEF AuthorizeConflict, Drop
    <2>2. r \in Keyed(i) BY <2>1
    <2>3. RidOf[i] = r BY <2>2 DEF Keyed
    <2>4. env'[i] # env[i] BY <1>1, <2>1
    <2> QED BY <2>3, <2>4
  <1>4. CASE AuthorizeLogged(i)
    <2>1. lres' = [lres EXCEPT ![RidOf[i]] = CostOf[i]] \/ lres' = lres BY <1>4 DEF AuthorizeLogged
    <2>2. ended' = ended BY <1>4 DEF AuthorizeLogged
    <2>3. RidOf[i] = r BY <1>2, <2>1, <2>2
    <2>4. token[i] = "logging" /\ token' = [token EXCEPT ![i] = "granted"] BY <1>4 DEF AuthorizeLogged
    <2>5. token'[i] # token[i] BY <1>1, <2>4
    <2> QED BY <2>3, <2>5
  <1>5. ASSUME NEW dbOk \in BOOLEAN, NEW logOk \in BOOLEAN, ReleaseToken(i, dbOk, logOk)
        PROVE  RidOf[i] = r /\ <<env'[i], token'[i]>> # <<env[i], token[i]>>
    <2>1. lres' = [lres EXCEPT ![RidOf[i]] = 0] \/ lres' = lres BY <1>5 DEF ReleaseToken
    <2>2. ended' = ended BY <1>5 DEF ReleaseToken
    <2>3. RidOf[i] = r BY <1>2, <2>1, <2>2
    <2>4. token[i] \in {"granted", "executing"} /\ token' = [token EXCEPT ![i] = "none"]
      BY <1>5 DEF ReleaseToken
    <2>5. token'[i] # token[i] BY <1>1, <2>4
    <2> QED BY <2>3, <2>5
  <1>6. ASSUME NEW n \in 0 .. 3, SpendSettled(i, n)
        PROVE  RidOf[i] = r /\ <<env'[i], token'[i]>> # <<env[i], token[i]>>
    <2>1. lres' = [lres EXCEPT ![RidOf[i]] = 0] \/ lres' = lres BY <1>6 DEF SpendSettled
    <2>2. ended' = ended \/ ended' = ended \union {RidOf[i]} BY <1>6 DEF SpendSettled
    <2>3. RidOf[i] = r BY <1>2, <2>1, <2>2
    <2>4. token[i] = "executing" /\ token' = [token EXCEPT ![i] = "none"] BY <1>6 DEF SpendSettled
    <2>5. token'[i] # token[i] BY <1>1, <2>4
    <2> QED BY <2>3, <2>5
  <1>7. (\/ Propose(i) \/ AuthorizeRefused(i) \/ AuthorizeLogFailed(i) \/ ExecutionStarted(i)
         \/ \E b \in Budgets : AuthorizeReserve(i, b))
            => lres' = lres /\ ended' = ended
    BY DEF Propose, AuthorizeRefused, AuthorizeLogFailed, ExecutionStarted, AuthorizeReserve
  <1> QED BY <1>3, <1>4, <1>5, <1>6, <1>7 DEF Govern

\* A start is never taken back, and no step of an intent enters a report.
LEMMA GovernKeeps ==
    ASSUME NEW i \in Intent, Govern(i)
    PROVE  started \subseteq started' /\ sweep' = sweep
  BY DEF Govern, Propose, AuthorizeRefused, AuthorizeConflict, AuthorizeReserve, AuthorizeLogged,
         AuthorizeLogFailed, ReleaseToken, ExecutionStarted, SpendSettled

\* An execution in flight enters no report; its hold and its quarantine are
\* moved by its own token, by a rejection under its key, or by a report that is
\* older than its start.
LEMMA QuarantineStays ==
    ASSUME BudgetInv, GovernedNext, NEW r \in InFlight
    PROVE  /\ r \notin sweep.due => r \notin sweep'.due
           /\ lres'[r] # lres[r] \/ r \notin InFlight' =>
                 \/ r \in sweep.due
                 \/ \E i \in Intent : RidOf[i] = r
                       /\ <<env'[i], token'[i]>> # <<env[i], token[i]>>
  <1>1. r \in Rid /\ r \in started /\ r \notin ended
    BY DEF BudgetInv, EconTypeOK, InFlight
  <1>2. CASE \E i \in Intent : Govern(i)
    <2> PICK i \in Intent : Govern(i) BY <1>2
    <2>1. r \in started' /\ sweep' = sweep BY <1>1, GovernKeeps
    <2>2. lres'[r] # lres[r] \/ r \notin InFlight' => lres'[r] # lres[r] \/ (r \in ended' /\ r \notin ended)
      BY <1>1, <2>1 DEF InFlight
    <2>3. lres'[r] # lres[r] \/ (r \in ended' /\ r \notin ended) =>
             RidOf[i] = r /\ <<env'[i], token'[i]>> # <<env[i], token[i]>>
      BY <1>1, GovernWrites
    <2> QED BY <2>1, <2>2, <2>3
  <1>3. CASE ReconcileStep
    <2>1. started' = started /\ r \notin sweep'.due BY <1>3, ReconcileWrites
    <2>2. CASE UNCHANGED <<lres, ended>> BY <1>1, <2>1, <2>2 DEF InFlight
    <2>3. ASSUME NEW done \in SUBSET Rid, done \subseteq sweep.due,
                 lres' = [x \in Rid |-> IF x \in done THEN sweep.db[x] ELSE lres[x]],
                 ended' = ended \union (done \intersect Journalled),
                 r \notin sweep.due
          PROVE  lres'[r] = lres[r] /\ r \in InFlight'
      BY <1>1, <2>1, <2>3 DEF InFlight
    <2> QED BY <1>3, <2>1, <2>2, <2>3, ReconcileWrites
  <1>4. CASE GovernorTick \/ UNCHANGED econVars
    BY <1>1, <1>4 DEF GovernorTick, econVars, InFlight
  <1> QED BY <1>2, <1>3, <1>4 DEF GovernedNext, ReconcileStep

\* check_and_register: a live close intent keeps rebalances of its channel out.
LEMMA CloseKeepsOut ==
    ASSUME BudgetInv, GovernedNext, NEW i \in Intent, NEW j \in Intent,
           TypeOf[i] = "REBALANCE", TypeOf[j] = "CLOSE_CHANNEL", TargetOf[i] = TargetOf[j],
           slot[j] \in 0 .. Ttl - 1, slot[i] \notin 0 .. Ttl - 1
    PROVE  slot'[i] \notin 0 .. Ttl - 1
  <1>1. EconTypeOK /\ slot \in [Intent -> LifeAges] BY DEF BudgetInv, EconTypeOK
  <1>2. Pruned[i] \notin 0 .. Ttl - 1 /\ Pruned[j] # Absent BY <1>1, PrunedFacts
  <1>3. Absent \notin 0 .. Ttl - 1 BY DEF Absent
  <1>4. ASSUME NEW k \in Intent, Govern(k) PROVE slot'[i] \notin 0 .. Ttl - 1
    <2>1. ASSUME NEW b \in Budgets, AuthorizeReserve(k, b) PROVE slot'[i] \notin 0 .. Ttl - 1
      <3>1. ~Conflict(k) /\ slot' = [Pruned EXCEPT ![k] = env[k]]
        BY <2>1 DEF AuthorizeReserve
      <3>2. k # i BY <1>2, <3>1 DEF Conflict, Blocks
      <3> QED BY <1>1, <1>2, <3>1, <3>2, PrunedFacts
    <2>2. CASE AuthorizeConflict(k) BY <1>2, <2>2 DEF AuthorizeConflict
    <2>3. ASSUME NEW dbOk \in BOOLEAN, NEW logOk \in BOOLEAN, ReleaseToken(k, dbOk, logOk)
          PROVE  slot'[i] \notin 0 .. Ttl - 1
      BY <1>1, <1>3, <2>3 DEF ReleaseToken
    <2>4. (\/ Propose(k) \/ AuthorizeRefused(k) \/ AuthorizeLogged(k)
           \/ AuthorizeLogFailed(k) \/ ExecutionStarted(k)
           \/ \E n \in 0 .. 3 : SpendSettled(k, n))
              => slot' = slot
      BY DEF Propose, AuthorizeRefused, AuthorizeLogged, AuthorizeLogFailed, ExecutionStarted,
             SpendSettled
    <2> QED BY <1>4, <2>1, <2>2, <2>3, <2>4 DEF Govern
  <1>5. CASE GovernorTick
    <2>1. slot'[i] = Life(slot[i]) BY <1>5 DEF GovernorTick
    <2>2. slot[i] = Absent \/ slot[i] = Ttl BY <1>1 DEF LifeAges
    <2>3. slot'[i] = slot[i] BY <2>1, <2>2 DEF Life
    <2> QED BY <2>3
  <1>6. ReconcileStep \/ UNCHANGED econVars => slot' = slot BY ReconcileWrites DEF econVars
  <1> QED BY <1>4, <1>5, <1>6 DEF GovernedNext, ReconcileStep

\* What no step of the rail or the governor does: reuse a finished id, correct
\* an execution that was in flight when the report was drawn up, admit a
\* rebalance of a channel that is being closed.
THEOREM EndsFinal == GovernedSpec => EndsAreFinal
  <1> DEFINE TerminalAct == [\A r \in Rid : Terminal(resv[r].status)
                                => resv'[r].status = resv[r].status]_resv
             QuarantineAct == [\A r \in InFlight :
                                /\ r \notin sweep.due => r \notin sweep'.due
                                /\ lres'[r] # lres[r] \/ r \notin InFlight' =>
                                     \/ r \in sweep.due
                                     \/ \E i \in Intent : RidOf[i] = r
                                          /\ <<env'[i], token'[i]>> # <<env[i], token[i]>>]_vars
             CloseAct == [\A i, j \in Intent :
                            /\ TypeOf[i] = "REBALANCE" /\ TypeOf[j] = "CLOSE_CHANNEL"
                            /\ TargetOf[i] = TargetOf[j]
                            /\ slot[j] \in 0 .. Ttl - 1 /\ slot[i] \notin 0 .. Ttl - 1
                            => slot'[i] \notin 0 .. Ttl - 1]_slot
  <1>1. BudgetInv /\ [GovernedNext]_vars => TerminalAct /\ QuarantineAct /\ CloseAct
    <2> SUFFICES ASSUME BudgetInv, [GovernedNext]_vars PROVE TerminalAct /\ QuarantineAct /\ CloseAct
      OBVIOUS
    <2>1. CASE GovernedNext BY <2>1, TerminalStays, QuarantineStays, CloseKeepsOut
    <2>2. CASE UNCHANGED vars BY <2>2 DEF vars, spendVars, econVars
    <2> QED BY <2>1, <2>2
  <1> QED BY <1>1, BudgetInvariant, PTL
      DEF GovernedSpec, EndsAreFinal, TerminalForever, QuarantineKept, NoRebalanceJoinsClose

-----------------------------------------------------------------------------
(***************************************************************************)
(* The flush watcher and the trigger loop, for any settling delay and any    *)
(* limit of silence.                                                        *)
(***************************************************************************)

LEMMA MaxTwo ==
    ASSUME NEW a \in Int, NEW b \in Int
    PROVE  Max({a, b}) = IF a >= b THEN a ELSE b
  <1>1. \E x \in {a, b} : \A y \in {a, b} : x >= y OBVIOUS
  <1>2. Max({a, b}) \in {a, b} /\ \A y \in {a, b} : Max({a, b}) >= y
    BY <1>1 DEF Max
  <1> QED BY <1>2

LEMMA MinTwo ==
    ASSUME NEW a \in Int, NEW b \in Int
    PROVE  Min({a, b}) = IF a <= b THEN a ELSE b
  <1>1. \E x \in {a, b} : \A y \in {a, b} : x <= y OBVIOUS
  <1>2. Min({a, b}) \in {a, b} /\ \A y \in {a, b} : Min({a, b}) <= y
    BY <1>1 DEF Min
  <1> QED BY <1>2

\* A history of what was observed.
Watching == [flushes : Nat, wakes : Nat, owed : BOOLEAN, quiet : 0..SilentCap, sinceReport : 0..SilentCap]

\* A running deadline and the polls since the last change make up the delay.
DelayServed == watcher.deadline # None => seen.quiet + watcher.deadline >= Settle

\* A report that was made, and not overtaken by a change, is not yet due again.
ReportServed ==
    IF watcher.report = None
    THEN seen.quiet < seen.sinceReport \/ seen.sinceReport = SilentCap
    ELSE seen.sinceReport + watcher.report >= StaleAfter

WatchInv == TriggerTypeOK /\ seen \in Watching /\ DelayServed /\ ReportServed

QuietCycle == (seen.owed /\ ~seen'.owed) => seen'.quiet >= Settle
RareReport ==
    (watcher' # watcher /\ seen'.sinceReport = 0 /\ seen.quiet >= seen.sinceReport) => seen.sinceReport + 1 >= StaleAfter

LEMMA CapIs == SilentCap \in Nat /\ SilentCap >= 2 /\ SilentCap >= Settle /\ SilentCap >= StaleAfter
  <1>1. 2 * StaleAfter \in Int /\ Settle \in Int BY TriggerAssumption
  <1> QED BY <1>1, MaxTwo, TriggerAssumption DEF SilentCap

LEMMA Marks ==
    /\ 0 \in 0..SilentCap /\ None \in None..Settle /\ Settle \in None..Settle
    /\ None \in None..StaleAfter /\ StaleAfter \in None..StaleAfter
  BY CapIs, TriggerAssumption DEF None

LEMMA OneTick == ASSUME NEW x \in 0..SilentCap
  PROVE  Min({x + 1, SilentCap}) = IF x + 1 <= SilentCap THEN x + 1 ELSE SilentCap
  BY CapIs, MinTwo

\* A tick keeps the invariant, whatever else a poll does with the watcher.
LEMMA TickIs ==
    ASSUME WatchInv
    PROVE  /\ Waited \in [known : BOOLEAN, last : 0..2, silent : 0..SilentCap, deadline : None..Settle, report : None..StaleAfter]
           /\ SeenWaited \in Watching
           /\ SeenWaited.owed = seen.owed
           /\ SeenWaited.sinceReport >= 1 /\ (SeenWaited.sinceReport = seen.sinceReport + 1 \/ SeenWaited.sinceReport = SilentCap)
           /\ Waited.deadline # None => watcher.deadline # None /\ SeenWaited.quiet + Waited.deadline >= Settle
           /\ IF Waited.report = None
              THEN SeenWaited.quiet < SeenWaited.sinceReport \/ SeenWaited.sinceReport = SilentCap
              ELSE SeenWaited.sinceReport + Waited.report >= StaleAfter
           /\ Waited.report = Down(watcher.report) /\ Waited.deadline = Down(watcher.deadline)
           /\ Waited.known = watcher.known /\ Waited.last = watcher.last
  <1>1. /\ watcher \in [known : BOOLEAN, last : 0..2, silent : 0..SilentCap, deadline : None..Settle, report : None..StaleAfter]
        /\ seen \in Watching /\ DelayServed /\ ReportServed
    BY DEF WatchInv, TriggerTypeOK
  <1>2. seen.quiet \in 0..SilentCap /\ seen.sinceReport \in 0..SilentCap /\ watcher.silent \in 0..SilentCap
    BY <1>1 DEF Watching
  <1>3. PICK q, r, s : q = Min({seen.quiet + 1, SilentCap}) /\ r = Min({seen.sinceReport + 1, SilentCap}) /\ s = Min({watcher.silent + 1, SilentCap})
    OBVIOUS
  <1>4. /\ q = IF seen.quiet + 1 <= SilentCap THEN seen.quiet + 1 ELSE SilentCap
        /\ r = IF seen.sinceReport + 1 <= SilentCap THEN seen.sinceReport + 1 ELSE SilentCap
        /\ s = IF watcher.silent + 1 <= SilentCap THEN watcher.silent + 1 ELSE SilentCap
    BY <1>2, <1>3, OneTick
  <1>4a. q \in 0..SilentCap /\ r \in 0..SilentCap /\ s \in 0..SilentCap
    BY <1>2, <1>4, CapIs
  <1>5. /\ Waited = [watcher EXCEPT !.silent = s, !.deadline = Down(@), !.report = Down(@)]
        /\ SeenWaited = [seen EXCEPT !.quiet = q, !.sinceReport = r]
    BY <1>3 DEF Waited, SeenWaited
  <1>6. Down(watcher.deadline) \in None..Settle /\ Down(watcher.report) \in None..StaleAfter
    BY <1>1, TriggerAssumption DEF Down, None
  <1>7. Waited \in [known : BOOLEAN, last : 0..2, silent : 0..SilentCap, deadline : None..Settle, report : None..StaleAfter]
    BY <1>1, <1>5, <1>6, <1>4a
  <1>8. SeenWaited \in Watching
    BY <1>1, <1>5, <1>4a DEF Watching
  <1>9. /\ SeenWaited.owed = seen.owed /\ SeenWaited.quiet = q /\ SeenWaited.sinceReport = r
        /\ Waited.report = Down(watcher.report) /\ Waited.deadline = Down(watcher.deadline)
        /\ Waited.known = watcher.known /\ Waited.last = watcher.last
    BY <1>1, <1>5 DEF Watching
  <1>10. r >= 1 /\ (r = seen.sinceReport + 1 \/ r = SilentCap) BY <1>2, <1>4, CapIs
  <1>11. watcher.deadline \in None..Settle /\ watcher.report \in None..StaleAfter BY <1>1
  <1>12. Down(watcher.deadline) # None => watcher.deadline # None /\ q + Down(watcher.deadline) >= Settle
    BY <1>1, <1>2, <1>4, <1>11, CapIs, TriggerAssumption DEF Down, None, DelayServed
  <1>13. IF Down(watcher.report) = None THEN q < r \/ r = SilentCap ELSE r + Down(watcher.report) >= StaleAfter
    BY <1>1, <1>2, <1>4, <1>11, CapIs, TriggerAssumption DEF Down, None, ReportServed
  <1> QED BY <1>7, <1>8, <1>9, <1>10, <1>12, <1>13

LEMMA WatchStarts == TriggerInit => WatchInv
  BY CapIs, TriggerAssumption DEF TriggerInit, WatchInv, TriggerTypeOK, Watching, DelayServed, ReportServed, None

LEMMA WatchKeeps ==
    ASSUME WatchInv, [TriggerNext]_triggerVars
    PROVE  WatchInv' /\ QuietCycle /\ RareReport
  <1> DEFINE Watchers == [known : BOOLEAN, last : 0..2, silent : 0..SilentCap, deadline : None..Settle, report : None..StaleAfter]
  <1>0. /\ marker \in 0..2 /\ loop \in {"running", "stopped"} /\ watcher \in Watchers
        /\ seen \in Watching /\ DelayServed /\ ReportServed
    BY DEF WatchInv, TriggerTypeOK
  <1>1. /\ Waited \in Watchers /\ SeenWaited \in Watching /\ SeenWaited.owed = seen.owed
        /\ SeenWaited.sinceReport >= 1 /\ (SeenWaited.sinceReport = seen.sinceReport + 1 \/ SeenWaited.sinceReport = SilentCap)
        /\ Waited.deadline # None => watcher.deadline # None /\ SeenWaited.quiet + Waited.deadline >= Settle
        /\ IF Waited.report = None
           THEN SeenWaited.quiet < SeenWaited.sinceReport \/ SeenWaited.sinceReport = SilentCap
           ELSE SeenWaited.sinceReport + Waited.report >= StaleAfter
        /\ Waited.report = Down(watcher.report) /\ Waited.deadline = Down(watcher.deadline)
    BY TickIs
  <1> PICK w, h : w = Waited /\ h = SeenWaited OBVIOUS
  <1>2. /\ w \in Watchers /\ h \in Watching /\ h.owed = seen.owed /\ h.sinceReport >= 1
        /\ w.deadline # None => h.quiet + w.deadline >= Settle
        /\ IF w.report = None THEN h.quiet < h.sinceReport \/ h.sinceReport = SilentCap ELSE h.sinceReport + w.report >= StaleAfter
    BY <1>1
  <1>3. CASE UNCHANGED triggerVars
    <2>1. WatchInv' BY <1>3 DEF WatchInv, TriggerTypeOK, DelayServed, ReportServed, triggerVars
    <2> QED BY <1>3, <2>1 DEF QuietCycle, RareReport, triggerVars
  <1>4. CASE Flush
    <2>1. /\ watcher' = watcher /\ loop' = loop /\ marker' \in 0..2
          /\ seen' = [seen EXCEPT !.flushes = @ + 1]
      BY <1>4 DEF Flush
    <2>2. seen' \in Watching /\ seen'.quiet = seen.quiet /\ seen'.sinceReport = seen.sinceReport /\ seen'.owed = seen.owed
      BY <1>0, <2>1 DEF Watching
    <2>3. WatchInv' BY <1>0, <2>1, <2>2 DEF WatchInv, TriggerTypeOK, DelayServed, ReportServed
    <2> QED BY <2>1, <2>2, <2>3 DEF QuietCycle, RareReport
  <1>5. CASE WakeCycle
    <2>1. /\ watcher' = watcher /\ loop' \in {"running", "stopped"} /\ marker' = marker
          /\ seen' = [seen EXCEPT !.wakes = @ + 1]
      BY <1>5 DEF WakeCycle, Dispatch
    <2>2. seen' \in Watching /\ seen'.quiet = seen.quiet /\ seen'.sinceReport = seen.sinceReport /\ seen'.owed = seen.owed
      BY <1>0, <2>1 DEF Watching
    <2>3. WatchInv' BY <1>0, <2>1, <2>2 DEF WatchInv, TriggerTypeOK, DelayServed, ReportServed
    <2> QED BY <2>1, <2>2, <2>3 DEF QuietCycle, RareReport
  \* Only time passes.
  <1>6. ASSUME watcher' = w, seen' = h, UNCHANGED <<marker, loop>>
        PROVE  WatchInv' /\ QuietCycle /\ RareReport
    <2>1. WatchInv' BY <1>0, <1>2, <1>6 DEF WatchInv, TriggerTypeOK, DelayServed, ReportServed
    <2> QED BY <1>2, <1>6, <2>1 DEF QuietCycle, RareReport, Watching
  <1>7. CASE PollFails
    BY <1>6, <1>7 DEF PollFails
  <1>8. CASE IdlePoll /\ UNCHANGED marker
    BY <1>6, <1>8 DEF IdlePoll
  <1>9. CASE Baselined /\ UNCHANGED marker
    <2>1. watcher' = [w EXCEPT !.known = TRUE, !.last = marker, !.silent = 0] /\ seen' = h /\ loop' = loop /\ marker' = marker
      BY <1>9 DEF Baselined
    <2>2. watcher' \in Watchers /\ watcher'.deadline = w.deadline /\ watcher'.report = w.report
      BY <1>0, <1>2, <2>1, Marks
    <2>3. WatchInv' BY <1>0, <1>2, <2>1, <2>2 DEF WatchInv, TriggerTypeOK, DelayServed, ReportServed
    <2> QED BY <1>2, <2>1, <2>3 DEF QuietCycle, RareReport, Watching
  <1>10. CASE Advanced /\ UNCHANGED marker
    <2>1. /\ watcher' = [w EXCEPT !.last = marker, !.silent = 0, !.deadline = Settle, !.report = None]
          /\ seen' = [h EXCEPT !.owed = TRUE, !.quiet = 0] /\ loop' = loop /\ marker' = marker
      BY <1>10 DEF Advanced, Rearmed
    <2>2. watcher' \in Watchers /\ watcher'.deadline = Settle /\ watcher'.report = None
      BY <1>0, <1>2, <2>1, Marks
    <2>3. seen' \in Watching /\ seen'.owed = TRUE /\ seen'.quiet = 0 /\ seen'.sinceReport = h.sinceReport
      BY <1>2, <2>1, Marks DEF Watching
    <2>4. WatchInv'
      BY <1>0, <1>2, <2>1, <2>2, <2>3, CapIs, TriggerAssumption DEF WatchInv, TriggerTypeOK, DelayServed, ReportServed, Watching
    <2> QED BY <1>2, <2>3, <2>4, CapIs DEF QuietCycle, RareReport, Watching
  <1>11. CASE StaleNoFlush /\ UNCHANGED marker
    <2>1. /\ watcher' = [w EXCEPT !.report = StaleAfter] /\ seen' = [h EXCEPT !.sinceReport = 0]
          /\ loop' = loop /\ marker' = marker /\ w.report \in {None, 0}
      BY <1>11 DEF StaleNoFlush, ReportDue
    <2>2. watcher' \in Watchers /\ watcher'.deadline = w.deadline /\ watcher'.report = StaleAfter
      BY <1>2, <2>1, Marks
    <2>3. seen' \in Watching /\ seen'.owed = h.owed /\ seen'.quiet = h.quiet /\ seen'.sinceReport = 0
      BY <1>2, <2>1, Marks DEF Watching
    <2>4. WatchInv'
      BY <1>0, <1>2, <2>1, <2>2, <2>3, CapIs, TriggerAssumption DEF WatchInv, TriggerTypeOK, DelayServed, ReportServed, Watching, None
    <2>5. RareReport
      <3>1. seen.quiet \in Nat /\ seen.sinceReport \in Nat /\ watcher.report \in None..StaleAfter
        BY <1>0, CapIs DEF Watching
      <3>2. watcher.report \in {None, 0, 1}
        BY <1>1, <2>1, <3>1, TriggerAssumption DEF Down, None
      <3> QED BY <1>0, <3>1, <3>2, CapIs, TriggerAssumption DEF RareReport, ReportServed, None
    <2> QED BY <1>2, <2>3, <2>4, <2>5 DEF QuietCycle
  <1>12. ASSUME NEW outcome \in {"sent", "skipped", "owner_gone"}, Settled(outcome), UNCHANGED marker
         PROVE  WatchInv' /\ QuietCycle /\ RareReport
    <2>1. /\ watcher' = [w EXCEPT !.deadline = None] /\ seen' = [h EXCEPT !.owed = FALSE]
          /\ loop' \in {"running", "stopped"} /\ marker' = marker /\ w.deadline = 0
      BY <1>12 DEF Settled, RunCycle, Dispatch
    <2>2. watcher' \in Watchers /\ watcher'.deadline = None /\ watcher'.report = w.report
      BY <1>2, <2>1, Marks
    <2>3. seen' \in Watching /\ seen'.quiet = h.quiet /\ seen'.sinceReport = h.sinceReport
      BY <1>2, <2>1 DEF Watching
    <2>4. WatchInv'
      BY <1>0, <1>2, <2>1, <2>2, <2>3 DEF WatchInv, TriggerTypeOK, DelayServed, ReportServed
    <2>5. h.quiet >= Settle
      BY <1>2, <2>1, CapIs, TriggerAssumption DEF Watching, None
    <2> QED BY <1>2, <2>3, <2>4, <2>5, CapIs DEF QuietCycle, RareReport, Watching
  <1> QED BY <1>3, <1>4, <1>5, <1>7, <1>8, <1>9, <1>10, <1>11, <1>12 DEF TriggerNext, PollOk

\* A cycle that a flush triggers finds the table quiet for the whole delay, and
\* silence is not reported twice within its limit (FlushWatcher::on_poll), for
\* any bursts, unreadable polls and wakes.
THEOREM TriggersAreTimely == TriggerSpec => CycleSeesQuietTable /\ ReportsAreRare
  <1>1. TriggerInit => WatchInv BY WatchStarts
  <1>2. WatchInv /\ [TriggerNext]_triggerVars => WatchInv' /\ QuietCycle /\ RareReport BY WatchKeeps
  <1>3. QuietCycle => [(seen.owed /\ ~seen'.owed) => seen'.quiet >= Settle]_triggerVars BY DEF QuietCycle
  <1>4. RareReport => [(watcher' # watcher /\ seen'.sinceReport = 0 /\ seen.quiet >= seen.sinceReport) =>
                          seen.sinceReport + 1 >= StaleAfter]_triggerVars
    BY DEF RareReport
  <1> QED BY <1>1, <1>2, <1>3, <1>4, PTL DEF TriggerSpec, CycleSeesQuietTable, ReportsAreRare

-----------------------------------------------------------------------------
(***************************************************************************)
(* The cache of bleeder verdicts, for any callers, evidence and clock.       *)
(***************************************************************************)

BleederVerdict == SUBSET {"hard", "soft", "none"}
Stored == [at : Nat, verdict : BleederVerdict, seen : Nat]
CapexCall == [at : Nat, serve : SUBSET BleederVerdict, prev : SUBSET BleederVerdict, write : BOOLEAN, current : BOOLEAN,
              seen : SUBSET Nat, pnl : SUBSET CapexPnls, read : BOOLEAN]

\* The cache holds at most one report, stamped before its evidence was read.
ReportStamped ==
    /\ bleederCache \subseteq Stored /\ \A e, f \in bleederCache : e = f
    /\ \A e \in bleederCache : e.at <= e.seen

\* A call that stores its verdict was served none; what it read it read after it
\* began, and a call that was served took evidence of the last 300 seconds.
CallStamped(k) ==
    /\ k.write => k.serve = {}
    /\ \A s \in k.seen : IF k.serve = {} THEN s >= k.at ELSE s >= k.at - 300
    /\ k.at <= capexTime

\* As long as nothing was stored, a call knows the stored verdict.
CallCurrent(k) == k.current => k.prev = { e.verdict : e \in bleederCache }

CapexInv ==
    /\ capexTime \in Nat /\ ReportStamped
    /\ calls \in [CapexCallers -> SUBSET CapexCall]
    /\ \A c \in CapexCallers : \A k \in calls[c] : CallStamped(k) /\ CallCurrent(k) /\ \A m \in calls[c] : k = m

\* The rule that HardIsRemembered states of a step.
Remembers ==
    \A c \in CapexCallers : \A k \in calls[c], e \in bleederCache, n \in bleederCache' :
        (n # e /\ calls'[c] = {} /\ e.verdict = {"hard"} /\ n.verdict # {"hard"} /\ k.current)
            => (k.pnl = {} \/ \E p \in k.pnl : p.net30 > -500)

LEMMA VerdictIs ==
    ASSUME NEW p, NEW h
    PROVE  classify_bleeder(p, {}, h) \in {"hard", "soft", "none"}
  BY DEF classify_bleeder

LEMMA HardStays ==
    ASSUME NEW p, p.net30 \in Int, p.net30 <= -500
    PROVE  classify_bleeder(p, {}, TRUE) = "hard"
  BY DEF classify_bleeder, StaysHard

LEMMA VerdictsAre ==
    ASSUME NEW k \in CapexCall
    PROVE  VerdictOf(k) \subseteq BleederVerdict
  <1>1. k.serve \subseteq BleederVerdict BY DEF CapexCall
  <1>2. ASSUME NEW p \in k.pnl, NEW h PROVE {classify_bleeder(p, {}, h)} \in BleederVerdict BY VerdictIs DEF BleederVerdict
  <1> QED BY <1>1, <1>2 DEF VerdictOf, BleederVerdict

\* The cache is left alone, and with it what the other calls know of it.
LEMMA OneCall ==
    ASSUME CapexInv, NEW c \in CapexCallers, NEW n \in CapexCall, bleederCache' = bleederCache, capexTime' = capexTime,
           calls' = [calls EXCEPT ![c] = {n}], CallStamped(n), CallCurrent(n)
    PROVE  CapexInv' /\ Remembers
  <1>1. /\ calls \in [CapexCallers -> SUBSET CapexCall] /\ capexTime \in Nat /\ ReportStamped
        /\ \A d \in CapexCallers : \A k \in calls[d] : CallStamped(k) /\ CallCurrent(k) /\ \A m \in calls[d] : k = m
    BY DEF CapexInv
  <1>2. /\ calls' \in [CapexCallers -> SUBSET CapexCall] /\ calls'[c] = {n}
        /\ \A d \in CapexCallers : d # c => calls'[d] = calls[d]
    BY <1>1
  <1>3. ReportStamped' BY <1>1 DEF ReportStamped
  <1>4. \A k : CallStamped(k) => CallStamped(k)' BY DEF CallStamped
  <1>5. \A k : CallCurrent(k) => CallCurrent(k)' BY DEF CallCurrent
  <1>6. ASSUME NEW d \in CapexCallers, NEW k \in calls'[d]
        PROVE  CallStamped(k)' /\ CallCurrent(k)' /\ \A m \in calls'[d] : k = m
    <2>1. CASE d = c BY <1>2, <1>4, <1>5, <1>6, <2>1
    <2>2. CASE d # c
      <3>1. calls'[d] = calls[d] BY <1>2, <2>2
      <3> QED BY <1>1, <1>4, <1>5, <1>6, <3>1
    <2> QED BY <2>1, <2>2
  <1>7. CapexInv' BY <1>1, <1>2, <1>3, <1>6 DEF CapexInv
  <1>8. Remembers
    <2>1. \A e \in bleederCache, m \in bleederCache' : m = e BY <1>1 DEF ReportStamped
    <2> QED BY <2>1 DEF Remembers
  <1> QED BY <1>7, <1>8

LEMMA CacheStarts == CacheInit => CapexInv
  BY DEF CacheInit, CapexInv, ReportStamped, CapexCall

LEMMA BeginKeeps ==
    ASSUME CapexInv, NEW c \in CapexCallers, CapexBegin(c)
    PROVE  CapexInv' /\ Remembers
  <1>1. capexTime \in Nat /\ ReportStamped BY DEF CapexInv
  <1>2. PICK d : d = bleeder_cache_decision(bleederCache, capexTime) OBVIOUS
  <1>3. PICK taken : taken = { e.seen : e \in { x \in bleederCache : d.serve # {} } } OBVIOUS
  <1>4. PICK n : n = [at |-> capexTime, serve |-> d.serve, prev |-> d.prev, write |-> d.write, current |-> TRUE,
                      seen |-> taken, pnl |-> {}, read |-> FALSE]
    OBVIOUS
  <1>5. /\ calls' = [calls EXCEPT ![c] = {n}] /\ bleederCache' = bleederCache /\ capexTime' = capexTime
    BY <1>2, <1>3, <1>4 DEF CapexBegin
  <1>6. PICK V : V = { e.verdict : e \in bleederCache } OBVIOUS
  <1>7. V \in SUBSET BleederVerdict BY <1>1, <1>6 DEF ReportStamped, Stored
  <1>8. /\ d.prev = V /\ d.serve \in SUBSET BleederVerdict /\ d.write \in BOOLEAN
        /\ d.write => d.serve = {}
        /\ d.serve # {} => \A e \in bleederCache : capexTime - e.at <= 300
    BY <1>2, <1>6, <1>7 DEF bleeder_cache_decision
  <1>9. taken \in SUBSET Nat BY <1>1, <1>3 DEF ReportStamped, Stored
  <1>10. \A s \in taken : d.serve # {} /\ s >= capexTime - 300
    <2>1. ASSUME NEW e \in bleederCache, d.serve # {} PROVE e.seen >= capexTime - 300
      <3>1. e.at \in Nat /\ e.seen \in Nat /\ e.at <= e.seen BY <1>1 DEF ReportStamped, Stored
      <3> QED BY <1>1, <1>8, <2>1, <3>1
    <2> QED BY <1>3, <2>1
  <1>11. n \in CapexCall BY <1>1, <1>4, <1>7, <1>8, <1>9 DEF CapexCall
  <1>12. CallStamped(n) BY <1>1, <1>4, <1>8, <1>10 DEF CallStamped
  <1>13. CallCurrent(n) BY <1>4, <1>6, <1>8 DEF CallCurrent
  <1> QED BY <1>5, <1>11, <1>12, <1>13, OneCall

LEMMA ReadKeeps ==
    ASSUME CapexInv, NEW c \in CapexCallers, NEW pnl \in SUBSET CapexPnls, CapexRead(c, pnl)
    PROVE  CapexInv' /\ Remembers
  <1>1. PICK k \in calls[c] :
          calls' = [calls EXCEPT ![c] = { [k EXCEPT !.read = TRUE, !.pnl = IF k.serve = {} THEN pnl ELSE {},
                                                    !.seen = IF k.serve = {} THEN {capexTime} ELSE k.seen] }]
    BY DEF CapexRead
  <1>2. bleederCache' = bleederCache /\ capexTime' = capexTime BY DEF CapexRead
  <1>3. PICK n : n = [k EXCEPT !.read = TRUE, !.pnl = IF k.serve = {} THEN pnl ELSE {},
                               !.seen = IF k.serve = {} THEN {capexTime} ELSE k.seen]
    OBVIOUS
  <1>4. k \in CapexCall /\ CallStamped(k) /\ CallCurrent(k) /\ capexTime \in Nat BY DEF CapexInv
  <1>5. /\ n \in CapexCall /\ n.at = k.at /\ n.serve = k.serve /\ n.prev = k.prev /\ n.write = k.write
        /\ n.current = k.current /\ n.seen = IF k.serve = {} THEN {capexTime} ELSE k.seen
    BY <1>3, <1>4 DEF CapexCall
  <1>6. CallStamped(n) BY <1>4, <1>5 DEF CallStamped, CapexCall
  <1>7. CallCurrent(n) BY <1>4, <1>5 DEF CallCurrent
  <1> QED BY <1>1, <1>2, <1>3, <1>5, <1>6, <1>7, OneCall

LEMMA FinishKeeps ==
    ASSUME CapexInv, NEW c \in CapexCallers, CapexFinish(c)
    PROVE  CapexInv' /\ Remembers
  <1>0. /\ calls \in [CapexCallers -> SUBSET CapexCall] /\ capexTime \in Nat /\ ReportStamped
        /\ \A d \in CapexCallers : \A k \in calls[d] : k \in CapexCall /\ CallStamped(k) /\ CallCurrent(k) /\ \A m \in calls[d] : k = m
    BY DEF CapexInv
  <1>1. PICK k \in calls[c] :
          /\ \E v \in VerdictOf(k), s \in k.seen :
               bleederCache' = IF k.write THEN {[at |-> k.at, verdict |-> v, seen |-> s]} ELSE bleederCache
          /\ calls' = [ d \in CapexCallers |-> IF d = c THEN {} ELSE { [x EXCEPT !.current = @ /\ ~k.write] : x \in calls[d] } ]
    BY DEF CapexFinish
  <1>2. PICK v \in VerdictOf(k), s \in k.seen :
          bleederCache' = IF k.write THEN {[at |-> k.at, verdict |-> v, seen |-> s]} ELSE bleederCache
    BY <1>1
  <1>3. capexTime' = capexTime BY DEF CapexFinish
  <1>4. /\ k \in CapexCall /\ k.at \in Nat /\ k.write \in BOOLEAN /\ s \in Nat /\ v \in BleederVerdict
        /\ CallStamped(k) /\ CallCurrent(k)
    BY <1>0, <1>2, VerdictsAre DEF CapexCall
  <1>5. ReportStamped'
    <2>1. CASE ~k.write BY <1>0, <1>2, <2>1 DEF ReportStamped
    <2>2. CASE k.write
      <3>1. s >= k.at BY <1>4, <2>2 DEF CallStamped
      <3>2. PICK n : n = [at |-> k.at, verdict |-> v, seen |-> s] OBVIOUS
      <3>3. n \in Stored /\ n.at = k.at /\ n.seen = s BY <1>4, <3>2 DEF Stored
      <3>4. bleederCache' = {n} BY <1>2, <2>2, <3>2
      <3> QED BY <1>4, <3>1, <3>3, <3>4 DEF ReportStamped
    <2> QED BY <2>1, <2>2
  <1>6. ASSUME NEW x \in CapexCall, NEW y, y = [x EXCEPT !.current = @ /\ ~k.write], CallStamped(x), CallCurrent(x)
        PROVE  y \in CapexCall /\ CallStamped(y)' /\ CallCurrent(y)'
    <2>1. x.current \in BOOLEAN BY <1>6 DEF CapexCall
    <2>2. PICK b \in BOOLEAN : b = (x.current /\ ~k.write) BY <2>1, <1>4
    <2>3. y = [x EXCEPT !.current = b] BY <1>6, <2>2
    <2>4. /\ y \in CapexCall /\ y.at = x.at /\ y.serve = x.serve /\ y.prev = x.prev /\ y.write = x.write
          /\ y.current = b /\ y.seen = x.seen
      BY <2>3 DEF CapexCall
    <2>5. CallStamped(y)' BY <1>3, <1>6, <2>4 DEF CallStamped
    <2>6. CallCurrent(y)' BY <1>2, <1>6, <2>2, <2>4 DEF CallCurrent
    <2> QED BY <2>4, <2>5, <2>6
  <1>7. calls' \in [CapexCallers -> SUBSET CapexCall] BY <1>0, <1>1, <1>6
  <1>8. ASSUME NEW d \in CapexCallers, NEW y \in calls'[d]
        PROVE  CallStamped(y)' /\ CallCurrent(y)' /\ \A m \in calls'[d] : y = m
    <2>1. d # c /\ calls'[d] = { [x EXCEPT !.current = @ /\ ~k.write] : x \in calls[d] } BY <1>1, <1>8
    <2>2. PICK x \in calls[d] : y = [x EXCEPT !.current = @ /\ ~k.write] BY <1>8, <2>1
    <2>3. \A m \in calls'[d] : y = m BY <1>0, <2>1, <2>2
    <2> QED BY <1>0, <1>6, <2>2, <2>3
  <1>9. CapexInv' BY <1>0, <1>3, <1>5, <1>7, <1>8 DEF CapexInv
  \* Only the call itself is over, and it stored what follows from what it knew.
  <1>10. ASSUME NEW d \in CapexCallers, NEW m \in calls[d], NEW e \in bleederCache, NEW n \in bleederCache',
                n # e, calls'[d] = {}, e.verdict = {"hard"}, n.verdict # {"hard"}, m.current, m.pnl # {}
         PROVE  \E p \in m.pnl : p.net30 > -500
    <2>1. d = c
      <3>1. SUFFICES ASSUME d # c PROVE FALSE OBVIOUS
      <3>2. calls'[d] = { [x EXCEPT !.current = @ /\ ~k.write] : x \in calls[d] } BY <1>1, <3>1
      <3>3. [m EXCEPT !.current = @ /\ ~k.write] \in calls'[d] BY <1>10, <3>2
      <3> QED BY <1>10, <3>3
    <2>2. m = k BY <1>0, <1>10, <2>1
    <2>3. k.write /\ n.verdict = v BY <1>0, <1>2, <1>10 DEF ReportStamped
    <2>4. k.serve = {} BY <1>4, <2>3 DEF CallStamped
    <2>5. {"hard"} \in k.prev
      <3>1. CallCurrent(k) /\ k.current BY <1>4, <1>10, <2>2
      <3>2. k.prev = { f.verdict : f \in bleederCache } BY <3>1 DEF CallCurrent
      <3>3. e.verdict \in { f.verdict : f \in bleederCache } BY <1>10
      <3>4. e.verdict = {"hard"} BY <1>10
      <3> QED BY <3>2, <3>3, <3>4
    <2>6. PICK p \in k.pnl : v = {classify_bleeder(p, {}, {"hard"} \in k.prev)} BY <1>2, <1>10, <2>2, <2>4 DEF VerdictOf
    <2>7. v = {classify_bleeder(p, {}, TRUE)} BY <2>5, <2>6
    <2>8. p.net30 \in Int BY <1>4, CapexAssumption DEF CapexCall
    <2>9. ~(p.net30 <= -500) BY <1>10, <2>3, <2>7, <2>8, HardStays
    <2>10. p.net30 > -500 BY <2>8, <2>9
    <2> QED BY <2>2, <2>10
  <1> QED BY <1>9, <1>10 DEF Remembers

LEMMA CacheKeeps ==
    ASSUME CapexInv, [CacheNext]_cacheVars
    PROVE  CapexInv' /\ Remembers
  <1>1. ASSUME calls' = calls, bleederCache' = bleederCache, capexTime' \in Nat, capexTime <= capexTime'
        PROVE  CapexInv' /\ Remembers
    <2>1. /\ calls \in [CapexCallers -> SUBSET CapexCall] /\ capexTime \in Nat /\ ReportStamped
          /\ \A d \in CapexCallers : \A k \in calls[d] : k \in CapexCall /\ CallStamped(k) /\ CallCurrent(k) /\ \A m \in calls[d] : k = m
      BY DEF CapexInv
    <2>2. \A k \in CapexCall : CallStamped(k) => CallStamped(k)' BY <1>1, <2>1 DEF CallStamped, CapexCall
    <2>3. \A k : CallCurrent(k) => CallCurrent(k)' BY <1>1 DEF CallCurrent
    <2>4. ReportStamped' BY <1>1, <2>1 DEF ReportStamped
    <2>5. CapexInv' BY <1>1, <2>1, <2>2, <2>3, <2>4 DEF CapexInv
    <2>6. Remembers BY <1>1, <2>1 DEF Remembers, ReportStamped
    <2> QED BY <2>5, <2>6
  <1>2. CASE UNCHANGED cacheVars
    <2>1. calls' = calls /\ bleederCache' = bleederCache /\ capexTime' = capexTime BY <1>2 DEF cacheVars
    <2>2. capexTime \in Nat BY DEF CapexInv
    <2> QED BY <1>1, <2>1, <2>2
  <1>3. ASSUME NEW d \in CapexSteps, CapexTick(d) PROVE CapexInv' /\ Remembers
    <2>1. d \in Nat /\ capexTime \in Nat BY <1>3, CapexAssumption DEF CapexInv
    <2> QED BY <1>1, <1>3, <2>1 DEF CapexTick
  <1>4. ASSUME NEW c \in CapexCallers, NEW pnl \in {{}} \cup { {p} : p \in CapexPnls }, CapexRead(c, pnl)
        PROVE  CapexInv' /\ Remembers
    BY <1>4, ReadKeeps
  <1> QED BY <1>2, <1>3, <1>4, BeginKeeps, FinishKeeps DEF CacheNext

\* The evidence behind an answer is never older than 300 seconds before the call,
\* and a hard bleeder is forgotten only for a reason (revenue-capex-status and
\* its cache of verdicts), however calls overlap and reads fail.
THEOREM VerdictCacheIsHonest == CacheSpec => []VerdictsAreFresh /\ HardIsRemembered
  <1>1. CacheInit => CapexInv BY CacheStarts
  <1>2. CapexInv /\ [CacheNext]_cacheVars => CapexInv' /\ Remembers BY CacheKeeps
  <1>3. CapexInv => VerdictsAreFresh
    <2>1. ASSUME CapexInv, NEW c \in CapexCallers, NEW k \in calls[c], NEW s \in k.seen PROVE s >= k.at - 300
      <3>1. k \in CapexCall /\ CallStamped(k) BY <2>1 DEF CapexInv
      <3> QED BY <2>1, <3>1 DEF CallStamped, CapexCall
    <2> QED BY <2>1 DEF VerdictsAreFresh
  <1>4. Remembers => [Remembers]_cacheVars OBVIOUS
  <1>5. HardIsRemembered <=> [][Remembers]_cacheVars BY PTL DEF HardIsRemembered, Remembers
  <1> QED BY <1>1, <1>2, <1>3, <1>4, <1>5, PTL DEF CacheSpec
=============================================================================
