----------------------- MODULE RebalanceOwner_proofs -----------------------
(***************************************************************************)
(* RebalanceOwner, for any pairs, amounts, budgets, number of retries,       *)
(* submissions and crashes, in either payment mode.  Then what it and the    *)
(* fee cycle read: plugin options and the resolved configuration             *)
(* (ConfigResolution).                                                       *)
(***************************************************************************)
EXTENDS RebalanceOwner, ConfigResolution, SumTheorems

\* A submission is under way.
Active == phase \in {"execute", "sendpay", "waitsendpay", "ended", "settle"}

\* Cannot move funds any more, as far as the owner can tell.
Dead(h) == h \in cut \/ ~Live(h)

\* An open row holds its reservation and has no hash; rows and late intents are
\* of this process or of an earlier one.
RowsInv ==
    /\ \A i \in DOMAIN attempts :
        /\ attempts[i].outcome = "none" =>
               attempts[i].reservation = "active" /\ attempts[i].hash = {}
        /\ attempts[i].boot <= crashes
    /\ \A k \in 1..Len(late) : late[k].boot <= crashes

\* The submission under way has its open row, written by this process; a cycle
\* records under ids of its own.
JobInv ==
    /\ Active =>
        /\ request \in DOMAIN attempts /\ request.trigger = "manual"
        /\ attempts[request].outcome = "none" /\ attempts[request].boot = crashes
        /\ ~suspended
        /\ stage = "partial" => ~Final(prior)
    /\ phase = "recordSettle" => request.trigger = "cycle"

\* Every payment belongs to the row of a manual submission; of the submission
\* under way, the tries before the present one are dead, and so is the present
\* one once it ended otherwise than by success or pending.
WireInv ==
    \A h \in DOMAIN wire :
        /\ h.id \in DOMAIN attempts /\ h.id.trigger = "manual"
        /\ Active /\ h.id = request =>
            /\ h.try <= step
            /\ phase \in {"execute", "sendpay"} => h.try < step
            /\ h.try < step => Dead(h)
            /\ phase \in {"ended", "settle"} /\ ~Final(result) => Dead(h)

PayInv == RowsInv /\ JobInv /\ WireInv

\* A payment of this process that is not settled belongs to the submission under
\* way, or its settlement failed and the owner is suspended.
UnsettledOwned ==
    \A h \in DOMAIN wire :
        Unsettled(h) /\ attempts[h.id].boot = crashes =>
            suspended \/ (Active /\ h.id = request)

-----------------------------------------------------------------------------
(* Types *)

RowsTyped(A) ==
    /\ A = [i \in DOMAIN A |-> A[i]] /\ DOMAIN A \subseteq Ids
    /\ \A i \in DOMAIN A : A[i] \in Attempt

WireTyped(W) ==
    /\ W = [h \in DOMAIN W |-> W[h]] /\ DOMAIN W \subseteq Hashes
    /\ \A h \in DOMAIN W : W[h] \in {"inflight", "doomed", "complete", "failed"}

\* A new row is open, active and of the intent's process; the others stay.
LEMMA InsertTyped ==
    ASSUME TypeOK, NEW intent \in Intent
    PROVE  /\ RowsTyped(insert_rebalance_attempt(intent))
           /\ DOMAIN insert_rebalance_attempt(intent) = DOMAIN attempts \cup {intent.id}
           /\ insert_rebalance_attempt(intent)[intent.id] = NewRow(intent)
           /\ \A i \in DOMAIN attempts : i # intent.id =>
                  insert_rebalance_attempt(intent)[i] = attempts[i]
  <1>1. NewRow(intent) \in Attempt /\ intent.id \in Ids
    BY DEF NewRow, Attempt, Intent, Outcomes, Reservations
  <1> QED BY <1>1 DEF TypeOK, RowsTyped, insert_rebalance_attempt

\* A settlement changes the outcome, the active reservation and the hash of its row.
LEMMA SettleTyped ==
    ASSUME TypeOK, NEW id \in DOMAIN attempts, NEW o \in Outcomes,
           NEW r \in Reservations, NEW x \in SUBSET Hashes
    PROVE  LET A == settle_rebalance_attempt(id, o, r, x)
           IN  /\ RowsTyped(A) /\ DOMAIN A = DOMAIN attempts
               /\ A[id].outcome = o /\ A[id].boot = attempts[id].boot
               /\ attempts[id].reservation = "active" => A[id].reservation = r
               /\ A[id].hash = IF x = {} THEN attempts[id].hash ELSE x
               /\ \A i \in DOMAIN attempts : i # id => A[i] = attempts[i]
  <1> DEFINE row == SettledRow(attempts[id], o, r, x)
  <1>1. attempts[id] \in Attempt BY DEF TypeOK
  <1>2. /\ row \in Attempt /\ row.outcome = o /\ row.boot = attempts[id].boot
        /\ attempts[id].reservation = "active" => row.reservation = r
        /\ row.hash = IF x = {} THEN attempts[id].hash ELSE x
    BY <1>1 DEF Attempt, SettledRow
  <1> HIDE DEF row
  <1>3. settle_rebalance_attempt(id, o, r, x) = [attempts EXCEPT ![id] = row]
    BY DEF settle_rebalance_attempt, row
  <1> QED BY <1>2, <1>3 DEF TypeOK, RowsTyped

\* What classify_execution and settlement_for answer; only a final failure releases.
LEMMA OutcomeTyped ==
    ASSUME NEW r \in Results
    PROVE  /\ classify_execution(r) \in Outcomes \ {"none"}
           /\ settlement_for(classify_execution(r)) \in {"settled", "released", "quarantined"}
           /\ settlement_for(classify_execution(r)) = "released" => ~Final(r)
  BY DEF Results, Classes, classify_execution, settlement_for, Outcomes, Final

\* One more hash on the wire.
LEMMA SentTyped ==
    ASSUME TypeOK, NEW status \in {"inflight", "doomed", "complete", "failed"}
    PROVE  /\ WireTyped(SentAs(status)) /\ DOMAIN SentAs(status) = DOMAIN wire \cup {Hash}
           /\ SentAs(status)[Hash] = status
           /\ \A h \in DOMAIN wire : h # Hash => SentAs(status)[h] = wire[h]
  <1>1. Hash \in Hashes BY DEF TypeOK, Hash, HashOf, Hashes
  <1> QED BY <1>1 DEF TypeOK, WireTyped, SentAs

\* A manual submission's intent is of this process.
LEMMA IntentTyped ==
    ASSUME TypeOK, NEW pair \in Pairs, NEW amount \in Amounts, NEW force \in BOOLEAN
    PROVE  /\ ManualIntent(pair, amount, force) \in Intent
           /\ ManualIntent(pair, amount, force).boot = crashes
           /\ ManualIntent(pair, amount, force).id.trigger = "manual"
  <1>1. [trigger |-> "manual", at |-> clock, n |-> submissions + 1, pair |-> pair] \in Ids
    BY DEF TypeOK, Ids
  <1>2. amount \in Nat /\ crashes \in Nat BY OwnerAssumption DEF TypeOK
  <1> QED BY <1>1, <1>2 DEF ManualIntent, Intent

CycleIntent(amount) ==
    [id |-> [trigger |-> "cycle", at |-> clock, n |-> step, pair |-> NoPair],
     amount |-> amount, forced |-> FALSE, boot |-> crashes]

\* So is the intent of a cycle's record, whose id no submission has.
LEMMA CycleIntentTyped ==
    ASSUME TypeOK, NEW amount \in Amounts
    PROVE  /\ CycleIntent(amount) \in Intent /\ CycleIntent(amount).boot = crashes
           /\ CycleIntent(amount).id.trigger = "cycle"
  BY OwnerAssumption DEF TypeOK, CycleIntent, Intent, Ids

\* A handler's locals keep their types, whichever values they take.
JobTyped ==
    /\ phase \in Phases /\ request \in Ids
    /\ stage \in {"first", "excluded", "partial"} /\ step \in Nat
    /\ result \in Results /\ prior \in Results
    /\ executions \in Seq(Results) /\ orphans \subseteq Ids
    /\ phase \in {"record", "recordSettle"} => step + 1 \in 1..Len(executions)

MemTyped ==
    /\ starting \in BOOLEAN /\ suspended \in BOOLEAN
    /\ cooldowns \in [Pairs -> SUBSET Nat]
    /\ submissions \in Nat /\ clock \in Nat /\ crashes \in Nat

StoreTyped == RowsTyped(attempts) /\ late \in Seq(Intent)
NodeTyped == WireTyped(wire) /\ cut \subseteq Hashes

\* The inductive form of TypeOK: the execution being recorded exists.
TypeInv == StoreTyped /\ NodeTyped /\ JobTyped /\ MemTyped

\* The parts make up TypeOK.
LEMMA TypeParts == TypeInv => TypeOK
  BY DEF TypeInv, TypeOK, StoreTyped, NodeTyped, JobTyped, MemTyped, RowsTyped, WireTyped

\* Results and the empty request id are well typed.
LEMMA PlainTyped ==
    /\ \A class \in Classes : Plain(class) \in Results
    /\ {"success", "pending", "prewrite", "sendpay_error", "other"} \subseteq Classes
    /\ NoId \in Ids
  BY DEF Plain, Results, Causes, Classes, NoId, Ids

\* A handler that returns leaves well-typed locals.
LEMMA ReturnTyped == Return => JobTyped'
  <1>1. <<>> \in Seq(Results) OBVIOUS
  <1> QED BY <1>1, PlainTyped DEF Return, JobTyped, Phases

\* The initial state is well typed.
LEMMA InitTyped == Init => TypeInv
  <1> SUFFICES ASSUME Init PROVE TypeInv OBVIOUS
  <1>1. attempts = [i \in DOMAIN attempts |-> attempts[i]] /\ DOMAIN attempts = {}
    BY DEF Init
  <1>2. wire = [h \in DOMAIN wire |-> wire[h]] /\ DOMAIN wire = {}
    BY DEF Init
  <1>3. <<>> \in Seq(Intent) /\ <<>> \in Seq(Results) OBVIOUS
  <1>4. cooldowns \in [Pairs -> SUBSET Nat] BY DEF Init
  <1> QED BY <1>1, <1>2, <1>3, <1>4, PlainTyped DEF Init, TypeInv, StoreTyped, NodeTyped,
             JobTyped, MemTyped, RowsTyped, WireTyped, Phases

\* The store's rows and late intents keep their types.
LEMMA StoreStep == TypeInv /\ [Next]_vars => StoreTyped'
  <1> SUFFICES ASSUME TypeInv, TypeOK, [Next]_vars PROVE StoreTyped' BY TypeParts
  <1>0. StoreTyped BY DEF TypeInv
  <1>1. ASSUME UNCHANGED store PROVE StoreTyped'
    BY <1>0, <1>1 DEF store, StoreTyped
  <1>2. ASSUME NEW id \in DOMAIN attempts, NEW o \in Outcomes, NEW r \in Reservations,
               NEW x \in SUBSET Hashes, UNCHANGED late,
               attempts' = settle_rebalance_attempt(id, o, r, x)
        PROVE  StoreTyped'
    BY <1>0, <1>2, SettleTyped DEF StoreTyped
  <1>3. ASSUME NEW intent \in Intent, UNCHANGED late,
               attempts' = insert_rebalance_attempt(intent)
        PROVE  StoreTyped'
    BY <1>0, <1>3, InsertTyped DEF StoreTyped
  <1>4. ASSUME NEW intent \in Intent, UNCHANGED attempts, late' = Append(late, intent)
        PROVE  StoreTyped'
    BY <1>0, <1>4 DEF StoreTyped
  <1>5. ASSUME Settleable(request), attempts' = SettledWith(result), UNCHANGED late
        PROVE  StoreTyped'
    <2>1. result \in Results /\ request \in DOMAIN attempts
      BY <1>5 DEF TypeOK, Settleable
    <2>2. ResultHash \in SUBSET Hashes
      BY DEF ResultHash, HashOf, Hashes, TypeOK
    <2> QED BY <1>2, <1>5, <2>1, <2>2, OutcomeTyped DEF SettledWith, Reservations
  <1>6. ASSUME NEW pair \in Pairs, NEW amount \in Amounts, NEW force \in BOOLEAN,
               \/ SubmitAccepted(pair, amount, force) \/ SubmitRefused(pair, amount, force)
               \/ SubmitUnknown(pair, amount, force)
        PROVE  StoreTyped'
    <2>1. CASE SubmitAccepted(pair, amount, force)
      BY <2>1, <1>3, IntentTyped DEF SubmitAccepted
    <2>2. CASE SubmitRefused(pair, amount, force)
      BY <2>2, <1>1 DEF SubmitRefused
    <2>3. CASE SubmitUnknown(pair, amount, force)
      BY <2>3, <1>4, IntentTyped DEF SubmitUnknown
    <2> QED BY <1>6, <2>1, <2>2, <2>3
  <1>7. CASE StoreLands
    <2>1. late \in Seq(Intent) /\ late # <<>> BY <1>7 DEF StoreLands, TypeOK
    <2>2. Head(late) \in Intent /\ Tail(late) \in Seq(Intent) BY <2>1
    <2> QED BY <1>0, <1>7, <2>2, InsertTyped DEF StoreLands, StoreTyped
  <1>8. CASE Execution
    BY <1>1, <1>8 DEF Execution, EngineRefuses, ExecuteStopsBeforeWrite, InvoiceFails,
        Invoiced, SendpayAccepted, SendpayRejected, SendpayTimesOut, TransportFails,
        WaitCompletes, WaitFails, WaitUnresolved, retry_with_exclusions,
        retry_with_partial_amounts, FinishExecution, EndTry, Retry
  <1>9. CASE \E h \in DOMAIN wire : NodeDecides(h)
    BY <1>1, <1>9 DEF NodeDecides
  <1>10. CASE Settle
    BY <1>5, <1>10 DEF Settle
  <1>11. CASE SettleFails \/ RecordRefused
    BY <1>1, <1>11 DEF SettleFails, RecordRefused, Suspend
  <1>12. CASE run_cycle BY <1>1, <1>12 DEF run_cycle
  <1>13. CASE \E amount \in Amounts : RecordInsert(amount)
    <2> PICK amount \in Amounts : RecordInsert(amount) BY <1>13
    <2>1. CycleIntent(amount) \in Intent BY CycleIntentTyped
    <2>2. \/ attempts' = insert_rebalance_attempt(CycleIntent(amount)) /\ UNCHANGED late
          \/ late' = Append(late, CycleIntent(amount)) /\ UNCHANGED attempts
          \/ UNCHANGED store
      BY DEF RecordInsert, CycleIntent
    <2> QED BY <2>1, <2>2, <1>1, <1>3, <1>4
  <1>14. CASE RecordSettle BY <1>5, <1>14 DEF RecordSettle
  <1>15. CASE ReconcileStart BY <1>1, <1>15 DEF ReconcileStart
  <1>16. CASE \E id \in orphans : ReconcileOrphan(id)
    <2> PICK id \in orphans : ReconcileOrphan(id) BY <1>16
    <2> PICK answered \in BOOLEAN :
            attempts' = settle_rebalance_attempt(id, Reconciled(id, answered),
                            settlement_for(Reconciled(id, answered)), {})
      BY DEF ReconcileOrphan
    <2>1. Reconciled(id, answered) \in Outcomes BY DEF Reconciled, Outcomes
    <2>2. settlement_for(Reconciled(id, answered)) \in Reservations
      BY <2>1 DEF settlement_for, Reservations
    <2>3. id \in DOMAIN attempts /\ UNCHANGED late BY DEF ReconcileOrphan, Settleable
    <2> QED BY <1>2, <2>1, <2>2, <2>3
  <1>17. CASE ReconcileEnds \/ Tick BY <1>1, <1>17 DEF ReconcileEnds, Tick
  <1>18. CASE Crash BY <1>0, <1>18 DEF Crash, StoreTyped
  <1>19. CASE UNCHANGED vars BY <1>1, <1>19 DEF vars, store
  <1> QED BY <1>6, <1>7, <1>8, <1>9, <1>10, <1>11, <1>12, <1>13, <1>14, <1>15, <1>16,
             <1>17, <1>18, <1>19 DEF Next

\* The node's payments and the history of lost replies keep their types.
LEMMA NodeStep == TypeInv /\ [Next]_vars => NodeTyped'
  <1> SUFFICES ASSUME TypeInv, TypeOK, [Next]_vars PROVE NodeTyped' BY TypeParts
  <1>0. NodeTyped BY DEF TypeInv
  <1>1. ASSUME UNCHANGED node PROVE NodeTyped'
    BY <1>0, <1>1 DEF node, NodeTyped
  <1>2. ASSUME NEW status \in {"inflight", "doomed"}, wire' = SentAs(status) \/ UNCHANGED wire,
               cut' = cut \/ cut' = cut \cup {Hash}
        PROVE  NodeTyped'
    <2>1. Hash \in Hashes BY DEF TypeOK, Hash, HashOf, Hashes
    <2> QED BY <1>0, <1>2, <2>1, SentTyped DEF NodeTyped
  <1>3. CASE Execution
    <2>1. CASE SendpayAccepted BY <2>1, <1>2 DEF SendpayAccepted
    <2>2. CASE SendpayTimesOut BY <2>2, <1>2 DEF SendpayTimesOut
    <2>3. CASE TransportFails BY <2>3, <1>2 DEF TransportFails
    <2> QED BY <1>1, <1>3, <2>1, <2>2, <2>3 DEF Execution, EngineRefuses,
            ExecuteStopsBeforeWrite, InvoiceFails, Invoiced, SendpayRejected,
            WaitCompletes, WaitFails, WaitUnresolved, retry_with_exclusions,
            retry_with_partial_amounts, FinishExecution, Retry
  <1>4. CASE \E h \in DOMAIN wire : NodeDecides(h)
    BY <1>0, <1>4 DEF NodeDecides, NodeTyped, WireTyped
  <1>5. CASE \E pair \in Pairs, amount \in Amounts, force \in BOOLEAN :
                \/ SubmitAccepted(pair, amount, force)
                \/ SubmitRefused(pair, amount, force)
                \/ SubmitUnknown(pair, amount, force)
    BY <1>1, <1>5 DEF SubmitAccepted, SubmitRefused, SubmitUnknown, CountSubmission
  <1>6. CASE \/ StoreLands \/ Settle \/ SettleFails \/ run_cycle
             \/ (\E amount \in Amounts : RecordInsert(amount)) \/ RecordSettle
             \/ RecordRefused \/ ReconcileStart
             \/ (\E id \in orphans : ReconcileOrphan(id)) \/ ReconcileEnds \/ Tick \/ Crash
    BY <1>1, <1>6 DEF StoreLands, Settle, SettleFails, Suspend, run_cycle, RecordInsert,
        RecordSettle, RecordRefused, ReconcileStart, ReconcileOrphan, ReconcileEnds, Tick, Crash
  <1>7. CASE UNCHANGED vars BY <1>1, <1>7 DEF vars, node
  <1> QED BY <1>3, <1>4, <1>5, <1>6, <1>7 DEF Next

\* The owner's memory keeps its type.
LEMMA MemStep == TypeInv /\ [Next]_vars => MemTyped'
  <1> SUFFICES ASSUME TypeInv, TypeOK, [Next]_vars PROVE MemTyped' BY TypeParts
  <1>0. MemTyped BY DEF TypeInv
  <1>1. ASSUME UNCHANGED <<mem, clock, crashes>> PROVE MemTyped'
    BY <1>0, <1>1 DEF mem, MemTyped
  <1>2. CASE \E pair \in Pairs, amount \in Amounts, force \in BOOLEAN :
                \/ SubmitAccepted(pair, amount, force)
                \/ SubmitRefused(pair, amount, force)
                \/ SubmitUnknown(pair, amount, force)
    BY <1>0, <1>2 DEF SubmitAccepted, SubmitRefused, SubmitUnknown, CountSubmission, MemTyped
  <1>3. CASE Execution \/ StoreLands \/ \E h \in DOMAIN wire : NodeDecides(h)
    BY <1>1, <1>3 DEF Execution, EngineRefuses, ExecuteStopsBeforeWrite, InvoiceFails,
        Invoiced, SendpayAccepted, SendpayRejected, SendpayTimesOut, TransportFails,
        WaitCompletes, WaitFails, WaitUnresolved, retry_with_exclusions,
        retry_with_partial_amounts, FinishExecution, EndTry, Retry, StoreLands, NodeDecides
  <1>4. CASE SettleFails \/ RecordRefused \/ ReconcileStart
    BY <1>0, <1>4 DEF SettleFails, RecordRefused, Suspend, ReconcileStart, MemTyped
  <1>5. CASE \/ Settle \/ run_cycle \/ (\E amount \in Amounts : RecordInsert(amount))
             \/ RecordSettle \/ (\E id \in orphans : ReconcileOrphan(id)) \/ ReconcileEnds
    BY <1>1, <1>5 DEF Settle, run_cycle, RecordInsert, RecordSettle, ReconcileOrphan,
        ReconcileEnds
  <1>6. CASE Tick
    <2>1. clock' \in Nat BY <1>0, <1>6 DEF Tick, MemTyped
    <2>2. UNCHANGED <<starting, suspended, cooldowns, submissions, crashes>>
      BY <1>6 DEF Tick, mem
    <2> QED BY <1>0, <2>1, <2>2 DEF MemTyped
  <1>7. CASE Crash
    <2>1. cooldowns' \in [Pairs -> SUBSET Nat] BY <1>7 DEF Crash
    <2>2. crashes' \in Nat /\ submissions' \in Nat /\ clock' \in Nat
      BY <1>0, <1>7 DEF Crash, MemTyped
    <2>3. starting' \in BOOLEAN /\ suspended' \in BOOLEAN BY <1>7 DEF Crash
    <2> QED BY <2>1, <2>2, <2>3 DEF MemTyped
  <1>8. CASE UNCHANGED vars BY <1>1, <1>8 DEF vars, mem
  <1> QED BY <1>2, <1>3, <1>4, <1>5, <1>6, <1>7, <1>8 DEF Next

\* The handlers' locals keep their types.
LEMMA JobStep == TypeInv /\ [Next]_vars => JobTyped'
  <1> SUFFICES ASSUME TypeInv, TypeOK, [Next]_vars PROVE JobTyped' BY TypeParts
  <1>0. JobTyped BY DEF TypeInv
  <1>1. ASSUME UNCHANGED <<phase, job>> PROVE JobTyped'
    BY <1>0, <1>1 DEF job, JobTyped
  <1>2. ASSUME NEW r \in Results, EndTry(r) PROVE JobTyped'
    BY <1>0, <1>2 DEF EndTry, JobTyped, Phases
  <1>3. CASE Execution
    <2>1. CASE EngineRefuses
      BY <1>0, <2>1, PlainTyped DEF EngineRefuses, JobTyped, Phases
    <2>2. CASE ExecuteStopsBeforeWrite \/ InvoiceFails \/ SendpayTimesOut
               \/ TransportFails \/ WaitCompletes \/ WaitUnresolved
      BY <1>2, <2>2, PlainTyped DEF ExecuteStopsBeforeWrite, InvoiceFails, SendpayTimesOut,
          TransportFails, WaitCompletes, WaitUnresolved
    <2>3. CASE SendpayRejected \/ WaitFails
      <3>1. \A cause \in Causes : [class |-> "sendpay_error", cause |-> cause] \in Results
        BY DEF Results, Classes
      <3> QED BY <1>2, <2>3, <3>1 DEF SendpayRejected, WaitFails
    <2>4. CASE Invoiced \/ SendpayAccepted
      BY <1>0, <2>4 DEF Invoiced, SendpayAccepted, job, JobTyped, Phases
    <2>5. CASE retry_with_exclusions \/ retry_with_partial_amounts
      BY <1>0, <2>5 DEF retry_with_exclusions, retry_with_partial_amounts, Retry, JobTyped, Phases
    <2>6. CASE FinishExecution
      BY <1>0, <2>6 DEF FinishExecution, JobTyped, Phases
    <2> QED BY <1>3, <2>1, <2>2, <2>3, <2>4, <2>5, <2>6 DEF Execution
  <1>4. ASSUME NEW pair \in Pairs, NEW amount \in Amounts, NEW force \in BOOLEAN,
               \/ SubmitAccepted(pair, amount, force) \/ SubmitRefused(pair, amount, force)
               \/ SubmitUnknown(pair, amount, force)
        PROVE  JobTyped'
    <2>1. CASE SubmitAccepted(pair, amount, force)
      <3>1. ManualIntent(pair, amount, force).id \in Ids BY IntentTyped DEF Intent
      <3> QED BY <1>0, <2>1, <3>1 DEF SubmitAccepted, JobTyped, Phases
    <2> QED BY <1>1, <1>4, <2>1 DEF SubmitRefused, SubmitUnknown
  <1>5. CASE \/ Settle \/ SettleFails \/ RecordRefused \/ ReconcileEnds \/ Crash
    BY <1>5, ReturnTyped DEF Settle, SettleFails, RecordRefused, Suspend, ReconcileEnds, Crash
  <1>6. CASE run_cycle
    <2>1. PICK n \in 1..MaxExecutions : executions' \in [1..n -> CycleResults]
      BY <1>6 DEF run_cycle
    <2>2. CycleResults \subseteq Results BY PlainTyped DEF CycleResults, Classes
    <2>3. n \in Nat BY OwnerAssumption
    <2>4. executions' \in Seq(Results) BY <2>1, <2>2, <2>3
    <2> QED BY <1>0, <1>6, <2>4 DEF run_cycle, JobTyped, Phases
  <1>7. CASE \E amount \in Amounts : RecordInsert(amount)
    <2> PICK amount \in Amounts : RecordInsert(amount) BY <1>7
    <2>1. CycleIntent(amount).id \in Ids BY CycleIntentTyped DEF Intent
    <2>2. request' = CycleIntent(amount).id /\ result' = executions[step + 1]
      BY DEF RecordInsert, CycleIntent
    <2>3. executions[step + 1] \in Results BY <1>0 DEF JobTyped, RecordInsert
    <2> QED BY <1>0, <2>1, <2>2, <2>3 DEF RecordInsert, JobTyped, Phases

  <1>8. CASE RecordSettle
    <2>1. CASE step + 1 = Len(executions) /\ Return BY <2>1, ReturnTyped
    <2>2. CASE /\ step + 1 < Len(executions) /\ step' = step + 1 /\ phase' = "record"
               /\ UNCHANGED <<request, stage, result, prior, executions, orphans>>
      <3>1. Len(executions) \in Nat BY <1>0 DEF JobTyped
      <3> QED BY <1>0, <2>2, <3>1 DEF JobTyped, Phases
    <2> QED BY <1>8, <2>1, <2>2 DEF RecordSettle
  <1>9. CASE ReconcileStart
    BY <1>0, <1>9 DEF ReconcileStart, JobTyped, Phases, unresolved_rebalance_attempts, TypeOK
  <1>10. CASE \E id \in orphans : ReconcileOrphan(id)
    BY <1>0, <1>10 DEF ReconcileOrphan, JobTyped
  <1>11. CASE StoreLands \/ Tick \/ \E h \in DOMAIN wire : NodeDecides(h)
    BY <1>1, <1>11 DEF StoreLands, Tick, NodeDecides
  <1>12. CASE UNCHANGED vars BY <1>1, <1>12 DEF vars, job
  <1> QED BY <1>3, <1>4, <1>5, <1>6, <1>7, <1>8, <1>9, <1>10, <1>11, <1>12 DEF Next

\* Type correctness: the rows, the payments, the handlers' locals and the owner's
\* memory keep their types through every operation, failure and restart.
THEOREM TypeCorrect == Spec => []TypeOK
  <1>1. TypeInv /\ [Next]_vars => TypeInv'
    BY StoreStep, NodeStep, MemStep, JobStep DEF TypeInv
  <1> QED BY <1>1, InitTyped, TypeParts, PTL DEF Spec

-----------------------------------------------------------------------------
(* What a step does to the rows. *)

\* A new row appears; payments and restarts are left alone.
Inserts ==
    /\ \E intent \in Intent :
        /\ intent.id \notin DOMAIN attempts /\ intent.boot <= crashes
        /\ attempts' = insert_rebalance_attempt(intent)
    /\ UNCHANGED <<wire, cut, crashes, suspended>>

\* An open row gets its outcome.  It is released only if a cycle recorded it, or
\* its submission ended otherwise than by success or pending.
Settles ==
    /\ \E id \in DOMAIN attempts, o \in Outcomes \ {"none"},
          r \in {"settled", "released", "quarantined"}, x \in SUBSET Hashes :
        /\ attempts[id].outcome = "none"
        /\ attempts' = settle_rebalance_attempt(id, o, r, x)
        /\ Active => id = request
        /\ r = "released" => \/ id.trigger = "cycle"
                             \/ phase = "settle" /\ id = request /\ ~Final(result)
    /\ ~Active' /\ UNCHANGED <<late, wire, cut, crashes, suspended>>

\* Every step leaves the rows alone, inserts one or settles one.
LEMMA RowStep ==
    TypeInv /\ PayInv /\ [Next]_vars => UNCHANGED attempts \/ Inserts \/ Settles
  <1> SUFFICES ASSUME TypeInv, TypeOK, PayInv, [Next]_vars
               PROVE  UNCHANGED attempts \/ Inserts \/ Settles
    BY TypeParts
  <1>1. ASSUME Settleable(request), attempts' = SettledWith(result), ~Active',
               UNCHANGED <<late, wire, cut, crashes, suspended>>,
               phase = "settle" \/ phase = "recordSettle"
        PROVE  Settles
    <2> DEFINE o == classify_execution(result)
    <2>1. result \in Results BY DEF TypeOK
    <2>2. /\ o \in Outcomes \ {"none"}
          /\ settlement_for(o) \in {"settled", "released", "quarantined"}
          /\ settlement_for(o) = "released" => ~Final(result)
      BY <2>1, OutcomeTyped
    <2>3. ResultHash \in SUBSET Hashes BY DEF ResultHash, HashOf, Hashes, TypeOK
    <2>4. request \in DOMAIN attempts /\ attempts[request].outcome = "none"
      BY <1>1 DEF Settleable
    <2>5. phase = "recordSettle" => request.trigger = "cycle" BY DEF PayInv, JobInv
    <2>6. attempts' = settle_rebalance_attempt(request, o, settlement_for(o), ResultHash)
      BY <1>1 DEF SettledWith
    <2> HIDE DEF o
    <2> QED BY <1>1, <2>2, <2>3, <2>4, <2>5, <2>6 DEF Settles
  <1>2. CASE \E pair \in Pairs, amount \in Amounts, force \in BOOLEAN :
                SubmitAccepted(pair, amount, force)
    <2> PICK pair \in Pairs, amount \in Amounts, force \in BOOLEAN :
            SubmitAccepted(pair, amount, force)
      BY <1>2
    <2> DEFINE intent == ManualIntent(pair, amount, force)
    <2>1. intent \in Intent /\ intent.boot = crashes BY IntentTyped
    <2>2. crashes <= crashes BY DEF TypeOK
    <2>3. /\ intent.id \notin DOMAIN attempts
          /\ attempts' = insert_rebalance_attempt(intent)
          /\ UNCHANGED <<wire, cut, crashes, suspended>>
      BY DEF SubmitAccepted, CountSubmission, node
    <2> HIDE DEF intent
    <2> QED BY <2>1, <2>2, <2>3 DEF Inserts
  <1>3. CASE \E pair \in Pairs, amount \in Amounts, force \in BOOLEAN :
                SubmitRefused(pair, amount, force) \/ SubmitUnknown(pair, amount, force)
    BY <1>3 DEF SubmitRefused, SubmitUnknown, store
  <1>4. CASE StoreLands
    <2>1. late \in Seq(Intent) /\ late # <<>> BY <1>4 DEF StoreLands, TypeOK
    <2>2. Head(late) = late[1] /\ 1 \in 1..Len(late) /\ Head(late) \in Intent BY <2>1
    <2>3. Head(late).boot <= crashes BY <2>2 DEF PayInv, RowsInv
    <2> QED BY <1>4, <2>2, <2>3 DEF StoreLands, Inserts, node, mem
  <1>5. CASE Execution
    BY <1>5 DEF Execution, EngineRefuses, ExecuteStopsBeforeWrite, InvoiceFails,
        Invoiced, SendpayAccepted, SendpayRejected, SendpayTimesOut, TransportFails,
        WaitCompletes, WaitFails, WaitUnresolved, retry_with_exclusions,
        retry_with_partial_amounts, FinishExecution, EndTry, Retry, store
  <1>6. CASE Settle
    BY <1>1, <1>6 DEF Settle, Return, Active, node, mem
  <1>7. CASE RecordSettle
    BY <1>1, <1>7 DEF RecordSettle, Return, Active, node, mem
  <1>8. CASE \E amount \in Amounts : RecordInsert(amount)
    <2> PICK amount \in Amounts : RecordInsert(amount) BY <1>8
    <2>1. CycleIntent(amount) \in Intent /\ CycleIntent(amount).boot = crashes
      BY CycleIntentTyped
    <2>2. crashes <= crashes BY DEF TypeOK
    <2>3. \/ /\ CycleIntent(amount).id \notin DOMAIN attempts
             /\ attempts' = insert_rebalance_attempt(CycleIntent(amount))
             /\ UNCHANGED <<wire, cut, crashes, suspended>>
          \/ UNCHANGED attempts
      BY DEF RecordInsert, CycleIntent, node, mem, store
    <2> QED BY <2>1, <2>2, <2>3 DEF Inserts
  <1>9. CASE \E id \in orphans : ReconcileOrphan(id)
    <2> PICK id \in orphans : ReconcileOrphan(id) BY <1>9
    <2> PICK answered \in BOOLEAN :
            attempts' = settle_rebalance_attempt(id, Reconciled(id, answered),
                            settlement_for(Reconciled(id, answered)), {})
      BY DEF ReconcileOrphan
    <2>1. id \in DOMAIN attempts /\ attempts[id].outcome = "none"
      BY DEF ReconcileOrphan, Settleable
    <2>2. attempts[id].hash = {} BY <2>1 DEF PayInv, RowsInv
    <2>3. Reconciled(id, answered) = "outcome_unknown" BY <2>2 DEF Reconciled
    <2>4. attempts' = settle_rebalance_attempt(id, "outcome_unknown", "quarantined", {})
      BY <2>3 DEF settlement_for
    <2>5. phase = "reconcile" /\ ~Active' /\ ~Active /\ UNCHANGED <<late, wire, cut, crashes, suspended>>
      BY DEF ReconcileOrphan, Active, node, mem
    <2>6. "outcome_unknown" \in Outcomes \ {"none"} BY DEF Outcomes
    <2>7. {} \in SUBSET Hashes OBVIOUS
    <2> QED BY <2>1, <2>4, <2>5, <2>6, <2>7 DEF Settles
  <1>10. CASE \/ SettleFails \/ RecordRefused \/ run_cycle \/ ReconcileStart
              \/ ReconcileEnds \/ Tick \/ Crash \/ \E h \in DOMAIN wire : NodeDecides(h)
    BY <1>10 DEF SettleFails, RecordRefused, Suspend, run_cycle, ReconcileStart,
        ReconcileEnds, Tick, Crash, NodeDecides, store
  <1>11. CASE UNCHANGED vars BY <1>11 DEF vars
  <1> QED BY <1>2, <1>3, <1>4, <1>5, <1>6, <1>7, <1>8, <1>9, <1>10, <1>11 DEF Next

\* What an insert and a settlement leave of the rows.
LEMMA InsertsFacts ==
    ASSUME TypeOK, Inserts
    PROVE  /\ DOMAIN attempts \subseteq DOMAIN attempts'
           /\ \A i \in DOMAIN attempts : attempts'[i] = attempts[i]
           /\ \A i \in DOMAIN attempts' \ DOMAIN attempts :
                /\ attempts'[i].outcome = "none" /\ attempts'[i].reservation = "active"
                /\ attempts'[i].hash = {} /\ attempts'[i].boot <= crashes
  <1> PICK intent \in Intent :
        /\ intent.id \notin DOMAIN attempts /\ intent.boot <= crashes
        /\ attempts' = insert_rebalance_attempt(intent)
    BY DEF Inserts
  <1>1. /\ NewRow(intent).outcome = "none" /\ NewRow(intent).reservation = "active"
        /\ NewRow(intent).hash = {} /\ NewRow(intent).boot = intent.boot
    BY DEF NewRow
  <1> QED BY <1>1, InsertTyped

\* One row is settled, the others stay; what a release implies.
LEMMA SettlesFacts ==
    ASSUME TypeOK, RowsInv, Settles
    PROVE  /\ DOMAIN attempts' = DOMAIN attempts
           /\ \A i \in DOMAIN attempts : attempts'[i].boot = attempts[i].boot
           /\ \E id \in DOMAIN attempts :
                /\ attempts[id].outcome = "none" /\ attempts'[id].outcome # "none"
                /\ Active => id = request
                /\ \A i \in DOMAIN attempts : i # id => attempts'[i] = attempts[i]
                /\ attempts'[id].reservation = "released" =>
                       \/ id.trigger = "cycle"
                       \/ phase = "settle" /\ id = request /\ ~Final(result)
  <1> PICK id \in DOMAIN attempts, o \in Outcomes \ {"none"},
           r \in {"settled", "released", "quarantined"}, x \in SUBSET Hashes :
        /\ attempts[id].outcome = "none"
        /\ attempts' = settle_rebalance_attempt(id, o, r, x)
        /\ Active => id = request
        /\ r = "released" => \/ id.trigger = "cycle"
                             \/ phase = "settle" /\ id = request /\ ~Final(result)
    BY DEF Settles
  <1>1. attempts[id].reservation = "active" BY DEF RowsInv
  <1>2. r \in Reservations /\ o \in Outcomes BY DEF Reservations
  <1>3. /\ DOMAIN attempts' = DOMAIN attempts
        /\ attempts'[id].outcome = o /\ attempts'[id].boot = attempts[id].boot
        /\ attempts'[id].reservation = r
        /\ \A i \in DOMAIN attempts : i # id => attempts'[i] = attempts[i]
    BY <1>1, <1>2, SettleTyped
  <1> QED BY <1>3

\* The late intents stay of this process or an earlier one.
LEMMA LateStep ==
    TypeInv /\ RowsInv /\ [Next]_vars =>
        /\ \A k \in 1..Len(late') : late'[k].boot <= crashes'
        /\ crashes <= crashes' /\ crashes' \in Nat
  <1> SUFFICES ASSUME TypeInv, TypeOK, RowsInv, [Next]_vars
               PROVE  /\ \A k \in 1..Len(late') : late'[k].boot <= crashes'
                      /\ crashes <= crashes' /\ crashes' \in Nat
    BY TypeParts
  <1>0. crashes \in Nat /\ late \in Seq(Intent) BY DEF TypeOK
  <1>1. ASSUME UNCHANGED <<late, crashes>> PROVE
               /\ \A k \in 1..Len(late') : late'[k].boot <= crashes'
               /\ crashes <= crashes' /\ crashes' \in Nat
    BY <1>0, <1>1 DEF RowsInv
  <1>2. ASSUME NEW intent \in Intent, intent.boot = crashes, UNCHANGED crashes,
               late' = Append(late, intent)
        PROVE  /\ \A k \in 1..Len(late') : late'[k].boot <= crashes'
               /\ crashes <= crashes' /\ crashes' \in Nat
    <2>1. Len(late') = Len(late) + 1 /\ Len(late) \in Nat BY <1>0, <1>2
    <2>2. \A k \in 1..Len(late) : late'[k] = late[k] BY <1>0, <1>2
    <2>3. late'[Len(late) + 1] = intent BY <1>0, <1>2
    <2> QED BY <1>0, <1>2, <2>1, <2>2, <2>3 DEF RowsInv
  <1>3. ASSUME NEW pair \in Pairs, NEW amount \in Amounts, NEW force \in BOOLEAN,
               \/ SubmitAccepted(pair, amount, force) \/ SubmitRefused(pair, amount, force)
               \/ SubmitUnknown(pair, amount, force)
        PROVE  /\ \A k \in 1..Len(late') : late'[k].boot <= crashes'
               /\ crashes <= crashes' /\ crashes' \in Nat
    <2>1. CASE SubmitUnknown(pair, amount, force)
      BY <2>1, <1>2, IntentTyped DEF SubmitUnknown, CountSubmission
    <2> QED BY <1>1, <1>3, <2>1 DEF SubmitAccepted, SubmitRefused, CountSubmission, store
  <1>4. CASE StoreLands
    <2>1. late # <<>> /\ late' = Tail(late) /\ UNCHANGED crashes BY <1>4 DEF StoreLands
    <2>2. Len(late') = Len(late) - 1 /\ Len(late) \in Nat BY <1>0, <2>1
    <2>3. \A k \in 1..Len(late') : late'[k] = late[k + 1] /\ k + 1 \in 1..Len(late)
      BY <1>0, <2>1, <2>2
    <2> QED BY <1>0, <2>1, <2>3 DEF RowsInv
  <1>5. CASE Execution
    BY <1>1, <1>5 DEF Execution, EngineRefuses, ExecuteStopsBeforeWrite, InvoiceFails,
        Invoiced, SendpayAccepted, SendpayRejected, SendpayTimesOut, TransportFails,
        WaitCompletes, WaitFails, WaitUnresolved, retry_with_exclusions,
        retry_with_partial_amounts, FinishExecution, EndTry, Retry, store
  <1>6. CASE \E amount \in Amounts : RecordInsert(amount)
    <2> PICK amount \in Amounts : RecordInsert(amount) BY <1>6
    <2>1. UNCHANGED late \/ late' = Append(late, CycleIntent(amount))
      BY DEF RecordInsert, CycleIntent, store
    <2>2. UNCHANGED crashes BY DEF RecordInsert
    <2> QED BY <2>1, <2>2, <1>1, <1>2, CycleIntentTyped
  <1>7. CASE \/ Settle \/ RecordSettle \/ SettleFails \/ RecordRefused \/ run_cycle
             \/ ReconcileStart \/ (\E id \in orphans : ReconcileOrphan(id))
             \/ ReconcileEnds \/ Tick \/ \E h \in DOMAIN wire : NodeDecides(h)
    BY <1>1, <1>7 DEF Settle, RecordSettle, SettleFails, RecordRefused, Suspend, run_cycle,
        ReconcileStart, ReconcileOrphan, ReconcileEnds, Tick, NodeDecides, store
  <1>8. CASE Crash
    <2>1. late' = <<>> /\ crashes' = crashes + 1 BY <1>8 DEF Crash
    <2> QED BY <1>0, <2>1
  <1>9. CASE UNCHANGED vars BY <1>1, <1>9 DEF vars
  <1> QED BY <1>3, <1>4, <1>5, <1>6, <1>7, <1>8, <1>9 DEF Next

\* Open rows keep their reservation and no row is of a later process.
LEMMA RowsStep == TypeInv /\ PayInv /\ [Next]_vars => RowsInv'
  <1> SUFFICES ASSUME TypeInv, TypeOK, PayInv, [Next]_vars PROVE RowsInv'
    BY TypeParts
  <1>1. RowsInv BY DEF PayInv
  <1>2. /\ \A k \in 1..Len(late') : late'[k].boot <= crashes'
        /\ crashes <= crashes' /\ crashes' \in Nat /\ crashes \in Nat
    BY <1>1, LateStep DEF TypeOK
  <1>3. \A i \in DOMAIN attempts : attempts[i].boot \in Nat
    BY DEF TypeOK, Attempt
  <1>4. CASE UNCHANGED attempts BY <1>1, <1>2, <1>3, <1>4 DEF RowsInv
  <1>5. CASE Inserts
    <2>1. UNCHANGED crashes BY <1>5 DEF Inserts
    <2> QED BY <1>1, <1>2, <1>5, <2>1, InsertsFacts DEF RowsInv
  <1>6. CASE Settles
    <2>1. UNCHANGED crashes BY <1>6 DEF Settles
    <2> QED BY <1>1, <1>2, <1>6, <2>1, SettlesFacts DEF RowsInv
  <1> QED BY <1>4, <1>5, <1>6, RowStep

\* A recorded outcome is final: SettledOnce for every step.
LEMMA OutcomeStep == TypeInv /\ PayInv /\ [Next]_vars => OutcomeIsFinal
  <1> SUFFICES ASSUME TypeInv, TypeOK, PayInv, [Next]_vars PROVE OutcomeIsFinal
    BY TypeParts
  <1>1. RowsInv BY DEF PayInv
  <1>2. CASE UNCHANGED attempts BY <1>2 DEF OutcomeIsFinal
  <1>3. CASE Inserts BY <1>3, InsertsFacts DEF OutcomeIsFinal
  <1>4. CASE Settles BY <1>1, <1>4, SettlesFacts DEF OutcomeIsFinal
  <1> QED BY <1>2, <1>3, <1>4, RowStep

\* The rows of every step, as far as the submission under way is concerned.
LEMMA KeptRows ==
    TypeInv /\ PayInv /\ [Next]_vars =>
        /\ DOMAIN attempts \subseteq DOMAIN attempts'
        /\ \A i \in DOMAIN attempts : attempts'[i].boot = attempts[i].boot
        /\ Active' => \A i \in DOMAIN attempts : attempts'[i] = attempts[i]
  <1> SUFFICES ASSUME TypeInv, TypeOK, PayInv, [Next]_vars
               PROVE  /\ DOMAIN attempts \subseteq DOMAIN attempts'
                      /\ \A i \in DOMAIN attempts : attempts'[i].boot = attempts[i].boot
                      /\ Active' => \A i \in DOMAIN attempts : attempts'[i] = attempts[i]
    BY TypeParts
  <1>1. CASE UNCHANGED attempts BY <1>1
  <1>2. CASE Inserts BY <1>2, InsertsFacts
  <1>3. CASE Settles BY <1>3, SettlesFacts DEF PayInv, Settles
  <1> QED BY <1>1, <1>2, <1>3, RowStep

\* The steps that begin, continue or end a submission.
LEMMA JobInvStep == TypeInv /\ PayInv /\ [Next]_vars => JobInv'
  <1> SUFFICES ASSUME TypeInv, TypeOK, PayInv, [Next]_vars PROVE JobInv'
    BY TypeParts
  <1>0. JobInv BY DEF PayInv
  <1>1. ASSUME Active, request' = request, phase' # "recordSettle",
               UNCHANGED <<crashes, suspended>>,
               stage' = "partial" => ~Final(prior')
        PROVE  JobInv'
    <2> SUFFICES ASSUME Active' PROVE JobInv'
      BY <1>1 DEF JobInv
    <2>1. request \in DOMAIN attempts /\ request.trigger = "manual"
          /\ attempts[request].outcome = "none" /\ attempts[request].boot = crashes /\ ~suspended
      BY <1>0, <1>1 DEF JobInv
    <2>2. request \in DOMAIN attempts' /\ attempts'[request] = attempts[request]
      BY <2>1, KeptRows
    <2> QED BY <1>1, <2>1, <2>2 DEF JobInv
  <1>2. ASSUME ~Active', phase' = "recordSettle" => request'.trigger = "cycle"
        PROVE  JobInv'
    BY <1>2 DEF JobInv
  <1>3. ASSUME UNCHANGED <<phase, request, stage, prior, suspended, crashes>>
        PROVE  JobInv'
    <2>1. CASE Active BY <1>0, <1>1, <1>3, <2>1 DEF JobInv, Active, Final
    <2>2. CASE ~Active BY <1>0, <1>2, <1>3, <2>2 DEF JobInv, Active
    <2> QED BY <2>1, <2>2
  <1>4. CASE Execution
    <2>1. CASE retry_with_partial_amounts
      <3>1. /\ Active /\ request' = request /\ phase' = "execute"
            /\ UNCHANGED <<crashes, suspended>> /\ ~Final(result)
            /\ prior' = IF stage = "partial" THEN prior ELSE result
        BY <2>1 DEF retry_with_partial_amounts, Retry, Active, mem
      <3>2. ~Final(prior') BY <1>0, <3>1 DEF JobInv, Final
      <3> QED BY <1>1, <3>1, <3>2
    <2>2. CASE retry_with_exclusions
      <3>1. /\ Active /\ request' = request /\ phase' = "execute" /\ stage' = "excluded"
            /\ UNCHANGED <<crashes, suspended>>
        BY <2>2 DEF retry_with_exclusions, Retry, Active, mem
      <3> QED BY <1>1, <3>1
    <2>3. CASE ~(retry_with_partial_amounts \/ retry_with_exclusions)
      <3>1. /\ Active /\ phase' # "recordSettle"
            /\ UNCHANGED <<request, stage, prior, crashes, suspended>>
        BY <1>4, <2>3 DEF Execution, EngineRefuses, ExecuteStopsBeforeWrite, InvoiceFails,
            Invoiced, SendpayAccepted, SendpayRejected, SendpayTimesOut, TransportFails,
            WaitCompletes, WaitFails, WaitUnresolved, FinishExecution, EndTry, Active, mem, job
      <3>2. stage' = "partial" => ~Final(prior') BY <1>0, <3>1 DEF JobInv, Final
      <3> QED BY <1>1, <3>1, <3>2
    <2> QED BY <2>1, <2>2, <2>3
  <1>5. ASSUME NEW pair \in Pairs, NEW amount \in Amounts, NEW force \in BOOLEAN,
               \/ SubmitAccepted(pair, amount, force) \/ SubmitRefused(pair, amount, force)
               \/ SubmitUnknown(pair, amount, force)
        PROVE  JobInv'
    <2>1. CASE SubmitAccepted(pair, amount, force)
      <3> DEFINE intent == ManualIntent(pair, amount, force)
      <3>1. /\ intent \in Intent /\ intent.boot = crashes /\ intent.id.trigger = "manual"
        BY IntentTyped
      <3>2. /\ attempts' = insert_rebalance_attempt(intent) /\ request' = intent.id
            /\ phase' = "execute" /\ stage' = "first" /\ UNCHANGED <<suspended, crashes>>
            /\ ~suspended
        BY <2>1 DEF SubmitAccepted, CountSubmission, MaySubmit
      <3> HIDE DEF intent
      <3>3. intent.id \in DOMAIN attempts' /\ attempts'[intent.id] = NewRow(intent)
        BY <3>1, <3>2, InsertTyped
      <3>4. NewRow(intent).outcome = "none" /\ NewRow(intent).boot = intent.boot
        BY DEF NewRow
      <3> QED BY <3>1, <3>2, <3>3, <3>4 DEF JobInv, Active
    <2>2. CASE SubmitRefused(pair, amount, force) \/ SubmitUnknown(pair, amount, force)
      BY <1>3, <2>2 DEF SubmitRefused, SubmitUnknown, CountSubmission, job
    <2> QED BY <1>5, <2>1, <2>2
  <1>6. CASE StoreLands \/ Tick \/ \E h \in DOMAIN wire : NodeDecides(h)
    BY <1>3, <1>6 DEF StoreLands, Tick, NodeDecides, job, mem
  <1>7. CASE \E amount \in Amounts : RecordInsert(amount)
    <2> PICK amount \in Amounts : RecordInsert(amount) BY <1>7
    <2>1. request' = CycleIntent(amount).id /\ phase' = "recordSettle"
      BY DEF RecordInsert, CycleIntent
    <2> QED BY <1>2, <2>1, CycleIntentTyped DEF Active
  <1>8. CASE \/ Settle \/ SettleFails \/ RecordSettle \/ RecordRefused \/ run_cycle
             \/ ReconcileStart \/ (\E id \in orphans : ReconcileOrphan(id))
             \/ ReconcileEnds \/ Crash
    BY <1>2, <1>8 DEF Settle, SettleFails, RecordSettle, RecordRefused, Suspend, Return,
        run_cycle, ReconcileStart, ReconcileOrphan, ReconcileEnds, Crash, Active
  <1>9. CASE UNCHANGED vars BY <1>3, <1>9 DEF vars
  <1> QED BY <1>4, <1>5, <1>6, <1>7, <1>8, <1>9 DEF Next

\* A hash is its submission and its try.
LEMMA HashIs ==
    ASSUME TypeOK
    PROVE  /\ Hash \in Hashes /\ Hash.id = request /\ Hash.try = step
           /\ \A h \in DOMAIN wire : h.id = request /\ h.try = step => h = Hash
           /\ \A h \in DOMAIN wire : h.id \in Ids /\ h.try \in Nat
  BY DEF TypeOK, Hash, HashOf, Hashes

\* Of the submission under way, every payment but the present try's stays dead
\* over a step of the execution.
LEMMA WireInvStep == TypeInv /\ PayInv /\ [Next]_vars => WireInv'
  <1> SUFFICES ASSUME TypeInv, TypeOK, PayInv, [Next]_vars PROVE WireInv'
    BY TypeParts
  <1>0. /\ WireInv /\ JobInv /\ DOMAIN attempts \subseteq DOMAIN attempts' /\ step \in Nat
    BY KeptRows DEF PayInv, TypeOK
  <1>1. ASSUME ~Active', UNCHANGED wire PROVE WireInv'
    BY <1>0, <1>1 DEF WireInv
  <1>2. ASSUME UNCHANGED <<wire, cut, phase, request, step, result>> PROVE WireInv'
    BY <1>0, <1>2 DEF WireInv, Active, Dead, Live, Final
  \* The submission goes on without touching the wire.
  <1>3. ASSUME UNCHANGED <<wire, cut, request, step>>, Active,
               \/ phase = "execute"
               \/ phase = "sendpay" /\ phase' \in {"sendpay", "ended"}
               \/ phase = "waitsendpay" /\ phase' = "ended" /\ Final(result')
               \/ phase = "ended" /\ phase' = "settle" /\ (~Final(result') => ~Final(result))
        PROVE  WireInv'
    <2> SUFFICES ASSUME NEW h \in DOMAIN wire
                 PROVE  /\ h.id \in DOMAIN attempts' /\ h.id.trigger = "manual"
                        /\ Active' /\ h.id = request =>
                            /\ h.try <= step
                            /\ phase' \in {"execute", "sendpay"} => h.try < step
                            /\ h.try < step => Dead(h)
                            /\ phase' \in {"ended", "settle"} /\ ~Final(result') => Dead(h)
      BY <1>3 DEF WireInv, Dead, Live, Active, Final
    <2>1. h.try \in Nat BY HashIs
    <2>2. /\ h.id \in DOMAIN attempts /\ h.id.trigger = "manual"
          /\ h.id = request =>
              /\ h.try <= step
              /\ phase \in {"execute", "sendpay"} => h.try < step
              /\ h.try < step => Dead(h)
              /\ phase \in {"ended", "settle"} /\ ~Final(result) => Dead(h)
      BY <1>0, <1>3 DEF WireInv
    <2> QED BY <1>0, <1>3, <2>1, <2>2
  \* The present try is sent, or its reply is lost.
  <1>4. ASSUME NEW status \in {"inflight", "doomed"}, wire' = SentAs(status) \/ UNCHANGED wire,
               cut \subseteq cut', UNCHANGED <<request, step>>,
               phase \in {"sendpay", "waitsendpay"}, phase' \in {"waitsendpay", "ended"},
               phase' = "waitsendpay" \/ Final(result') \/ Hash \in cut'
        PROVE  WireInv'
    <2> SUFFICES ASSUME NEW h \in DOMAIN wire'
                 PROVE  /\ h.id \in DOMAIN attempts' /\ h.id.trigger = "manual"
                        /\ h.id = request =>
                            /\ h.try <= step
                            /\ h.try < step => Dead(h)'
                            /\ phase' = "ended" /\ ~Final(result') => Dead(h)'
      BY <1>4 DEF WireInv, Active, Dead
    <2>1. CASE h = Hash
      <3>1. request \in DOMAIN attempts /\ request.trigger = "manual"
        BY <1>0, <1>4 DEF JobInv, Active
      <3> QED BY <1>0, <1>4, <2>1, <3>1, HashIs DEF Dead
    <2>2. CASE h # Hash
      <3>1. h \in DOMAIN wire /\ wire'[h] = wire[h] BY <1>4, <2>2, SentTyped
      <3>2. h.id = request => h.try # step /\ h.try \in Nat BY <2>2, <3>1, HashIs
      <3>3. /\ h.id \in DOMAIN attempts /\ h.id.trigger = "manual"
            /\ h.id = request => h.try <= step /\ (h.try < step => Dead(h))
        BY <1>0, <1>4, <3>1 DEF WireInv, Active
      <3>4. Dead(h) => Dead(h)' BY <1>4, <3>1 DEF Dead, Live
      <3> QED BY <1>0, <3>2, <3>3, <3>4
    <2> QED BY <2>1, <2>2
  <1>5. CASE Execution
    <2>1. CASE EngineRefuses \/ ExecuteStopsBeforeWrite \/ InvoiceFails \/ Invoiced
               \/ SendpayRejected \/ WaitCompletes \/ WaitUnresolved
      <3>1. /\ UNCHANGED <<wire, cut, request, step>> /\ Active
            /\ \/ phase = "execute"
               \/ phase = "sendpay" /\ phase' = "ended"
               \/ phase = "waitsendpay" /\ phase' = "ended" /\ Final(result')
        BY <2>1 DEF EngineRefuses, ExecuteStopsBeforeWrite, InvoiceFails, Invoiced,
            SendpayRejected, WaitCompletes, WaitUnresolved, EndTry, Active, node, job,
            Final, Plain
      <3> QED BY <1>3, <3>1
    <2>2. CASE FinishExecution
      <3>1. /\ UNCHANGED <<wire, cut, request, step>> /\ Active
            /\ phase = "ended" /\ phase' = "settle" /\ (~Final(result') => ~Final(result))
        BY <2>2 DEF FinishExecution, Active, node, Final
      <3> QED BY <1>3, <3>1
    <2>3. CASE SendpayAccepted
      BY <1>4, <2>3 DEF SendpayAccepted, job
    <2>4. CASE SendpayTimesOut
      BY <1>4, <2>4 DEF SendpayTimesOut, EndTry, Final, Plain
    <2>5. CASE TransportFails
      BY <1>4, <2>5 DEF TransportFails, EndTry
    <2>6. CASE WaitFails
      <3>1. /\ UNCHANGED <<wire, cut, request, step>> /\ phase' = "ended"
            /\ phase = "waitsendpay" /\ wire[Hash] = "failed"
        BY <2>6 DEF WaitFails, EndTry, node
      <3> SUFFICES ASSUME NEW h \in DOMAIN wire
                   PROVE  /\ h.id \in DOMAIN attempts' /\ h.id.trigger = "manual"
                          /\ h.id = request => h.try <= step /\ Dead(h)
        BY <3>1 DEF WireInv, Dead, Live
      <3>2. /\ h.id \in DOMAIN attempts /\ h.id.trigger = "manual"
            /\ h.id = request => h.try <= step /\ (h.try < step => Dead(h))
        BY <1>0, <3>1 DEF WireInv, Active
      <3>3. h.try \in Nat /\ (h.id = request /\ h.try = step => h = Hash) BY HashIs
      <3>4. h = Hash => Dead(h) BY <3>1 DEF Dead, Live
      <3> QED BY <1>0, <3>2, <3>3, <3>4
    <2>7. CASE retry_with_exclusions \/ retry_with_partial_amounts
      <3>1. /\ phase = "ended" /\ ~Final(result) /\ phase' = "execute" /\ step' = step + 1
            /\ UNCHANGED <<wire, cut, request>>
        BY <2>7 DEF retry_with_exclusions, retry_with_partial_amounts, Retry, node
      <3> SUFFICES ASSUME NEW h \in DOMAIN wire
                   PROVE  /\ h.id \in DOMAIN attempts' /\ h.id.trigger = "manual"
                          /\ h.id = request => h.try <= step + 1 /\ h.try < step + 1 /\ Dead(h)
        BY <3>1 DEF WireInv, Dead, Live
      <3>2. h.try \in Nat BY HashIs
      <3>3. /\ h.id \in DOMAIN attempts /\ h.id.trigger = "manual"
            /\ h.id = request => h.try <= step /\ Dead(h)
        BY <1>0, <3>1 DEF WireInv, Active
      <3> QED BY <1>0, <3>2, <3>3
    <2> QED BY <1>5, <2>1, <2>2, <2>3, <2>4, <2>5, <2>6, <2>7 DEF Execution
  <1>6. ASSUME NEW pair \in Pairs, NEW amount \in Amounts, NEW force \in BOOLEAN,
               \/ SubmitAccepted(pair, amount, force) \/ SubmitRefused(pair, amount, force)
               \/ SubmitUnknown(pair, amount, force)
        PROVE  WireInv'
    <2>1. CASE SubmitAccepted(pair, amount, force)
      <3>1. request' \notin DOMAIN attempts /\ UNCHANGED wire
        BY <2>1 DEF SubmitAccepted, CountSubmission, node
      <3> QED BY <1>0, <3>1 DEF WireInv
    <2>2. CASE SubmitRefused(pair, amount, force) \/ SubmitUnknown(pair, amount, force)
      BY <1>2, <2>2 DEF SubmitRefused, SubmitUnknown, CountSubmission, job, node
    <2> QED BY <1>6, <2>1, <2>2
  <1>7. CASE \E h \in DOMAIN wire : NodeDecides(h)
    <2> PICK g \in DOMAIN wire : NodeDecides(g) BY <1>7
    <2>1. /\ UNCHANGED <<cut, phase, request, step, result>> /\ DOMAIN wire' = DOMAIN wire
          /\ \A h \in DOMAIN wire : Live(h)' => Live(h)
      BY DEF NodeDecides, job, Live
    <2> QED BY <1>0, <2>1 DEF WireInv, Active, Dead, Final
  <1>8. CASE StoreLands \/ Tick
    BY <1>2, <1>8 DEF StoreLands, Tick, job, node
  <1>9. CASE \/ Settle \/ SettleFails \/ RecordSettle \/ RecordRefused \/ run_cycle
             \/ (\E amount \in Amounts : RecordInsert(amount))
             \/ ReconcileStart \/ (\E id \in orphans : ReconcileOrphan(id))
             \/ ReconcileEnds \/ Crash
    BY <1>1, <1>9 DEF Settle, SettleFails, RecordSettle, RecordRefused, Suspend, Return,
        run_cycle, RecordInsert, ReconcileStart, ReconcileOrphan, ReconcileEnds, Crash,
        Active, node
  <1>10. CASE UNCHANGED vars BY <1>2, <1>10 DEF vars
  <1> QED BY <1>5, <1>6, <1>7, <1>8, <1>9, <1>10 DEF Next

-----------------------------------------------------------------------------
(* What a step does to the payments. *)

\* The present try goes on the wire, or is doomed by the cleanup.
Sends ==
    /\ \E status \in {"inflight", "doomed"} : wire' = SentAs(status)
    /\ phase \in {"sendpay", "waitsendpay"} /\ Active'
    /\ cut \subseteq cut' /\ UNCHANGED <<attempts, request, step, crashes, suspended>>

\* The node decides one payment: nothing comes to life.
Decides ==
    /\ DOMAIN wire' = DOMAIN wire /\ \A h \in DOMAIN wire : Live(h)' => Live(h)
    /\ UNCHANGED <<attempts, cut, phase, request, crashes, suspended>>

\* Every step leaves the payments alone, sends one or decides one.
LEMMA WireStep ==
    [Next]_vars => (UNCHANGED wire /\ cut \subseteq cut') \/ Sends \/ Decides
  <1> SUFFICES ASSUME [Next]_vars
               PROVE  (UNCHANGED wire /\ cut \subseteq cut') \/ Sends \/ Decides
    OBVIOUS
  <1>1. CASE Execution
    <2>1. CASE SendpayAccepted
      BY <2>1 DEF SendpayAccepted, Sends, Active, job, mem, store
    <2>2. CASE SendpayTimesOut
      BY <2>2 DEF SendpayTimesOut, EndTry, Sends, Active, mem, store
    <2>3. CASE TransportFails
      BY <2>3 DEF TransportFails, EndTry, Sends, Active, mem, store
    <2> QED BY <1>1, <2>1, <2>2, <2>3 DEF Execution, EngineRefuses,
            ExecuteStopsBeforeWrite, InvoiceFails, Invoiced, SendpayRejected,
            WaitCompletes, WaitFails, WaitUnresolved, retry_with_exclusions,
            retry_with_partial_amounts, FinishExecution, Retry, node
  <1>2. CASE \E h \in DOMAIN wire : NodeDecides(h)
    BY <1>2 DEF NodeDecides, Decides, Live, job, mem, store
  <1>3. CASE \E pair \in Pairs, amount \in Amounts, force \in BOOLEAN :
                \/ SubmitAccepted(pair, amount, force)
                \/ SubmitRefused(pair, amount, force)
                \/ SubmitUnknown(pair, amount, force)
    BY <1>3 DEF SubmitAccepted, SubmitRefused, SubmitUnknown, CountSubmission, node
  <1>4. CASE \/ StoreLands \/ Settle \/ SettleFails \/ run_cycle
             \/ (\E amount \in Amounts : RecordInsert(amount)) \/ RecordSettle
             \/ RecordRefused \/ ReconcileStart
             \/ (\E id \in orphans : ReconcileOrphan(id)) \/ ReconcileEnds \/ Tick \/ Crash
    BY <1>4 DEF StoreLands, Settle, SettleFails, Suspend, run_cycle, RecordInsert,
        RecordSettle, RecordRefused, ReconcileStart, ReconcileOrphan, ReconcileEnds, Tick,
        Crash, node
  <1>5. CASE UNCHANGED vars BY <1>5 DEF vars
  <1> QED BY <1>1, <1>2, <1>3, <1>4, <1>5 DEF Next

\* A reservation that is released keeps its payments dead.
LEMMA ReleasedStep ==
    TypeInv /\ PayInv /\ PayInv' /\ ReleasedMovedNothing /\ [Next]_vars
        => ReleasedMovedNothing'
  <1> SUFFICES ASSUME TypeInv, TypeOK, PayInv, PayInv', ReleasedMovedNothing, [Next]_vars,
                      NEW h \in DOMAIN wire' \ cut', h.id \in DOMAIN attempts',
                      attempts'[h.id].reservation = "released", Live(h)'
               PROVE  FALSE
    BY TypeParts DEF ReleasedMovedNothing
  <1>1. CASE Sends
    <2>1. PICK status \in {"inflight", "doomed"} : wire' = SentAs(status) BY <1>1 DEF Sends
    <2>2. CASE h = Hash
      <3>1. h.id = request /\ attempts'[request] = attempts[request]
        BY <1>1, <2>2, HashIs DEF Sends
      <3>2. attempts[request].reservation = "active"
        BY <1>1 DEF PayInv, JobInv, RowsInv, Sends, Active
      <3> QED BY <3>1, <3>2
    <2>3. CASE h # Hash
      <3>1. h \in DOMAIN wire \ cut /\ wire'[h] = wire[h]
        BY <1>1, <2>1, <2>3, SentTyped DEF Sends
      <3> QED BY <1>1, <3>1 DEF ReleasedMovedNothing, Live, Sends
    <2> QED BY <2>2, <2>3
  <1>2. CASE Decides
    BY <1>2 DEF Decides, ReleasedMovedNothing
  <1>3. CASE UNCHANGED wire /\ cut \subseteq cut'
    <2>0. h \in DOMAIN wire \ cut /\ Live(h) /\ h.id \in DOMAIN attempts
          /\ h.id.trigger = "manual"
      BY <1>3 DEF Live, PayInv, WireInv
    <2>1. CASE UNCHANGED attempts
      BY <2>0, <2>1 DEF ReleasedMovedNothing
    <2>2. CASE Inserts
      BY <2>0, <2>2, InsertsFacts DEF ReleasedMovedNothing
    <2>3. CASE Settles
      <3>1. PICK id \in DOMAIN attempts :
                /\ \A i \in DOMAIN attempts : i # id => attempts'[i] = attempts[i]
                /\ attempts'[id].reservation = "released" =>
                       \/ id.trigger = "cycle"
                       \/ phase = "settle" /\ id = request /\ ~Final(result)
        BY <2>3, SettlesFacts DEF PayInv
      <3>2. CASE h.id = id
        <4>1. phase = "settle" /\ h.id = request /\ ~Final(result) BY <2>0, <3>1, <3>2
        <4>2. Dead(h) BY <2>0, <4>1 DEF PayInv, WireInv, Active
        <4> QED BY <2>0, <4>2 DEF Dead
      <3>3. CASE h.id # id
        BY <2>0, <3>1, <3>3 DEF ReleasedMovedNothing
      <3> QED BY <3>2, <3>3
    <2> QED BY <2>1, <2>2, <2>3, RowStep
  <1> QED BY <1>1, <1>2, <1>3, WireStep

\* A new try finds the earlier ones dead.
LEMMA OneLiveStep ==
    TypeInv /\ PayInv /\ OneLivePayment /\ [Next]_vars => OneLivePayment'
  <1> SUFFICES ASSUME TypeInv, TypeOK, PayInv, OneLivePayment, [Next]_vars,
                      NEW g \in DOMAIN wire' \ cut', NEW h \in DOMAIN wire' \ cut',
                      g.id = h.id, Live(g)', Live(h)', g # h
               PROVE  FALSE
    BY TypeParts DEF OneLivePayment
  <1>1. CASE Sends
    <2>1. PICK status \in {"inflight", "doomed"} : wire' = SentAs(status) BY <1>1 DEF Sends
    <2>2. ASSUME NEW x \in DOMAIN wire' \ cut', Live(x)', x # Hash
          PROVE  x \in DOMAIN wire \ cut /\ Live(x) /\ x.id # request
      <3>1. x \in DOMAIN wire \ cut /\ wire'[x] = wire[x] /\ Live(x)
        BY <1>1, <2>1, <2>2, SentTyped DEF Sends, Live
      <3>2. CASE x.id = request
        <4>1. x.try <= step /\ (x.try < step => Dead(x))
          BY <1>1, <3>1, <3>2 DEF PayInv, WireInv, Sends, Active
        <4>2. x.try # step /\ x.try \in Nat /\ step \in Nat
          BY <2>2, <3>1, <3>2, HashIs DEF TypeOK
        <4>3. Dead(x) BY <4>1, <4>2
        <4> QED BY <3>1, <4>3 DEF Dead
      <3> QED BY <3>1, <3>2
    <2>3. Hash.id = request BY HashIs
    <2> QED BY <2>2, <2>3 DEF OneLivePayment
  <1>2. CASE Decides
    BY <1>2 DEF Decides, OneLivePayment
  <1>3. CASE UNCHANGED wire /\ cut \subseteq cut'
    BY <1>3 DEF OneLivePayment, Live
  <1> QED BY <1>1, <1>2, <1>3, WireStep

\* A settlement that fails suspends the owner, so what is left open stays the
\* last of its process.
LEMMA OwnedStep ==
    TypeInv /\ PayInv /\ UnsettledOwned /\ [Next]_vars => UnsettledOwned'
  <1> SUFFICES ASSUME TypeInv, TypeOK, PayInv, UnsettledOwned, [Next]_vars
               PROVE  UnsettledOwned'
    BY TypeParts
  <1>0. \A h \in DOMAIN wire : h.id \in DOMAIN attempts BY DEF PayInv, WireInv
  <1>1. CASE Settles
    <2>1. PICK id \in DOMAIN attempts :
            /\ attempts'[id].outcome # "none" /\ (Active => id = request)
            /\ \A i \in DOMAIN attempts : i # id => attempts'[i] = attempts[i]
      BY <1>1, SettlesFacts DEF PayInv
    <2>2. UNCHANGED <<wire, crashes, suspended>> BY <1>1 DEF Settles
    <2> QED BY <1>0, <2>1, <2>2 DEF UnsettledOwned, Unsettled
  <1>2. CASE UNCHANGED attempts \/ Inserts
    <2>0. \A i \in DOMAIN attempts : i \in DOMAIN attempts' /\ attempts'[i] = attempts[i]
      BY <1>2, InsertsFacts
    <2>1. ASSUME UNCHANGED <<crashes, suspended>>, DOMAIN wire' = DOMAIN wire,
                 Active => Active' /\ request' = request
          PROVE  UnsettledOwned'
      BY <1>0, <2>0, <2>1 DEF UnsettledOwned, Unsettled
    <2>2. CASE Sends
      <3>1. PICK status \in {"inflight", "doomed"} : wire' = SentAs(status)
        BY <2>2 DEF Sends
      <3>2. DOMAIN wire' = DOMAIN wire \cup {Hash} /\ Hash.id = request
        BY <3>1, SentTyped, HashIs
      <3> QED BY <1>0, <2>0, <2>2, <3>2 DEF UnsettledOwned, Unsettled, Sends
    <2>3. CASE Decides BY <2>1, <2>3 DEF Decides, Active
    <2>4. CASE UNCHANGED wire
      <3>1. CASE Execution
        BY <2>1, <2>4, <3>1 DEF Execution, EngineRefuses, ExecuteStopsBeforeWrite,
            InvoiceFails, Invoiced, SendpayAccepted, SendpayRejected, SendpayTimesOut,
            TransportFails, WaitCompletes, WaitFails, WaitUnresolved, retry_with_exclusions,
            retry_with_partial_amounts, FinishExecution, EndTry, Retry, Active, mem, job
      <3>2. CASE \E pair \in Pairs, amount \in Amounts, force \in BOOLEAN :
                    \/ SubmitAccepted(pair, amount, force)
                    \/ SubmitRefused(pair, amount, force)
                    \/ SubmitUnknown(pair, amount, force)
        BY <2>1, <2>4, <3>2 DEF SubmitAccepted, SubmitRefused, SubmitUnknown, MaySubmit,
            CountSubmission, Active
      <3>3. CASE StoreLands \/ Tick
        BY <2>1, <2>4, <3>3 DEF StoreLands, Tick, job, mem, Active
      <3>4. CASE SettleFails \/ RecordRefused
        BY <3>4 DEF SettleFails, RecordRefused, Suspend, UnsettledOwned
      <3>5. CASE \/ run_cycle \/ (\E amount \in Amounts : RecordInsert(amount))
                 \/ RecordSettle \/ ReconcileStart
                 \/ (\E id \in orphans : ReconcileOrphan(id)) \/ ReconcileEnds
        BY <2>1, <2>4, <3>5 DEF run_cycle, RecordInsert, RecordSettle, ReconcileStart,
            ReconcileOrphan, ReconcileEnds, mem, Active
      <3>6. CASE Settle
        <4>1. request \in DOMAIN attempts /\ attempts[request].outcome = "none"
              /\ result \in Results
          BY <3>6 DEF Settle, Settleable, TypeOK
        <4>2. ResultHash \in SUBSET Hashes BY DEF ResultHash, HashOf, Hashes, TypeOK
        <4>3. attempts'[request].outcome = classify_execution(result)
          BY <3>6, <4>1, <4>2, OutcomeTyped, SettleTyped DEF Settle, SettledWith, Reservations
        <4>4. attempts'[request].outcome # "none" BY <4>1, <4>3, OutcomeTyped
        <4> QED BY <2>0, <4>1, <4>4
      <3>7. CASE Crash
        <4>1. crashes' = crashes + 1 /\ crashes \in Nat BY <3>7 DEF Crash, TypeOK
        <4>2. \A i \in DOMAIN attempts : attempts[i].boot <= crashes /\ attempts[i].boot \in Nat
          BY DEF PayInv, RowsInv, TypeOK, Attempt
        <4>3. \A h \in DOMAIN wire' : attempts'[h.id].boot # crashes'
          BY <1>0, <2>0, <2>4, <4>1, <4>2
        <4> QED BY <4>3 DEF UnsettledOwned
      <3>8. CASE UNCHANGED vars BY <2>1, <2>4, <3>8 DEF vars, Active
      <3>9. CASE \E h \in DOMAIN wire : NodeDecides(h)
        BY <2>1, <2>4, <3>9 DEF NodeDecides, job, mem, Active
      <3> QED BY <3>1, <3>2, <3>3, <3>4, <3>5, <3>6, <3>7, <3>8, <3>9 DEF Next
    <2> QED BY <2>2, <2>3, <2>4, WireStep
  <1> QED BY <1>1, <1>2, RowStep

\* A new payment finds no other open submission of its process.
LEMMA OneUnsettledStep ==
    TypeInv /\ PayInv /\ UnsettledOwned /\ OneUnsettled /\ [Next]_vars => OneUnsettled'
  <1> SUFFICES ASSUME TypeInv, TypeOK, PayInv, UnsettledOwned, OneUnsettled, [Next]_vars,
                      NEW g \in DOMAIN wire', NEW h \in DOMAIN wire',
                      Unsettled(g)', Unsettled(h)', attempts'[g.id].boot = attempts'[h.id].boot
               PROVE  g.id = h.id
    BY TypeParts DEF OneUnsettled
  <1>0. \A x \in DOMAIN wire : x.id \in DOMAIN attempts BY DEF PayInv, WireInv
  <1>1. ASSUME NEW x \in DOMAIN wire, Unsettled(x)'
        PROVE  Unsettled(x) /\ attempts'[x.id] = attempts[x.id]
    <2>1. x.id \in DOMAIN attempts BY <1>0
    <2>2. CASE UNCHANGED attempts \/ Inserts
      BY <1>1, <2>1, <2>2, InsertsFacts DEF Unsettled
    <2>3. CASE Settles
      BY <1>1, <2>1, <2>3, SettlesFacts DEF PayInv, Unsettled
    <2> QED BY <2>2, <2>3, RowStep
  <1>2. CASE DOMAIN wire' = DOMAIN wire
    BY <1>1, <1>2 DEF OneUnsettled
  <1>3. CASE Sends
    <2>1. PICK status \in {"inflight", "doomed"} : wire' = SentAs(status) BY <1>3 DEF Sends
    <2>2. DOMAIN wire' = DOMAIN wire \cup {Hash} /\ Hash.id = request
      BY <2>1, SentTyped, HashIs
    <2>3. attempts[request].boot = crashes /\ ~suspended /\ UNCHANGED attempts
      BY <1>3 DEF PayInv, JobInv, Sends, Active
    <2>4. ASSUME NEW x \in DOMAIN wire, Unsettled(x), attempts[x.id].boot = crashes
          PROVE  x.id = request
      BY <2>3, <2>4 DEF UnsettledOwned
    <2> QED BY <1>1, <2>2, <2>3, <2>4 DEF OneUnsettled
  <1> QED BY <1>2, <1>3, WireStep DEF Decides

-----------------------------------------------------------------------------
Inv ==
    /\ TypeInv /\ PayInv /\ UnsettledOwned
    /\ ReleasedMovedNothing /\ OneLivePayment /\ OneUnsettled

\* The invariant holds initially.
LEMMA InitInv == Init => Inv
  <1> SUFFICES ASSUME Init PROVE Inv OBVIOUS
  <1>1. TypeInv BY InitTyped
  <1>2. DOMAIN attempts = {} /\ DOMAIN wire = {} /\ late = <<>> BY DEF Init
  <1>3. ~Active /\ phase # "recordSettle" BY DEF Init, Active
  <1>4. PayInv
    BY <1>2, <1>3 DEF PayInv, RowsInv, JobInv, WireInv
  <1> QED BY <1>1, <1>2, <1>4 DEF Inv, UnsettledOwned, ReleasedMovedNothing, OneLivePayment,
             OneUnsettled

\* Every step keeps the invariant.
LEMMA InvStep == Inv /\ [Next]_vars => Inv'
  <1> SUFFICES ASSUME Inv, [Next]_vars PROVE Inv' OBVIOUS
  <1>1. TypeInv' BY StoreStep, NodeStep, MemStep, JobStep DEF TypeInv, Inv
  <1>2. PayInv' BY RowsStep, JobInvStep, WireInvStep DEF PayInv, Inv
  <1> QED BY <1>1, <1>2, ReleasedStep, OneLiveStep, OwnedStep, OneUnsettledStep DEF Inv

\* The invariant the theorems below are read off.
LEMMA Invariant == Spec => []Inv
  BY InitInv, InvStep, PTL DEF Spec

\* No payment is ever on the wire without its durable attempt row (manual's
\* two-phase intent, through lost store answers, retries and restarts).
THEOREM IntentDurable == Spec => []IntentBeforeWire
  <1>1. Inv => IntentBeforeWire BY DEF Inv, PayInv, WireInv, IntentBeforeWire
  <1> QED BY <1>1, Invariant, PTL

\* classify_execution and settlement_for never release a reservation whose
\* payment may still complete, unless the transport failed in its middle.
THEOREM ReleasedIsDead == Spec => []ReleasedMovedNothing
  <1>1. Inv => ReleasedMovedNothing BY DEF Inv
  <1> QED BY <1>1, Invariant, PTL

\* However often execute_pair retries, at most one payment of an attempt has
\* completed or still can, unless the transport failed in the middle of one.
THEOREM PaidAtMostOnce == Spec => []OneLivePayment
  <1>1. Inv => OneLivePayment BY DEF Inv
  <1> QED BY <1>1, Invariant, PTL

\* The suspension after a failed settlement: one process never leaves two
\* submissions with payments unsettled.
THEOREM OneOpenSubmission == Spec => []OneUnsettled
  <1>1. Inv => OneUnsettled BY DEF Inv
  <1> QED BY <1>1, Invariant, PTL

\* settle_rebalance_attempt's `outcome IS NULL` guard: outcomes are final over
\* repeated ids, reconciliation and restarts.
THEOREM OutcomesFinal == Spec => SettledOnce
  <1>1. Inv /\ [Next]_vars => [OutcomeIsFinal]_vars BY OutcomeStep DEF Inv
  <1> QED BY <1>1, Invariant, PTL DEF Spec, SettledOnce

-----------------------------------------------------------------------------
(* The budget window *)

\* The unforced manual holds of window t among the rows A, and what they add up to.
HoldsIn(A, t) ==
    {i \in DOMAIN A :
        /\ i.trigger = "manual" /\ ~A[i].forced /\ A[i].reservation \in {"active", "quarantined"}
        /\ i.at <= t /\ i.at + Window >= t}
AmountsIn(A) == [i \in DOMAIN A |-> A[i].amount]
HeldIn(A, t) == SumFunctionOnSet(AmountsIn(A), HoldsIn(A, t))

\* Counts against the budget once its row is written.
Counted(intent) == intent.id.trigger = "manual" /\ ~intent.forced

\* Room for the intent in every window that will count it.
HasRoom(A, intent) ==
    \A t \in Nat : intent.id.at <= t => HeldIn(A, t) + intent.amount <= DailyBudget

\* BudgetRespected for the windows to come too.  A late unforced intent was checked
\* with an empty queue, so it is the oldest one and its room is still there.
BudgetInv ==
    /\ IsFiniteSet(DOMAIN attempts)
    /\ \A t \in Nat : HeldIn(attempts, t) <= DailyBudget
    /\ \A k \in 1..Len(late) : Counted(late[k]) => k = 1 /\ HasRoom(attempts, late[k])

\* The holds of rows are rows, and their amounts are numbers.
LEMMA HoldsTyped ==
    ASSUME NEW A, RowsTyped(A), IsFiniteSet(DOMAIN A), NEW t \in Nat
    PROVE  /\ IsFiniteSet(HoldsIn(A, t)) /\ HeldIn(A, t) \in Nat
           /\ \A i \in DOMAIN A : AmountsIn(A)[i] = A[i].amount /\ A[i].amount \in Nat
  <1>1. HoldsIn(A, t) \subseteq DOMAIN A BY DEF HoldsIn
  <1>2. \A i \in DOMAIN A : AmountsIn(A)[i] = A[i].amount /\ A[i].amount \in Nat
    BY DEF AmountsIn, RowsTyped, Attempt
  <1>3. IsFiniteSet(HoldsIn(A, t)) BY <1>1, FS_Subset
  <1> QED BY <1>1, <1>2, <1>3, SumIsNat DEF HeldIn

\* Rows that hold no more, for the same amounts, add up to no more.
LEMMA HeldShrinks ==
    ASSUME NEW A, RowsTyped(A), IsFiniteSet(DOMAIN A), NEW B, RowsTyped(B),
           IsFiniteSet(DOMAIN B), NEW t \in Nat, HoldsIn(B, t) \subseteq HoldsIn(A, t),
           \A i \in HoldsIn(B, t) : B[i].amount = A[i].amount
    PROVE  HeldIn(B, t) <= HeldIn(A, t)
  <1>1. HoldsIn(A, t) \subseteq DOMAIN A /\ HoldsIn(B, t) \subseteq DOMAIN B BY DEF HoldsIn
  <1>2. \A i \in HoldsIn(A, t) : AmountsIn(A)[i] \in Nat BY <1>1, HoldsTyped
  <1>3. \A i \in HoldsIn(B, t) : AmountsIn(B)[i] = AmountsIn(A)[i] BY <1>1, HoldsTyped
  <1>4. IsFiniteSet(HoldsIn(A, t)) /\ IsFiniteSet(HoldsIn(B, t)) BY HoldsTyped
  <1>5. HeldIn(B, t) = SumFunctionOnSet(AmountsIn(A), HoldsIn(B, t))
    BY <1>3, <1>4, SumSame DEF HeldIn
  <1> QED BY <1>2, <1>4, <1>5, SumMonotone DEF HeldIn

\* A written intent adds its amount to the windows that count it, and to no other.
LEMMA InsertBudget ==
    ASSUME TypeOK, IsFiniteSet(DOMAIN attempts), NEW intent \in Intent,
           intent.id \notin DOMAIN attempts, Counted(intent) => HasRoom(attempts, intent),
           \A t \in Nat : HeldIn(attempts, t) <= DailyBudget
    PROVE  LET B == insert_rebalance_attempt(intent)
           IN  /\ IsFiniteSet(DOMAIN B)
               /\ \A t \in Nat : HeldIn(B, t) <= DailyBudget
  <1> DEFINE A == attempts
             B == insert_rebalance_attempt(intent)
  <1>1. /\ RowsTyped(A) /\ RowsTyped(B) /\ DOMAIN B = DOMAIN A \cup {intent.id}
        /\ B[intent.id] = NewRow(intent) /\ \A i \in DOMAIN A : B[i] = A[i]
    BY InsertTyped DEF TypeOK, RowsTyped
  <1>2. IsFiniteSet(DOMAIN A) /\ IsFiniteSet(DOMAIN B) BY <1>1, FS_AddElement
  <1>3. /\ NewRow(intent).amount = intent.amount /\ NewRow(intent).forced = intent.forced
        /\ intent.amount \in Nat /\ intent.id \in Ids
    BY DEF NewRow, Intent
  <1>4. intent.id \notin DOMAIN A /\ \A t \in Nat : HeldIn(A, t) <= DailyBudget OBVIOUS
  <1>5. Counted(intent) =>
            \A t \in Nat : intent.id.at <= t => HeldIn(A, t) + intent.amount <= DailyBudget
    BY DEF HasRoom
  <1>6. DailyBudget \in Nat BY OwnerAssumption
  <1> HIDE DEF A, B
  <1>7. ASSUME NEW t \in Nat PROVE HeldIn(B, t) <= DailyBudget
    <2>1. CASE intent.id \notin HoldsIn(B, t)
      <3>1. HoldsIn(B, t) \subseteq HoldsIn(A, t)
        BY <1>1, <2>1 DEF HoldsIn
      <3>2. \A i \in HoldsIn(B, t) : B[i].amount = A[i].amount
        BY <1>1, <3>1 DEF HoldsIn
      <3>3. HeldIn(B, t) <= HeldIn(A, t) BY <1>1, <1>2, <3>1, <3>2, HeldShrinks
      <3>4. HeldIn(A, t) \in Nat /\ HeldIn(B, t) \in Nat BY <1>1, <1>2, HoldsTyped
      <3> QED BY <1>4, <1>6, <3>3, <3>4
    <2>2. CASE intent.id \in HoldsIn(B, t)
      <3>1. Counted(intent) /\ intent.id.at <= t
        BY <1>1, <1>3, <2>2 DEF HoldsIn, Counted
      <3>2. HoldsIn(B, t) = HoldsIn(A, t) \cup {intent.id} /\ intent.id \notin HoldsIn(A, t)
        BY <1>1, <1>4, <2>2 DEF HoldsIn
      <3>3. /\ IsFiniteSet(HoldsIn(A, t)) /\ \A i \in HoldsIn(A, t) : AmountsIn(B)[i] = AmountsIn(A)[i]
            /\ \A i \in HoldsIn(A, t) \cup {intent.id} : AmountsIn(B)[i] \in Nat
            /\ AmountsIn(B)[intent.id] = intent.amount
        <4>1. /\ \A i \in DOMAIN A : AmountsIn(A)[i] = A[i].amount
              /\ \A i \in DOMAIN B : AmountsIn(B)[i] = B[i].amount /\ B[i].amount \in Nat
              /\ IsFiniteSet(HoldsIn(A, t))
          BY <1>1, <1>2, HoldsTyped
        <4>2. HoldsIn(A, t) \subseteq DOMAIN A BY DEF HoldsIn
        <4> QED BY <1>1, <1>3, <4>1, <4>2
      <3>4. SumFunctionOnSet(AmountsIn(B), HoldsIn(A, t)) = HeldIn(A, t)
        BY <3>3, SumSame DEF HeldIn
      <3>5. HeldIn(B, t) = intent.amount + HeldIn(A, t)
        BY <3>2, <3>3, <3>4, SumAdd DEF HeldIn
      <3>6. HeldIn(A, t) \in Nat BY <1>1, <1>2, HoldsTyped
      <3> QED BY <1>3, <1>5, <1>6, <3>1, <3>5, <3>6
    <2> QED BY <2>1, <2>2
  <1> QED BY <1>2, <1>7 DEF B

\* What the budget gate of an unforced submission leaves room for.
LEMMA GateHasRoom ==
    ASSUME TypeOK, IsFiniteSet(DOMAIN attempts), NEW pair \in Pairs, NEW amount \in Amounts,
           NEW force \in BOOLEAN, MaySubmit(pair, amount, force),
           Counted(ManualIntent(pair, amount, force))
    PROVE  late = <<>> /\ HasRoom(attempts, ManualIntent(pair, amount, force))
  <1> DEFINE intent == ManualIntent(pair, amount, force)
             recent == {i \in DOMAIN attempts : IsHold(i) /\ i.at + Window >= clock}
  <1>1. intent.id.at = clock /\ intent.amount = amount /\ intent.forced = force
    BY DEF ManualIntent
  <1>2. late = <<>> /\ active_rebalance_reserved_sats + amount <= DailyBudget
    BY <1>1 DEF MaySubmit, Counted
  <1>3. active_rebalance_reserved_sats = SumFunctionOnSet(AmountsIn(attempts), recent)
    BY DEF active_rebalance_reserved_sats, TotalOf, AmountsIn
  <1>4. RowsTyped(attempts) /\ clock \in Nat /\ Window \in Nat /\ amount \in Nat /\ DailyBudget \in Nat
    BY OwnerAssumption DEF TypeOK, RowsTyped
  <1>5. ASSUME NEW t \in Nat, clock <= t PROVE HeldIn(attempts, t) + amount <= DailyBudget
    <2>1. HoldsIn(attempts, t) \subseteq recent
      <3> SUFFICES ASSUME NEW i \in HoldsIn(attempts, t) PROVE i \in recent OBVIOUS
      <3>1. /\ i \in DOMAIN attempts /\ IsHold(i) /\ i.at + Window >= t
        BY DEF HoldsIn, IsHold
      <3>2. i.at \in Nat BY <3>1, <1>4 DEF RowsTyped, Ids
      <3> QED BY <3>1, <3>2, <1>4, <1>5
    <2>2. IsFiniteSet(recent) BY FS_Subset
    <2>3. \A i \in recent : AmountsIn(attempts)[i] \in Nat BY <1>4, HoldsTyped, <1>5
    <2> HIDE DEF recent
    <2>4. HeldIn(attempts, t) <= SumFunctionOnSet(AmountsIn(attempts), recent)
      BY <2>1, <2>2, <2>3, SumMonotone DEF HeldIn
    <2>5. SumFunctionOnSet(AmountsIn(attempts), recent) \in Nat /\ HeldIn(attempts, t) \in Nat
      BY <1>4, <2>2, <2>3, SumIsNat, HoldsTyped
    <2> QED BY <1>2, <1>3, <1>4, <2>4, <2>5
  <1> QED BY <1>1, <1>2, <1>5 DEF HasRoom

\* A settlement keeps every amount and starts no hold.
LEMMA SettleBudget ==
    ASSUME TypeOK, BudgetInv, Settles
    PROVE  IsFiniteSet(DOMAIN attempts') /\ \A t \in Nat : HeldIn(attempts', t) <= HeldIn(attempts, t)
  <1> PICK id \in DOMAIN attempts, o \in Outcomes \ {"none"},
           r \in {"settled", "released", "quarantined"}, x \in SUBSET Hashes :
        /\ attempts[id].outcome = "none"
        /\ attempts' = settle_rebalance_attempt(id, o, r, x)
    BY DEF Settles
  <1>1. attempts[id] \in Attempt /\ r \in Reservations /\ o \in Outcomes BY DEF TypeOK, Reservations
  <1>2. /\ RowsTyped(attempts') /\ DOMAIN attempts' = DOMAIN attempts
        /\ \A i \in DOMAIN attempts : i # id => attempts'[i] = attempts[i]
    BY <1>1, SettleTyped
  <1>3. /\ attempts'[id].amount = attempts[id].amount /\ attempts'[id].forced = attempts[id].forced
        /\ attempts'[id].reservation \in {"active", "quarantined"} =>
               attempts[id].reservation \in {"active", "quarantined"}
    <2>1. attempts'[id] = SettledRow(attempts[id], o, r, x)
      BY DEF settle_rebalance_attempt, TypeOK
    <2> QED BY <1>1, <2>1 DEF SettledRow, Attempt
  <1>4. RowsTyped(attempts) /\ IsFiniteSet(DOMAIN attempts) BY DEF TypeOK, RowsTyped, BudgetInv
  <1>5. ASSUME NEW t \in Nat PROVE HeldIn(attempts', t) <= HeldIn(attempts, t)
    <2>1. HoldsIn(attempts', t) \subseteq HoldsIn(attempts, t)
      BY <1>2, <1>3 DEF HoldsIn
    <2>2. \A i \in HoldsIn(attempts', t) : attempts'[i].amount = attempts[i].amount
      BY <1>2, <1>3 DEF HoldsIn
    <2> QED BY <1>2, <1>4, <2>1, <2>2, HeldShrinks
  <1> QED BY <1>2, <1>4, <1>5

\* The late part of BudgetInv, when the rows hold no more than before.
LEMMA LateBudget ==
    ASSUME TypeOK, BudgetInv, RowsTyped(attempts'), IsFiniteSet(DOMAIN attempts'),
           \A t \in Nat : HeldIn(attempts', t) <= HeldIn(attempts, t),
           NEW intent \in Intent, HasRoom(attempts, intent)
    PROVE  HasRoom(attempts', intent)
  <1> SUFFICES ASSUME NEW t \in Nat, intent.id.at <= t
               PROVE  HeldIn(attempts', t) + intent.amount <= DailyBudget
    BY DEF HasRoom
  <1>1. HeldIn(attempts, t) + intent.amount <= DailyBudget BY DEF HasRoom
  <1>2. HeldIn(attempts', t) \in Nat /\ HeldIn(attempts, t) \in Nat
    BY HoldsTyped DEF TypeOK, RowsTyped, BudgetInv
  <1> QED BY <1>1, <1>2, OwnerAssumption DEF Intent

\* Every step keeps the budget window and the room of the oldest late intent.
LEMMA BudgetStep == TypeInv /\ PayInv /\ BudgetInv /\ [Next]_vars => BudgetInv'
  <1> SUFFICES ASSUME TypeInv, TypeOK, PayInv, BudgetInv, [Next]_vars PROVE BudgetInv'
    BY TypeParts
  <1>0. /\ late \in Seq(Intent) /\ RowsTyped(attempts) /\ IsFiniteSet(DOMAIN attempts)
        /\ \A k \in 1..Len(late) : late[k] \in Intent
    BY DEF TypeOK, RowsTyped, BudgetInv
  <1>1. ASSUME UNCHANGED store PROVE BudgetInv'
    BY <1>1 DEF BudgetInv, store
  <1>2. ASSUME NEW intent \in Intent, late = <<>>, UNCHANGED late,
               intent.id \notin DOMAIN attempts, attempts' = insert_rebalance_attempt(intent),
               Counted(intent) => HasRoom(attempts, intent)
        PROVE  BudgetInv'
    BY <1>0, <1>2, InsertBudget DEF BudgetInv
  <1>3. ASSUME NEW intent \in Intent, UNCHANGED attempts, late' = Append(late, intent),
               Counted(intent) => late = <<>> /\ HasRoom(attempts, intent)
        PROVE  BudgetInv'
    <2>1. Len(late') = Len(late) + 1 /\ Len(late) \in Nat /\ late'[Len(late) + 1] = intent
          /\ \A k \in 1..Len(late) : late'[k] = late[k]
      BY <1>0, <1>3
    <2>2. ASSUME NEW k \in 1..Len(late'), Counted(late'[k])
          PROVE  k = 1 /\ HasRoom(attempts, late'[k])
      <3>1. CASE k \in 1..Len(late) BY <2>1, <2>2, <3>1 DEF BudgetInv
      <3>2. CASE k = Len(late) + 1 BY <1>3, <2>1, <2>2, <3>2
      <3> QED BY <2>1, <3>1, <3>2
    <2>3. \A k \in 1..Len(late') : Counted(late'[k]) => k = 1 /\ HasRoom(attempts', late'[k])
      BY <2>2, <1>3
    <2> QED BY <1>3, <2>3 DEF BudgetInv
  <1>4. ASSUME Settles PROVE BudgetInv'
    <2>1. IsFiniteSet(DOMAIN attempts') /\ \A t \in Nat : HeldIn(attempts', t) <= HeldIn(attempts, t)
      BY <1>4, SettleBudget
    <2>2. RowsTyped(attempts') BY StoreStep DEF StoreTyped
    <2>3. late' = late BY <1>4 DEF Settles
    <2>4. \A k \in 1..Len(late) : Counted(late[k]) => k = 1 /\ HasRoom(attempts', late[k])
      BY <1>0, <2>1, <2>2, <2>3, LateBudget DEF BudgetInv
    <2>5. ASSUME NEW t \in Nat PROVE HeldIn(attempts', t) <= DailyBudget
      <3>1. HeldIn(attempts', t) \in Nat /\ HeldIn(attempts, t) \in Nat
        BY <1>0, <2>1, <2>2, HoldsTyped
      <3> QED BY <2>1, <3>1, OwnerAssumption DEF BudgetInv
    <2> QED BY <2>1, <2>3, <2>4, <2>5 DEF BudgetInv
  <1>5. ASSUME NEW pair \in Pairs, NEW amount \in Amounts, NEW force \in BOOLEAN,
               \/ SubmitAccepted(pair, amount, force) \/ SubmitRefused(pair, amount, force)
               \/ SubmitUnknown(pair, amount, force)
        PROVE  BudgetInv'
    <2> DEFINE intent == ManualIntent(pair, amount, force)
    <2>1. intent \in Intent BY IntentTyped
    <2>2. MaySubmit(pair, amount, force)
      BY <1>5 DEF SubmitAccepted, SubmitRefused, SubmitUnknown
    <2>3. Counted(intent) => late = <<>> /\ HasRoom(attempts, intent) BY <1>0, <2>2, GateHasRoom
    <2>4. CASE SubmitAccepted(pair, amount, force)
      <3>1. /\ late = <<>> /\ UNCHANGED late /\ intent.id \notin DOMAIN attempts
            /\ attempts' = insert_rebalance_attempt(intent)
        BY <2>4 DEF SubmitAccepted
      <3> HIDE DEF intent
      <3> QED BY <1>2, <2>1, <2>3, <3>1
    <2>5. CASE SubmitRefused(pair, amount, force) BY <1>1, <2>5 DEF SubmitRefused
    <2>6. CASE SubmitUnknown(pair, amount, force)
      <3>1. UNCHANGED attempts /\ late' = Append(late, intent) BY <2>6 DEF SubmitUnknown
      <3> HIDE DEF intent
      <3> QED BY <1>3, <2>1, <2>3, <3>1
    <2> QED BY <1>5, <2>4, <2>5, <2>6
  <1>6. CASE StoreLands
    <2>1. late # <<>> /\ late' = Tail(late) BY <1>6 DEF StoreLands
    <2>2. Head(late) = late[1] /\ 1 \in 1..Len(late) /\ Head(late) \in Intent BY <1>0, <2>1
    <2>3. Len(late') = Len(late) - 1 /\ Len(late) \in Nat BY <1>0, <2>1
    <2>4. \A k \in 1..Len(late') : late'[k] = late[k + 1] /\ k + 1 \in 1..Len(late) /\ k + 1 # 1
      BY <1>0, <2>1, <2>3
    <2>5. \A k \in 1..Len(late') : ~Counted(late'[k]) BY <2>4 DEF BudgetInv
    <2>6. Counted(Head(late)) => HasRoom(attempts, Head(late)) BY <2>2 DEF BudgetInv
    <2>7. CASE UNCHANGED attempts BY <2>5, <2>7 DEF BudgetInv
    <2>8. CASE Head(late).id \notin DOMAIN attempts /\ attempts' = insert_rebalance_attempt(Head(late))
      BY <1>0, <2>2, <2>5, <2>6, <2>8, InsertBudget DEF BudgetInv
    <2> QED BY <1>6, <2>7, <2>8 DEF StoreLands
  <1>7. CASE \E amount \in Amounts : RecordInsert(amount)
    <2> PICK amount \in Amounts : RecordInsert(amount) BY <1>7
    <2>1. CycleIntent(amount) \in Intent /\ ~Counted(CycleIntent(amount))
      BY CycleIntentTyped DEF Counted
    <2>2. \/ /\ late = <<>> /\ CycleIntent(amount).id \notin DOMAIN attempts
             /\ attempts' = insert_rebalance_attempt(CycleIntent(amount)) /\ UNCHANGED late
          \/ late' = Append(late, CycleIntent(amount)) /\ UNCHANGED attempts
          \/ UNCHANGED store
      BY DEF RecordInsert, CycleIntent
    <2> QED BY <2>1, <2>2, <1>1, <1>2, <1>3
  <1>8. CASE Execution
    BY <1>1, <1>8 DEF Execution, EngineRefuses, ExecuteStopsBeforeWrite, InvoiceFails,
        Invoiced, SendpayAccepted, SendpayRejected, SendpayTimesOut, TransportFails,
        WaitCompletes, WaitFails, WaitUnresolved, retry_with_exclusions,
        retry_with_partial_amounts, FinishExecution, EndTry, Retry
  <1>9. CASE Settle \/ RecordSettle \/ \E id \in orphans : ReconcileOrphan(id)
    <2>1. UNCHANGED late
      BY <1>9 DEF Settle, RecordSettle, ReconcileOrphan
    <2>2. UNCHANGED attempts \/ Settles \/ Inserts BY RowStep
    <2>3. ~Inserts
      <3>1. CASE Settle \/ RecordSettle
        <4>1. /\ DOMAIN attempts' = DOMAIN attempts
          BY <3>1 DEF Settle, RecordSettle, SettledWith, settle_rebalance_attempt
        <4> QED BY <4>1, InsertTyped DEF Inserts
      <3>2. CASE \E id \in orphans : ReconcileOrphan(id)
        <4>1. DOMAIN attempts' = DOMAIN attempts
          BY <3>2 DEF ReconcileOrphan, settle_rebalance_attempt
        <4> QED BY <4>1, InsertTyped DEF Inserts
      <3> QED BY <1>9, <3>1, <3>2
    <2> QED BY <1>1, <1>4, <2>1, <2>2, <2>3 DEF store
  <1>10. CASE \/ SettleFails \/ RecordRefused \/ run_cycle \/ ReconcileStart \/ ReconcileEnds
              \/ Tick \/ \E h \in DOMAIN wire : NodeDecides(h)
    BY <1>1, <1>10 DEF SettleFails, RecordRefused, Suspend, run_cycle, ReconcileStart,
        ReconcileEnds, Tick, NodeDecides
  <1>11. CASE Crash
    <2>1. late' = <<>> /\ UNCHANGED attempts BY <1>11 DEF Crash
    <2> QED BY <2>1 DEF BudgetInv
  <1>12. CASE UNCHANGED vars BY <1>1, <1>12 DEF vars, store
  <1> QED BY <1>5, <1>6, <1>7, <1>8, <1>9, <1>10, <1>11, <1>12 DEF Next

\* An empty table holds nothing.
LEMMA InitBudget == Init => BudgetInv
  <1> SUFFICES ASSUME Init PROVE BudgetInv OBVIOUS
  <1>1. DOMAIN attempts = {} /\ late = <<>> BY DEF Init
  <1>2. \A t \in Nat : HeldIn(attempts, t) = 0
    BY <1>1, SumEmpty DEF HeldIn, HoldsIn
  <1>3. DailyBudget \in Nat BY OwnerAssumption
  <1> QED BY <1>1, <1>2, <1>3, FS_EmptySet DEF BudgetInv

\* The invariant holds with the budget in it.
LEMMA BudgetInvariant == Spec => [](Inv /\ BudgetInv)
  <1>1. Inv /\ BudgetInv /\ [Next]_vars => BudgetInv' BY BudgetStep DEF Inv
  <1> QED BY <1>1, InitBudget, Invariant, PTL DEF Spec

\* execute_manual's budget step reads the window through the store's queue: the
\* unforced manual holds of every window stay within daily_budget_sats, with the
\* intents that landed late and the quarantined outcomes.
THEOREM BudgetKept == Spec => []BudgetRespected
  <1>1. Inv /\ BudgetInv => BudgetRespected
    <2> SUFFICES ASSUME Inv, BudgetInv, NEW t \in 0..clock PROVE TotalOf(UnforcedHolds(t)) <= DailyBudget
      BY DEF BudgetRespected
    <2>1. t \in Nat BY TypeParts DEF Inv, TypeOK
    <2>2. TotalOf(UnforcedHolds(t)) = HeldIn(attempts, t)
      BY DEF TotalOf, UnforcedHolds, HeldIn, HoldsIn, AmountsIn, IsHold
    <2> QED BY <2>1, <2>2 DEF BudgetInv
  <1> QED BY <1>1, BudgetInvariant, PTL

\* Everything the run checks of an attempt and its payments, for any pairs,
\* amounts, budget, window, retries and crashes.
THEOREM PaymentsBacked == Spec => []PaymentsAreBacked
  <1> QED BY TypeCorrect, IntentDurable, ReleasedIsDead, PaidAtMostOnce, OneOpenSubmission,
             BudgetKept, PTL DEF PaymentsAreBacked

-----------------------------------------------------------------------------
(***************************************************************************)
(* The shared cache of lightningd's options, for any answers and outages.    *)
(***************************************************************************)

\* The cache is never told apart from the last good answer it keeps, and its
\* counter is zero exactly when the latest answer was that one.
OptionsKept ==
    /\ optionCache = [values |-> optionCache.values, ok |-> optionCache.ok, failures |-> optionCache.failures]
    /\ optionCache.ok \in BOOLEAN /\ optionCache.failures \in 0..CounterTop
    /\ optionCache.values = IF optionCache.ok THEN lastValues ELSE NoValues
    /\ optionCache.ok /\ optionCache.failures = 0 => lastFetch = {TRUE}

\* What a pass read is the cache as it was, and still is while nothing refreshed it.
EvidenceKept ==
    \A e \in evidence :
        /\ e = [values |-> e.values, fresh |-> e.fresh, current |-> e.current]
        /\ e.current => e.values = optionCache.values /\ e.fresh = freshness_of(optionCache)

OptionInv == OptionsKept /\ EvidenceKept

LEMMA OptionsStart == OptionInit => OptionInv
  <1> SUFFICES ASSUME OptionInit PROVE OptionInv OBVIOUS
  <1>1. /\ optionCache.values = NoValues /\ optionCache.ok = FALSE /\ optionCache.failures = 0
        /\ optionCache = [values |-> NoValues, ok |-> FALSE, failures |-> 0] /\ evidence = {}
    BY DEF OptionInit
  <1>2. 0 \in 0..CounterTop BY OptionAssumption
  <1> QED BY <1>1, <1>2 DEF OptionInv, OptionsKept, EvidenceKept

LEMMA RefreshKeeps == ASSUME OptionInv, Refresh PROVE OptionInv'
  <1>1. PICK fetched \in {{}} \cup { {parse_listconfigs_response(b)} : b \in ConfigBodies } :
          /\ optionCache' = apply_fetch(optionCache, fetched)
          /\ lastFetch' = {fetched # {}}
          /\ lastValues' = IF fetched = {} THEN lastValues ELSE clamp_startup_option_map(CHOOSE v \in fetched : TRUE)
    BY DEF Refresh
  <1>2. evidence' = { [e EXCEPT !.current = FALSE] : e \in evidence } BY DEF Refresh
  <1>3. OptionsKept /\ EvidenceKept BY DEF OptionInv
  <1>4. EvidenceKept'
    <2>1. ASSUME NEW f \in evidence' PROVE f = [values |-> f.values, fresh |-> f.fresh, current |-> f.current] /\ ~f.current
      <3>1. PICK e \in evidence : f = [e EXCEPT !.current = FALSE] BY <1>2, <2>1
      <3>2. e = [values |-> e.values, fresh |-> e.fresh, current |-> e.current] BY <1>3 DEF EvidenceKept
      <3>3. f = [values |-> e.values, fresh |-> e.fresh, current |-> FALSE] BY <3>1, <3>2
      <3> QED BY <3>3
    <2> QED BY <2>1 DEF EvidenceKept
  <1>5. CASE fetched = {}
    <2>1. PICK n : n = saturating_add(optionCache.failures) OBVIOUS
    <2>2. n \in 0..CounterTop /\ n # 0 BY <1>3, <2>1, OptionAssumption DEF OptionsKept, saturating_add
    <2>3. optionCache' = [optionCache EXCEPT !.failures = n] BY <1>1, <1>5, <2>1 DEF apply_fetch
    <2>4. optionCache' = [values |-> optionCache.values, ok |-> optionCache.ok, failures |-> n]
      BY <1>3, <2>3 DEF OptionsKept
    <2>5. optionCache'.values = optionCache.values /\ optionCache'.ok = optionCache.ok /\ optionCache'.failures = n
      BY <2>4
    <2>6. lastValues' = lastValues BY <1>1, <1>5
    <2>7. OptionsKept' BY <1>3, <2>2, <2>4, <2>5, <2>6 DEF OptionsKept
    <2> QED BY <1>4, <2>7 DEF OptionInv
  <1>6. CASE fetched # {}
    <2>1. PICK v : v = clamp_startup_option_map(CHOOSE w \in fetched : TRUE) OBVIOUS
    <2>2. /\ optionCache' = [values |-> v, ok |-> TRUE, failures |-> 0] /\ lastValues' = v /\ lastFetch' = {TRUE}
      BY <1>1, <1>6, <2>1 DEF apply_fetch
    <2>3. 0 \in 0..CounterTop BY OptionAssumption
    <2>4. OptionsKept' BY <2>2, <2>3 DEF OptionsKept
    <2> QED BY <1>4, <2>4 DEF OptionInv
  <1> QED BY <1>5, <1>6

LEMMA SnapshotKeeps == ASSUME OptionInv, snapshot_with_freshness PROVE OptionInv'
  <1>1. PICK x : x = [values |-> optionCache.values, fresh |-> freshness_of(optionCache), current |-> TRUE] OBVIOUS
  <1>2. evidence' = {x} BY <1>1 DEF snapshot_with_freshness
  <1>3. optionCache' = optionCache /\ lastFetch' = lastFetch /\ lastValues' = lastValues BY DEF snapshot_with_freshness
  <1>4. OptionsKept' BY <1>3 DEF OptionInv, OptionsKept
  <1>5. EvidenceKept' BY <1>1, <1>2, <1>3 DEF EvidenceKept, freshness_of
  <1> QED BY <1>4, <1>5 DEF OptionInv

\* What a pass reads is one generation of the options and says how old it is; an
\* outage never makes an earlier answer look fresh (PythonOptionCache).
THEOREM OutagesAreTold == OptionSpec => [](EvidenceIsOneGeneration /\ OutageStaysVisible)
  <1>1. OptionInit => OptionInv BY OptionsStart
  <1>2. OptionInv /\ [OptionNext]_optionVars => OptionInv'
    <2>1. ASSUME OptionInv, UNCHANGED optionVars PROVE OptionInv'
      BY <2>1 DEF OptionInv, OptionsKept, EvidenceKept, freshness_of, optionVars
    <2> QED BY <2>1, RefreshKeeps, SnapshotKeeps DEF OptionNext
  <1>3. OptionInv => EvidenceIsOneGeneration /\ OutageStaysVisible
    BY DEF OptionInv, OptionsKept, EvidenceKept, freshness_of, EvidenceIsOneGeneration, OutageStaysVisible
  <1> QED BY <1>1, <1>2, <1>3, PTL DEF OptionSpec

-----------------------------------------------------------------------------
(***************************************************************************)
(* The fee cycle's configuration, for any rows, options and publications.    *)
(***************************************************************************)

\* A ranged field is a number whose default is in its range.
FieldIsSound(f, d) ==
    ConfigTable[f].ranged =>
        /\ ConfigTable[f].type \in {"int", "float"} /\ f # "enable_dynamic_htlcmax" /\ f # "authority_level"
        /\ ConfigTable[f].lo \in Int /\ ConfigTable[f].hi \in Int /\ ConfigTable[f].lo <= ConfigTable[f].hi
        /\ d.n \in ConfigTable[f].lo .. ConfigTable[f].hi

LEMMA Unranged ==
    ASSUME NEW f, NEW d, NEW type, NEW words, NEW cast, NEW own, ConfigTable[f] = ConfigField(type, 0, 0, words, cast, own)
    PROVE  FieldIsSound(f, d)
  <1>1. ConfigTable[f].ranged = (0 < 0) BY SMT DEF ConfigField
  <1>2. (0 < 0) = FALSE OBVIOUS
  <1>3. ConfigTable[f].ranged = FALSE BY Zenon, <1>1, <1>2
  <1> QED BY <1>3 DEF FieldIsSound

LEMMA SwitchIsSound ==
    ASSUME NEW f, NEW d, NEW cast, NEW own, ConfigTable[f] = BoolField(cast, own)
    PROVE  FieldIsSound(f, d)
  BY Unranged DEF BoolField

LEMMA NameIsSound ==
    ASSUME NEW f, NEW d, NEW words, NEW own, ConfigTable[f] = NameField(words, own)
    PROVE  FieldIsSound(f, d)
  BY Unranged DEF NameField

LEMMA IntIsSound ==
    ASSUME NEW f, NEW d, NEW lo \in Int, NEW hi \in Int, NEW n \in Int, ConfigTable[f] = IntField(lo, hi),
           f # "enable_dynamic_htlcmax", f # "authority_level", d = Whole(n), lo * 1000 <= n, n <= hi * 1000
    PROVE  FieldIsSound(f, d)
  <1>1. ConfigTable[f].type = "int" /\ ConfigTable[f].lo = lo * 1000 /\ ConfigTable[f].hi = hi * 1000
    BY DEF IntField, ConfigField
  <1>2. Whole(n).n = n BY DEF Whole, Text
  <1> QED BY <1>1, <1>2 DEF FieldIsSound

LEMMA FloatIsSound ==
    ASSUME NEW f, NEW d, NEW lo \in Int, NEW hi \in Int, NEW n \in Int, ConfigTable[f] = FloatField(lo, hi),
           f # "enable_dynamic_htlcmax", f # "authority_level", d \in {Whole(n), Decimal(n)}, lo <= n, n <= hi
    PROVE  FieldIsSound(f, d)
  <1>1. ConfigTable[f].type = "float" /\ ConfigTable[f].lo = lo /\ ConfigTable[f].hi = hi
    BY DEF FloatField, ConfigField
  <1>2. Whole(n).n = n /\ Decimal(n).n = n BY DEF Whole, Decimal, Text
  <1> QED BY <1>1, <1>2 DEF FieldIsSound

LEMMA FieldsAreSound ==
    /\ DOMAIN FeeDefaults = 1..24 /\ Len(FeeDefaults) = 24
    /\ \A k \in 1..24 : FieldIsSound(FeeDefaults[k].name, FeeDefaults[k].default)
  <1> DEFINE Sound(k) == FieldIsSound(FeeDefaults[k].name, FeeDefaults[k].default)
  <1>0. DOMAIN FeeDefaults = 1..24 /\ Len(FeeDefaults) = 24 BY DEF FeeDefaults
  <1>1. Sound(1)
    <2>1. FeeDefaults[1].name = "min_fee_ppm" /\ FeeDefaults[1].default = Whole(10000) BY DEF FeeDefaults
    <2>2. ConfigTable["min_fee_ppm"] = IntField(5, 100000) BY DEF ConfigTable
    <2> QED BY <2>1, <2>2, IntIsSound
  <1>2. Sound(2)
    <2>1. FeeDefaults[2].name = "max_fee_ppm" /\ FeeDefaults[2].default = Whole(2000000) BY DEF FeeDefaults
    <2>2. ConfigTable["max_fee_ppm"] = IntField(1, 100000) BY DEF ConfigTable
    <2> QED BY <2>1, <2>2, IntIsSound
  <1>3. Sound(3)
    <2>1. FeeDefaults[3].name = "thompson_prior_std_fee" /\ FeeDefaults[3].default = Whole(100000) BY DEF FeeDefaults
    <2>2. ConfigTable["thompson_prior_std_fee"] = IntField(10, 500) BY DEF ConfigTable
    <2> QED BY <2>1, <2>2, IntIsSound
  <1>4. Sound(4)
    <2>1. FeeDefaults[4].name = "min_fee_ppm_saturated" /\ FeeDefaults[4].default = Whole(0) BY DEF FeeDefaults
    <2>2. ConfigTable["min_fee_ppm_saturated"] = IntField(0, 1000) BY DEF ConfigTable
    <2> QED BY <2>1, <2>2, IntIsSound
  <1>5. Sound(5)
    <2>1. FeeDefaults[5].name = "fee_interval" /\ FeeDefaults[5].default = Whole(1800000) BY DEF FeeDefaults
    <2>2. ConfigTable["fee_interval"] = IntField(60, 86400) BY DEF ConfigTable
    <2> QED BY <2>1, <2>2, IntIsSound
  <1>6. Sound(6)
    <2>1. FeeDefaults[6].name = "flow_interval" /\ FeeDefaults[6].default = Whole(3600000) BY DEF FeeDefaults
    <2>2. ConfigTable["flow_interval"] = IntField(60, 86400) BY DEF ConfigTable
    <2> QED BY <2>1, <2>2, IntIsSound
  <1>7. Sound(7)
    <2>1. FeeDefaults[7].name = "htlc_congestion_threshold" /\ FeeDefaults[7].default = Decimal(800) BY DEF FeeDefaults
    <2>2. ConfigTable["htlc_congestion_threshold"] = FloatField(0, 1000) BY DEF ConfigTable
    <2> QED BY <2>1, <2>2, FloatIsSound
  <1>8. Sound(8)
    <2>1. FeeDefaults[8].name = "market_fee_mode" BY DEF FeeDefaults
    <2>2. ConfigTable["market_fee_mode"] = NameField({"undercut", "match", "premium", "competition_aware"}, FALSE) BY DEF ConfigTable
    <2> QED BY <2>1, <2>2, NameIsSound
  <1>9. Sound(9)
    <2>1. FeeDefaults[9].name = "drain_fee_discount_max" /\ FeeDefaults[9].default = Whole(0) BY DEF FeeDefaults
    <2>2. ConfigTable["drain_fee_discount_max"] = FloatField(0, 500) BY DEF ConfigTable
    <2> QED BY <2>1, <2>2, FloatIsSound
  <1>10. Sound(10)
    <2>1. FeeDefaults[10].name = "high_liquidity_threshold" /\ FeeDefaults[10].default = Decimal(700) BY DEF FeeDefaults
    <2>2. ConfigTable["high_liquidity_threshold"] = FloatField(0, 1000) BY DEF ConfigTable
    <2> QED BY <2>1, <2>2, FloatIsSound
  <1>11. Sound(11)
    <2>1. FeeDefaults[11].name = "fee_profile" BY DEF FeeDefaults
    <2>2. ConfigTable["fee_profile"] = NameField({"active", "conservative"}, FALSE) BY DEF ConfigTable
    <2> QED BY <2>1, <2>2, NameIsSound
  <1>12. Sound(12)
    <2>1. FeeDefaults[12].name = "base_fee_msat" /\ FeeDefaults[12].default = Whole(0) BY DEF FeeDefaults
    <2>2. ConfigTable["base_fee_msat"] = IntField(0, 10000) BY DEF ConfigTable
    <2> QED BY <2>1, <2>2, IntIsSound
  <1>13. Sound(13)
    <2>1. FeeDefaults[13].name = "enable_vegas_reflex" BY DEF FeeDefaults
    <2>2. ConfigTable["enable_vegas_reflex"] = BoolField("eq_true", FALSE) BY DEF ConfigTable
    <2> QED BY <2>1, <2>2, SwitchIsSound
  <1>14. Sound(14)
    <2>1. FeeDefaults[14].name = "enable_dynamic_htlcmax" BY DEF FeeDefaults
    <2>2. ConfigTable["enable_dynamic_htlcmax"] = BoolField("eq_true", FALSE) BY DEF ConfigTable
    <2> QED BY <2>1, <2>2, SwitchIsSound
  <1>15. Sound(15)
    <2>1. FeeDefaults[15].name = "htlcmax_source_pct" /\ FeeDefaults[15].default = Decimal(500) BY DEF FeeDefaults
    <2>2. ConfigTable["htlcmax_source_pct"] = FloatField(10, 1000) BY DEF ConfigTable
    <2> QED BY <2>1, <2>2, FloatIsSound
  <1>16. Sound(16)
    <2>1. FeeDefaults[16].name = "htlcmax_sink_pct" /\ FeeDefaults[16].default = Decimal(250) BY DEF FeeDefaults
    <2>2. ConfigTable["htlcmax_sink_pct"] = FloatField(10, 1000) BY DEF ConfigTable
    <2> QED BY <2>1, <2>2, FloatIsSound
  <1>17. Sound(17)
    <2>1. FeeDefaults[17].name = "htlcmax_balanced_pct" /\ FeeDefaults[17].default = Decimal(450) BY DEF FeeDefaults
    <2>2. ConfigTable["htlcmax_balanced_pct"] = FloatField(10, 1000) BY DEF ConfigTable
    <2> QED BY <2>1, <2>2, FloatIsSound
  <1>18. Sound(18)
    <2>1. FeeDefaults[18].name = "paused" BY DEF FeeDefaults
    <2>2. ConfigTable["paused"] = BoolField("eq_true", TRUE) BY DEF ConfigTable
    <2> QED BY <2>1, <2>2, SwitchIsSound
  <1>19. Sound(19)
    <2>1. FeeDefaults[19].name = "node_drain_bias_enabled" BY DEF FeeDefaults
    <2>2. ConfigTable["node_drain_bias_enabled"] = BoolField("eq_true", FALSE) BY DEF ConfigTable
    <2> QED BY <2>1, <2>2, SwitchIsSound
  <1>20. Sound(20)
    <2>1. FeeDefaults[20].name = "node_drain_bias_max" /\ FeeDefaults[20].default = Decimal(300) BY DEF FeeDefaults
    <2>2. ConfigTable["node_drain_bias_max"] = FloatField(0, 500) BY DEF ConfigTable
    <2> QED BY <2>1, <2>2, FloatIsSound
  <1>21. Sound(21)
    <2>1. FeeDefaults[21].name = "receivable_ratio_target" /\ FeeDefaults[21].default = Decimal(300) BY DEF FeeDefaults
    <2>2. ConfigTable["receivable_ratio_target"] = FloatField(0, 1000) BY DEF ConfigTable
    <2> QED BY <2>1, <2>2, FloatIsSound
  <1>22. Sound(22)
    <2>1. FeeDefaults[22].name = "receivable_ratio_floor" /\ FeeDefaults[22].default = Decimal(200) BY DEF FeeDefaults
    <2>2. ConfigTable["receivable_ratio_floor"] = FloatField(0, 1000) BY DEF ConfigTable
    <2> QED BY <2>1, <2>2, FloatIsSound
  <1>23. Sound(23)
    <2>1. FeeDefaults[23].name = "econ_governor_fees_enabled" BY DEF FeeDefaults
    <2>2. ConfigTable["econ_governor_fees_enabled"] = BoolField("eq_true", TRUE) BY DEF ConfigTable
    <2> QED BY <2>1, <2>2, SwitchIsSound
  <1>24. Sound(24)
    <2>1. FeeDefaults[24].name = "authority_level" BY DEF FeeDefaults
    <2>2. ConfigTable["authority_level"] = NameField({}, TRUE) BY DEF ConfigTable
    <2> QED BY <2>1, <2>2, NameIsSound
  <1> QED BY <1>0, <1>1, <1>2, <1>3, <1>4, <1>5, <1>6, <1>7, <1>8, <1>9, <1>10, <1>11, <1>12, <1>13, <1>14, <1>15, <1>16, <1>17, <1>18, <1>19, <1>20, <1>21, <1>22, <1>23, <1>24

LEMMA PlaceIs ==
    ASSUME NEW f, NEW i \in DOMAIN FeeDefaults, \A k \in DOMAIN FeeDefaults : FeeDefaults[k].name = f <=> k = i
    PROVE  Place(f) = i
  <1>1. \E k \in DOMAIN FeeDefaults : FeeDefaults[k].name = f OBVIOUS
  <1>2. Place(f) \in DOMAIN FeeDefaults /\ FeeDefaults[Place(f)].name = f BY <1>1 DEF Place
  <1>3. QED BY <1>2

LEMMA PlacesAre ==
    /\ Place("min_fee_ppm") = 1 /\ Place("max_fee_ppm") = 2
    /\ Place("receivable_ratio_target") = 21 /\ Place("receivable_ratio_floor") = 22
  <1>1. FeeDefaults[1].name = "min_fee_ppm" /\ FeeDefaults[2].name = "max_fee_ppm" /\ FeeDefaults[3].name = "thompson_prior_std_fee" /\ FeeDefaults[4].name = "min_fee_ppm_saturated"
    BY DEF FeeDefaults
  <1>2. FeeDefaults[5].name = "fee_interval" /\ FeeDefaults[6].name = "flow_interval" /\ FeeDefaults[7].name = "htlc_congestion_threshold" /\ FeeDefaults[8].name = "market_fee_mode"
    BY DEF FeeDefaults
  <1>3. FeeDefaults[9].name = "drain_fee_discount_max" /\ FeeDefaults[10].name = "high_liquidity_threshold" /\ FeeDefaults[11].name = "fee_profile" /\ FeeDefaults[12].name = "base_fee_msat"
    BY DEF FeeDefaults
  <1>4. FeeDefaults[13].name = "enable_vegas_reflex" /\ FeeDefaults[14].name = "enable_dynamic_htlcmax" /\ FeeDefaults[15].name = "htlcmax_source_pct" /\ FeeDefaults[16].name = "htlcmax_sink_pct"
    BY DEF FeeDefaults
  <1>5. FeeDefaults[17].name = "htlcmax_balanced_pct" /\ FeeDefaults[18].name = "paused" /\ FeeDefaults[19].name = "node_drain_bias_enabled" /\ FeeDefaults[20].name = "node_drain_bias_max"
    BY DEF FeeDefaults
  <1>6. FeeDefaults[21].name = "receivable_ratio_target" /\ FeeDefaults[22].name = "receivable_ratio_floor" /\ FeeDefaults[23].name = "econ_governor_fees_enabled" /\ FeeDefaults[24].name = "authority_level"
    BY DEF FeeDefaults
  <1>7. \A k \in DOMAIN FeeDefaults :
          /\ FeeDefaults[k].name = "min_fee_ppm" <=> k = 1
          /\ FeeDefaults[k].name = "max_fee_ppm" <=> k = 2
          /\ FeeDefaults[k].name = "receivable_ratio_target" <=> k = 21
          /\ FeeDefaults[k].name = "receivable_ratio_floor" <=> k = 22
    BY <1>1, <1>2, <1>3, <1>4, <1>5, <1>6, FieldsAreSound
  <1>8. {1, 2, 21, 22} \subseteq DOMAIN FeeDefaults BY FieldsAreSound
  <1>9. Place("min_fee_ppm") = 1 BY <1>7, <1>8, PlaceIs
  <1>10. Place("max_fee_ppm") = 2 BY <1>7, <1>8, PlaceIs
  <1>11. Place("receivable_ratio_target") = 21 BY <1>7, <1>8, PlaceIs
  <1>12. Place("receivable_ratio_floor") = 22 BY <1>7, <1>8, PlaceIs
  <1> QED BY <1>9, <1>10, <1>11, <1>12

-----------------------------------------------------------------------------
(* One field, whatever its row and its option are.                         *)
InBounds(f, n) == n \in ConfigTable[f].lo .. ConfigTable[f].hi
\* A snapshot is one of the choices, a row one of the texts.
RowTexts == UNION { RowChoices[f] : f \in DOMAIN RowChoices }
IsText(t) == t = [form |-> t.form, n |-> t.n, word |-> t.word, upper |-> t.upper, pad |-> t.pad]

LEMMA TextsKeepNumbers ==
    ASSUME NEW t, IsText(t)
    PROVE  Trimmed(t).n = t.n /\ Trimmed(t).form = t.form
  <1>1. DOMAIN t = {"form", "n", "word", "upper", "pad"}
    <2>1. t = [form |-> t.form, n |-> t.n, word |-> t.word, upper |-> t.upper, pad |-> t.pad] BY DEF IsText
    <2> QED BY <2>1
  <1> QED BY <1>1 DEF Trimmed

LEMMA BoundedIsInside ==
    ASSUME NEW f, ConfigTable[f].ranged, ConfigTable[f].lo \in Int, ConfigTable[f].hi \in Int,
           ConfigTable[f].lo <= ConfigTable[f].hi, NEW n \in Int
    PROVE  InBounds(f, BoundedTo(ConfigTable[f], n))
  BY DEF InBounds, BoundedTo

\* An admitted row is inside its field.
LEMMA RowsAreInside ==
    ASSUME NEW f, ConfigTable[f].ranged, ConfigTable[f].type \in {"int", "float"}, NEW u, IsText(u),
           NEW t \in validate_override(f, u)
    PROVE  InBounds(f, t.n)
  <1>1. t \in { Trimmed(x) : x \in { y \in {u} : Inside(ConfigTable[f], u.n) } }
    BY DEF validate_override, Admitted
  <1>2. t = Trimmed(u) /\ Inside(ConfigTable[f], u.n) BY <1>1
  <1> QED BY <1>2, TextsKeepNumbers DEF Inside, InBounds

\* A numeric option is clamped, and one that is no number is not read.
LEMMA OptionsAreInside ==
    ASSUME NEW f, ConfigTable[f].ranged, ConfigTable[f].lo \in Int, ConfigTable[f].hi \in Int, ConfigTable[f].lo <= ConfigTable[f].hi,
           NEW o, o.text.n \in Int, o.text.form \in {"int", "float", "inf", "nan", "word"}, o.shape = "integer" => o.text.form = "int",
           o.shape = "boolean" => o.text.form = "word", NEW p, p = clamp_startup_numeric(f, o)
    PROVE  (\A n \in AsInt(f, p) : InBounds(f, n)) /\ (\A n \in AsFloat(f, p) : InBounds(f, n))
  <1> PICK b : b = BoundedTo(ConfigTable[f], o.text.n) OBVIOUS
  <1>1. InBounds(f, b) BY BoundedIsInside
  <1>0. \A n : Whole(n).n = n /\ Decimal(n).n = n BY DEF Whole, Decimal, Text
  <1>2. \A n : OptInt(n).text.n = n /\ OptInt(n).shape = "integer" BY <1>0 DEF OptInt
  <1>3. \A n : OptText(Rendered(n)).text.n = n BY <1>0 DEF OptText, Rendered
  <1>4. InBounds(f, ConfigTable[f].hi) BY DEF InBounds
  <1>5. CASE o.text.form \in {"word", "nan"}
    <2>1. p = o BY <1>5 DEF clamp_startup_numeric, StartupNumeric
    <2>2. AsInt(f, o) = {} /\ AsFloat(f, o) = {} BY <1>5 DEF AsInt, AsFloat, ParsesInt, ParsesFloat
    <2> QED BY <2>1, <2>2
  <1>6. CASE o.shape = "integer"
    <2>1. p = OptInt(b) BY <1>6 DEF clamp_startup_numeric, StartupNumeric
    <2> QED BY <1>1, <1>2, <2>1 DEF AsInt, AsFloat
  <1>7. CASE o.shape # "integer" /\ o.text.form = "inf"
    <2>1. p = OptText(Rendered(ConfigTable[f].hi)) BY <1>7 DEF clamp_startup_numeric, StartupNumeric
    <2> QED BY <1>3, <1>4, <2>1 DEF AsInt, AsFloat
  <1>8. CASE o.shape # "integer" /\ o.text.form \in {"int", "float"}
    <2>1. p = IF Inside(ConfigTable[f], o.text.n) THEN o ELSE OptText(Rendered(b))
      BY <1>8 DEF clamp_startup_numeric, StartupNumeric
    <2>2. Inside(ConfigTable[f], o.text.n) => InBounds(f, o.text.n) BY DEF Inside, InBounds
    <2> QED BY <1>1, <1>3, <2>1, <2>2 DEF AsInt, AsFloat
  <1> QED BY <1>5, <1>6, <1>7, <1>8

\* A database whose row is text.
DbIsText(db) == \A d \in db : \A t \in d.row : IsText(t)

LEMMA RawIsInside ==
    ASSUME NEW f, ConfigTable[f].ranged, ConfigTable[f].type \in {"int", "float"},
           ConfigTable[f].lo \in Int, ConfigTable[f].hi \in Int, ConfigTable[f].lo <= ConfigTable[f].hi,
           NEW db, DbIsText(db), NEW v \in OptionChoices, NEW o \in resolve_raw(db, v, f)
    PROVE  (\A n \in AsInt(f, o) : InBounds(f, n)) /\ (\A n \in AsFloat(f, o) : InBounds(f, n))
  <1>1. o \in { OptText(t) : t \in db_layer(db, f) } \/ o \in python_layer(v, f) BY DEF resolve_raw, Layered
  <1>2. CASE o \in { OptText(t) : t \in db_layer(db, f) }
    <2>1. PICK t \in db_layer(db, f) : o = OptText(t) BY <1>2
    <2>2. \E u \in UNION { d.row : d \in { e \in db : e.ok } } : t \in validate_override(f, u)
      BY <2>1 DEF db_layer, read_db_override
    <2>3. PICK u : IsText(u) /\ t \in validate_override(f, u) BY <2>2 DEF DbIsText
    <2>4. InBounds(f, t.n) BY <2>3, RowsAreInside
    <2>5. o.text = t BY <2>1 DEF OptText
    <2> QED BY <2>4, <2>5 DEF AsInt, AsFloat
  <1>3. CASE o \in python_layer(v, f)
    <2>1. o \in { clamp_startup_numeric(f, x) : x \in OptionOf(v, f) } BY <1>3 DEF python_layer
    <2>2. PICK x \in OptionOf(v, f) : o = clamp_startup_numeric(f, x) BY <2>1
    <2>3. \E g \in DOMAIN v : x = v[g] BY <2>2 DEF OptionOf
    <2>4. /\ x.text.n \in Int /\ x.text.form \in {"int", "float", "inf", "nan", "word"}
          /\ (x.shape = "integer" => x.text.form = "int") /\ (x.shape = "boolean" => x.text.form = "word")
      BY <2>3, TextAssumption
    <2> QED BY <2>2, <2>4, OptionsAreInside
  <1> QED BY <1>1, <1>2, <1>3

LEMMA FieldInside ==
    ASSUME NEW f, NEW d, FieldIsSound(f, d), ConfigTable[f].ranged, NEW db, DbIsText(db), NEW v \in OptionChoices
    PROVE  InBounds(f, Resolved(db, v, f, d).n)
  <1>1. /\ ConfigTable[f].type \in {"int", "float"} /\ f # "enable_dynamic_htlcmax" /\ f # "authority_level"
        /\ ConfigTable[f].lo \in Int /\ ConfigTable[f].hi \in Int /\ ConfigTable[f].lo <= ConfigTable[f].hi /\ InBounds(f, d.n)
    BY DEF FieldIsSound, InBounds
  <1>2. \A o \in resolve_raw(db, v, f) : (\A n \in AsInt(f, o) : InBounds(f, n)) /\ (\A n \in AsFloat(f, o) : InBounds(f, n))
    BY <1>1, RawIsInside
  <1>3. InBounds(f, resolve_int(db, v, f, d.n)) BY <1>1, <1>2 DEF resolve_int, Single
  <1>4. InBounds(f, resolve_float(db, v, f, d.n)) BY <1>1, <1>2 DEF resolve_float, Single
  <1>5. \A n : Whole(n).n = n /\ Rendered(n).n = n BY DEF Rendered, Whole, Decimal, Text
  <1>6. CASE ConfigTable[f].type = "int"
    <2>1. Resolved(db, v, f, d) = Whole(resolve_int(db, v, f, d.n)) BY <1>1, <1>6 DEF Resolved
    <2> QED BY <1>3, <1>5, <2>1
  <1>7. CASE ConfigTable[f].type = "float"
    <2>1. Resolved(db, v, f, d) = Rendered(resolve_float(db, v, f, d.n)) BY <1>1, <1>7 DEF Resolved
    <2> QED BY <1>4, <1>5, <2>1
  <1> QED BY <1>1, <1>6, <1>7

-----------------------------------------------------------------------------
(* The resolution.                                                         *)
FieldHolds(k, c) == ConfigTable[FeeDefaults[k].name].ranged => in_range(FeeDefaults[k].name, c[k].n)

ConfigInv ==
    /\ rows \in [DOMAIN RowChoices -> SUBSET RowTexts] /\ snap \in OptionChoices
    /\ outcome = "resolving" =>
         /\ \E S : feeCfg \in Seq(S)
         /\ Len(feeCfg) <= 24 /\ \A k \in 1..Len(feeCfg) : FieldHolds(k, feeCfg)
    /\ UsedConfigHolds

LEMMA ConfigStarts == ConfigInit => ConfigInv
  <1> SUFFICES ASSUME ConfigInit PROVE ConfigInv OBVIOUS
  <1>1. feeCfg = <<>> /\ outcome = "resolving" /\ snap \in OptionChoices /\ rows = [ f \in DOMAIN RowChoices |-> {} ]
    BY DEF ConfigInit
  <1>2. feeCfg \in Seq({}) /\ Len(feeCfg) = 0 BY <1>1
  <1>3. rows \in [DOMAIN RowChoices -> SUBSET RowTexts] BY <1>1
  <1> QED BY <1>1, <1>2, <1>3 DEF ConfigInv, UsedConfigHolds

LEMMA PublishKeeps == ASSUME ConfigInv, Publish PROVE ConfigInv'
  <1>1. /\ snap' = snap /\ feeCfg' = feeCfg /\ outcome' = outcome /\ outcome = "resolving" BY DEF Publish
  <1>2. PICK f \in DOMAIN rows : \E row \in {{}} \cup { {t} : t \in RowChoices[f] } : rows' = [rows EXCEPT ![f] = row]
    BY DEF Publish
  <1>2a. PICK row \in {{}} \cup { {t} : t \in RowChoices[f] } : rows' = [rows EXCEPT ![f] = row] BY <1>2
  <1>3. rows \in [DOMAIN RowChoices -> SUBSET RowTexts] BY DEF ConfigInv
  <1>4. row \in SUBSET RowTexts BY <1>2a, <1>3 DEF RowTexts
  <1>5. rows' \in [DOMAIN RowChoices -> SUBSET RowTexts] BY <1>2a, <1>3, <1>4
  <1> QED BY <1>1, <1>5 DEF ConfigInv, FieldHolds, UsedConfigHolds

LEMMA ReadFieldKeeps == ASSUME ConfigInv, ReadField PROVE ConfigInv'
  <1>1. /\ rows' = rows /\ snap' = snap /\ outcome' = "resolving" /\ outcome = "resolving" BY DEF ReadField
  <1>2. /\ rows \in [DOMAIN RowChoices -> SUBSET RowTexts] /\ snap \in OptionChoices
        /\ Len(feeCfg) <= 24 /\ \A k \in 1..Len(feeCfg) : FieldHolds(k, feeCfg)
    BY <1>1 DEF ConfigInv
  <1>3. PICK S : feeCfg \in Seq(S) BY <1>1 DEF ConfigInv
  <1>4. PICK k : k = Len(feeCfg) + 1 OBVIOUS
  <1>5. k \in 1..24
    <2>1. Len(feeCfg) < Len(FeeDefaults) BY DEF ReadField
    <2>2. Len(feeCfg) < 24 BY <2>1, FieldsAreSound
    <2>3. Len(feeCfg) \in Nat BY <1>3
    <2>4. PICK n \in Nat : n = Len(feeCfg) BY <2>3
    <2>5. n < 24 /\ k = n + 1 BY <1>4, <2>2, <2>4
    <2> QED BY <2>5
  <1>6. PICK f, d : f = FeeDefaults[k].name /\ d = FeeDefaults[k].default OBVIOUS
  <1>7. PICK ok, db : /\ db = {[ok |-> ok, row |-> IF f \in DOMAIN rows THEN rows[f] ELSE {}]}
                      /\ feeCfg' = Append(feeCfg, Resolved(db, snap, f, d))
    BY <1>4, <1>6 DEF ReadField
  <1>8. DbIsText(db)
    <2>1. \A t \in RowTexts : IsText(t) BY TextAssumption DEF RowTexts, IsText
    <2>2. \A e \in db : e.row \subseteq RowTexts BY <1>2, <1>7
    <2> QED BY <2>1, <2>2 DEF DbIsText
  <1>9. PICK x : x = Resolved(db, snap, f, d) OBVIOUS
  <1>10. ConfigTable[f].ranged => in_range(f, x.n)
    <2>1. FieldIsSound(f, d) BY <1>5, <1>6, FieldsAreSound
    <2> QED BY <1>2, <1>8, <1>9, <2>1, FieldInside DEF in_range, Inside, InBounds
  <1>11. /\ feeCfg' \in Seq(S \cup {x}) /\ Len(feeCfg') = k /\ feeCfg'[k] = x
         /\ \A j \in 1..Len(feeCfg) : feeCfg'[j] = feeCfg[j]
    <2>1. feeCfg \in Seq(S \cup {x}) BY <1>3
    <2> QED BY <1>3, <1>4, <1>7, <1>9, <2>1
  <1>12. \A j \in 1..Len(feeCfg') : FieldHolds(j, feeCfg')
    <2>1. ASSUME NEW j \in 1..Len(feeCfg'), j # k PROVE j \in 1..Len(feeCfg) /\ feeCfg'[j] = feeCfg[j]
      BY <1>3, <1>4, <1>11, <2>1
    <2> QED BY <1>2, <1>6, <1>10, <1>11, <2>1 DEF FieldHolds
  <1>13. UsedConfigHolds' BY <1>1 DEF UsedConfigHolds
  <1> QED BY <1>1, <1>2, <1>5, <1>11, <1>12, <1>13 DEF ConfigInv


\* What Repair relies on: each pair of bounds has ranges that fit each other.
Ordered(low, high) ==
    /\ ConfigTable[low].ranged /\ ConfigTable[high].ranged
    /\ ConfigTable[low].lo \in Int /\ ConfigTable[low].hi \in Int
    /\ ConfigTable[high].lo \in Int /\ ConfigTable[high].hi \in Int

LEMMA IntRangeIs ==
    ASSUME NEW f, NEW lo \in Int, NEW hi \in Int, lo < hi, ConfigTable[f] = IntField(lo, hi)
    PROVE  ConfigTable[f].ranged /\ ConfigTable[f].lo = lo * 1000 /\ ConfigTable[f].hi = hi * 1000
  <1>1. PICK a \in Int, b \in Int : a = lo * 1000 /\ b = hi * 1000 /\ a < b OBVIOUS
  <1>2. ConfigTable[f].ranged = (a < b) BY SMT, <1>1 DEF IntField, ConfigField
  <1>3. (a < b) = TRUE BY <1>1
  <1>4. ConfigTable[f].ranged = TRUE BY Zenon, <1>2, <1>3
  <1>5. ConfigTable[f].lo = lo * 1000 /\ ConfigTable[f].hi = hi * 1000 BY SMT DEF IntField, ConfigField
  <1> QED BY <1>4, <1>5

LEMMA FloatRangeIs ==
    ASSUME NEW f, NEW lo \in Int, NEW hi \in Int, lo < hi, ConfigTable[f] = FloatField(lo, hi)
    PROVE  ConfigTable[f].ranged /\ ConfigTable[f].lo = lo /\ ConfigTable[f].hi = hi
  <1>1. ConfigTable[f].ranged = (lo < hi) BY SMT DEF FloatField, ConfigField
  <1>2. ConfigTable[f].lo = lo /\ ConfigTable[f].hi = hi BY SMT DEF FloatField, ConfigField
  <1> QED BY <1>1, <1>2

LEMMA RangesFit ==
    /\ Ordered("min_fee_ppm", "max_fee_ppm") /\ Ordered("receivable_ratio_floor", "receivable_ratio_target")
    /\ ConfigTable["max_fee_ppm"].lo <= ConfigTable["min_fee_ppm"].lo
    /\ ConfigTable["max_fee_ppm"].hi = ConfigTable["min_fee_ppm"].hi
    /\ ConfigTable["receivable_ratio_floor"].lo = ConfigTable["receivable_ratio_target"].lo
    /\ ConfigTable["receivable_ratio_floor"].hi = ConfigTable["receivable_ratio_target"].hi
  <1>1. ConfigTable["min_fee_ppm"] = IntField(5, 100000) BY DEF ConfigTable
  <1>2. ConfigTable["max_fee_ppm"] = IntField(1, 100000) BY DEF ConfigTable
  <1>3. ConfigTable["receivable_ratio_target"] = FloatField(0, 1000) BY DEF ConfigTable
  <1>4. ConfigTable["receivable_ratio_floor"] = FloatField(0, 1000) BY DEF ConfigTable
  <1>5. /\ ConfigTable["min_fee_ppm"].ranged /\ ConfigTable["min_fee_ppm"].lo = 5 * 1000
        /\ ConfigTable["min_fee_ppm"].hi = 100000 * 1000
    BY <1>1, IntRangeIs
  <1>6. /\ ConfigTable["max_fee_ppm"].ranged /\ ConfigTable["max_fee_ppm"].lo = 1 * 1000
        /\ ConfigTable["max_fee_ppm"].hi = 100000 * 1000
    BY <1>2, IntRangeIs
  <1>7. /\ ConfigTable["receivable_ratio_target"].ranged /\ ConfigTable["receivable_ratio_target"].lo = 0
        /\ ConfigTable["receivable_ratio_target"].hi = 1000
    BY <1>3, FloatRangeIs
  <1>8. /\ ConfigTable["receivable_ratio_floor"].ranged /\ ConfigTable["receivable_ratio_floor"].lo = 0
        /\ ConfigTable["receivable_ratio_floor"].hi = 1000
    BY <1>4, FloatRangeIs
  <1> QED BY <1>5, <1>6, <1>7, <1>8 DEF Ordered

LEMMA RangedIs ==
    ASSUME NEW f, ConfigTable[f].ranged, NEW n
    PROVE  in_range(f, n) <=> InBounds(f, n)
  BY DEF in_range, Inside, InBounds

\* One bound is raised, or lowered, to the other.
LEMMA Raised ==
    ASSUME NEW low, NEW high, Ordered(low, high), NEW a, NEW b, InBounds(low, a), InBounds(high, b)
    PROVE  /\ ConfigTable[high].lo <= ConfigTable[low].lo /\ ConfigTable[high].hi = ConfigTable[low].hi =>
                LET top == IF a > b THEN a ELSE b IN InBounds(high, top) /\ a <= top
           /\ ConfigTable[low].lo = ConfigTable[high].lo /\ ConfigTable[low].hi = ConfigTable[high].hi =>
                LET least == IF a > b THEN b ELSE a IN InBounds(low, least) /\ least <= b
  BY DEF Ordered, InBounds

LEMMA RepairKeeps == ASSUME ConfigInv, Repair PROVE ConfigInv'
  <1>1. /\ rows' = rows /\ snap' = snap /\ outcome' \in {"refused", "used"} /\ outcome = "resolving"
        /\ Len(feeCfg) = 24
    BY FieldsAreSound DEF Repair
  <1>2. /\ rows \in [DOMAIN RowChoices -> SUBSET RowTexts] /\ snap \in OptionChoices
        /\ \A k \in 1..24 : FieldHolds(k, feeCfg)
    BY <1>1 DEF ConfigInv
  <1>3. PICK S : feeCfg \in Seq(S) BY <1>1 DEF ConfigInv
  <1>4. PICK min, max, target, floor :
          min = feeCfg[1].n /\ max = feeCfg[2].n /\ target = feeCfg[21].n /\ floor = feeCfg[22].n
    OBVIOUS
  <1>5. PICK top, low : top = (IF min > max THEN min ELSE max) /\ low = (IF floor > target THEN target ELSE floor) OBVIOUS
  <1>6. feeCfg' = [feeCfg EXCEPT ![1] = Whole(min), ![2] = Whole(top), ![22] = Rendered(low)]
    BY <1>4, <1>5, PlacesAre DEF Repair, repair_crossed_fee_bounds, ValueOf
  <1>7. \A n : Whole(n).n = n /\ Rendered(n).n = n BY DEF Rendered, Whole, Decimal, Text
  <1>8. feeCfg'[1].n = min /\ feeCfg'[2].n = top /\ feeCfg'[21].n = target /\ feeCfg'[22].n = low
    <2>1. {1, 2, 21, 22} \subseteq DOMAIN feeCfg BY <1>1, <1>3
    <2>2. feeCfg'[1] = Whole(min) /\ feeCfg'[2] = Whole(top) /\ feeCfg'[21] = feeCfg[21] /\ feeCfg'[22] = Rendered(low)
      BY <1>6, <2>1
    <2> QED BY <1>4, <1>7, <2>2
  <1>9. /\ FeeDefaults[1].name = "min_fee_ppm" /\ FeeDefaults[2].name = "max_fee_ppm"
        /\ FeeDefaults[21].name = "receivable_ratio_target" /\ FeeDefaults[22].name = "receivable_ratio_floor"
    BY DEF FeeDefaults
  <1>10. /\ InBounds("min_fee_ppm", min) /\ InBounds("max_fee_ppm", max)
         /\ InBounds("receivable_ratio_target", target) /\ InBounds("receivable_ratio_floor", floor)
    <2>1. FieldHolds(1, feeCfg) /\ FieldHolds(2, feeCfg) /\ FieldHolds(21, feeCfg) /\ FieldHolds(22, feeCfg) BY <1>2
    <2> QED BY <1>4, <1>9, <2>1, RangesFit, RangedIs DEF FieldHolds, Ordered
  <1>11. InBounds("max_fee_ppm", top) /\ min <= top BY <1>5, <1>10, RangesFit, Raised
  <1>12. InBounds("receivable_ratio_floor", low) /\ low <= target BY <1>5, <1>10, RangesFit, Raised
  <1>13. \A k \in 1..24 : FieldHolds(k, feeCfg')
    <2>0. DOMAIN feeCfg = 1..24 BY <1>1, <1>3
    <2>1. ASSUME NEW k \in 1..24, k \notin {1, 2, 22} PROVE feeCfg'[k] = feeCfg[k]
      BY <1>6, <2>0, <2>1
    <2>2. FieldHolds(1, feeCfg') /\ FieldHolds(2, feeCfg') /\ FieldHolds(22, feeCfg')
      BY <1>8, <1>9, <1>10, <1>11, <1>12, RangesFit, RangedIs DEF FieldHolds, Ordered
    <2> QED BY <1>2, <2>1, <2>2 DEF FieldHolds
  <1>14. UsedConfigHolds'
    BY <1>8, <1>11, <1>12, <1>13, FieldsAreSound, PlacesAre DEF UsedConfigHolds, ValueOf, FieldHolds
  <1> QED BY <1>1, <1>2, <1>14 DEF ConfigInv

\* A configuration that is used has its bounds in order and every number in its
\* range, whatever was written while its fields were read and whatever the
\* options say (resolve_fee_cfg_observed).
THEOREM ConfigHolds == ConfigSpec => []UsedConfigHolds
  <1>1. ConfigInit => ConfigInv BY ConfigStarts
  <1>2. ConfigInv /\ [ConfigNext]_configVars => ConfigInv'
    <2>1. ASSUME ConfigInv, UNCHANGED configVars PROVE ConfigInv'
      BY <2>1 DEF ConfigInv, FieldHolds, UsedConfigHolds, configVars
    <2> QED BY <2>1, PublishKeeps, ReadFieldKeeps, RepairKeeps DEF ConfigNext
  <1>3. ConfigInv => UsedConfigHolds BY DEF ConfigInv
  <1> QED BY <1>1, <1>2, <1>3, PTL DEF ConfigSpec
=============================================================================
