------------------------ MODULE StoreBroadcast_proofs ------------------------
(***************************************************************************)
(* FeeBroadcast, for any requests, batches and queue capacity: type          *)
(* correctness and the audit trail for any number of callers, the gate for a *)
(* single one (OneCaller).  Then the threads its store calls go to           *)
(* (StoreActors), and the life of exclude layers (RebalanceRouting).         *)
(***************************************************************************)
EXTENDS FeeBroadcast, RebalanceRouting, StoreActors, SequenceTheorems, FiniteSetTheorems, SumTheorems, TLAPS

OneCaller == \A c, d \in Callers : c = d

\* A queued command carries what its statement needs.
WellFormed(cmd) ==
    /\ cmd.op \in {"insert_intent", "record_result"} => cmd.req \in Requests
    /\ cmd.op = "record_result" => cmd.outcome \in Outcomes

\* The store call a caller waits for determines the command's kind.
OpOf(p) == CASE p = "q_read" -> "active_quarantine"
             [] p = "intent" -> "insert_intent"
             [] p = "record" -> "record_result"
             [] OTHER -> "insert_quarantine"

\* While a caller is past the loop test it has a current request.
HasCurrent ==
    \A c \in Callers :
        /\ pc[c] \in {"intent", "send", "record", "quar_amb", "quar_unk"} => batch[c] # <<>>
        /\ pc[c] \in {"record", "quar_amb"} => out[c] \in Outcomes

TypeInv == TypeOK /\ HasCurrent /\ \A i \in 1..Len(queue) : WellFormed(queue[i])

Pending(i, op) == i \in 1..Len(queue) /\ queue[i].op = op
Critical(i) == Pending(i, "insert_intent") \/ Pending(i, "record_result")

\* Nothing runs and nothing is queued outside a live process.
DownInv == proc # "live" => queue = <<>> /\ \A c \in Callers : pc[c] = "idle"

\* The database rows agree with one another.
RowInv ==
    /\ \A r \in Requests : attempts[r] = "ambiguous" => r \in acked \/ quarantine
    /\ \A r \in acked : attempts[r] # "none"
    /\ \A r \in Requests : wire[r] <= 1 /\ (wire[r] > 0 => attempts[r] # "none")
    /\ \A r, s \in Unresolved : r = s

\* Replies reach exactly the call they belong to.
WaitInv ==
    /\ \A c \in Callers : \A i \in 1..Len(queue) :
          c \in queue[i].waiter =>
             /\ pc[c] \in Waits /\ enq[c] /\ reply[c] = "none"
             /\ queue[i].op = OpOf(pc[c])
             /\ pc[c] \in {"intent", "record"} => queue[i].req = Current(c)
             /\ pc[c] = "record" => queue[i].outcome = out[c]
    /\ \A c \in Callers : \A i, j \in 1..Len(queue) :
          c \in queue[i].waiter /\ c \in queue[j].waiter => i = j

\* At most one queued command can touch an attempt row, and its caller still
\* waits for it unless the process is poisoned.
OneWriteInv == \A i, j \in 1..Len(queue) : Critical(i) /\ Critical(j) => i = j

AwaitedInv ==
    \A i \in 1..Len(queue) :
        queue[i].op \in {"insert_intent", "record_result", "insert_quarantine"} =>
            poisoned \/ queue[i].waiter # {}

IntentInv == \A i \in 1..Len(queue) : Pending(i, "insert_intent") => Unresolved = {}

ResultInv ==
    \A i \in 1..Len(queue) : Pending(i, "record_result") =>
        /\ attempts[queue[i].req] = "null"
        /\ wire[queue[i].req] > 0
        /\ Unresolved \subseteq {queue[i].req}
        /\ queue[i].outcome = "ambiguous" => queue[i].req \in acked \/ quarantine

StoreInv == OneWriteInv /\ AwaitedInv /\ IntentInv /\ ResultInv

\* What each program point knows.
PointInv(c) ==
    /\ pc[c] \in {"q_read", "loop", "intent", "send", "record", "quar_amb"} => ~poisoned
    /\ pc[c] \in {"idle", "authorized", "q_read"} =>
          (poisoned \/ quarantine \/ Unresolved = {} \/ proc # "live")
    /\ pc[c] = "q_read" /\ reply[c] = "ok" => ~quarantine
    /\ reply[c] # "none" => enq[c]
    /\ pc[c] = "quar_unk" => poisoned
    /\ pc[c] = "loop" => ~quarantine /\ Unresolved = {} /\ reply[c] = "none" /\ ~enq[c]
    /\ pc[c] = "intent" =>
          /\ ~quarantine /\ enq[c]
          /\ reply[c] \in {"none", "err"} => Unresolved = {}
          /\ reply[c] = "ok" => /\ Unresolved = {Current(c)}
                                /\ attempts[Current(c)] = "null"
                                /\ wire[Current(c)] = 0
          /\ reply[c] # "active"
    /\ pc[c] = "send" => /\ ~quarantine /\ Unresolved = {Current(c)}
                         /\ attempts[Current(c)] = "null"
                         /\ wire[Current(c)] = 0
    /\ pc[c] = "quar_amb" =>
          /\ Unresolved \subseteq {Current(c)}
          /\ attempts[Current(c)] = "null" /\ wire[Current(c)] > 0
          /\ out[c] = "ambiguous"
          /\ reply[c] = "ok" => Current(c) \in acked \/ quarantine
          /\ reply[c] # "active"
    /\ pc[c] = "record" =>
          /\ Unresolved \subseteq {Current(c)}
          /\ wire[Current(c)] > 0
          /\ out[c] = "ambiguous" => Current(c) \in acked \/ quarantine
          /\ out[c] # "ambiguous" => ~quarantine
          /\ reply[c] \in {"none", "err"} => attempts[Current(c)] = "null"
          /\ reply[c] = "ok" => attempts[Current(c)] = out[c]
          /\ reply[c] # "active"

BroadcastInv ==
    /\ TypeInv /\ DownInv /\ RowInv /\ WaitInv
    /\ StoreInv
    /\ \A c \in Callers : PointInv(c)

-----------------------------------------------------------------------------
(* Type correctness, for any number of callers *)

\* The initial state is well typed.
LEMMA InitType == Init => TypeInv
  <1>1. <<>> \in Seq(Command) /\ <<>> \in Seq(Requests) /\ 1..Len(<<>>) = {}
    BY EmptySeq
  <1>2. Init => TypeOK
    <2> SUFFICES ASSUME Init PROVE TypeOK
      OBVIOUS
    <2>1. queue \in Seq(Command) /\ batch \in [Callers -> Seq(Requests)]
      BY <1>1 DEF Init
    <2> QED
      BY <2>1 DEF Init, TypeOK, PCs, Waits
  <1>3. Init => HasCurrent
    BY DEF Init, HasCurrent
  <1>4. Init => \A i \in 1..Len(queue) : WellFormed(queue[i])
    BY <1>1 DEF Init
  <1> QED
    BY <1>2, <1>3, <1>4 DEF TypeInv

\* Giving up on a call changes nothing in the queue but the waiters.
LEMMA AbandonQueue ==
    ASSUME TypeInv, NEW c \in Callers, Abandon(c)
    PROVE  /\ queue' \in Seq(Command)
           /\ Len(queue') = Len(queue)
           /\ \A i \in 1..Len(queue) :
                 /\ queue'[i].op = queue[i].op
                 /\ queue'[i].req = queue[i].req
                 /\ queue'[i].outcome = queue[i].outcome
                 /\ queue'[i].waiter = queue[i].waiter \ {c}
           /\ \A i \in 1..Len(queue') : WellFormed(queue'[i])
  <1>1. queue \in Seq(Command) /\ DOMAIN queue = 1..Len(queue) /\ Len(queue) \in Nat
    BY LenProperties DEF TypeInv, TypeOK
  <1>2. \A i \in 1..Len(queue) : queue[i] \in Command
    BY <1>1, ElementOfSeq
  <1>3. \A i \in 1..Len(queue) :
           [queue[i] EXCEPT !.waiter = queue[i].waiter \ {c}] \in Command
    BY <1>2 DEF Command
  <1>4. queue' = [i \in 1..Len(queue) |->
                    [queue[i] EXCEPT !.waiter = queue[i].waiter \ {c}]]
    BY <1>1 DEF Abandon
  <1>5. queue' \in Seq(Command) /\ Len(queue') = Len(queue)
    BY <1>1, <1>3, <1>4, IsASeq, LenProperties
  <1>6. \A i \in 1..Len(queue) :
           /\ queue'[i].op = queue[i].op
           /\ queue'[i].req = queue[i].req
           /\ queue'[i].outcome = queue[i].outcome
           /\ queue'[i].waiter = queue[i].waiter \ {c}
    BY <1>2, <1>4 DEF Command
  <1> QED
    BY <1>5, <1>6 DEF TypeInv, WellFormed

\* Taking the oldest command out of the queue.
LEMMA DequeueFacts ==
    ASSUME TypeInv, queue # <<>>, queue' = Tail(queue)
    PROVE  /\ Head(queue) \in Command /\ Head(queue) = queue[1] /\ WellFormed(Head(queue))
           /\ queue' \in Seq(Command)
           /\ Len(queue') \in Nat /\ Len(queue) = Len(queue') + 1
           /\ \A i \in 1..Len(queue') : queue'[i] = queue[i + 1] /\ WellFormed(queue'[i])
  <1>1. queue \in Seq(Command) /\ Len(queue) \in Nat \ {0}
    BY EmptySeq DEF TypeInv, TypeOK
  <1>2. /\ Head(queue) \in Command /\ queue' \in Seq(Command)
        /\ Len(queue') \in Nat /\ Len(queue) = Len(queue') + 1
        /\ \A i \in 1..Len(queue') : queue'[i] = queue[i + 1]
    BY <1>1, HeadTailProperties, LenProperties
  <1>3. Head(queue) = queue[1] /\ 1 \in 1..Len(queue)
    BY <1>1
  <1>4. \A i \in 1..Len(queue') : i + 1 \in 1..Len(queue)
    BY <1>2
  <1> QED
    BY <1>2, <1>3, <1>4 DEF TypeInv

\* Putting a command at the end of the queue.
LEMMA EnqueueFacts ==
    ASSUME TypeInv, NEW cmd \in Command, queue' = Append(queue, cmd)
    PROVE  /\ Len(queue) \in Nat /\ Len(queue') = Len(queue) + 1
           /\ \A i \in 1..Len(queue) : queue'[i] = queue[i]
           /\ queue'[Len(queue) + 1] = cmd
  BY AppendProperties, LenProperties DEF TypeInv, TypeOK

\* Every step of every actor keeps the types and the shape of the commands.
LEMMA StepType == TypeInv /\ [Next]_vars => TypeInv'
  <1> SUFFICES ASSUME TypeInv, [Next]_vars PROVE TypeInv'
    OBVIOUS
  <1> USE DEF TypeInv, TypeOK, HasCurrent, PCs, Waits, Outcomes, Definite, Command, WellFormed
  <1>1. CASE Start
    BY <1>1 DEF Start, db, call
  <1>2. CASE New
    BY <1>2 DEF New, reconcile_quarantine_on_restart, db, call
  <1>3. CASE NewRefused
    BY <1>3 DEF NewRefused, db, call
  <1>4. CASE Crash
    <2>1. <<>> \in Seq(Command) /\ <<>> \in Seq(Requests) /\ 1..Len(<<>>) = {}
      BY EmptySeq
    <2> QED
      BY <1>4, <2>1 DEF Crash, db
  <1>5. CASE OperatorClear
    BY <1>5 DEF OperatorClear, db, call
  <1>6. CASE OtherCommand
    BY <1>6 DEF OtherCommand, db, call
  <1>7. CASE ActorExecute
    <2>1. /\ Head(queue) \in Command /\ WellFormed(Head(queue))
          /\ queue' \in Seq(Command)
          /\ \A i \in 1..Len(queue') : WellFormed(queue'[i])
      BY <1>7, DequeueFacts DEF ActorExecute
    <2>2. attempts' \in [Requests -> {"none", "null"} \cup Outcomes] /\ quarantine' \in BOOLEAN
      BY <1>7, <2>1, ZenonT(40) DEF ActorExecute, Execute
    <2>3. reply' \in [Callers -> {"none", "ok", "active", "err"}]
      BY <1>7 DEF ActorExecute, Answer
    <2> QED
      BY <1>7, <2>1, <2>2, <2>3 DEF ActorExecute
  <1>8. CASE ActorFail
    BY <1>8 DEF ActorFail, Answer, db, call
  <1>9. ASSUME NEW c \in Callers, Authorize(c) PROVE TypeInv'
    BY <1>9, BatchesAssumption DEF Authorize, Await, db, call
  <1>10. ASSUME NEW c \in Callers, RefusePoisoned(c) PROVE TypeInv'
    BY <1>10, BatchesAssumption DEF RefusePoisoned, Return, Await, db, call
  <1>11. ASSUME NEW c \in Callers, RefuseStale(c) PROVE TypeInv'
    BY <1>11, BatchesAssumption DEF RefuseStale, Return, Await, db, call
  <1>12. ASSUME NEW c \in Callers, Dispatch(c) PROVE TypeInv'
    BY <1>12, BatchesAssumption DEF Dispatch, Await, db, call
  <1>13. ASSUME NEW c \in Callers, Submit(c) PROVE TypeInv'
    BY <1>13, BatchesAssumption DEF Submit, CommandOf, Current, db, call
  <1>14. ASSUME NEW c \in Callers, QuarantineRead(c) PROVE TypeInv'
    <2>1. queue' \in Seq(Command) /\ \A i \in 1..Len(queue') : WellFormed(queue'[i])
      BY <1>14, AbandonQueue DEF QuarantineRead, Failed
    <2>2. <<>> \in Seq(Requests)
      BY EmptySeq
    <2>3. batch' \in [Callers -> Seq(Requests)] /\ out' \in [Callers -> Outcomes \cup {"-"}]
      BY <1>14, <2>2, ZenonT(40) DEF QuarantineRead, Return
    <2>4. TypeOK'
      BY <1>14, <2>1, <2>3, ZenonT(40) DEF QuarantineRead, Return, Await, db
    <2>5. HasCurrent'
      BY <1>14 DEF QuarantineRead, Return, Await
    <2> QED
      BY <2>1, <2>4, <2>5
  <1>15. ASSUME NEW c \in Callers, BatchDone(c) PROVE TypeInv'
    BY <1>15, BatchesAssumption DEF BatchDone, Return, Await, db, call
  <1>16. ASSUME NEW c \in Callers, AdmitIntent(c) PROVE TypeInv'
    BY <1>16, BatchesAssumption DEF AdmitIntent, Current, db, call
  <1>17. ASSUME NEW c \in Callers, AdmissionRefused(c) PROVE TypeInv'
    BY <1>17, BatchesAssumption DEF AdmissionRefused, Return, Await, db, call
  <1>18. ASSUME NEW c \in Callers, IntentPersisted(c) PROVE TypeInv'
    BY <1>18, BatchesAssumption DEF IntentPersisted, Await, db, call
  <1>19. ASSUME NEW c \in Callers, IntentRejected(c) PROVE TypeInv'
    BY <1>19, BatchesAssumption DEF IntentRejected, Return, Await, db, call
  <1>20. ASSUME NEW c \in Callers, IntentUnknown(c) PROVE TypeInv'
    <2>1. queue' \in Seq(Command) /\ \A i \in 1..Len(queue') : WellFormed(queue'[i])
      BY <1>20, AbandonQueue DEF IntentUnknown
    <2> QED
      BY <1>20, <2>1 DEF IntentUnknown, Await, db
  <1>21. ASSUME NEW c \in Callers, AttemptSend(c) PROVE TypeInv'
    BY <1>21, BatchesAssumption DEF AttemptSend, Await, Current, db, call
  <1>22. ASSUME NEW c \in Callers, ResultRecorded(c) PROVE TypeInv'
    <2>1. <<>> \in Seq(Requests) /\ Tail(batch[c]) \in Seq(Requests)
      BY <1>22, EmptySeq, HeadTailProperties DEF ResultRecorded
    <2>2. batch' \in [Callers -> Seq(Requests)]
      BY <1>22, <2>1, ZenonT(40) DEF ResultRecorded, Return
    <2>3. TypeOK'
      BY <1>22, <2>2, ZenonT(40) DEF ResultRecorded, Return, Await, db
    <2>4. HasCurrent'
      BY <1>22, SMTT(40) DEF ResultRecorded, Return, Await
    <2> QED
      BY <1>22, <2>3, <2>4 DEF ResultRecorded
  <1>23. ASSUME NEW c \in Callers, ResultUnknown(c) PROVE TypeInv'
    <2>1. queue' \in Seq(Command) /\ \A i \in 1..Len(queue') : WellFormed(queue'[i])
      BY <1>23, AbandonQueue DEF ResultUnknown, Failed
    <2>2. <<>> \in Seq(Requests)
      BY EmptySeq
    <2>3. batch' \in [Callers -> Seq(Requests)] /\ out' \in [Callers -> Outcomes \cup {"-"}]
      BY <1>23, <2>2, ZenonT(40) DEF ResultUnknown, Return
    <2>4. TypeOK'
      BY <1>23, <2>1, <2>3, ZenonT(40) DEF ResultUnknown, Return, Await, db
    <2>5. HasCurrent'
      <3>1. /\ pc \in [Callers -> PCs] /\ batch \in [Callers -> Seq(Requests)]
            /\ pc[c] = "record" /\ batch[c] # <<>>
        BY <1>23 DEF ResultUnknown, TypeOK, HasCurrent
      <3>2. CASE out[c] = "ambiguous"
        <4>1. /\ pc' = [pc EXCEPT ![c] = "idle"] /\ pc'[c] = "idle"
              /\ batch' = [batch EXCEPT ![c] = <<>>] /\ out' = [out EXCEPT ![c] = "-"]
          BY <1>23, <3>1, <3>2 DEF ResultUnknown, Return, Await
        <4>2. \A d \in Callers \ {c} : pc'[d] = pc[d] /\ batch'[d] = batch[d] /\ out'[d] = out[d]
          BY <3>1, <4>1 DEF TypeOK
        <4> QED BY <4>1, <4>2 DEF HasCurrent
      <3>3. CASE out[c] # "ambiguous"
        <4>1. pc' = [pc EXCEPT ![c] = "quar_unk"] /\ pc'[c] = "quar_unk" /\ batch' = batch /\ out' = out
          BY <1>23, <3>1, <3>3 DEF ResultUnknown, Await
        <4>2. \A d \in Callers \ {c} : pc'[d] = pc[d]
          BY <3>1, <4>1
        <4> QED BY <3>1, <4>1, <4>2 DEF HasCurrent
      <3> QED BY <3>2, <3>3
    <2> QED
      BY <2>1, <2>4, <2>5
  <1>24. ASSUME NEW c \in Callers, AmbiguousQuarantined(c) PROVE TypeInv'
    BY <1>24, BatchesAssumption DEF AmbiguousQuarantined, Await, db, call
  <1>25. ASSUME NEW c \in Callers, AmbiguousUnquarantined(c) PROVE TypeInv'
    <2>1. queue' \in Seq(Command) /\ \A i \in 1..Len(queue') : WellFormed(queue'[i])
      BY <1>25, AbandonQueue DEF AmbiguousUnquarantined, Failed
    <2>2. <<>> \in Seq(Requests)
      BY EmptySeq
    <2> QED
      BY <1>25, <2>1, <2>2 DEF AmbiguousUnquarantined, Return, Await, db
  <1>26. ASSUME NEW c \in Callers, PoisonedQuarantine(c) PROVE TypeInv'
    <2>1. queue' \in Seq(Command) /\ \A i \in 1..Len(queue') : WellFormed(queue'[i])
      BY <1>26, AbandonQueue DEF PoisonedQuarantine, Failed
    <2>2. <<>> \in Seq(Requests)
      BY EmptySeq
    <2> QED
      BY <1>26, <2>1, <2>2 DEF PoisonedQuarantine, Return, Await, db
  <1>27. CASE UNCHANGED vars
    BY <1>27 DEF vars
  <1> QED
    BY <1>1, <1>2, <1>3, <1>4, <1>5, <1>6, <1>7, <1>8, <1>9, <1>10, <1>11, <1>12, <1>13, <1>14, <1>15, <1>16, <1>17, <1>18, <1>19, <1>20, <1>21, <1>22, <1>23, <1>24, <1>25, <1>26, <1>27 DEF Next, Actor, CallerStep
-----------------------------------------------------------------------------
(* The gate invariant, for a single caller *)

\* The gate invariant holds initially.
LEMMA InitInv == Init => BroadcastInv
  <1> SUFFICES ASSUME Init PROVE BroadcastInv
    OBVIOUS
  <1>1. 1..Len(queue) = {}
    BY EmptySeq DEF Init
  <1>2. DownInv /\ RowInv
    BY DEF Init, DownInv, RowInv, Unresolved
  <1>3. WaitInv /\ StoreInv
    BY <1>1 DEF WaitInv, StoreInv, OneWriteInv, AwaitedInv, IntentInv, ResultInv
  <1>4. \A c \in Callers : PointInv(c)
    BY DEF Init, PointInv
  <1> QED
    BY <1>2, <1>3, <1>4, InitType DEF BroadcastInv

\* When the caller waits for nothing, no queued command has a waiter.
LEMMA QuietQueue ==
    ASSUME OneCaller, TypeInv, WaitInv, NEW c \in Callers,
           pc[c] \notin Waits \/ reply[c] # "none" \/ ~enq[c]
    PROVE  \A i \in 1..Len(queue) : queue[i].waiter = {}
  <1>1. \A i \in 1..Len(queue) : queue[i] \in Command
    BY ElementOfSeq DEF TypeInv, TypeOK
  <1>2. \A i \in 1..Len(queue) : queue[i].waiter \subseteq Callers
    BY <1>1 DEF Command
  <1> QED
    BY <1>2 DEF OneCaller, WaitInv

\* A step that leaves the queue and the rows alone keeps what is queued.
LEMMA StoreKept ==
    ASSUME StoreInv, UNCHANGED <<queue, attempts, acked, quarantine, wire>>,
           poisoned => poisoned'
    PROVE  StoreInv'
  <1>1. Unresolved' = Unresolved
    BY DEF Unresolved
  <1> QED
    BY <1>1 DEF StoreInv, OneWriteInv, AwaitedInv, IntentInv, ResultInv, Critical, Pending

\* So does a caller that gives up, if it poisons the process or only read.
LEMMA StoreAbandoned ==
    ASSUME OneCaller, TypeInv, WaitInv, StoreInv, NEW c \in Callers, Abandon(c),
           UNCHANGED <<attempts, acked, quarantine, wire>>,
           poisoned \/ pc[c] = "q_read" => poisoned' = poisoned,
           poisoned' \/ pc[c] = "q_read"
    PROVE  /\ StoreInv'
           /\ \A i \in 1..Len(queue') : queue'[i].waiter = {}
  <1>1. Unresolved' = Unresolved
    BY DEF Unresolved
  <1>2. \A i \in 1..Len(queue) : queue[i].waiter \subseteq {c}
    <2>1. \A i \in 1..Len(queue) : queue[i] \in Command
      BY ElementOfSeq DEF TypeInv, TypeOK
    <2> QED
      BY <2>1 DEF Command, OneCaller
  <1>3. /\ Len(queue') = Len(queue)
        /\ \A i \in 1..Len(queue) :
              /\ queue'[i].op = queue[i].op
              /\ queue'[i].req = queue[i].req
              /\ queue'[i].outcome = queue[i].outcome
              /\ queue'[i].waiter = {}
    BY <1>2, AbandonQueue
  <1>4. AwaitedInv'
    <2>1. CASE poisoned'
      BY <2>1 DEF AwaitedInv
    <2>2. CASE ~poisoned' /\ pc[c] = "q_read"
      <3>1. \A i \in 1..Len(queue) : queue[i].waiter # {} => queue[i].op = "active_quarantine"
        BY <2>2, <1>2 DEF WaitInv, OpOf
      <3> QED
        BY <2>2, <3>1, <1>3 DEF StoreInv, AwaitedInv
    <2> QED
      BY <2>1, <2>2
  <1>5. OneWriteInv'
    BY <1>3 DEF StoreInv, OneWriteInv, Critical, Pending
  <1>6. IntentInv' /\ ResultInv'
    BY <1>1, <1>3 DEF StoreInv, IntentInv, ResultInv, Pending
  <1> QED
    BY <1>3, <1>4, <1>5, <1>6 DEF StoreInv

\* What a new command must satisfy for the queue to stay as it should be.
LEMMA StoreEnqueued ==
    ASSUME TypeInv, StoreInv, NEW cmd \in Command, queue' = Append(queue, cmd),
           UNCHANGED <<attempts, acked, quarantine, wire, poisoned>>,
           cmd.op \in {"insert_intent", "record_result", "insert_quarantine"} =>
               poisoned \/ cmd.waiter # {},
           cmd.op \in {"insert_intent", "record_result"} =>
               \A i \in 1..Len(queue) : ~Critical(i),
           cmd.op = "insert_intent" => Unresolved = {},
           cmd.op = "record_result" =>
               /\ attempts[cmd.req] = "null" /\ wire[cmd.req] > 0
               /\ Unresolved \subseteq {cmd.req}
               /\ cmd.outcome = "ambiguous" => cmd.req \in acked \/ quarantine
    PROVE  StoreInv'
  <1>1. Unresolved' = Unresolved
    BY DEF Unresolved
  <1>2. /\ Len(queue) \in Nat /\ Len(queue') = Len(queue) + 1
        /\ \A i \in 1..Len(queue) : queue'[i] = queue[i]
        /\ queue'[Len(queue) + 1] = cmd
    BY EnqueueFacts
  <1>3. \A i \in 1..Len(queue') : i \in 1..Len(queue) \/ i = Len(queue) + 1
    BY <1>2
  <1>4. AwaitedInv'
    BY <1>2, <1>3 DEF StoreInv, AwaitedInv
  <1>5. OneWriteInv'
    BY <1>2, <1>3 DEF StoreInv, OneWriteInv, Critical, Pending
  <1>6. IntentInv' /\ ResultInv'
    BY <1>1, <1>2, <1>3 DEF StoreInv, IntentInv, ResultInv, Pending
  <1> QED
    BY <1>4, <1>5, <1>6 DEF StoreInv

\* Every step keeps the gate invariant, when broadcast_batch has one caller.
LEMMA StepInv == OneCaller /\ BroadcastInv /\ [Next]_vars => BroadcastInv'
  <1> SUFFICES ASSUME OneCaller, BroadcastInv, [Next]_vars PROVE BroadcastInv'
    OBVIOUS
  <1>t. TypeInv /\ TypeInv'
    BY StepType DEF BroadcastInv
  <1>f. /\ pc \in [Callers -> PCs] /\ batch \in [Callers -> Seq(Requests)]
        /\ out \in [Callers -> Outcomes \cup {"-"}] /\ enq \in [Callers -> BOOLEAN]
        /\ reply \in [Callers -> {"none", "ok", "active", "err"}]
        /\ attempts \in [Requests -> {"none", "null"} \cup Outcomes]
        /\ wire \in [Requests -> Nat] /\ quarantine \in BOOLEAN /\ poisoned \in BOOLEAN
        /\ HasCurrent
    BY <1>t DEF TypeInv, TypeOK
  <1>u. UNCHANGED <<attempts, acked>> => Unresolved' = Unresolved
    BY DEF Unresolved
  <1>v. /\ DownInv /\ RowInv /\ WaitInv /\ StoreInv
        /\ \A c \in Callers : PointInv(c)
    BY DEF BroadcastInv
  <1>1. CASE Start
    <2>1. DownInv' /\ RowInv' /\ WaitInv'
      BY <1>1, <1>u, <1>v DEF Start, DownInv, RowInv, WaitInv, Current, db, call
    <2>2. StoreInv'
      BY <1>1, <1>v, StoreKept DEF Start, db
    <2>3. \A d \in Callers : PointInv(d)'
      BY <1>1, <1>u, <1>v DEF Start, PointInv, Current, DownInv, db, call
    <2> QED
      BY <1>t, <2>1, <2>2, <2>3 DEF BroadcastInv
  <1>2. CASE New
    <2>1. queue = <<>> /\ 1..Len(queue') = {} /\ \A d \in Callers : pc[d] = "idle"
      BY <1>2, <1>v, EmptySeq DEF New, DownInv
    <2>2. Unresolved' = Unresolved /\ (Unresolved # {} => quarantine')
      BY <1>2, <1>f, <1>v DEF New, reconcile_quarantine_on_restart, Unresolved, RowInv, Outcomes, Definite
    <2>3. DownInv'
      BY <1>2 DEF New, DownInv
    <2>4. RowInv'
      <3>1. acked \subseteq Requests /\ acked' = acked /\ wire' = wire
        BY <1>2, <1>t DEF New, TypeInv, TypeOK
      <3>2. \A r \in Requests :
               /\ attempts[r] = "none" <=> attempts'[r] = "none"
               /\ attempts'[r] = "ambiguous" => attempts[r] = "ambiguous" \/ quarantine'
        BY <1>2, <1>f DEF New, reconcile_quarantine_on_restart
      <3>3. quarantine => quarantine'
        BY <1>2 DEF New, reconcile_quarantine_on_restart
      <3> QED
        BY <1>v, <2>2, <3>1, <3>2, <3>3 DEF RowInv
    <2>5. WaitInv' /\ StoreInv'
      BY <2>1 DEF WaitInv, StoreInv, OneWriteInv, AwaitedInv, IntentInv, ResultInv
    <2>6. \A d \in Callers : PointInv(d)'
      BY <1>2, <1>v, <2>1, <2>2 DEF New, PointInv, call
    <2> QED
      BY <1>t, <2>3, <2>4, <2>5, <2>6 DEF BroadcastInv
  <1>3. CASE NewRefused
    <2>1. DownInv' /\ RowInv' /\ WaitInv'
      BY <1>3, <1>u, <1>v DEF NewRefused, DownInv, RowInv, WaitInv, Current, db, call
    <2>2. StoreInv'
      BY <1>3, <1>v, StoreKept DEF NewRefused, db
    <2>3. \A d \in Callers : PointInv(d)'
      BY <1>3, <1>u, <1>v DEF NewRefused, PointInv, Current, DownInv, db, call
    <2> QED
      BY <1>t, <2>1, <2>2, <2>3 DEF BroadcastInv
  <1>4. CASE Crash
    <2>1. 1..Len(queue') = {}
      BY <1>4, EmptySeq DEF Crash
    <2>2. DownInv' /\ RowInv'
      BY <1>4, <1>u, <1>v DEF Crash, DownInv, RowInv, db
    <2>3. WaitInv' /\ StoreInv'
      BY <2>1 DEF WaitInv, StoreInv, OneWriteInv, AwaitedInv, IntentInv, ResultInv
    <2>4. \A d \in Callers : PointInv(d)'
      BY <1>4 DEF Crash, PointInv
    <2> QED
      BY <1>t, <2>2, <2>3, <2>4 DEF BroadcastInv
  <1>5. CASE OperatorClear
    <2>1. /\ Unresolved' = {} /\ quarantine /\ ~quarantine'
          /\ \A r \in Requests : attempts[r] \in {"null", "ambiguous"} => r \in acked'
          /\ acked \subseteq acked'
      BY <1>5 DEF OperatorClear, Unresolved
    <2>2. DownInv' /\ WaitInv'
      BY <1>5, <1>v DEF OperatorClear, DownInv, WaitInv, Current, call
    <2>3. RowInv'
      BY <1>5, <1>v, <2>1 DEF OperatorClear, RowInv
    <2>4. \A i \in 1..Len(queue) : Pending(i, "record_result") => queue[i].req \in Requests
      BY <1>t DEF TypeInv, WellFormed, Pending
    <2>5. StoreInv'
      BY <1>5, <1>v, <2>1, <2>4 DEF OperatorClear, StoreInv, OneWriteInv, AwaitedInv, IntentInv,
                                 ResultInv, Critical, Pending
    <2>6. \A d \in Callers : pc[d] \in {"quar_amb", "record"} => Current(d) \in Requests
      BY <1>f, HeadTailProperties DEF HasCurrent, Current
    <2>7. \A d \in Callers : PointInv(d)'
      BY <1>5, <1>f, <1>v, <2>1, <2>6 DEF OperatorClear, PointInv, Current, call
    <2> QED
      BY <1>t, <2>2, <2>3, <2>5, <2>7 DEF BroadcastInv
  <1>6. CASE OtherCommand
    <2> DEFINE cmd == [op |-> "other", req |-> "-", outcome |-> "-", waiter |-> {}]
    <2>1. cmd \in Command /\ queue' = Append(queue, cmd)
      BY <1>6 DEF OtherCommand, Command
    <2>2. StoreInv'
      BY <1>6, <1>t, <1>v, <2>1, StoreEnqueued DEF OtherCommand, db
    <2>3. WaitInv'
      <3>1. /\ Len(queue) \in Nat /\ Len(queue') = Len(queue) + 1
            /\ \A i \in 1..Len(queue) : queue'[i] = queue[i]
            /\ queue'[Len(queue) + 1].waiter = {}
        BY <1>t, <2>1, EnqueueFacts
      <3>2. \A i \in 1..Len(queue') : i \in 1..Len(queue) \/ i = Len(queue) + 1
        BY <3>1
      <3> QED
        BY <1>6, <1>v, <3>1, <3>2 DEF OtherCommand, WaitInv, Current, call
    <2>4. DownInv' /\ RowInv' /\ \A d \in Callers : PointInv(d)'
      BY <1>6, <1>u, <1>v DEF OtherCommand, DownInv, RowInv, PointInv, Current, db, call
    <2> QED
      BY <1>t, <2>2, <2>3, <2>4 DEF BroadcastInv
  <1>7. CASE ActorExecute
    <2>d. /\ Head(queue) \in Command /\ Head(queue) = queue[1] /\ WellFormed(Head(queue))
          /\ Len(queue') \in Nat /\ Len(queue) = Len(queue') + 1
          /\ \A i \in 1..Len(queue') : queue'[i] = queue[i + 1]
      BY <1>7, <1>t, DequeueFacts DEF ActorExecute
    <2>e. 1 \in 1..Len(queue) /\ \A i \in 1..Len(queue') : i + 1 \in 1..Len(queue) /\ i + 1 # 1
      BY <2>d
    <2>f. proc = "live" /\ UNCHANGED <<acked, proc, poisoned, pc, batch, out, enq, wire>>
      BY <1>7, <1>v DEF ActorExecute, DownInv, db
    <2>w. \A d \in Callers : \A i \in 1..Len(queue') :
             d \in queue'[i].waiter => d \notin Head(queue).waiter
      BY <1>v, <2>d, <2>e DEF WaitInv
    <2>g. \A d \in Callers : d \in Head(queue).waiter \/ reply'[d] = reply[d]
      BY <1>7 DEF ActorExecute, Answer
    <2>1. DownInv'
      BY <2>f DEF DownInv
    <2>2. WaitInv'
      <3>1. \A d \in Callers : \A i \in 1..Len(queue') :
               d \in queue'[i].waiter => reply'[d] = "none" /\ d \in queue[i + 1].waiter
        BY <1>v, <2>d, <2>e, <2>w, <2>g DEF WaitInv
      <3>2. \A d \in Callers : \A i, j \in 1..Len(queue') :
               d \in queue'[i].waiter /\ d \in queue'[j].waiter => i = j
        BY <1>v, <2>d, <2>e DEF WaitInv
      <3>3. \A d \in Callers : \A i \in 1..Len(queue') :
          d \in queue'[i].waiter =>
             /\ pc[d] \in Waits /\ enq[d]
             /\ queue'[i].op = OpOf(pc[d])
             /\ pc[d] \in {"intent", "record"} => queue'[i].req = Current(d)
             /\ pc[d] = "record" => queue'[i].outcome = out[d]
        BY <1>v, <2>d, <2>e DEF WaitInv
      <3> QED
        BY <2>f, <3>1, <3>2, <3>3 DEF WaitInv, Current
    <2> DEFINE cmd == Head(queue)
    <2>h. \A d \in Callers : d \in cmd.waiter =>
             /\ reply[d] = "none" /\ enq[d] /\ pc[d] \in Waits /\ cmd.op = OpOf(pc[d])
             /\ pc[d] \in {"intent", "record"} => cmd.req = Current(d)
             /\ pc[d] = "record" => cmd.outcome = out[d]
             /\ reply'[d] = IF cmd.op = "active_quarantine" /\ quarantine
                            THEN "active" ELSE "ok"
      BY <1>7, <1>v, <2>d, <2>e DEF ActorExecute, Answer, WaitInv
    <2>i. \A i \in 1..Len(queue') :
             queue'[i].op \in {"insert_intent", "record_result", "insert_quarantine"} =>
                 poisoned' \/ queue'[i].waiter # {}
      BY <1>v, <2>d, <2>e, <2>f DEF StoreInv, AwaitedInv
    <2>j. \A i, j \in 1..Len(queue') : Critical(i)' /\ Critical(j)' => i = j
      BY <1>v, <2>d, <2>e DEF StoreInv, OneWriteInv, Critical, Pending
    <2>k. cmd.op \in {"insert_intent", "record_result"} =>
             \A i \in 1..Len(queue') : ~Critical(i)'
      BY <1>v, <2>d, <2>e DEF StoreInv, OneWriteInv, Critical, Pending
    <2>l. \A d \in Callers : d \in cmd.waiter \/ poisoned
                \/ cmd.op \notin {"insert_intent", "record_result", "insert_quarantine"}
      <3>1. cmd.waiter \subseteq Callers
        BY <2>d DEF Command
      <3> QED
        BY <1>v, <2>d, <2>e, <3>1 DEF StoreInv, AwaitedInv, OneCaller
    <2>3. CASE cmd.op = "insert_intent"
      <3>1. /\ cmd.req \in Requests /\ attempts[cmd.req] = "none" /\ Unresolved = {}
            /\ attempts' = [attempts EXCEPT ![cmd.req] = "null"]
            /\ quarantine' = quarantine
        BY <1>7, <2>3, <1>v, <2>d, <2>e DEF ActorExecute, Execute, Executable, WellFormed,
                                        StoreInv, IntentInv, Pending
      <3>2. cmd.req \notin acked /\ wire[cmd.req] = 0
        BY <1>f, <1>v, <3>1 DEF RowInv
      <3>3. Unresolved' = {cmd.req}
        BY <1>f, <2>f, <3>1, <3>2 DEF Unresolved
      <3>4. RowInv'
        BY <1>f, <1>v, <2>f, <3>1, <3>2, <3>3 DEF RowInv
      <3>5. StoreInv'
        BY <2>3, <2>i, <2>j, <2>k DEF StoreInv, OneWriteInv, AwaitedInv, IntentInv, ResultInv, Critical
      <3>6. \A d \in Callers : PointInv(d)'
        <4> SUFFICES ASSUME NEW d \in Callers PROVE PointInv(d)'
          OBVIOUS
        <4>1. CASE d \in cmd.waiter
          <5>1. pc[d] = "intent" /\ enq[d] /\ reply'[d] = "ok" /\ cmd.req = Current(d)
            BY <2>3, <2>h, <4>1 DEF OpOf, Waits
          <5> QED
            BY <1>f, <1>v, <2>f, <3>1, <3>2, <3>3, <5>1 DEF PointInv, Current, WaitInv
        <4>2. CASE d \notin cmd.waiter
          BY <1>f, <1>v, <2>3, <2>f, <2>g, <2>l, <4>2 DEF PointInv
        <4> QED
          BY <4>1, <4>2
      <3> QED
        BY <1>t, <2>1, <2>2, <3>4, <3>5, <3>6 DEF BroadcastInv
    <2>4. CASE cmd.op = "record_result"
      <3>1. /\ cmd.req \in Requests /\ attempts[cmd.req] = "null" /\ wire[cmd.req] > 0
            /\ Unresolved \subseteq {cmd.req} /\ cmd.outcome \in Outcomes
            /\ cmd.outcome = "ambiguous" => cmd.req \in acked \/ quarantine
            /\ attempts' = [attempts EXCEPT ![cmd.req] = cmd.outcome]
            /\ quarantine' = quarantine
        BY <1>7, <2>4, <1>v, <2>d, <2>e DEF ActorExecute, Execute, WellFormed, StoreInv, ResultInv, Pending
      <3>2. Unresolved' \subseteq {cmd.req} /\ (cmd.outcome # "ambiguous" => Unresolved' = {})
        BY <1>f, <2>f, <3>1 DEF Unresolved, Outcomes, Definite
      <3>3. RowInv'
        BY <1>f, <1>v, <2>f, <3>1, <3>2 DEF RowInv, Outcomes, Definite
      <3>4. StoreInv'
        BY <2>4, <2>i, <2>j, <2>k DEF StoreInv, OneWriteInv, AwaitedInv, IntentInv, ResultInv, Critical
      <3>5. \A d \in Callers : PointInv(d)'
        <4> SUFFICES ASSUME NEW d \in Callers PROVE PointInv(d)'
          OBVIOUS
        <4>1. CASE d \in cmd.waiter
          <5>1. /\ pc[d] = "record" /\ enq[d] /\ reply'[d] = "ok"
                /\ cmd.req = Current(d) /\ cmd.outcome = out[d]
            BY <2>4, <2>h, <4>1 DEF OpOf, Waits
          <5> QED
            BY <1>f, <1>v, <2>f, <3>1, <3>2, <5>1 DEF PointInv, Current
        <4>2. CASE d \notin cmd.waiter
          <5>1. poisoned /\ reply'[d] = reply[d]
            BY <2>4, <2>g, <2>l, <4>2
          <5> QED
            BY <1>v, <2>f, <5>1 DEF PointInv
        <4> QED
          BY <4>1, <4>2
      <3> QED
        BY <1>t, <2>1, <2>2, <3>3, <3>4, <3>5 DEF BroadcastInv
    <2>5. CASE cmd.op \notin {"insert_intent", "record_result"}
      <3>1. /\ attempts' = attempts /\ Unresolved' = Unresolved
            /\ quarantine' = (quarantine \/ cmd.op = "insert_quarantine")
        BY <1>7, <2>5, <1>f, <1>u, <2>f DEF ActorExecute, Execute
      <3>2. RowInv'
        BY <1>v, <2>f, <3>1 DEF RowInv
      <3>3. IntentInv' /\ ResultInv'
        <4>1. quarantine => quarantine'
          BY <3>1
        <4> QED
          BY <1>v, <2>d, <2>e, <2>f, <3>1, <4>1 DEF StoreInv, IntentInv, ResultInv, Pending
      <3>4. StoreInv'
        BY <2>i, <2>j, <3>3 DEF StoreInv, OneWriteInv, AwaitedInv
      <3>5. \A d \in Callers : PointInv(d)'
        <4> SUFFICES ASSUME NEW d \in Callers PROVE PointInv(d)'
          OBVIOUS
        <4>1. CASE d \in cmd.waiter
          <5>1. CASE cmd.op = "insert_quarantine"
            <6>1. pc[d] \in {"quar_amb", "quar_unk"} /\ enq[d] /\ quarantine' /\ reply'[d] = "ok"
              BY <2>h, <3>1, <4>1, <5>1 DEF OpOf, Waits
            <6> QED
              BY <1>f, <1>v, <2>f, <3>1, <6>1 DEF PointInv, Current
          <5>2. CASE cmd.op # "insert_quarantine"
            <6>1. pc[d] = "q_read" /\ enq[d] /\ (reply'[d] = "ok" => ~quarantine) /\ quarantine' = quarantine
              BY <1>f, <2>5, <2>h, <3>1, <4>1, <5>2 DEF OpOf, Waits
            <6> QED
              BY <1>f, <1>v, <2>f, <3>1, <6>1 DEF PointInv
          <5> QED
            BY <5>1, <5>2
        <4>2. CASE d \notin cmd.waiter
          <5>1. reply'[d] = reply[d] /\ (quarantine' = quarantine \/ (poisoned /\ quarantine'))
            BY <1>f, <2>g, <2>l, <3>1, <4>2
          <5> QED
            BY <1>f, <1>v, <2>f, <3>1, <5>1 DEF PointInv, Current
        <4> QED
          BY <4>1, <4>2
      <3> QED
        BY <1>t, <2>1, <2>2, <3>2, <3>4, <3>5 DEF BroadcastInv
    <2> QED
      BY <2>3, <2>4, <2>5
  <1>8. CASE ActorFail
    <2>d. /\ Head(queue) \in Command /\ Head(queue) = queue[1] /\ WellFormed(Head(queue))
          /\ Len(queue') \in Nat /\ Len(queue) = Len(queue') + 1
          /\ \A i \in 1..Len(queue') : queue'[i] = queue[i + 1]
      BY <1>8, <1>t, DequeueFacts DEF ActorFail
    <2>e. 1 \in 1..Len(queue) /\ \A i \in 1..Len(queue') : i + 1 \in 1..Len(queue) /\ i + 1 # 1
      BY <2>d
    <2>f. proc = "live" /\ UNCHANGED <<acked, proc, poisoned, pc, batch, out, enq, wire>>
      BY <1>8, <1>v DEF ActorFail, DownInv, db
    <2>w. \A d \in Callers : \A i \in 1..Len(queue') :
             d \in queue'[i].waiter => d \notin Head(queue).waiter
      BY <1>v, <2>d, <2>e DEF WaitInv
    <2>g. \A d \in Callers : d \in Head(queue).waiter \/ reply'[d] = reply[d]
      BY <1>8 DEF ActorFail, Answer
    <2>1. DownInv'
      BY <2>f DEF DownInv
    <2>2. WaitInv'
      <3>1. \A d \in Callers : \A i \in 1..Len(queue') :
               d \in queue'[i].waiter => reply'[d] = "none" /\ d \in queue[i + 1].waiter
        BY <1>v, <2>d, <2>e, <2>w, <2>g DEF WaitInv
      <3>2. \A d \in Callers : \A i, j \in 1..Len(queue') :
               d \in queue'[i].waiter /\ d \in queue'[j].waiter => i = j
        BY <1>v, <2>d, <2>e DEF WaitInv
      <3>3. \A d \in Callers : \A i \in 1..Len(queue') :
          d \in queue'[i].waiter =>
             /\ pc[d] \in Waits /\ enq[d]
             /\ queue'[i].op = OpOf(pc[d])
             /\ pc[d] \in {"intent", "record"} => queue'[i].req = Current(d)
             /\ pc[d] = "record" => queue'[i].outcome = out[d]
        BY <1>v, <2>d, <2>e DEF WaitInv
      <3> QED
        BY <2>f, <3>1, <3>2, <3>3 DEF WaitInv, Current
    <2>h. UNCHANGED <<attempts, quarantine>> /\ Unresolved' = Unresolved
      BY <1>8, <1>u DEF ActorFail, db
    <2>3. RowInv'
      BY <1>v, <2>f, <2>h DEF RowInv
    <2>4. StoreInv'
      <3>1. OneWriteInv'
        BY <1>v, <2>d, <2>e DEF StoreInv, OneWriteInv, Critical, Pending
      <3>2. AwaitedInv'
        BY <1>v, <2>d, <2>e, <2>f DEF StoreInv, AwaitedInv
      <3>3. IntentInv' /\ ResultInv'
        BY <1>v, <2>d, <2>e, <2>f, <2>h DEF StoreInv, IntentInv, ResultInv, Pending
      <3> QED
        BY <3>1, <3>2, <3>3 DEF StoreInv
    <2>5. \A d \in Callers : PointInv(d)'
      <3>1. \A d \in Callers : d \in Head(queue).waiter =>
               reply[d] = "none" /\ enq[d] /\ reply'[d] = "err" /\ pc[d] \in Waits
        BY <1>8, <1>v, <2>d, <2>e DEF ActorFail, Answer, WaitInv
      <3> QED
        BY <1>f, <1>v, <2>f, <2>g, <2>h, <3>1 DEF PointInv, Current, Waits
    <2> QED
      BY <1>t, <2>1, <2>2, <2>3, <2>4, <2>5 DEF BroadcastInv
  <1>9. ASSUME NEW c \in Callers, Authorize(c) PROVE BroadcastInv'
    <2>q. \A i \in 1..Len(queue) : queue[i].waiter = {}
      BY <1>9, <1>t, <1>v, QuietQueue DEF Authorize, Waits
    <2>1. DownInv'
      BY <1>9, <1>f, <1>v DEF Authorize, Await, DownInv, db, call
    <2>2. RowInv'
      BY <1>9, <1>f, <1>u, <1>v DEF Authorize, Await, RowInv, PointInv, db
    <2>3. WaitInv'
      BY <1>9, <2>q DEF Authorize, Await, WaitInv
    <2>4. StoreInv'
      BY <1>9, <1>v, StoreKept DEF Authorize, Await, db
    <2>5. \A d \in Callers : PointInv(d)'
      BY <1>9, <1>f, <1>u, <1>v DEF Authorize, Await, PointInv, Current, OneCaller, HasCurrent, DownInv, db
    <2> QED
      BY <1>t, <2>1, <2>2, <2>3, <2>4, <2>5 DEF BroadcastInv
  <1>10. ASSUME NEW c \in Callers, RefusePoisoned(c) PROVE BroadcastInv'
    <2>q. \A i \in 1..Len(queue) : queue[i].waiter = {}
      BY <1>10, <1>t, <1>v, QuietQueue DEF RefusePoisoned, Waits
    <2>1. DownInv'
      BY <1>10, <1>f, <1>v DEF RefusePoisoned, Return, Await, DownInv, db, call
    <2>2. RowInv'
      BY <1>10, <1>f, <1>u, <1>v DEF RefusePoisoned, Return, Await, RowInv, PointInv, db
    <2>3. WaitInv'
      BY <1>10, <2>q DEF RefusePoisoned, Return, Await, WaitInv
    <2>4. StoreInv'
      BY <1>10, <1>v, StoreKept DEF RefusePoisoned, Return, Await, db
    <2>5. \A d \in Callers : PointInv(d)'
      BY <1>10, <1>f, <1>u, <1>v DEF RefusePoisoned, Return, Await, PointInv, Current, OneCaller, HasCurrent, DownInv, db
    <2> QED
      BY <1>t, <2>1, <2>2, <2>3, <2>4, <2>5 DEF BroadcastInv
  <1>11. ASSUME NEW c \in Callers, RefuseStale(c) PROVE BroadcastInv'
    <2>q. \A i \in 1..Len(queue) : queue[i].waiter = {}
      BY <1>11, <1>t, <1>v, QuietQueue DEF RefuseStale, Waits
    <2>1. DownInv'
      BY <1>11, <1>f, <1>v DEF RefuseStale, Return, Await, DownInv, db, call
    <2>2. RowInv'
      BY <1>11, <1>f, <1>u, <1>v DEF RefuseStale, Return, Await, RowInv, PointInv, db
    <2>3. WaitInv'
      BY <1>11, <2>q DEF RefuseStale, Return, Await, WaitInv
    <2>4. StoreInv'
      BY <1>11, <1>v, StoreKept DEF RefuseStale, Return, Await, db
    <2>5. \A d \in Callers : PointInv(d)'
      BY <1>11, <1>f, <1>u, <1>v DEF RefuseStale, Return, Await, PointInv, Current, OneCaller, HasCurrent, DownInv, db
    <2> QED
      BY <1>t, <2>1, <2>2, <2>3, <2>4, <2>5 DEF BroadcastInv
  <1>12. ASSUME NEW c \in Callers, Dispatch(c) PROVE BroadcastInv'
    <2>q. \A i \in 1..Len(queue) : queue[i].waiter = {}
      BY <1>12, <1>t, <1>v, QuietQueue DEF Dispatch, Waits
    <2>1. DownInv'
      BY <1>12, <1>f, <1>v DEF Dispatch, Await, DownInv, db, call
    <2>2. RowInv'
      BY <1>12, <1>f, <1>u, <1>v DEF Dispatch, Await, RowInv, PointInv, db
    <2>3. WaitInv'
      BY <1>12, <2>q DEF Dispatch, Await, WaitInv
    <2>4. StoreInv'
      BY <1>12, <1>v, StoreKept DEF Dispatch, Await, db
    <2>5. \A d \in Callers : PointInv(d)'
      BY <1>12, <1>f, <1>u, <1>v DEF Dispatch, Await, PointInv, Current, OneCaller, HasCurrent, DownInv, db
    <2> QED
      BY <1>t, <2>1, <2>2, <2>3, <2>4, <2>5 DEF BroadcastInv
  <1>13. ASSUME NEW c \in Callers, Submit(c) PROVE BroadcastInv'
    <2>q. \A i \in 1..Len(queue) : queue[i].waiter = {}
      BY <1>13, <1>t, <1>v, QuietQueue DEF Submit
    <2>1. /\ CommandOf(c) \in Command /\ CommandOf(c).waiter = {c}
          /\ pc[c] # "intent" /\ CommandOf(c).op = OpOf(pc[c])
          /\ pc[c] = "record" => CommandOf(c).req = Current(c) /\ CommandOf(c).outcome = out[c]
      <3>1. pc[c] # "intent"
        BY <1>13, <1>v DEF Submit, PointInv
      <3>2. pc[c] = "record" => Current(c) \in Requests /\ out[c] \in Outcomes
        BY <1>f, HeadTailProperties DEF HasCurrent, Current
      <3> QED
        BY <1>13, <3>1, <3>2 DEF Submit, CommandOf, OpOf, Waits, Command
    <2>2. /\ Len(queue) \in Nat /\ Len(queue') = Len(queue) + 1
          /\ \A i \in 1..Len(queue) : queue'[i] = queue[i]
          /\ queue'[Len(queue) + 1] = CommandOf(c)
      BY <1>13, <1>t, <2>1, EnqueueFacts DEF Submit
    <2>3. \A i \in 1..Len(queue') : i \in 1..Len(queue) \/ i = Len(queue) + 1
      BY <2>2
    <2>4. /\ UNCHANGED <<attempts, acked, quarantine, proc, poisoned, pc, batch, out, reply, wire>>
          /\ enq' = [enq EXCEPT ![c] = TRUE] /\ pc[c] \in Waits /\ ~enq[c]
      BY <1>13 DEF Submit, db
    <2>5. DownInv' /\ RowInv'
      BY <1>u, <1>v, <2>4 DEF DownInv, RowInv, Waits
    <2>6. \A d \in Callers : PointInv(d)'
      BY <1>f, <1>u, <1>v, <2>4 DEF PointInv, Current, Waits, OneCaller
    <2>7. pc[c] = "record" => reply[c] = "none" \/ reply[c] = "err" \/ reply[c] = "ok"
      BY <1>f, <1>v DEF PointInv
    <2>8. StoreInv'
      <3>1. pc[c] = "record" => \A i \in 1..Len(queue) : ~Critical(i)
        BY <1>v, <2>q DEF StoreInv, AwaitedInv, PointInv, Critical, Pending
      <3>2. pc[c] = "record" =>
               /\ attempts[Current(c)] = "null" /\ wire[Current(c)] > 0
               /\ Unresolved \subseteq {Current(c)}
               /\ out[c] = "ambiguous" => Current(c) \in acked \/ quarantine
        BY <1>v, <2>4 DEF PointInv
      <3> QED
        BY <1>13, <1>t, <1>v, <2>1, <2>4, <3>1, <3>2, StoreEnqueued DEF Submit, OpOf
    <2>9. WaitInv'
      <3>1. reply[c] = "none"
        BY <1>v, <2>4 DEF PointInv
      <3> QED
        BY <3>1, <1>f, <2>q, <2>1, <2>2, <2>3, <2>4, ZenonT(40) DEF WaitInv, OneCaller, Current
    <2> QED
      BY <1>t, <2>5, <2>6, <2>8, <2>9 DEF BroadcastInv
  <1>14. ASSUME NEW c \in Callers, QuarantineRead(c) PROVE BroadcastInv'
    <2>1. DownInv'
      BY <1>14, <1>f, <1>v DEF QuarantineRead, Return, Await, Failed, DownInv, db, call, PointInv
    <2>2. RowInv'
      BY <1>14, <1>u, <1>v DEF QuarantineRead, RowInv, db
    <2>3. StoreInv' /\ \A i \in 1..Len(queue') : queue'[i].waiter = {}
      <3>1. CASE Abandon(c)
        BY <1>14, <3>1, <1>f, <1>t, <1>v, StoreAbandoned DEF QuarantineRead, PointInv, db
      <3>2. CASE queue' = queue /\ reply[c] # "none"
        <4>1. \A i \in 1..Len(queue) : queue[i].waiter = {}
          BY <3>2, <1>t, <1>v, QuietQueue
        <4> QED
          BY <1>14, <3>2, <4>1, <1>f, <1>v, StoreKept DEF QuarantineRead, db
      <3> QED
        BY <1>14, <3>1, <3>2 DEF QuarantineRead, Failed
    <2>4. WaitInv'
      BY <2>3 DEF WaitInv
    <2>5. \A d \in Callers : PointInv(d)'
      BY <1>14, <1>f, <1>u, <1>v DEF QuarantineRead, Return, Await, Failed, PointInv, Current, OneCaller, HasCurrent, DownInv, db
    <2> QED
      BY <1>t, <2>1, <2>2, <2>3, <2>4, <2>5 DEF BroadcastInv
  <1>15. ASSUME NEW c \in Callers, BatchDone(c) PROVE BroadcastInv'
    <2>q. \A i \in 1..Len(queue) : queue[i].waiter = {}
      BY <1>15, <1>t, <1>v, QuietQueue DEF BatchDone, Waits
    <2>1. DownInv'
      BY <1>15, <1>f, <1>v DEF BatchDone, Return, Await, DownInv, db, call
    <2>2. RowInv'
      BY <1>15, <1>f, <1>u, <1>v DEF BatchDone, Return, Await, RowInv, PointInv, db
    <2>3. WaitInv'
      BY <1>15, <2>q DEF BatchDone, Return, Await, WaitInv
    <2>4. StoreInv'
      BY <1>15, <1>v, StoreKept DEF BatchDone, Return, Await, db
    <2>5. \A d \in Callers : PointInv(d)'
      BY <1>15, <1>f, <1>u, <1>v DEF BatchDone, Return, Await, PointInv, Current, OneCaller, HasCurrent, DownInv, db
    <2> QED
      BY <1>t, <2>1, <2>2, <2>3, <2>4, <2>5 DEF BroadcastInv
  <1>16. ASSUME NEW c \in Callers, AdmitIntent(c) PROVE BroadcastInv'
    <2> DEFINE cmd == [op |-> "insert_intent", req |-> Current(c), outcome |-> "-", waiter |-> {c}]
    <2>q. \A i \in 1..Len(queue) : queue[i].waiter = {}
      BY <1>16, <1>t, <1>v, QuietQueue DEF AdmitIntent, Waits
    <2>1. cmd \in Command /\ queue' = Append(queue, cmd)
      BY <1>16, <1>f, HeadTailProperties DEF AdmitIntent, Command, Current
    <2>2. /\ Len(queue) \in Nat /\ Len(queue') = Len(queue) + 1
          /\ \A i \in 1..Len(queue) : queue'[i] = queue[i]
          /\ queue'[Len(queue) + 1] = cmd
      BY <1>t, <2>1, EnqueueFacts
    <2>3. \A i \in 1..Len(queue') : i \in 1..Len(queue) \/ i = Len(queue) + 1
      BY <2>2
    <2>4. ~poisoned /\ ~quarantine /\ Unresolved = {} /\ reply[c] = "none"
      BY <1>16, <1>v DEF AdmitIntent, PointInv
    <2>5. DownInv' /\ RowInv'
      BY <1>16, <1>f, <1>u, <1>v DEF AdmitIntent, DownInv, RowInv, db
    <2>6. \A i \in 1..Len(queue) : ~Critical(i)
      BY <1>v, <2>q, <2>4 DEF StoreInv, AwaitedInv, Critical, Pending
    <2>7. StoreInv'
      BY <1>16, <1>t, <1>v, <2>1, <2>4, <2>6, StoreEnqueued DEF AdmitIntent, db
    <2>8. WaitInv'
      BY <1>16, <1>f, <2>q, <2>2, <2>3, <2>4 DEF AdmitIntent, WaitInv, OneCaller, Current, OpOf, Waits
    <2>9. \A d \in Callers : PointInv(d)'
      BY <1>16, <1>f, <1>u, <2>4 DEF AdmitIntent, PointInv, OneCaller, db
    <2> QED
      BY <1>t, <2>5, <2>7, <2>8, <2>9 DEF BroadcastInv
  <1>17. ASSUME NEW c \in Callers, AdmissionRefused(c) PROVE BroadcastInv'
    <2>q. \A i \in 1..Len(queue) : queue[i].waiter = {}
      BY <1>17, <1>t, <1>v, QuietQueue DEF AdmissionRefused, Waits
    <2>1. DownInv'
      BY <1>17, <1>f, <1>v DEF AdmissionRefused, Return, Await, DownInv, db, call
    <2>2. RowInv'
      BY <1>17, <1>f, <1>u, <1>v DEF AdmissionRefused, Return, Await, RowInv, PointInv, db
    <2>3. WaitInv'
      BY <1>17, <2>q DEF AdmissionRefused, Return, Await, WaitInv
    <2>4. StoreInv'
      BY <1>17, <1>v, StoreKept DEF AdmissionRefused, Return, Await, db
    <2>5. \A d \in Callers : PointInv(d)'
      BY <1>17, <1>f, <1>u, <1>v DEF AdmissionRefused, Return, Await, PointInv, Current, OneCaller, HasCurrent, DownInv, db
    <2> QED
      BY <1>t, <2>1, <2>2, <2>3, <2>4, <2>5 DEF BroadcastInv
  <1>18. ASSUME NEW c \in Callers, IntentPersisted(c) PROVE BroadcastInv'
    <2>q. \A i \in 1..Len(queue) : queue[i].waiter = {}
      BY <1>18, <1>t, <1>v, QuietQueue DEF IntentPersisted, Waits
    <2>1. DownInv'
      BY <1>18, <1>f, <1>v DEF IntentPersisted, Await, DownInv, db, call
    <2>2. RowInv'
      BY <1>18, <1>f, <1>u, <1>v DEF IntentPersisted, Await, RowInv, PointInv, db
    <2>3. WaitInv'
      BY <1>18, <2>q DEF IntentPersisted, Await, WaitInv
    <2>4. StoreInv'
      BY <1>18, <1>v, StoreKept DEF IntentPersisted, Await, db
    <2>5. \A d \in Callers : PointInv(d)'
      BY <1>18, <1>f, <1>u, <1>v DEF IntentPersisted, Await, PointInv, Current, OneCaller, HasCurrent, DownInv, db
    <2> QED
      BY <1>t, <2>1, <2>2, <2>3, <2>4, <2>5 DEF BroadcastInv
  <1>19. ASSUME NEW c \in Callers, IntentRejected(c) PROVE BroadcastInv'
    <2>q. \A i \in 1..Len(queue) : queue[i].waiter = {}
      BY <1>19, <1>t, <1>v, QuietQueue DEF IntentRejected, Waits
    <2>1. DownInv'
      BY <1>19, <1>f, <1>v DEF IntentRejected, Return, Await, DownInv, db, call
    <2>2. RowInv'
      BY <1>19, <1>f, <1>u, <1>v DEF IntentRejected, Return, Await, RowInv, PointInv, db
    <2>3. WaitInv'
      BY <1>19, <2>q DEF IntentRejected, Return, Await, WaitInv
    <2>4. StoreInv'
      BY <1>19, <1>v, StoreKept DEF IntentRejected, Return, Await, db
    <2>5. \A d \in Callers : PointInv(d)'
      BY <1>19, <1>f, <1>u, <1>v DEF IntentRejected, Return, Await, PointInv, Current, OneCaller, HasCurrent, DownInv, db
    <2> QED
      BY <1>t, <2>1, <2>2, <2>3, <2>4, <2>5 DEF BroadcastInv
  <1>20. ASSUME NEW c \in Callers, IntentUnknown(c) PROVE BroadcastInv'
    <2>1. DownInv'
      BY <1>20, <1>f, <1>v DEF IntentUnknown, Await, DownInv, db, call, PointInv
    <2>2. RowInv'
      BY <1>20, <1>u, <1>v DEF IntentUnknown, RowInv, db
    <2>3. StoreInv' /\ \A i \in 1..Len(queue') : queue'[i].waiter = {}
      BY <1>20, <1>f, <1>t, <1>v, StoreAbandoned DEF IntentUnknown, PointInv, db
    <2>4. WaitInv'
      BY <2>3 DEF WaitInv
    <2>5. \A d \in Callers : PointInv(d)'
      BY <1>20, <1>f, <1>u, <1>v DEF IntentUnknown, Await, PointInv, Current, OneCaller, HasCurrent, DownInv, db
    <2> QED
      BY <1>t, <2>1, <2>2, <2>3, <2>4, <2>5 DEF BroadcastInv
  <1>21. ASSUME NEW c \in Callers, AttemptSend(c) PROVE BroadcastInv'
    <2>q. \A i \in 1..Len(queue) : queue[i].waiter = {}
      BY <1>21, <1>t, <1>v, QuietQueue DEF AttemptSend, Waits
    <2>1. DownInv'
      BY <1>21, <1>f, <1>v DEF AttemptSend, Await, DownInv, db, call
    <2>2. RowInv'
      BY <1>21, <1>f, <1>u, <1>v DEF AttemptSend, Await, RowInv, PointInv, db
    <2>3. WaitInv'
      BY <1>21, <2>q DEF AttemptSend, Await, WaitInv
    <2>a. \A i \in 1..Len(queue) : ~Critical(i)
      BY <1>21, <1>v, <2>q DEF AttemptSend, StoreInv, AwaitedInv, PointInv, Critical, Pending
    <2>4. StoreInv'
      BY <1>21, <1>u, <1>v, <2>a DEF AttemptSend, StoreInv, OneWriteInv, AwaitedInv, IntentInv,
                                   ResultInv, Critical, Pending, db
    <2>5. \A d \in Callers : PointInv(d)'
      BY <1>21, <1>f, <1>u, <1>v DEF AttemptSend, Await, PointInv, Current, OneCaller, HasCurrent, DownInv, db
    <2> QED
      BY <1>t, <2>1, <2>2, <2>3, <2>4, <2>5 DEF BroadcastInv
  <1>22. ASSUME NEW c \in Callers, ResultRecorded(c) PROVE BroadcastInv'
    <2>q. \A i \in 1..Len(queue) : queue[i].waiter = {}
      BY <1>22, <1>t, <1>v, QuietQueue DEF ResultRecorded, Waits
    <2>1. DownInv'
      BY <1>22, <1>f, <1>v DEF ResultRecorded, Return, Await, DownInv, db, call
    <2>2. RowInv'
      BY <1>22, <1>f, <1>u, <1>v DEF ResultRecorded, Return, Await, RowInv, PointInv, db
    <2>3. WaitInv'
      BY <1>22, <2>q DEF ResultRecorded, Return, Await, WaitInv
    <2>4. StoreInv'
      BY <1>22, <1>v, StoreKept DEF ResultRecorded, Return, Await, db
    <2>r. (out[c] # "ambiguous" => Unresolved = {}) /\ (~quarantine => Unresolved = {})
      <3>1. /\ Unresolved \subseteq {Current(c)} /\ attempts[Current(c)] = out[c]
            /\ out[c] \in Outcomes
            /\ out[c] = "ambiguous" => Current(c) \in acked \/ quarantine
        BY <1>22, <1>f, <1>v DEF ResultRecorded, PointInv, HasCurrent
      <3>2. Current(c) \in Unresolved => out[c] = "ambiguous" /\ Current(c) \notin acked
        BY <3>1 DEF Unresolved, Outcomes, Definite
      <3> QED
        BY <3>1, <3>2
    <2>5. \A d \in Callers : PointInv(d)'
      BY <1>22, <1>f, <1>u, <1>v, <2>r DEF ResultRecorded, Return, Await, PointInv, Current, OneCaller, HasCurrent, DownInv, db
    <2> QED
      BY <1>t, <2>1, <2>2, <2>3, <2>4, <2>5 DEF BroadcastInv
  <1>23. ASSUME NEW c \in Callers, ResultUnknown(c) PROVE BroadcastInv'
    <2>1. DownInv'
      BY <1>23, <1>f, <1>v DEF ResultUnknown, Return, Await, Failed, DownInv, db, call, PointInv
    <2>2. RowInv'
      BY <1>23, <1>u, <1>v DEF ResultUnknown, RowInv, db
    <2>3. StoreInv' /\ \A i \in 1..Len(queue') : queue'[i].waiter = {}
      <3>1. CASE Abandon(c)
        BY <1>23, <3>1, <1>f, <1>t, <1>v, StoreAbandoned DEF ResultUnknown, PointInv, db
      <3>2. CASE queue' = queue /\ reply[c] # "none"
        <4>1. \A i \in 1..Len(queue) : queue[i].waiter = {}
          BY <3>2, <1>t, <1>v, QuietQueue
        <4> QED
          BY <1>23, <3>2, <4>1, <1>f, <1>v, StoreKept DEF ResultUnknown, db
      <3> QED
        BY <1>23, <3>1, <3>2 DEF ResultUnknown, Failed
    <2>4. WaitInv'
      BY <2>3 DEF WaitInv
    <2>5. \A d \in Callers : PointInv(d)'
      BY <1>23, <1>f, <1>u, <1>v DEF ResultUnknown, Return, Await, Failed, PointInv, Current, OneCaller, HasCurrent, DownInv, db
    <2> QED
      BY <1>t, <2>1, <2>2, <2>3, <2>4, <2>5 DEF BroadcastInv
  <1>24. ASSUME NEW c \in Callers, AmbiguousQuarantined(c) PROVE BroadcastInv'
    <2>q. \A i \in 1..Len(queue) : queue[i].waiter = {}
      BY <1>24, <1>t, <1>v, QuietQueue DEF AmbiguousQuarantined, Waits
    <2>1. DownInv'
      BY <1>24, <1>f, <1>v DEF AmbiguousQuarantined, Await, DownInv, db, call
    <2>2. RowInv'
      BY <1>24, <1>f, <1>u, <1>v DEF AmbiguousQuarantined, Await, RowInv, PointInv, db
    <2>3. WaitInv'
      BY <1>24, <2>q DEF AmbiguousQuarantined, Await, WaitInv
    <2>4. StoreInv'
      BY <1>24, <1>v, StoreKept DEF AmbiguousQuarantined, Await, db
    <2>5. \A d \in Callers : PointInv(d)'
      BY <1>24, <1>f, <1>u, <1>v DEF AmbiguousQuarantined, Await, PointInv, Current, OneCaller, HasCurrent, DownInv, db
    <2> QED
      BY <1>t, <2>1, <2>2, <2>3, <2>4, <2>5 DEF BroadcastInv
  <1>25. ASSUME NEW c \in Callers, AmbiguousUnquarantined(c) PROVE BroadcastInv'
    <2>1. DownInv'
      BY <1>25, <1>f, <1>v DEF AmbiguousUnquarantined, Return, Await, Failed, DownInv, db, call, PointInv
    <2>2. RowInv'
      BY <1>25, <1>u, <1>v DEF AmbiguousUnquarantined, RowInv, db
    <2>3. StoreInv' /\ \A i \in 1..Len(queue') : queue'[i].waiter = {}
      <3>1. CASE Abandon(c)
        BY <1>25, <3>1, <1>f, <1>t, <1>v, StoreAbandoned DEF AmbiguousUnquarantined, PointInv, db
      <3>2. CASE queue' = queue /\ reply[c] # "none"
        <4>1. \A i \in 1..Len(queue) : queue[i].waiter = {}
          BY <3>2, <1>t, <1>v, QuietQueue
        <4> QED
          BY <1>25, <3>2, <4>1, <1>f, <1>v, StoreKept DEF AmbiguousUnquarantined, db
      <3> QED
        BY <1>25, <3>1, <3>2 DEF AmbiguousUnquarantined, Failed
    <2>4. WaitInv'
      BY <2>3 DEF WaitInv
    <2>5. \A d \in Callers : PointInv(d)'
      BY <1>25, <1>f, <1>u, <1>v DEF AmbiguousUnquarantined, Return, Await, Failed, PointInv, Current, OneCaller, HasCurrent, DownInv, db
    <2> QED
      BY <1>t, <2>1, <2>2, <2>3, <2>4, <2>5 DEF BroadcastInv
  <1>26. ASSUME NEW c \in Callers, PoisonedQuarantine(c) PROVE BroadcastInv'
    <2>1. DownInv'
      BY <1>26, <1>f, <1>v DEF PoisonedQuarantine, Return, Await, Failed, DownInv, db, call, PointInv
    <2>2. RowInv'
      BY <1>26, <1>u, <1>v DEF PoisonedQuarantine, RowInv, db
    <2>3. StoreInv' /\ \A i \in 1..Len(queue') : queue'[i].waiter = {}
      <3>1. CASE Abandon(c)
        BY <1>26, <3>1, <1>f, <1>t, <1>v, StoreAbandoned DEF PoisonedQuarantine, PointInv, db
      <3>2. CASE queue' = queue /\ reply[c] # "none"
        <4>1. \A i \in 1..Len(queue) : queue[i].waiter = {}
          BY <3>2, <1>t, <1>v, QuietQueue
        <4> QED
          BY <1>26, <3>2, <4>1, <1>f, <1>v, StoreKept DEF PoisonedQuarantine, db
      <3> QED
        BY <1>26, <3>1, <3>2 DEF PoisonedQuarantine, Failed
    <2>4. WaitInv'
      BY <2>3 DEF WaitInv
    <2>5. \A d \in Callers : PointInv(d)'
      BY <1>26, <1>f, <1>u, <1>v DEF PoisonedQuarantine, Return, Await, Failed, PointInv, Current, OneCaller, HasCurrent, DownInv, db
    <2> QED
      BY <1>t, <2>1, <2>2, <2>3, <2>4, <2>5 DEF BroadcastInv
  <1>27. CASE UNCHANGED vars
    BY <1>27, <1>t, <1>u, <1>v DEF vars, BroadcastInv, DownInv, RowInv, WaitInv, StoreInv, OneWriteInv, AwaitedInv, IntentInv, ResultInv, PointInv, Critical, Pending, Current
  <1> QED
    BY <1>1, <1>2, <1>3, <1>4, <1>5, <1>6, <1>7, <1>8, <1>9, <1>10, <1>11, <1>12, <1>13, <1>14, <1>15, <1>16, <1>17, <1>18, <1>19, <1>20, <1>21, <1>22, <1>23, <1>24, <1>25, <1>26, <1>27 DEF Next, Actor, CallerStep

-----------------------------------------------------------------------------
(* Theorems *)

\* Type correctness of the broadcaster, for any number of callers.
THEOREM TypeCorrect == Spec => []TypeOK
  <1>1. TypeInv => TypeOK
    BY DEF TypeInv
  <1> QED
    BY InitType, StepType, <1>1, PTL DEF Spec

\* The gate invariant holds in every reachable state.
LEMMA InvariantHolds == OneCaller => (Spec => []BroadcastInv)
  <1> SUFFICES ASSUME OneCaller PROVE Spec => []BroadcastInv
    OBVIOUS
  <1>1. BroadcastInv /\ [Next]_vars => BroadcastInv'
    BY StepInv
  <1> QED
    BY InitInv, <1>1, PTL DEF Spec

\* With one caller, nothing is sent while a quarantine is active.
THEOREM NeverSendsQuarantined == OneCaller => (Spec => []ZeroCallsWhileQuarantined)
  <1> SUFFICES ASSUME OneCaller PROVE Spec => []ZeroCallsWhileQuarantined
    OBVIOUS
  <1>1. BroadcastInv => ZeroCallsWhileQuarantined
    BY DEF BroadcastInv, PointInv, ZeroCallsWhileQuarantined
  <1> QED
    BY InvariantHolds, <1>1, PTL

\* With one caller, no send runs over an attempt whose outcome is unresolved,
\* across late writes, crashes and restarts.
THEOREM NeverSendsOverUnresolved == OneCaller => (Spec => []NoSendOverUnresolved)
  <1> SUFFICES ASSUME OneCaller PROVE Spec => []NoSendOverUnresolved
    OBVIOUS
  <1>1. BroadcastInv => NoSendOverUnresolved
    BY DEF BroadcastInv, PointInv, NoSendOverUnresolved
  <1> QED
    BY InvariantHolds, <1>1, PTL

\* With one caller, a request_id reaches the socket at most once, and only
\* behind its intent row.
THEOREM SendsAtMostOnce == OneCaller => (Spec => [](AtMostOnce /\ SendsAreAudited))
  <1> SUFFICES ASSUME OneCaller PROVE Spec => [](AtMostOnce /\ SendsAreAudited)
    OBVIOUS
  <1>1. BroadcastInv => AtMostOnce /\ SendsAreAudited
    BY DEF BroadcastInv, RowInv, AtMostOnce, SendsAreAudited
  <1> QED
    BY InvariantHolds, <1>1, PTL

\* With one caller (fee_execution.rs: the fee owner's), everything the runs check
\* of the rows and the wire holds in every state: no send in a quarantine or over
\* an unresolved attempt, no send without its row, one unresolved attempt at most.
THEOREM SafeSends == OneCaller /\ Callers # {} => (Spec => []SendsAreSafe)
  <1> SUFFICES ASSUME OneCaller, Callers # {} PROVE Spec => []SendsAreSafe
    OBVIOUS
  <1>1. BroadcastInv => UnresolvedBounded
    <2> SUFFICES ASSUME BroadcastInv PROVE UnresolvedBounded
      OBVIOUS
    <2>1. PICK c : Callers = {c}
      BY DEF OneCaller
    <2>2. Cardinality(Callers) = 1
      BY <2>1, FS_Singleton
    <2>3. CASE Unresolved = {}
      BY <2>2, <2>3, FS_EmptySet DEF UnresolvedBounded
    <2>4. CASE Unresolved # {}
      <3>1. PICK r : Unresolved = {r}
        BY <2>4 DEF BroadcastInv, RowInv
      <3> QED
        BY <2>2, <3>1, FS_Singleton DEF UnresolvedBounded
    <2> QED
      BY <2>3, <2>4
  <1>2. BroadcastInv => TypeOK /\ ZeroCallsWhileQuarantined /\ NoSendOverUnresolved /\ SendsAreAudited
    BY DEF BroadcastInv, TypeInv, PointInv, RowInv, ZeroCallsWhileQuarantined, NoSendOverUnresolved, SendsAreAudited
  <1>3. BroadcastInv => SendsAreSafe
    BY <1>1, <1>2 DEF SendsAreSafe
  <1> QED
    BY InvariantHolds, <1>3, PTL

-----------------------------------------------------------------------------
(* Steps seen through the rows *)

\* What the actor can do to the attempt rows.
LEMMA ExecuteEffect ==
    ASSUME BroadcastInv, ActorExecute
    PROVE  \/ attempts' = attempts
           \/ \E r \in Requests :
                 /\ attempts[r] = "none" /\ Unresolved = {} /\ r \notin acked /\ wire[r] = 0
                 /\ attempts' = [attempts EXCEPT ![r] = "null"]
           \/ \E r \in Requests, o \in Outcomes :
                 /\ attempts[r] = "null" /\ Unresolved \subseteq {r}
                 /\ attempts' = [attempts EXCEPT ![r] = o]
  <1> DEFINE cmd == Head(queue)
  <1>1. cmd = queue[1] /\ WellFormed(cmd) /\ 1 \in 1..Len(queue)
    BY DequeueFacts DEF BroadcastInv, ActorExecute
  <1>2. /\ RowInv /\ IntentInv /\ ResultInv
        /\ wire \in [Requests -> Nat]
    BY DEF BroadcastInv, StoreInv, TypeInv, TypeOK
  <1>3. CASE cmd.op = "insert_intent"
    <2>1. /\ cmd.req \in Requests /\ attempts[cmd.req] = "none" /\ Unresolved = {}
          /\ attempts' = [attempts EXCEPT ![cmd.req] = "null"]
      BY <1>1, <1>2, <1>3 DEF ActorExecute, Execute, Executable, WellFormed, IntentInv, Pending
    <2>2. cmd.req \notin acked /\ wire[cmd.req] = 0
      BY <1>2, <2>1 DEF RowInv
    <2> QED
      BY <2>1, <2>2
  <1>4. CASE cmd.op = "record_result"
    <2>1. /\ cmd.req \in Requests /\ cmd.outcome \in Outcomes
          /\ attempts[cmd.req] = "null" /\ Unresolved \subseteq {cmd.req}
          /\ attempts' = [attempts EXCEPT ![cmd.req] = cmd.outcome]
      BY <1>1, <1>2, <1>4 DEF ActorExecute, Execute, WellFormed, ResultInv, Pending
    <2> QED
      BY <2>1
  <1>5. CASE cmd.op \notin {"insert_intent", "record_result"}
    BY <1>5 DEF ActorExecute, Execute
  <1> QED
    BY <1>3, <1>4, <1>5

\* Only four kinds of step touch the rows or the wire.
LEMMA OtherStepsKeepRows ==
    ASSUME [Next]_vars, ~New, ~OperatorClear, ~ActorExecute,
           \A c \in Callers : ~AttemptSend(c)
    PROVE  UNCHANGED <<attempts, acked, wire>>
  <1>1. CASE UNCHANGED vars
    BY <1>1 DEF vars
  <1>2. CASE Start \/ NewRefused \/ Crash \/ OtherCommand \/ ActorFail
    BY <1>2 DEF Start, NewRefused, Crash, OtherCommand, ActorFail, db
  <1>3. ASSUME NEW c \in Callers, Authorize(c) \/ CallerStep(c)
        PROVE  UNCHANGED <<attempts, acked, wire>>
    BY <1>3 DEF CallerStep, Authorize, RefusePoisoned, RefuseStale, Dispatch, Submit, QuarantineRead, BatchDone, AdmitIntent, AdmissionRefused, IntentPersisted, IntentRejected, IntentUnknown, ResultRecorded, ResultUnknown, AmbiguousQuarantined, AmbiguousUnquarantined, PoisonedQuarantine, db
  <1> QED
    BY <1>1, <1>2, <1>3 DEF Next, Actor

\* No step replaces a recorded outcome.
LEMMA FinalStep == OneCaller /\ BroadcastInv /\ [Next]_vars =>
    [\A r \in Requests : attempts[r] \in Outcomes => attempts'[r] = attempts[r]]_vars
  <1> SUFFICES ASSUME OneCaller, BroadcastInv, [Next]_vars
               PROVE  \A r \in Requests : attempts[r] \in Outcomes => attempts'[r] = attempts[r]
    OBVIOUS
  <1> USE DEF Outcomes, Definite
  <1>1. attempts \in [Requests -> {"none", "null"} \cup Outcomes]
    BY DEF BroadcastInv, TypeInv, TypeOK
  <1>2. CASE New
    BY <1>1, <1>2 DEF New, reconcile_quarantine_on_restart
  <1>3. CASE ActorExecute
    BY <1>1, <1>3, ExecuteEffect
  <1>4. CASE OperatorClear
    BY <1>4 DEF OperatorClear
  <1>5. ASSUME NEW c \in Callers, AttemptSend(c)
        PROVE  attempts' = attempts
    BY <1>5 DEF AttemptSend, db
  <1> QED
    BY <1>2, <1>3, <1>4, <1>5, OtherStepsKeepRows

\* With one caller, a recorded outcome is never overwritten.
THEOREM OutcomesAreFinal == OneCaller => (Spec => ResultsAreFinal)
  <1> SUFFICES ASSUME OneCaller PROVE Spec => ResultsAreFinal
    OBVIOUS
  <1>1. BroadcastInv /\ [Next]_vars =>
           [\A r \in Requests : attempts[r] \in Outcomes => attempts'[r] = attempts[r]]_vars
    BY FinalStep
  <1> QED
    BY InvariantHolds, <1>1, PTL DEF Spec, ResultsAreFinal

\* Every step is an abstract gate step or a stutter.
LEMMA GateStep == OneCaller /\ BroadcastInv /\ [Next]_vars => [Gate!GateNext]_(Gate!gateVars)
  <1> SUFFICES ASSUME OneCaller, BroadcastInv, [Next]_vars
               PROVE  [Gate!GateNext]_(Gate!gateVars)
    OBVIOUS
  <1> DEFINE sent == {r \in Requests : wire[r] > 0}
  <1>1. /\ attempts \in [Requests -> {"none", "null"} \cup Outcomes]
        /\ wire \in [Requests -> Nat]
    BY DEF BroadcastInv, TypeInv, TypeOK
  <1>2. UNCHANGED <<Unresolved, sent>> => UNCHANGED Gate!gateVars
    BY DEF Gate!gateVars
  <1>3. Unresolved # {} /\ Unresolved' = {} /\ UNCHANGED sent => Gate!GateNext
    BY DEF Gate!GateNext, Gate!Settle
  <1>4. CASE New
    <2>1. Unresolved' = Unresolved /\ UNCHANGED sent
      BY <1>1, <1>4 DEF New, reconcile_quarantine_on_restart, Unresolved, Outcomes, Definite
    <2> QED
      BY <1>2, <2>1
  <1>5. CASE OperatorClear
    <2>1. Unresolved' = {} /\ UNCHANGED sent
      BY <1>5 DEF OperatorClear, Unresolved
    <2> QED
      BY <1>2, <1>3, <2>1
  <1>6. CASE ActorExecute
    <2>1. acked' = acked /\ wire' = wire
      BY <1>6 DEF ActorExecute
    <2>2. CASE attempts' = attempts
      BY <1>2, <2>1, <2>2 DEF Unresolved
    <2>3. ASSUME NEW r \in Requests,
                 attempts[r] = "none", Unresolved = {}, r \notin acked, wire[r] = 0,
                 attempts' = [attempts EXCEPT ![r] = "null"]
          PROVE  Gate!GateNext
      <3>1. Unresolved' = {r} /\ r \notin sent /\ UNCHANGED sent
        BY <1>1, <2>1, <2>3 DEF Unresolved
      <3> QED
        BY <2>3, <3>1 DEF Gate!GateNext, Gate!Admit
    <2>4. ASSUME NEW r \in Requests, NEW o \in Outcomes,
                 attempts[r] = "null", Unresolved \subseteq {r},
                 attempts' = [attempts EXCEPT ![r] = o]
          PROVE  [Gate!GateNext]_(Gate!gateVars)
      <3>1. UNCHANGED sent /\ (Unresolved' = Unresolved \/ Unresolved' = {})
        BY <1>1, <2>1, <2>4 DEF Unresolved
      <3> QED
        BY <1>2, <1>3, <3>1
    <2> QED
      BY <1>6, <2>2, <2>3, <2>4, ExecuteEffect
  <1>7. ASSUME NEW c \in Callers, AttemptSend(c)
        PROVE  Gate!GateNext
    <2>1. /\ Unresolved = {Current(c)} /\ wire[Current(c)] = 0
          /\ wire' = [wire EXCEPT ![Current(c)] = @ + 1]
          /\ attempts' = attempts /\ acked' = acked
      BY <1>7 DEF BroadcastInv, PointInv, AttemptSend, db
    <2>2. Current(c) \in Requests
      BY <2>1 DEF Unresolved
    <2>3. /\ Unresolved' = Unresolved /\ Current(c) \notin sent
          /\ sent' = sent \cup {Current(c)}
      BY <1>1, <2>1, <2>2 DEF Unresolved
    <2> QED
      BY <2>1, <2>2, <2>3 DEF Gate!GateNext, Gate!Send
  <1>8. CASE ~New /\ ~OperatorClear /\ ~ActorExecute /\ \A c \in Callers : ~AttemptSend(c)
    <2>1. UNCHANGED <<Unresolved, sent>>
      BY <1>8, OtherStepsKeepRows DEF Unresolved
    <2> QED
      BY <1>2, <2>1
  <1> QED
    BY <1>4, <1>5, <1>6, <1>7, <1>8

\* With one caller, the broadcaster, its store and its restarts implement the
\* abstract gate: one open outcome at a time, each request sent at most once.
THEOREM ImplementsGate == OneCaller => (Spec => GateSpec)
  <1> SUFFICES ASSUME OneCaller PROVE Spec => GateSpec
    OBVIOUS
  <1>1. Init => Gate!GateInit
    BY DEF Init, Gate!GateInit, Unresolved
  <1>2. BroadcastInv /\ [Next]_vars => [Gate!GateNext]_(Gate!gateVars)
    BY GateStep
  <1> QED
    BY InvariantHolds, <1>1, <1>2, PTL DEF Spec, GateSpec, Gate!GateSpec

-----------------------------------------------------------------------------
(***************************************************************************)
(* The database threads, for any callers, any plans of requests and any      *)
(* room in the queues.  PlacesInv: a command is named by its caller and its   *)
(* number, it is in one place, and commands of one caller keep their order    *)
(* within a queue and in the history.  ToldSame: the answer with that number   *)
(* is about that command.  TablesInv: what was written stays until a command   *)
(* takes it, the generation counts the commits, and the import's provenance    *)
(* is the first cycle's.                                                   *)
(***************************************************************************)
\* f takes the rows of s that are in kept, the first n of them.
Taking(f, s, kept, n) ==
    f = [i \in 0..n |-> IF i = 0 THEN <<>> ELSE IF s[i] \in kept THEN Append(f[i - 1], s[i]) ELSE f[i - 1]]

\* What is taken of n rows extends to one more.
LEMMA TakingExtends ==
    ASSUME NEW s, NEW kept, NEW n \in Nat, NEW f, Taking(f, s, kept, n)
    PROVE  \E g : Taking(g, s, kept, n + 1)
  <1> DEFINE m == n + 1
             g == [i \in 0..m |-> IF i <= n THEN f[i] ELSE IF s[m] \in kept THEN Append(f[n], s[m]) ELSE f[n]]
             h == [i \in 0..m |-> IF i = 0 THEN <<>> ELSE IF s[i] \in kept THEN Append(g[i - 1], s[i]) ELSE g[i - 1]]
  <1>1. \A i \in 0..n : f[i] = IF i = 0 THEN <<>> ELSE IF s[i] \in kept THEN Append(f[i - 1], s[i]) ELSE f[i - 1]
    BY DEF Taking
  <1>2. \A i \in 0..n : g[i] = f[i]
    OBVIOUS
  <1>3. ASSUME NEW i \in 0..m PROVE g[i] = h[i]
    <2>1. CASE i = 0
      BY <2>1, <1>1, <1>2
    <2>2. CASE i \in 1..n
      <3>1. i - 1 \in 0..n /\ i \in 0..n /\ i # 0
        BY <2>2
      <3>2. g[i] = f[i] /\ g[i - 1] = f[i - 1]
        BY <3>1, <1>2
      <3> QED
        BY <3>1, <3>2, <1>1
    <2>3. CASE i = m
      <3>1. n \in 0..n /\ i # 0 /\ i - 1 = n /\ ~(m <= n)
        BY <2>3
      <3>2. g[n] = f[n]
        BY <3>1, <1>2
      <3>3. g[m] = IF s[m] \in kept THEN Append(f[n], s[m]) ELSE f[n]
        BY <3>1
      <3> QED
        BY <3>1, <3>2, <3>3, <2>3
    <2> QED
      BY <2>1, <2>2, <2>3
  <1>4. g = h
    BY <1>3
  <1>5. Taking(g, s, kept, m)
    BY <1>4 DEF Taking
  <1> HIDE DEF g
  <1> QED
    BY <1>5

\* Rows can be taken one by one, however many there are.
LEMMA TakingExists ==
    ASSUME NEW s, NEW kept, NEW n \in Nat
    PROVE  \E f : Taking(f, s, kept, n)
  <1> DEFINE T == {k \in Nat : ~ \E f : Taking(f, s, kept, k)}
  <1>1. SUFFICES T = {}
    OBVIOUS
  <1>2. SUFFICES ASSUME T # {} PROVE FALSE
    OBVIOUS
  <1>3. PICK k \in T : \A y \in T : k <= y
    BY <1>2, Minimum
  <1>4. CASE k = 0
    <2>1. Taking([i \in 0..0 |-> <<>>], s, kept, 0)
      <3>1. \A i \in 0..0 : i = 0
        OBVIOUS
      <3> QED
        BY <3>1 DEF Taking
    <2> QED
      BY <2>1, <1>4
  <1>5. CASE k # 0
    <2>1. k - 1 \in Nat /\ k - 1 \notin T
      BY <1>5, <1>3
    <2>2. PICK f : Taking(f, s, kept, k - 1)
      BY <2>1
    <2>3. \E g : Taking(g, s, kept, k - 1 + 1)
      BY <2>1, <2>2, TakingExtends
    <2>4. k - 1 + 1 = k
      BY <1>3
    <2> QED
      BY <2>3, <2>4
  <1> QED
    BY <1>4, <1>5

\* Only returns a sequence of exactly the rows asked for.
LEMMA OnlyKept ==
    ASSUME NEW S, NEW s \in Seq(S), NEW kept
    PROVE  /\ Only(s, kept) \in Seq(S)
           /\ RowsOf(Only(s, kept)) = RowsOf(s) \cap kept
  <1> DEFINE n == Len(s)
             f == CHOOSE g : Taking(g, s, kept, n)
  <1>1. n \in Nat
    OBVIOUS
  <1>2. Taking(f, s, kept, n)
    BY <1>1, TakingExists
  <1>3. Only(s, kept) = f[n]
    BY DEF Only, Taking
  <1> HIDE DEF f
  <1>4. \A i \in 0..n : f[i] = IF i = 0 THEN <<>> ELSE IF s[i] \in kept THEN Append(f[i - 1], s[i]) ELSE f[i - 1]
    BY <1>2 DEF Taking
  <1> DEFINE Good(i) == /\ f[i] \in Seq(S)
                        /\ RowsOf(f[i]) = {s[j] : j \in 1..i} \cap kept
             T == {i \in 0..n : ~Good(i)}
  <1>5. T = {}
    <2>1. SUFFICES ASSUME T # {} PROVE FALSE
      OBVIOUS
    <2>2. PICK i \in T : \A y \in T : i <= y
      <3>1. T \in SUBSET Nat
        BY <1>1
      <3> QED
        BY <2>1, <3>1, Minimum
    <2>3. CASE i = 0
      <3>1. f[i] = <<>>
        BY <2>3, <1>4, <1>1
      <3>2. RowsOf(f[i]) = {}
        BY <3>1 DEF RowsOf
      <3>3. {s[j] : j \in 1..i} = {}
        BY <2>3
      <3> QED
        <4>1. Good(i)
          BY <3>1, <3>2, <3>3, <2>3
        <4> HIDE DEF Good
        <4> QED
          BY <4>1, <2>2
    <2>4. CASE i # 0
      <3>1. i \in 1..n /\ i - 1 \in 0..n /\ i \in 0..n
        BY <2>4, <2>2, <1>1
      <3>2. Good(i - 1)
        <4>1. ~(i <= i - 1)
          BY <3>1, <1>1
        <4>2. i - 1 \notin T
          <5> HIDE DEF T
          <5> QED
            BY <2>2, <4>1
        <4> HIDE DEF Good
        <4> QED
          BY <4>2, <3>1
      <3>3. s[i] \in S
        BY <3>1
      <3>4. {s[j] : j \in 1..i} = {s[j] : j \in 1..(i - 1)} \cup {s[i]}
        <4>1. \A j : j \in 1..i <=> (j \in 1..(i - 1) \/ j = i)
          BY <3>1
        <4> QED
          BY <4>1
      <3>5. CASE s[i] \in kept
        <4>1. f[i] = Append(f[i - 1], s[i])
          BY <3>1, <3>5, <1>4, <2>4
        <4>2. f[i] \in Seq(S) /\ RowsOf(f[i]) = RowsOf(f[i - 1]) \cup {s[i]}
          <5> DEFINE e == f[i - 1]
          <5>1. e \in Seq(S)
            BY <3>2
          <5>2. /\ Len(Append(e, s[i])) = Len(e) + 1 /\ Append(e, s[i]) \in Seq(S)
                /\ \A j \in 1..Len(e) : Append(e, s[i])[j] = e[j]
                /\ Append(e, s[i])[Len(e) + 1] = s[i]
            BY <5>1, <3>3, AppendProperties
          <5>3. DOMAIN Append(e, s[i]) = 1..(Len(e) + 1) /\ DOMAIN e = 1..Len(e) /\ Len(e) \in Nat
            BY <5>1, <5>2
          <5> HIDE DEF e
          <5>4. RowsOf(Append(e, s[i])) = RowsOf(e) \cup {s[i]}
            <6>1. \A j : j \in 1..(Len(e) + 1) <=> (j \in 1..Len(e) \/ j = Len(e) + 1)
              BY <5>3
            <6> QED
              BY <5>2, <5>3, <6>1 DEF RowsOf
          <5> QED
            BY <5>2, <5>4, <4>1 DEF e
        <4> QED
          BY <3>2, <3>4, <3>5, <4>2, <2>2
      <3>6. CASE s[i] \notin kept
        <4>1. f[i] = f[i - 1]
          BY <3>1, <3>6, <1>4, <2>4
        <4> QED
          BY <3>2, <3>4, <3>6, <4>1, <2>2
      <3> QED
        BY <3>5, <3>6
    <2> QED
      BY <2>3, <2>4
  <1>6. Good(n)
    <2>1. n \in 0..n /\ n \notin T
      <3> HIDE DEF T
      <3> QED
        BY <1>1, <1>5
    <2> HIDE DEF Good
    <2> QED
      BY <2>1
  <1>7. RowsOf(s) = {s[j] : j \in 1..n}
    BY DEF RowsOf
  <1> QED
    BY <1>3, <1>6, <1>7

Once == {"forwards", "nonces", "boots"}
Windows == {"triggers", "mempool"}
KnownDoes == FeeStateDoes \cup LoopDoes \cup WriteDoes
             \cup {"latest", "count", "since", "held", "newest", "newestOf", "keyed", "list", "open", "binding"}

\* Which commands go to which tables.
Fit(r) ==
    /\ r.actor \in Actors /\ r.does \in KnownDoes
    /\ r.actor = "production" <=> r.table = "production"
    /\ r.does \in FeeStateDoes <=> r.table = "cycles"
    /\ r.does \in {"refusal", "binding"} => r.table = "seeds"
    /\ r.table = "seeds" => r.does \in {"refusal", "binding", "newest"}
    /\ r.table = "requests" => r.does = "count"
    /\ r.does = "reconcile" => r.table = "attempts"
    /\ r.does = "ignore" => r.table \in Once
    /\ r.table \in Once => r.does \in {"ignore", "latest", "since"}
    /\ r.does \in {"sweep", "pruned", "refresh"} => r.table \in Windows
    /\ r.does = "list" => r.table \notin Windows
AllFit(g) == \A name \in DOMAIN g : Fit(g[name])

\* Notifications, fee state and mempool: each command fits its table.
LEMMA GroupsFit1 == AllFit(NotificationRequests) /\ AllFit(FeeStateRequests) /\ AllFit(MempoolRequests)
  <1> USE DEF AllFit, Fit, Request, Actors, KnownDoes, FeeStateDoes, LoopDoes, WriteDoes, Once, Windows
  <1>1. AllFit(NotificationRequests) BY DEF NotificationRequests
  <1>2. AllFit(FeeStateRequests) BY DEF FeeStateRequests
  <1>3. AllFit(MempoolRequests) BY DEF MempoolRequests
  <1> QED BY <1>1, <1>2, <1>3
\* Runway, rebalances, nonces and seeds.
LEMMA GroupsFit2 == AllFit(RunwayRequests) /\ AllFit(RebalanceRequests) /\ AllFit(ArmRequests) /\ AllFit(SeedRequests)
  <1> USE DEF AllFit, Fit, Request, Actors, KnownDoes, FeeStateDoes, LoopDoes, WriteDoes, Once, Windows
  <1>1. AllFit(RunwayRequests) BY DEF RunwayRequests
  <1>2. AllFit(RebalanceRequests) BY DEF RebalanceRequests
  <1>3. AllFit(ArmRequests) BY DEF ArmRequests
  <1>4. AllFit(SeedRequests) BY DEF SeedRequests
  <1> QED BY <1>1, <1>2, <1>3, <1>4
\* Broadcasts, loops, analytics and snapshots.
LEMMA GroupsFit3 == AllFit(BroadcastRequests) /\ AllFit(LoopRequests) /\ AllFit(AnalyticsRequests) /\ AllFit(SnapshotRequests)
  <1> USE DEF AllFit, Fit, Request, Actors, KnownDoes, FeeStateDoes, LoopDoes, WriteDoes, Once, Windows
  <1>1. AllFit(BroadcastRequests) BY DEF BroadcastRequests
  <1>2. AllFit(LoopRequests) BY DEF LoopRequests
  <1>3. AllFit(AnalyticsRequests) BY DEF AnalyticsRequests
  <1>4. AllFit(SnapshotRequests) BY DEF SnapshotRequests
  <1> QED BY <1>1, <1>2, <1>3, <1>4
\* Flow, loop upkeep and the production database.
LEMMA GroupsFit4 == AllFit(FlowRequests) /\ AllFit(LoopUpkeepRequests) /\ AllFit(ProductionRequests) /\ AllFit(RowRequests)
  <1> USE DEF AllFit, Fit, Request, Query, Actors, KnownDoes, FeeStateDoes, LoopDoes, WriteDoes, Once, Windows
  <1>1. AllFit(FlowRequests) BY DEF FlowRequests
  <1>2. AllFit(LoopUpkeepRequests) BY DEF LoopUpkeepRequests
  <1>3. AllFit(ProductionRequests) BY DEF ProductionRequests
  <1>4. AllFit(RowRequests) BY DEF RowRequests
  <1> QED BY <1>1, <1>2, <1>3, <1>4

\* Every method of the handles sends a command that fits its table.
LEMMA RequestsFit ==
    ASSUME NEW name \in DOMAIN StoreRequests
    PROVE  Fit(StoreRequests[name]) /\ StoreRequests[name].table \in Tables
  <1>1. PICK g \in RequestGroups : name \in DOMAIN g /\ StoreRequests[name] = g[name]
    <2>1. \E g \in RequestGroups : name \in DOMAIN g
      BY DEF StoreRequests
    <2> DEFINE h == CHOOSE g \in RequestGroups : name \in DOMAIN g
    <2>2. h \in RequestGroups /\ name \in DOMAIN h
      BY <2>1
    <2>3. StoreRequests[name] = h[name]
      BY DEF StoreRequests
    <2> QED
      BY <2>2, <2>3
  <1>2. AllFit(g)
    BY <1>1, GroupsFit1, GroupsFit2, GroupsFit3, GroupsFit4 DEF RequestGroups
  <1> QED
    BY <1>1, <1>2 DEF AllFit, Tables

\* A table some method names is a table of the store.
LEMMA TableOf ==
    ASSUME NEW name, NEW g \in RequestGroups, name \in DOMAIN g,
           \A h \in RequestGroups : name \in DOMAIN h => h[name] = g[name]
    PROVE  g[name].table \in Tables
  <1> DEFINE h == CHOOSE k \in RequestGroups : name \in DOMAIN k
  <1>1. h \in RequestGroups /\ name \in DOMAIN h
    OBVIOUS
  <1>2. name \in DOMAIN StoreRequests /\ StoreRequests[name] = h[name]
    BY DEF StoreRequests
  <1>3. h[name] = g[name]
    BY <1>1
  <1> QED
    BY <1>2, <1>3 DEF Tables

\* The tables that commands write besides their own.
LEMMA TablesKnown == {"cycles", "requests", "seeds", "quarantine", "attempts", "production"} \subseteq Tables
  <1> USE DEF RequestGroups, NotificationRequests, FeeStateRequests, MempoolRequests, RunwayRequests, RebalanceRequests, ArmRequests,
        SeedRequests, BroadcastRequests, LoopRequests, AnalyticsRequests, SnapshotRequests, FlowRequests, LoopUpkeepRequests,
        ProductionRequests, RowRequests
  <1>1. FeeStateRequests["CommitFeeCycle"].table \in Tables
    <2>1. \A h \in RequestGroups : "CommitFeeCycle" \in DOMAIN h => h["CommitFeeCycle"] = FeeStateRequests["CommitFeeCycle"]
      OBVIOUS
    <2>2. FeeStateRequests \in RequestGroups /\ "CommitFeeCycle" \in DOMAIN FeeStateRequests
      OBVIOUS
    <2> HIDE DEF RequestGroups, FeeStateRequests
    <2> QED BY <2>1, <2>2, TableOf
  <1>2. RunwayRequests["FeeMutationCount"].table \in Tables
    <2>1. \A h \in RequestGroups : "FeeMutationCount" \in DOMAIN h => h["FeeMutationCount"] = RunwayRequests["FeeMutationCount"]
      OBVIOUS
    <2>2. RunwayRequests \in RequestGroups /\ "FeeMutationCount" \in DOMAIN RunwayRequests
      OBVIOUS
    <2> HIDE DEF RequestGroups, RunwayRequests
    <2> QED BY <2>1, <2>2, TableOf
  <1>3. SeedRequests["VerifiedSeedBinding"].table \in Tables
    <2>1. \A h \in RequestGroups : "VerifiedSeedBinding" \in DOMAIN h => h["VerifiedSeedBinding"] = SeedRequests["VerifiedSeedBinding"]
      OBVIOUS
    <2>2. SeedRequests \in RequestGroups /\ "VerifiedSeedBinding" \in DOMAIN SeedRequests
      OBVIOUS
    <2> HIDE DEF RequestGroups, SeedRequests
    <2> QED BY <2>1, <2>2, TableOf
  <1>4. RunwayRequests["InsertExecutionQuarantine"].table \in Tables
    <2>1. \A h \in RequestGroups : "InsertExecutionQuarantine" \in DOMAIN h => h["InsertExecutionQuarantine"] = RunwayRequests["InsertExecutionQuarantine"]
      OBVIOUS
    <2>2. RunwayRequests \in RequestGroups /\ "InsertExecutionQuarantine" \in DOMAIN RunwayRequests
      OBVIOUS
    <2> HIDE DEF RequestGroups, RunwayRequests
    <2> QED BY <2>1, <2>2, TableOf
  <1>5. RunwayRequests["FeeBroadcastAttemptCount"].table \in Tables
    <2>1. \A h \in RequestGroups : "FeeBroadcastAttemptCount" \in DOMAIN h => h["FeeBroadcastAttemptCount"] = RunwayRequests["FeeBroadcastAttemptCount"]
      OBVIOUS
    <2>2. RunwayRequests \in RequestGroups /\ "FeeBroadcastAttemptCount" \in DOMAIN RunwayRequests
      OBVIOUS
    <2> HIDE DEF RequestGroups, RunwayRequests
    <2> QED BY <2>1, <2>2, TableOf
  <1>6. ProductionRequests["TableCount"].table \in Tables
    <2>1. \A h \in RequestGroups : "TableCount" \in DOMAIN h => h["TableCount"] = ProductionRequests["TableCount"]
      OBVIOUS
    <2>2. ProductionRequests \in RequestGroups /\ "TableCount" \in DOMAIN ProductionRequests
      OBVIOUS
    <2> HIDE DEF RequestGroups, ProductionRequests
    <2> QED BY <2>1, <2>2, TableOf
  <1> HIDE DEF RequestGroups
  <1> QED
    BY <1>1, <1>2, <1>3, <1>4, <1>5, <1>6 DEF Request, Query

\* Rows of the callers' requests, and those the other program writes.
RowNames == STRING \cup {"x"}
Rows == [key : RowNames, at : Nat, done : BOOLEAN, halted : BOOLEAN, seed : BOOLEAN]

\* A command as its handle made it, and the tables as it leaves them.
IsCommand(q) ==
    /\ Fit(q) /\ q.table \in Tables
    /\ q.key \in STRING /\ q.at \in Nat /\ q.since \in Nat /\ q.seed \in BOOLEAN
    /\ q.who \in StoreCallers /\ q.n \in Nat
After(q) == [t \in Tables |-> IF t \in DOMAIN Applied(q).tables THEN Applied(q).tables[t] ELSE store[t]]

StoreTyped == store \in [Tables -> Seq(Rows)] /\ generation \in Nat

\* The row a command writes has the command's key.
LEMMA NewRow ==
    ASSUME NEW q, IsCommand(q)
    PROVE  /\ StoreRow(q) \in Rows /\ StoreRow(q).key = q.key
           /\ StoreRow(q).at = q.at /\ StoreRow(q).seed = q.seed
  BY DEF IsCommand, StoreRow, Rows, RowNames

\* A table with one more row.
LEMMA AppendRow ==
    ASSUME NEW rows \in Seq(Rows), NEW r \in Rows
    PROVE  /\ Append(rows, r) \in Seq(Rows) /\ Len(Append(rows, r)) = Len(rows) + 1
           /\ \A j \in 1..Len(rows) : Append(rows, r)[j] = rows[j]
           /\ Append(rows, r)[Len(rows) + 1] = r
           /\ Len(rows) \in Nat /\ DOMAIN rows = 1..Len(rows) /\ DOMAIN Append(rows, r) = 1..(Len(rows) + 1)
           /\ RowsOf(Append(rows, r)) = RowsOf(rows) \cup {r}
           /\ RowKeys(Append(rows, r)) = RowKeys(rows) \cup {r.key}
  <1> DEFINE new == Append(rows, r)
  <1>1. /\ new \in Seq(Rows) /\ Len(new) = Len(rows) + 1
        /\ \A j \in 1..Len(rows) : new[j] = rows[j]
        /\ new[Len(rows) + 1] = r
    BY AppendProperties
  <1>2. Len(rows) \in Nat /\ DOMAIN rows = 1..Len(rows) /\ DOMAIN new = 1..(Len(rows) + 1)
    BY <1>1
  <1> HIDE DEF new
  <1>3. \A j : j \in 1..(Len(rows) + 1) <=> (j \in 1..Len(rows) \/ j = Len(rows) + 1)
    BY <1>2
  <1>4. RowsOf(new) = RowsOf(rows) \cup {r}
    BY <1>1, <1>2, <1>3 DEF RowsOf
  <1>5. RowKeys(new) = RowKeys(rows) \cup {r.key}
    BY <1>1, <1>2, <1>3 DEF RowKeys
  <1> QED
    BY <1>1, <1>2, <1>4, <1>5 DEF new

\* A table changed row by row keeps its keys.
LEMMA EachRow ==
    ASSUME NEW rows \in Seq(Rows), NEW new, new = [i \in DOMAIN rows |-> new[i]],
           \A i \in DOMAIN rows : new[i] \in Rows /\ new[i].key = rows[i].key
    PROVE  new \in Seq(Rows) /\ RowKeys(new) = RowKeys(rows)
  <1>1. Len(rows) \in Nat /\ DOMAIN rows = 1..Len(rows) /\ DOMAIN new = DOMAIN rows
    OBVIOUS
  <1>2. new \in [1..Len(rows) -> Rows]
    BY <1>1
  <1>3. new \in Seq(Rows)
    BY <1>1, <1>2, SeqDef
  <1> QED
    BY <1>1, <1>3 DEF RowKeys

\* The rows taken keep their keys.
LEMMA KeptKeys ==
    ASSUME NEW rows \in Seq(Rows), NEW kept
    PROVE  /\ Only(rows, kept) \in Seq(Rows)
           /\ \A r \in RowsOf(rows) : r \in kept => r.key \in RowKeys(Only(rows, kept))
  <1>1. Only(rows, kept) \in Seq(Rows) /\ RowsOf(Only(rows, kept)) = RowsOf(rows) \cap kept
    BY OnlyKept
  <1> QED
    BY <1>1 DEF RowsOf, RowKeys

\* A table's keys are its rows' keys.
LEMMA KeysAreOfRows ==
    ASSUME NEW rows, NEW k
    PROVE  k \in RowKeys(rows) <=> \E r \in RowsOf(rows) : r.key = k
  BY DEF RowKeys, RowsOf

\* A table holds rows only.
LEMMA RowsTyped ==
    ASSUME NEW rows \in Seq(Rows)
    PROVE  \A r \in RowsOf(rows) : r \in Rows
  BY DEF RowsOf

\* A settled, reopened, suspended or resumed row is the same row.
LEMMA RowEdits ==
    ASSUME NEW r \in Rows, NEW b \in BOOLEAN
    PROVE  /\ [r EXCEPT !.done = b] \in Rows /\ [r EXCEPT !.done = b].key = r.key
           /\ [r EXCEPT !.halted = b] \in Rows /\ [r EXCEPT !.halted = b].key = r.key
  <1>1. [r EXCEPT !.done = b] \in Rows /\ [r EXCEPT !.done = b].key = r.key
    BY DEF Rows
  <1>2. [r EXCEPT !.halted = b] \in Rows /\ [r EXCEPT !.halted = b].key = r.key
    BY DEF Rows
  <1> QED
    BY <1>1, <1>2

\* Settling, reopening and suspending rows take none away.
LEMMA EditKeys ==
    ASSUME NEW rows \in Seq(Rows), NEW q, IsCommand(q)
    PROVE  /\ AllSettled(rows) \in Seq(Rows) /\ RowKeys(AllSettled(rows)) = RowKeys(rows)
           /\ LET e == Edited(rows, q.key, LAMBDA r : [r EXCEPT !.done = TRUE]) IN e \in Seq(Rows) /\ RowKeys(e) = RowKeys(rows)
           /\ LET e == Edited(rows, q.key, LAMBDA r : [r EXCEPT !.done = FALSE]) IN e \in Seq(Rows) /\ RowKeys(e) = RowKeys(rows)
           /\ LET e == Edited(rows, q.key, LAMBDA r : [r EXCEPT !.halted = TRUE]) IN e \in Seq(Rows) /\ RowKeys(e) = RowKeys(rows)
           /\ LET e == Edited(rows, q.key, LAMBDA r : [r EXCEPT !.halted = FALSE]) IN e \in Seq(Rows) /\ RowKeys(e) = RowKeys(rows)
  <1>0. \A i \in DOMAIN rows : /\ rows[i] \in Rows
                               /\ [rows[i] EXCEPT !.done = TRUE] \in Rows /\ [rows[i] EXCEPT !.done = TRUE].key = rows[i].key
                               /\ [rows[i] EXCEPT !.done = FALSE] \in Rows /\ [rows[i] EXCEPT !.done = FALSE].key = rows[i].key
                               /\ [rows[i] EXCEPT !.halted = TRUE] \in Rows /\ [rows[i] EXCEPT !.halted = TRUE].key = rows[i].key
                               /\ [rows[i] EXCEPT !.halted = FALSE] \in Rows /\ [rows[i] EXCEPT !.halted = FALSE].key = rows[i].key
    <2>1. ASSUME NEW i \in DOMAIN rows PROVE rows[i] \in Rows
      OBVIOUS
    <2> QED
      BY <2>1, RowEdits
  <1>1. AllSettled(rows) \in Seq(Rows) /\ RowKeys(AllSettled(rows)) = RowKeys(rows)
    BY <1>0, EachRow DEF AllSettled
  <1>3. LET e == Edited(rows, q.key, LAMBDA r : [r EXCEPT !.done = TRUE]) IN e \in Seq(Rows) /\ RowKeys(e) = RowKeys(rows)
    BY <1>0, EachRow DEF Edited
  <1>4. LET e == Edited(rows, q.key, LAMBDA r : [r EXCEPT !.done = FALSE]) IN e \in Seq(Rows) /\ RowKeys(e) = RowKeys(rows)
    BY <1>0, EachRow DEF Edited
  <1>5. LET e == Edited(rows, q.key, LAMBDA r : [r EXCEPT !.halted = TRUE]) IN e \in Seq(Rows) /\ RowKeys(e) = RowKeys(rows)
    BY <1>0, EachRow DEF Edited
  <1>6. LET e == Edited(rows, q.key, LAMBDA r : [r EXCEPT !.halted = FALSE]) IN e \in Seq(Rows) /\ RowKeys(e) = RowKeys(rows)
    BY <1>0, EachRow DEF Edited
  <1> QED
    BY <1>1, <1>3, <1>4, <1>5, <1>6

\* An upsert adds its key and takes none away.
LEMMA UpsertKeys ==
    ASSUME NEW rows \in Seq(Rows), NEW q, IsCommand(q)
    PROVE  Upserted(rows, q) \in Seq(Rows) /\ RowKeys(Upserted(rows, q)) = RowKeys(rows) \cup {q.key}
  <1>1. CASE q.key \in RowKeys(rows)
    <2>1. \A i \in DOMAIN rows : rows[i] \in Rows
      OBVIOUS
    <2>2. LET e == Edited(rows, q.key, LAMBDA r : StoreRow(q)) IN e \in Seq(Rows) /\ RowKeys(e) = RowKeys(rows)
      BY <2>1, EachRow, NewRow DEF Edited
    <2> QED
      BY <1>1, <2>2 DEF Upserted
  <1>2. CASE q.key \notin RowKeys(rows)
    <2>1. Upserted(rows, q) = Append(rows, StoreRow(q))
      BY <1>2 DEF Upserted
    <2> QED
      BY <2>1, NewRow, AppendRow
  <1> QED
    BY <1>1, <1>2

\* A registration takes no loop away.
LEMMA RegisterKeys ==
    ASSUME NEW rows \in Seq(Rows), NEW q, IsCommand(q)
    PROVE  Registered(rows, q) \in Seq(Rows) /\ RowKeys(rows) \subseteq RowKeys(Registered(rows, q))
  <1>1. PICK fresh \in Rows : fresh = [StoreRow(q) EXCEPT !.done = TRUE]
    BY NewRow, RowEdits
  <1>2. CASE q.key \in RowKeys(rows)
    <2>1. LET e == Edited(rows, q.key, LAMBDA r : [r EXCEPT !.halted = FALSE]) IN e \in Seq(Rows) /\ RowKeys(e) = RowKeys(rows)
      BY EditKeys
    <2> QED
      BY <1>2, <2>1 DEF Registered
  <1>3. CASE q.key \notin RowKeys(rows)
    <2>1. Registered(rows, q) = Append(rows, fresh)
      BY <1>1, <1>3 DEF Registered
    <2> QED
      BY <2>1, AppendRow
  <1> QED
    BY <1>2, <1>3

\* What stays of the samples in the window, after a sample was added.
LEMMA WindowKeys ==
    ASSUME NEW rows \in Seq(Rows), NEW q, IsCommand(q)
    PROVE  LET kept == PruneBefore(Append(rows, StoreRow(q)), q.since)
           IN  kept \in Seq(Rows) /\ (q.since <= q.at => q.key \in RowKeys(kept))
  <1> DEFINE new == Append(rows, StoreRow(q))
             late == {r \in RowsOf(new) : r.at >= q.since}
  <1>1. new \in Seq(Rows) /\ StoreRow(q) \in RowsOf(new)
    BY AppendRow, NewRow
  <1>2. q.since <= q.at => StoreRow(q) \in late
    BY <1>1, NewRow DEF IsCommand
  <1> HIDE DEF new, late
  <1>3. Only(new, late) \in Seq(Rows) /\ (q.since <= q.at => StoreRow(q).key \in RowKeys(Only(new, late)))
    BY <1>1, <1>2, KeptKeys
  <1> QED
    BY <1>3, NewRow DEF new, late, PruneBefore, Since

\* A replacement leaves its own key.
LEMMA ReplaceKeys ==
    ASSUME NEW rows \in Seq(Rows), NEW q, IsCommand(q)
    PROVE  Keyed(Upserted(rows, q), q.key) \in Seq(Rows) /\ q.key \in RowKeys(Keyed(Upserted(rows, q), q.key))
  <1> DEFINE new == Upserted(rows, q)
             own == {r \in RowsOf(new) : r.key = q.key}
  <1>1. new \in Seq(Rows) /\ q.key \in RowKeys(new)
    BY UpsertKeys
  <1> HIDE DEF new
  <1>2. PICK r \in RowsOf(new) : r.key = q.key
    BY <1>1, KeysAreOfRows
  <1>3. r \in own
    BY <1>2
  <1> HIDE DEF own
  <1>4. Only(new, own) \in Seq(Rows) /\ r.key \in RowKeys(Only(new, own))
    BY <1>1, <1>2, <1>3, KeptKeys
  <1> QED
    BY <1>4, <1>2 DEF new, own, Keyed

Silent(q) == Applied(q).tables = <<>> /\ Applied(q).gen = generation
Writes(q, new) == Applied(q).tables = [t \in {q.table} |-> new] /\ Applied(q).gen = generation
Keeps(q, rows, new) ==
    /\ new \in Seq(Rows)
    /\ \A k \in RowKeys(rows) : k \in RowKeys(new) \/ (Takes(q) /\ (q.does = "replace" => k # q.key))
    /\ q.does \in {"ignore", "append", "upsert"} => q.key \in RowKeys(new)
    /\ q.does = "refusal" => Applied(q).ok /\ ~q.seed /\ new = Append(rows, StoreRow(q))

\* A command reads, or fails, without a write; or it writes its own table.
Plainly(q) ==
    \/ /\ Silent(q)
       /\ q.does \notin {"append", "upsert"}
       /\ q.does = "ignore" => q.key \in RowKeys(store[q.table])
       /\ q.does = "refusal" => ~Applied(q).ok
    \/ \E new : Writes(q, new) /\ Keeps(q, store[q.table], new)

\* A answer without a write, or an error, writes nothing.
LEMMA SilentIs ==
    ASSUME NEW q, NEW answer, Applied(q) = Answered(answer) \/ Applied(q) = Refused
    PROVE  Silent(q) /\ (Applied(q) = Refused => ~Applied(q).ok)
  BY DEF Answered, Refused, Outcome, Silent

\* A write of its own table is all that the command does.
LEMMA WriteIs ==
    ASSUME NEW q, NEW new, NEW answer, Applied(q) = Wrote(q, new, answer)
    PROVE  Writes(q, new) /\ Applied(q).ok /\ Applied(q).reply = answer
  BY DEF Wrote, Outcome, Writes

\* The arm of the match that each writing command takes.
LEMMA WriteArms ==
    ASSUME NEW q, q.does \in WriteDoes
    PROVE  LET rows == store[q.table] IN
           /\ q.does = "ignore" => Applied(q) = (InsertIgnore(rows, q))
           /\ q.does = "append" => Applied(q) = (InsertRow(rows, q))
           /\ q.does = "unique" => Applied(q) = (InsertUnique(rows, q))
           /\ q.does = "upsert" => Applied(q) = (Wrote(q, Upserted(rows, q), TRUE))
           /\ q.does = "settle" => Applied(q) = (SettleRow(rows, q))
           /\ q.does = "result" => Applied(q) = (RecordResult(rows, q))
           /\ q.does = "reconcile" => Applied(q) = (ReconcileAttempts(rows, q))
           /\ q.does = "refusal" => Applied(q) = (IF q.seed THEN Refused ELSE InsertRow(rows, q))
           /\ q.does = "replace" => Applied(q) = (Wrote(q, Keyed(Upserted(rows, q), q.key), Cardinality(RowKeys(rows) \ {q.key})))
           /\ q.does = "sweep" => Applied(q) = (Wrote(q, Since(rows, q.since), Len(rows) - Len(Since(rows, q.since))))
           /\ q.does = "pruned" => Applied(q) = (RecordPruned(rows, q))
           /\ q.does = "refresh" => Applied(q) = (RefreshWindow(rows, q))
  <1>1. Applied(q) = WriteStep(store[q.table], q)
    BY DEF Applied, WriteDoes, FeeStateDoes, LoopDoes
  <1>2. q.does = "ignore" => WriteStep(store[q.table], q) = (LET rows == store[q.table] IN InsertIgnore(rows, q))
    BY DEF WriteStep
  <1>3. q.does = "append" => WriteStep(store[q.table], q) = (LET rows == store[q.table] IN InsertRow(rows, q))
    BY DEF WriteStep
  <1>4. q.does = "unique" => WriteStep(store[q.table], q) = (LET rows == store[q.table] IN InsertUnique(rows, q))
    BY DEF WriteStep
  <1>5. q.does = "upsert" => WriteStep(store[q.table], q) = (LET rows == store[q.table] IN Wrote(q, Upserted(rows, q), TRUE))
    BY DEF WriteStep
  <1>6. q.does = "settle" => WriteStep(store[q.table], q) = (LET rows == store[q.table] IN SettleRow(rows, q))
    BY DEF WriteStep
  <1>7. q.does = "result" => WriteStep(store[q.table], q) = (LET rows == store[q.table] IN RecordResult(rows, q))
    BY DEF WriteStep
  <1>8. q.does = "reconcile" => WriteStep(store[q.table], q) = (LET rows == store[q.table] IN ReconcileAttempts(rows, q))
    BY DEF WriteStep
  <1>9. q.does = "refusal" => WriteStep(store[q.table], q) = (LET rows == store[q.table] IN IF q.seed THEN Refused ELSE InsertRow(rows, q))
    BY DEF WriteStep
  <1>10. q.does = "replace" => WriteStep(store[q.table], q) = (LET rows == store[q.table] IN Wrote(q, Keyed(Upserted(rows, q), q.key), Cardinality(RowKeys(rows) \ {q.key})))
    BY DEF WriteStep
  <1>11. q.does = "sweep" => WriteStep(store[q.table], q) = (LET rows == store[q.table] IN Wrote(q, Since(rows, q.since), Len(rows) - Len(Since(rows, q.since))))
    BY DEF WriteStep
  <1>12. q.does = "pruned" => WriteStep(store[q.table], q) = (LET rows == store[q.table] IN RecordPruned(rows, q))
    BY DEF WriteStep
  <1>13. q.does = "refresh" => WriteStep(store[q.table], q) = (LET rows == store[q.table] IN RefreshWindow(rows, q))
    BY DEF WriteStep
  <1> QED
    BY <1>1, <1>2, <1>3, <1>4, <1>5, <1>6, <1>7, <1>8, <1>9, <1>10, <1>11, <1>12, <1>13

\* A reading command writes nothing.
LEMMA Reads ==
    ASSUME NEW q, IsCommand(q), q.does \notin FeeStateDoes, q.does \notin LoopDoes, q.does \notin WriteDoes
    PROVE  Plainly(q) /\ (q.does = "list" => Applied(q) = Answered(store[q.table]))
           /\ (q.does = "binding" => Applied(q) = Binding(store["seeds"]))
  <1> DEFINE rows == store[q.table]
  <1>1. Applied(q) = ReadStep(rows, q)
    BY DEF Applied
  <1>2. q.does \in {"latest", "count", "since", "held", "newest", "newestOf", "keyed", "list", "open", "binding"}
    BY DEF IsCommand, Fit, KnownDoes
  <1> HIDE DEF rows
  <1>3. \E answer : ReadStep(rows, q) = Answered(answer)
    <2>1. CASE q.does = "latest" BY <2>1 DEF ReadStep
    <2>2. CASE q.does = "count" BY <2>2 DEF ReadStep
    <2>3. CASE q.does = "since" BY <2>3 DEF ReadStep
    <2>4. CASE q.does = "held" BY <2>4 DEF ReadStep
    <2>5. CASE q.does = "newest" BY <2>5 DEF ReadStep
    <2>6. CASE q.does = "newestOf" BY <2>6 DEF ReadStep
    <2>7. CASE q.does = "keyed" BY <2>7 DEF ReadStep
    <2>8. CASE q.does = "list" BY <2>8 DEF ReadStep
    <2>9. CASE q.does = "open" BY <2>9 DEF ReadStep
    <2>10. CASE q.does = "binding"
      <3>1. ReadStep(rows, q) = Binding(rows)
        BY <2>10 DEF ReadStep
      <3> QED
        BY <3>1 DEF Binding
    <2> QED BY <1>2, <2>1, <2>2, <2>3, <2>4, <2>5, <2>6, <2>7, <2>8, <2>9, <2>10
  <1>4. PICK answer : Applied(q) = Answered(answer)
    BY <1>1, <1>3
  <1>5. Silent(q)
    BY <1>4, SilentIs
  <1>6. q.does \notin {"append", "upsert", "ignore", "refusal"}
    BY <1>2
  <1>7. q.does = "list" => Applied(q) = Answered(rows)
    BY <1>1 DEF ReadStep
  <1>8. q.does = "binding" => Applied(q) = Binding(store["seeds"])
    <2>1. q.does = "binding" => q.table = "seeds"
      BY DEF IsCommand, Fit
    <2>2. q.does = "binding" => ReadStep(rows, q) = Binding(rows)
      BY DEF ReadStep
    <2> QED
      BY <1>1, <2>1, <2>2 DEF rows
  <1> QED
    BY <1>5, <1>6, <1>7, <1>8 DEF Plainly, rows

\* A write that leaves every key of its table.
LEMMA WritesAll ==
    ASSUME NEW q, NEW rows \in Seq(Rows), NEW new \in Seq(Rows), NEW answer, Applied(q) = Wrote(q, new, answer), rows = store[q.table],
           RowKeys(rows) \subseteq RowKeys(new), q.does \in {"ignore", "append", "upsert"} => q.key \in RowKeys(new),
           q.does # "refusal"
    PROVE  Plainly(q)
  <1>1. Writes(q, new)
    BY WriteIs
  <1> QED
    BY <1>1 DEF Plainly, Keeps

\* A command that only replies writes nothing.
LEMMA Fails ==
    ASSUME NEW q, NEW answer, Applied(q) = Refused \/ Applied(q) = Answered(answer), q.does \notin {"append", "upsert", "ignore", "refusal"}
    PROVE  Plainly(q)
  BY SilentIs DEF Plainly

\* The loops' commands keep their rows.
LEMMA Loops ==
    ASSUME NEW q, IsCommand(q), q.does \in LoopDoes, store[q.table] \in Seq(Rows)
    PROVE  Plainly(q)
  <1>1. PICK rows \in Seq(Rows) : rows = store[q.table]
    OBVIOUS
  <1>2. Applied(q) = LoopStep(rows, q)
    BY <1>1 DEF Applied, LoopDoes, FeeStateDoes
  <1>3. q.does \notin {"append", "upsert", "ignore", "refusal"}
    BY DEF LoopDoes
  <1>4. CASE q.does = "register"
    <2>1. Applied(q) = Wrote(q, Registered(rows, q), TRUE)
      BY <1>2, <1>4 DEF LoopStep
    <2> QED
      BY <2>1, <1>1, <1>3, RegisterKeys, WritesAll
  <1>5. CASE q.does = "incomplete"
    <2>1. Applied(q) = Wrote(q, AllSettled(rows), Len(OpenRows(rows)))
      BY <1>2, <1>5 DEF LoopStep
    <2>2. PICK new \in Seq(Rows) : new = AllSettled(rows) /\ RowKeys(new) = RowKeys(rows)
      BY EditKeys
    <2> QED
      BY <2>1, <2>2, <1>1, <1>3, WritesAll
  <1>6. CASE q.does = "begin"
    <2>1. PICK e : e = Edited(rows, q.key, LAMBDA r : [r EXCEPT !.done = FALSE])
      OBVIOUS
    <2>2. Applied(q) = Refused \/ Applied(q) = Wrote(q, e, TRUE)
      BY <1>2, <1>6, <2>1 DEF LoopStep
    <2>3. e \in Seq(Rows) /\ RowKeys(e) = RowKeys(rows)
      BY <2>1, EditKeys
    <2> QED
      BY <2>2, <2>3, <1>1, <1>3, Fails, WritesAll
  <1>7. CASE q.does = "bump"
    <2>2. Applied(q) = Refused \/ Applied(q) = Answered(TRUE)
      BY <1>2, <1>7 DEF LoopStep
    <2> QED
      BY <2>2, <1>3, Fails
  <1>8. CASE q.does = "suspend"
    <2>1. PICK e : e = Edited(rows, q.key, LAMBDA r : [r EXCEPT !.halted = TRUE])
      OBVIOUS
    <2>2. Applied(q) = Refused \/ Applied(q) = Wrote(q, e, TRUE)
      BY <1>2, <1>8, <2>1 DEF LoopStep
    <2>3. e \in Seq(Rows) /\ RowKeys(e) = RowKeys(rows)
      BY <2>1, EditKeys
    <2> QED
      BY <2>2, <2>3, <1>1, <1>3, Fails, WritesAll
  <1> QED
    BY <1>4, <1>5, <1>6, <1>7, <1>8 DEF LoopDoes

\* The writes of one table of rows.
LEMMA Writers ==
    ASSUME NEW q, IsCommand(q), q.does \in WriteDoes, q.does # "reconcile", store[q.table] \in Seq(Rows)
    PROVE  Plainly(q)
  <1>1. PICK rows \in Seq(Rows) : rows = store[q.table]
    OBVIOUS
  <1>2. PICK added \in Seq(Rows) : added = Append(rows, StoreRow(q)) /\ RowKeys(added) = RowKeys(rows) \cup {q.key}
    <2>1. PICK row \in Rows : row = StoreRow(q) /\ row.key = q.key
      BY NewRow
    <2>2. Append(rows, row) \in Seq(Rows) /\ RowKeys(Append(rows, row)) = RowKeys(rows) \cup {row.key}
      BY AppendRow
    <2> QED
      BY <2>1, <2>2
  <1>3. InsertRow(rows, q) = Wrote(q, added, Len(rows) + 1)
    BY <1>2 DEF InsertRow
  <1>4. CASE q.does = "ignore"
    <2>1. Applied(q) = InsertIgnore(rows, q)
      BY <1>1, <1>4, WriteArms
    <2>2. CASE q.key \in RowKeys(rows)
      <3>1. Applied(q) = Answered(FALSE)
        BY <2>1, <2>2 DEF InsertIgnore
      <3> QED
        BY <3>1, <2>2, <1>1, <1>4, SilentIs DEF Plainly
    <2>3. CASE q.key \notin RowKeys(rows)
      <3>1. Applied(q) = Wrote(q, added, TRUE)
        BY <2>1, <2>3, <1>2 DEF InsertIgnore
      <3> QED
        BY <3>1, <1>1, <1>2, <1>4, WritesAll
    <2> QED
      BY <2>2, <2>3
  <1>5. CASE q.does = "append"
    <2>1. Applied(q) = InsertRow(rows, q)
      BY <1>1, <1>5, WriteArms
    <2> QED
      BY <2>1, <1>1, <1>2, <1>3, <1>5, WritesAll
  <1>6. CASE q.does = "unique"
    <2>1. Applied(q) = InsertUnique(rows, q)
      BY <1>1, <1>6, WriteArms
    <2>2. Applied(q) = Refused \/ Applied(q) = Wrote(q, added, Len(rows) + 1)
      BY <2>1, <1>3 DEF InsertUnique
    <2> QED
      BY <2>2, <1>1, <1>2, <1>6, WritesAll, Fails
  <1>7. CASE q.does = "upsert"
    <2>1. Applied(q) = Wrote(q, Upserted(rows, q), TRUE)
      BY <1>1, <1>7, WriteArms
    <2>2. PICK new \in Seq(Rows) : new = Upserted(rows, q) /\ RowKeys(new) = RowKeys(rows) \cup {q.key}
      BY UpsertKeys
    <2> QED
      BY <2>1, <2>2, <1>1, <1>7, WritesAll
  <1>8. CASE q.does \in {"settle", "result"}
    <2>1. PICK e : e = Edited(rows, q.key, LAMBDA r : [r EXCEPT !.done = TRUE])
      OBVIOUS
    <2>2. Applied(q) = SettleRow(rows, q) \/ Applied(q) = RecordResult(rows, q)
      BY <1>1, <1>8, WriteArms
    <2>3. Applied(q) = Refused \/ Applied(q) = Wrote(q, e, TRUE)
      BY <2>1, <2>2 DEF SettleRow, RecordResult
    <2>4. e \in Seq(Rows) /\ RowKeys(e) = RowKeys(rows)
      BY <2>1, EditKeys
    <2> QED
      BY <2>3, <2>4, <1>1, <1>8, Fails, WritesAll
  <1>9. CASE q.does = "refusal"
    <2>1. Applied(q) = IF q.seed THEN Refused ELSE InsertRow(rows, q)
      BY <1>1, <1>9, WriteArms
    <2>2. CASE q.seed
      BY <2>1, <2>2, <1>9, SilentIs DEF Plainly
    <2>3. CASE ~q.seed
      <3>1. Writes(q, added) /\ Applied(q).ok
        BY <2>1, <2>3, <1>3, WriteIs
      <3>2. Keeps(q, rows, added)
        BY <3>1, <1>2, <1>9, <2>3 DEF Keeps
      <3> QED
        BY <3>1, <3>2, <1>1 DEF Plainly
    <2> QED
      BY <2>2, <2>3
  <1>10. CASE q.does = "replace"
    <2>1. Applied(q) = Wrote(q, Keyed(Upserted(rows, q), q.key), Cardinality(RowKeys(rows) \ {q.key}))
      BY <1>1, <1>10, WriteArms
    <2>2. PICK new \in Seq(Rows) : new = Keyed(Upserted(rows, q), q.key) /\ q.key \in RowKeys(new)
      BY ReplaceKeys
    <2>3. Writes(q, new)
      BY <2>1, <2>2, WriteIs
    <2>4. Keeps(q, rows, new)
      BY <2>2, <1>10 DEF Keeps, Takes
    <2> QED
      BY <2>3, <2>4, <1>1 DEF Plainly
  <1>11. CASE q.does \in {"sweep", "pruned", "refresh"}
    <2>1. Only(rows, {r \in RowsOf(rows) : r.at >= q.since}) \in Seq(Rows)
      BY OnlyKept
    <2>2. PICK new \in Seq(Rows) : \E answer : Applied(q) = Wrote(q, new, answer)
      <3>1. CASE q.does = "sweep"
        BY <3>1, <2>1, <1>1, WriteArms DEF Since
      <3>2. CASE q.does = "pruned"
        BY <3>2, <1>1, WriteArms, WindowKeys DEF RecordPruned
      <3>3. CASE q.does = "refresh"
        BY <3>3, <1>1, WriteArms, WindowKeys DEF RefreshWindow
      <3> QED
        BY <1>11, <3>1, <3>2, <3>3
    <2>3. Writes(q, new)
      BY <2>2, WriteIs
    <2>4. Keeps(q, rows, new)
      BY <1>11 DEF Keeps, Takes
    <2> QED
      BY <2>3, <2>4, <1>1 DEF Plainly
  <1> QED
    BY <1>4, <1>5, <1>6, <1>7, <1>8, <1>9, <1>10, <1>11 DEF WriteDoes

\* A refreshed window holds its own sample.
LEMMA RefreshTells ==
    ASSUME NEW q, IsCommand(q), q.does = "refresh", store[q.table] \in Seq(Rows), q.since <= q.at
    PROVE  q.key \in RowKeys(Applied(q).reply)
  <1>1. PICK rows \in Seq(Rows) : rows = store[q.table]
    OBVIOUS
  <1>2. PICK kept : kept = PruneBefore(Append(rows, StoreRow(q)), q.since)
    OBVIOUS
  <1>0. q.does \in WriteDoes
    BY DEF WriteDoes
  <1>3. Applied(q) = Wrote(q, kept, kept)
    BY <1>0, <1>1, <1>2, WriteArms DEF RefreshWindow
  <1> QED
    BY <1>2, <1>3, WriteIs, WindowKeys

\* The command that finds its key says so.
LEMMA IgnoreTells ==
    ASSUME NEW q, q.does = "ignore", q.key \in RowKeys(store[q.table])
    PROVE  Applied(q).reply = FALSE
  <1>0. q.does \in WriteDoes
    BY DEF WriteDoes
  <1>1. Applied(q) = Answered(FALSE)
    BY <1>0, WriteArms DEF InsertIgnore
  <1> QED
    BY <1>1 DEF Answered, Outcome

\* A command that commits a fee cycle, or says that it did not.
Commits(q) ==
    /\ q.does \in {"commit", "guarded"} /\ Applied(q).ok /\ Applied(q).reply = [committed |-> TRUE, gen |-> generation + 1]
    /\ Applied(q).gen = generation + 1
    /\ q.does = "guarded" => q.expected = generation
    /\ q.seed => generation = 0
    /\ After(q)["cycles"] = Append(store["cycles"], StoreRow(q))
    /\ After(q)["seeds"] = IF q.seed THEN Append(store["seeds"], StoreRow(q)) ELSE store["seeds"]
    /\ \A t \in Tables : RowKeys(store[t]) \subseteq RowKeys(After(q)[t])
Holds(q) ==
    /\ Silent(q)
    /\ q.does \in {"commit", "guarded"} /\ Applied(q).ok => Applied(q).reply = [committed |-> FALSE, gen |-> generation]

\* A commit that is not refused is the next generation.
LEMMA CommitIs ==
    ASSUME StoreTyped, NEW q, IsCommand(q), q.does \in {"commit", "guarded"}, q.does = "guarded" => generation = q.expected,
           Applied(q) = CommitLocked(store["cycles"], q), Applied(q) # Refused
    PROVE  Commits(q) /\ After(q) \in [Tables -> Seq(Rows)]
  <1>1. PICK row \in Rows : row = StoreRow(q) /\ row.key = q.key
    BY NewRow
  <1>2. PICK cs \in Seq(Rows), rs \in Seq(Rows), ss \in Seq(Rows) : cs = store["cycles"] /\ rs = store["requests"] /\ ss = store["seeds"]
    BY TablesKnown DEF StoreTyped
  <1>3. PICK cs2 \in Seq(Rows) : cs2 = Append(cs, row) /\ RowKeys(cs) \subseteq RowKeys(cs2)
    <2>1. Append(cs, row) \in Seq(Rows) /\ RowKeys(Append(cs, row)) = RowKeys(cs) \cup {row.key}
      BY AppendRow
    <2> QED BY <2>1
  <1>4. PICK rs2 \in Seq(Rows) : rs2 = Append(rs, row) /\ RowKeys(rs) \subseteq RowKeys(rs2)
    <2>1. Append(rs, row) \in Seq(Rows) /\ RowKeys(Append(rs, row)) = RowKeys(rs) \cup {row.key}
      BY AppendRow
    <2> QED BY <2>1
  <1>5. PICK ss2 \in Seq(Rows) : ss2 = (IF q.seed THEN Append(ss, row) ELSE ss) /\ RowKeys(ss) \subseteq RowKeys(ss2)
    <2>1. Append(ss, row) \in Seq(Rows) /\ RowKeys(Append(ss, row)) = RowKeys(ss) \cup {row.key}
      BY AppendRow
    <2>2. CASE q.seed BY <2>1, <2>2
    <2>3. CASE ~q.seed BY <2>3
    <2> QED BY <2>2, <2>3
  <1>6. /\ SeedAllowed(q)
        /\ Applied(q) = Outcome([cycles |-> cs2, requests |-> rs2, seeds |-> ss2], generation + 1, [committed |-> TRUE, gen |-> generation + 1])
    <2>1. ~(q.key \in RowKeys(store["cycles"]) \/ ~SeedAllowed(q))
      BY DEF CommitLocked
    <2> QED
      BY <2>1, <1>1, <1>2, <1>3, <1>4, <1>5 DEF CommitLocked
  <1>7. PICK ts : ts = Applied(q).tables /\ ts = [cycles |-> cs2, requests |-> rs2, seeds |-> ss2]
    BY <1>6 DEF Outcome
  <1>8. DOMAIN ts = {"cycles", "requests", "seeds"} /\ ts["cycles"] = cs2 /\ ts["requests"] = rs2 /\ ts["seeds"] = ss2
    BY <1>7
  <1>9. \A t \in Tables : After(q)[t] = IF t \in DOMAIN ts THEN ts[t] ELSE store[t]
    BY <1>7 DEF After
  <1>10. After(q)["cycles"] = cs2 /\ After(q)["requests"] = rs2 /\ After(q)["seeds"] = ss2
         /\ \A t \in Tables : t \notin {"cycles", "requests", "seeds"} => After(q)[t] = store[t]
    BY <1>8, <1>9, TablesKnown
  <1>11. \A t \in Tables : RowKeys(store[t]) \subseteq RowKeys(After(q)[t]) /\ After(q)[t] \in Seq(Rows)
    BY <1>10, <1>2, <1>3, <1>4, <1>5 DEF StoreTyped
  <1>12. After(q) \in [Tables -> Seq(Rows)]
    BY <1>11 DEF After
  <1>13. Applied(q).ok /\ Applied(q).reply = [committed |-> TRUE, gen |-> generation + 1] /\ Applied(q).gen = generation + 1
    BY <1>6 DEF Outcome
  <1> QED
    BY <1>1, <1>2, <1>3, <1>5, <1>6, <1>10, <1>11, <1>12, <1>13 DEF Commits, SeedAllowed

\* A command on the fee state commits or changes nothing.
LEMMA FeeStates ==
    ASSUME StoreTyped, NEW q, IsCommand(q), q.does \in FeeStateDoes
    PROVE  Holds(q) \/ (Commits(q) /\ After(q) \in [Tables -> Seq(Rows)])
  <1>1. q.table = "cycles"
    BY DEF IsCommand, Fit
  <1>2. PICK rows : rows = store["cycles"]
    OBVIOUS
  <1>3. Applied(q) = FeeStateStep(rows, q)
    BY <1>1, <1>2 DEF Applied
  <1>4. CASE q.does = "commit"
    <2>1. Applied(q) = CommitLocked(store["cycles"], q)
      BY <1>2, <1>3, <1>4 DEF FeeStateStep
    <2>2. CASE Applied(q) = Refused
      BY <2>2, SilentIs DEF Holds
    <2> QED
      BY <2>1, <2>2, <1>4, CommitIs
  <1>5. CASE q.does = "guarded"
    <2>1. Applied(q) = CommitGuarded(store["cycles"], q)
      BY <1>2, <1>3, <1>5 DEF FeeStateStep
    <2>2. CASE generation # q.expected
      <3>1. Applied(q) = Answered([committed |-> FALSE, gen |-> generation])
        BY <2>1, <2>2 DEF CommitGuarded
      <3>2. Applied(q).reply = [committed |-> FALSE, gen |-> generation]
        BY <3>1 DEF Answered, Outcome
      <3> QED
        BY <3>1, <3>2, SilentIs DEF Holds
    <2>3. CASE generation = q.expected
      <3>1. Applied(q) = CommitLocked(store["cycles"], q)
        BY <2>1, <2>3 DEF CommitGuarded
      <3>2. CASE Applied(q) = Refused
        BY <3>2, SilentIs DEF Holds
      <3> QED
        BY <3>1, <3>2, <2>3, <1>5, CommitIs
    <2> QED
      BY <2>2, <2>3
  <1>6. CASE q.does \in {"standing", "exists", "generation", "load"}
    <2>1. \E answer : FeeStateStep(rows, q) = Answered(answer)
      <3>1. CASE q.does = "standing" BY <3>1 DEF FeeStateStep, CycleStanding
      <3>2. CASE q.does = "exists" BY <3>2 DEF FeeStateStep
      <3>3. CASE q.does = "generation" BY <3>3 DEF FeeStateStep
      <3>4. CASE q.does = "load" BY <3>4 DEF FeeStateStep
      <3> QED BY <1>6, <3>1, <3>2, <3>3, <3>4
    <2>2. PICK answer : Applied(q) = Answered(answer)
      BY <1>3, <2>1
    <2> QED
      BY <2>2, <1>6, SilentIs DEF Holds
  <1> QED
    BY <1>4, <1>5, <1>6 DEF FeeStateDoes

\* A reconciliation settles rows and may open a quarantine.
Reconciles(q) ==
    /\ q.does = "reconcile" /\ Applied(q).gen = generation
    /\ After(q)["cycles"] = store["cycles"] /\ After(q)["seeds"] = store["seeds"]
    /\ \A t \in Tables : RowKeys(store[t]) \subseteq RowKeys(After(q)[t])

\* The reconciliation at a restart keeps every row.
LEMMA Reconciled ==
    ASSUME StoreTyped, NEW q, IsCommand(q), q.does = "reconcile"
    PROVE  Plainly(q) \/ (Reconciles(q) /\ After(q) \in [Tables -> Seq(Rows)])
  <1>0. q.table = "attempts" /\ q.does \in WriteDoes
    BY DEF IsCommand, Fit, WriteDoes
  <1>1. PICK as \in Seq(Rows), qs \in Seq(Rows), row \in Rows : as = store["attempts"] /\ qs = store["quarantine"] /\ row = StoreRow(q)
    BY TablesKnown, NewRow DEF StoreTyped
  <1>2. Applied(q) = ReconcileAttempts(as, q)
    BY <1>0, <1>1, WriteArms
  <1>3. CASE OpenRows(as) = <<>>
    <2>1. Applied(q) = Answered(0)
      BY <1>2, <1>3 DEF ReconcileAttempts
    <2> QED
      BY <2>1, Fails
  <1>4. CASE OpenRows(as) # <<>>
    <2>1. PICK held : held = (OpenRows(store["quarantine"]) # <<>>)
      OBVIOUS
    <2>2. PICK as2 \in Seq(Rows) : as2 = AllSettled(as) /\ RowKeys(as2) = RowKeys(as)
      BY EditKeys
    <2>3. PICK qs2 \in Seq(Rows) : qs2 = (IF held THEN qs ELSE Append(qs, row)) /\ RowKeys(qs) \subseteq RowKeys(qs2)
      <3>1. Append(qs, row) \in Seq(Rows) /\ RowKeys(Append(qs, row)) = RowKeys(qs) \cup {row.key}
        BY AppendRow
      <3>2. CASE held BY <3>1, <3>2
      <3>3. CASE ~held BY <3>1, <3>3
      <3> QED BY <3>2, <3>3
    <2>4. Applied(q) = Outcome([attempts |-> as2, quarantine |-> qs2], generation, Len(OpenRows(as)))
      BY <1>1, <1>2, <1>4, <2>1, <2>2, <2>3 DEF ReconcileAttempts
    <2>5. PICK ts : ts = Applied(q).tables /\ ts = [attempts |-> as2, quarantine |-> qs2]
      BY <2>4 DEF Outcome
    <2>6. DOMAIN ts = {"attempts", "quarantine"} /\ ts["attempts"] = as2 /\ ts["quarantine"] = qs2
      BY <2>5
    <2>7. \A t \in Tables : After(q)[t] = IF t \in DOMAIN ts THEN ts[t] ELSE store[t]
      BY <2>5 DEF After
    <2>8. After(q)["attempts"] = as2 /\ After(q)["quarantine"] = qs2
          /\ \A t \in Tables : t \notin {"attempts", "quarantine"} => After(q)[t] = store[t]
      BY <2>6, <2>7, TablesKnown
    <2>9. \A t \in Tables : RowKeys(store[t]) \subseteq RowKeys(After(q)[t]) /\ After(q)[t] \in Seq(Rows)
      BY <2>8, <1>1, <2>2, <2>3 DEF StoreTyped
    <2>10. After(q) \in [Tables -> Seq(Rows)]
      BY <2>9 DEF After
    <2>11. Applied(q).gen = generation
      BY <2>4 DEF Outcome
    <2> QED
      BY <2>8, <2>9, <2>10, <2>11, TablesKnown DEF Reconciles
  <1> QED
    BY <1>3, <1>4

\* What any command does.
LEMMA Serves ==
    ASSUME StoreTyped, NEW q, IsCommand(q)
    PROVE  \/ Plainly(q) /\ q.does \notin FeeStateDoes
           \/ Holds(q) /\ q.does \in FeeStateDoes
           \/ Commits(q) /\ After(q) \in [Tables -> Seq(Rows)]
           \/ Reconciles(q) /\ After(q) \in [Tables -> Seq(Rows)]
  <1>1. store[q.table] \in Seq(Rows)
    BY DEF StoreTyped, IsCommand
  <1>2. CASE q.does \in FeeStateDoes
    BY <1>2, FeeStates
  <1>3. CASE q.does \in LoopDoes
    BY <1>1, <1>3, Loops DEF LoopDoes, FeeStateDoes
  <1>4. CASE q.does \in WriteDoes
    BY <1>1, <1>4, Writers, Reconciled DEF WriteDoes, FeeStateDoes
  <1> QED
    BY <1>2, <1>3, <1>4, Reads

KeyWrites == {"ignore", "append", "upsert"}
\* q took a row of key k out of the table.
TakesKey(q, table, k) == q.table = table /\ Takes(q) /\ (q.does = "replace" => k # q.key)
Quiets(q) ==
    /\ Applied(q).gen = generation /\ After(q)["cycles"] = store["cycles"]
    /\ q.does \in {"commit", "guarded"} /\ Applied(q).ok => Applied(q).reply.committed = FALSE
    /\ IF q.does = "refusal" /\ Applied(q).ok THEN ~q.seed /\ After(q)["seeds"] = Append(store["seeds"], StoreRow(q))
       ELSE After(q)["seeds"] = store["seeds"]
Effects(q) ==
    /\ After(q) \in [Tables -> Seq(Rows)] /\ Applied(q).gen \in Nat
    /\ \A t \in Tables : \A k \in RowKeys(store[t]) : k \in RowKeys(After(q)[t]) \/ TakesKey(q, t, k)
    /\ q.does \in KeyWrites => q.key \in RowKeys(After(q)[q.table])
    /\ Commits(q) \/ Quiets(q)

\* Without a write the tables stay.
LEMMA SilentAfter ==
    ASSUME StoreTyped, NEW q, Applied(q).tables = <<>>
    PROVE  After(q) = store
  <1>1. DOMAIN Applied(q).tables = {}
    OBVIOUS
  <1>2. \A t \in Tables : After(q)[t] = store[t]
    BY <1>1 DEF After
  <1> QED
    BY <1>2 DEF After, StoreTyped

\* A written table is the only one that changes.
LEMMA WrittenAfter ==
    ASSUME StoreTyped, NEW q, NEW new \in Seq(Rows), Writes(q, new), q.table \in Tables
    PROVE  /\ After(q) \in [Tables -> Seq(Rows)]
           /\ After(q)[q.table] = new
           /\ \A t \in Tables : t # q.table => After(q)[t] = store[t]
  <1>1. PICK ts : ts = Applied(q).tables /\ ts = [t \in {q.table} |-> new]
    BY DEF Writes
  <1>2. DOMAIN ts = {q.table} /\ ts[q.table] = new
    BY <1>1
  <1>3. \A t \in Tables : After(q)[t] = IF t \in DOMAIN ts THEN ts[t] ELSE store[t]
    BY <1>1 DEF After
  <1>4. \A t \in Tables : After(q)[t] \in Seq(Rows)
    BY <1>2, <1>3 DEF StoreTyped
  <1> QED
    BY <1>2, <1>3, <1>4 DEF After

\* What any command does to the tables and the generation.
LEMMA EffectsOf ==
    ASSUME StoreTyped, NEW q, IsCommand(q)
    PROVE  Effects(q)
  <1> USE TablesKnown
  <1>0. /\ q.table \in Tables /\ (q.does \in FeeStateDoes <=> q.table = "cycles") /\ generation \in Nat /\ store \in [Tables -> Seq(Rows)]
        /\ q.table = "seeds" => q.does \in {"refusal", "binding", "newest"}
        /\ q.does \in {"refusal", "binding"} => q.table = "seeds"
        /\ FeeStateDoes = {"commit", "guarded", "standing", "exists", "generation", "load"}
    BY DEF IsCommand, Fit, StoreTyped, FeeStateDoes
  <1>1. CASE Plainly(q) /\ q.does \notin FeeStateDoes
    <2>1. CASE /\ Silent(q) /\ q.does \notin {"append", "upsert"}
               /\ q.does = "ignore" => q.key \in RowKeys(store[q.table])
               /\ q.does = "refusal" => ~Applied(q).ok
      <3>1. After(q) = store /\ Applied(q).gen = generation
        BY <2>1, SilentAfter DEF Silent
      <3> QED
        BY <3>1, <2>1, <1>0, <1>1 DEF Effects, Quiets, KeyWrites
    <2>2. ASSUME NEW new, Writes(q, new), Keeps(q, store[q.table], new) PROVE Effects(q)
      <3>1. new \in Seq(Rows)
        BY <2>2 DEF Keeps
      <3>2. /\ After(q) \in [Tables -> Seq(Rows)] /\ After(q)[q.table] = new
            /\ \A t \in Tables : t # q.table => After(q)[t] = store[t]
        BY <3>1, <2>2, <1>0, WrittenAfter
      <3>3. Applied(q).gen = generation
        BY <2>2 DEF Writes
      <3>4. \A t \in Tables : \A k \in RowKeys(store[t]) : k \in RowKeys(After(q)[t]) \/ TakesKey(q, t, k)
        BY <3>2, <2>2 DEF Keeps, TakesKey
      <3>5. q.does \in KeyWrites => q.key \in RowKeys(After(q)[q.table])
        BY <3>2, <2>2 DEF Keeps, KeyWrites
      <3>6. After(q)["cycles"] = store["cycles"]
        BY <3>2, <1>0, <1>1
      <3>7. IF q.does = "refusal" /\ Applied(q).ok THEN ~q.seed /\ After(q)["seeds"] = Append(store["seeds"], StoreRow(q))
            ELSE After(q)["seeds"] = store["seeds"]
        <4>1. CASE q.does = "refusal"
          BY <4>1, <3>2, <2>2, <1>0 DEF Keeps
        <4>2. CASE q.table # "seeds"
          BY <4>2, <3>2, <1>0
        <4>3. CASE q.table = "seeds" /\ q.does # "refusal"
          <5>1. q.does \in {"binding", "newest"}
            BY <4>3, <1>0
          <5>2. q.does \notin FeeStateDoes /\ q.does \notin LoopDoes /\ q.does \notin WriteDoes
            BY <5>1 DEF FeeStateDoes, LoopDoes, WriteDoes
          <5>3. \E answer : Applied(q) = Answered(answer)
            <6>1. Applied(q) = ReadStep(store[q.table], q)
              BY <5>2 DEF Applied
            <6>2. CASE q.does = "newest"
              BY <6>1, <6>2 DEF ReadStep
            <6>3. CASE q.does = "binding"
              <7>1. Applied(q) = Binding(store["seeds"])
                BY <5>2, <6>3, Reads
              <7> QED
                BY <7>1 DEF Binding
            <6> QED
              BY <5>1, <6>2, <6>3
          <5>4. After(q) = store
            BY <5>3, SilentIs, SilentAfter DEF Silent
          <5> QED
            BY <5>4, <4>3
        <4> QED
          BY <4>1, <4>2, <4>3
      <3> QED
        BY <3>2, <3>3, <3>4, <3>5, <3>6, <3>7, <1>0, <1>1 DEF Effects, Quiets
    <2> QED
      BY <1>1, <2>1, <2>2 DEF Plainly
  <1>2. CASE Holds(q) /\ q.does \in FeeStateDoes
    <2>1. After(q) = store /\ Applied(q).gen = generation
      BY <1>2, SilentAfter DEF Holds, Silent
    <2>2. q.does \in {"commit", "guarded"} /\ Applied(q).ok => Applied(q).reply.committed = FALSE
      BY <1>2 DEF Holds
    <2> QED
      BY <2>1, <2>2, <1>0, <1>2 DEF Effects, Quiets, KeyWrites
  <1>3. CASE Commits(q) /\ After(q) \in [Tables -> Seq(Rows)]
    <2>1. q.does \notin KeyWrites /\ generation + 1 \in Nat /\ Applied(q).gen = generation + 1
      BY <1>3, <1>0 DEF Commits, KeyWrites
    <2>2. \A t \in Tables : RowKeys(store[t]) \subseteq RowKeys(After(q)[t])
      BY <1>3 DEF Commits
    <2> QED
      BY <2>1, <2>2, <1>3 DEF Effects
  <1>4. CASE Reconciles(q) /\ After(q) \in [Tables -> Seq(Rows)]
    BY <1>4, <1>0 DEF Effects, Reconciles, Quiets, KeyWrites
  <1> QED
    BY <1>1, <1>2, <1>3, <1>4, Serves

\* A list replies with the whole table.
LEMMA ListTells ==
    ASSUME NEW q, IsCommand(q), q.does = "list"
    PROVE  Applied(q).reply = store[q.table]
  <1>1. q.does \notin FeeStateDoes /\ q.does \notin LoopDoes /\ q.does \notin WriteDoes
    BY DEF FeeStateDoes, LoopDoes, WriteDoes
  <1>2. Applied(q) = Answered(store[q.table])
    BY <1>1, Reads
  <1> QED
    BY <1>2 DEF Answered, Outcome

\* A bound store has the import as its last seed event.
LEMMA BindingTells ==
    ASSUME NEW q, IsCommand(q), q.does = "binding", Applied(q).reply = "bound"
    PROVE  \E i \in DOMAIN store["seeds"] : store["seeds"][i].seed /\ i = Len(store["seeds"])
  <1>1. q.does \notin FeeStateDoes /\ q.does \notin LoopDoes /\ q.does \notin WriteDoes
    BY DEF FeeStateDoes, LoopDoes, WriteDoes
  <1>2. Applied(q) = Binding(store["seeds"])
    BY <1>1, Reads
  <1> DEFINE rows == store["seeds"]
             won == {i \in DOMAIN rows : rows[i].seed}
             said == IF generation = 0 THEN (IF won = {} THEN "virgin" ELSE "invalid")
                     ELSE IF \E i \in won : won = {i} /\ i = Len(rows) /\ store["cycles"][1].key = rows[i].key THEN "bound"
                     ELSE "invalid"
  <1>3. Applied(q) = Answered(said)
    BY <1>2 DEF Binding
  <1>4. said = "bound"
    BY <1>3 DEF Answered, Outcome
  <1>5. \E i \in won : i = Len(rows)
    BY <1>4
  <1> QED
    BY <1>5

\* A sequence of whatever it holds.
Listed(s) == s \in Seq({s[i] : i \in DOMAIN s})

PlacesTyped ==
    /\ asked \in [StoreCallers -> Seq(StoreAsk)]
    /\ mailbox = [a \in Actors |-> mailbox[a]]
    /\ asks = [c \in StoreCallers |-> asks[c]] /\ outcomes = [c \in StoreCallers |-> outcomes[c]]
    /\ Listed(ran) /\ (\A a \in Actors : Listed(mailbox[a])) /\ (\A c \in StoreCallers : Listed(outcomes[c]))

\* A caller's request is the next after the answered ones; a queued or served
\* command is that request or one that its caller has given up.
AskOf(c, st, q) == asks[c] = [state |-> st, q |-> q] /\ IsCommand(q) /\ q.who = c /\ q.n = Len(outcomes[c]) + 1
AsksFit == \A c \in StoreCallers : asks[c] = NoAsk \/ \E q : AskOf(c, "sending", q) \/ AskOf(c, "waiting", q)
AwaitsReply(q) == asks[q.who] = [state |-> "waiting", q |-> q]
QueuesFit == \A a \in Actors : \A i \in DOMAIN mailbox[a] :
                LET q == mailbox[a][i] IN IsCommand(q) /\ q.actor = a /\ (q.n <= Len(outcomes[q.who]) \/ AwaitsReply(q))
RanFit == \A i \in DOMAIN ran : IsCommand(ran[i].q) /\ ran[i].q.n <= Len(outcomes[ran[i].q.who])

\* Commands of one caller are told apart, and keep their order within an actor.
Before(q, r) == q.who = r.who => q.n # r.n /\ (q.actor = r.actor => q.n < r.n)
InTurn ==
    /\ \A i, j \in DOMAIN ran : i < j => Before(ran[i].q, ran[j].q)
    /\ \A i \in DOMAIN ran : \A a \in Actors : \A j \in DOMAIN mailbox[a] : Before(ran[i].q, mailbox[a][j])
    /\ \A a \in Actors : \A i, j \in DOMAIN mailbox[a] : i < j => Before(mailbox[a][i], mailbox[a][j])
    /\ \A a, b \in Actors : a # b => \A i \in DOMAIN mailbox[a], j \in DOMAIN mailbox[b] : Before(mailbox[a][i], mailbox[b][j])

RanFor(c, n) == \E i \in DOMAIN ran : ran[i].q.who = c /\ ran[i].q.n = n
QueuedFor(c, n) == \E a \in Actors : \E i \in DOMAIN mailbox[a] : mailbox[a][i].who = c /\ mailbox[a][i].n = n
RanWith(o) == \E i \in DOMAIN ran : ran[i].q = o.q /\ o.reply = {ran[i].said}
ToldTruly(c, n, o) ==
    /\ IsCommand(o.q) /\ o.q.who = c /\ o.q.n = n
    /\ o.state \in {"ok", "error"} => RanWith(o)
    /\ o.state \in {"refused", "gone", "cancelled"} => ~RanFor(c, n) /\ ~QueuedFor(c, n)
OutcomesFit == \A c \in StoreCallers : \A n \in DOMAIN outcomes[c] : ToldTruly(c, n, outcomes[c][n])
PlacesInv == PlacesTyped /\ AsksFit /\ QueuesFit /\ RanFit /\ InTurn /\ OutcomesFit

-----------------------------------------------------------------------------
Taken(i, j, table, k) == \E l \in (i + 1)..(j - 1) : TakesKey(ran[l].q, table, k)
KeysStay == \A i \in DOMAIN ran : ran[i].q.does \in KeyWrites =>
                ran[i].q.key \in RowKeys(store[ran[i].q.table]) \/ Taken(i, Len(ran) + 1, ran[i].q.table, ran[i].q.key)
ListsShow == \A i, j \in DOMAIN ran :
                (i < j /\ ran[i].q.does \in KeyWrites /\ ran[j].q.does = "list" /\ ran[j].q.table = ran[i].q.table) =>
                ran[i].q.key \in RowKeys(ran[j].said) \/ Taken(i, j, ran[i].q.table, ran[i].q.key)
WindowsShow == \A i \in DOMAIN ran : (ran[i].q.does = "refresh" /\ ran[i].q.since <= ran[i].q.at) => ran[i].q.key \in RowKeys(ran[i].said)
CommitsGrow == \A i \in DOMAIN ran : Committed(i) => ran[i].said.gen \in Nat /\ ran[i].said.gen <= generation
SeededAfter(j) == \E k \in DOMAIN ran : j <= k /\ Committed(k) /\ ran[k].q.seed
Refuses(j) == ran[j].q.does = "refusal" /\ ran[j].ok
SeedsFit ==
    /\ (\E i \in DOMAIN store["seeds"] : store["seeds"][i].seed) => Len(store["cycles"]) >= 1 /\ store["cycles"][1].seed
    /\ \A i \in DOMAIN ran : ran[i].q.does = "binding" /\ ran[i].said = "bound" => Len(store["cycles"]) >= 1
    /\ (\E i \in DOMAIN store["seeds"] : store["seeds"][i].seed /\ i = Len(store["seeds"])) =>
          \A j \in DOMAIN ran : Refuses(j) => SeededAfter(j)
TablesInv == StoreTyped /\ KeysStay /\ ListsShow /\ WindowsShow /\ FirstNonceWins /\ CommitsGrow /\ CommitsDoNotFork /\ SeedsFit /\ SeedDescribesFirst

\* A sequence over a set is a sequence of what it holds.
LEMMA ListedSeq ==
    ASSUME NEW S, NEW s \in Seq(S)
    PROVE  Listed(s)
  <1>1. s \in [1..Len(s) -> S] /\ Len(s) \in Nat
    OBVIOUS
  <1> DEFINE R == {s[i] : i \in DOMAIN s}
  <1>2. \A i \in 1..Len(s) : s[i] \in R
    BY <1>1
  <1>3. s \in [1..Len(s) -> R]
    <2> HIDE DEF R
    <2> QED
      BY <1>1, <1>2
  <1>4. s \in Seq(R)
    <2> HIDE DEF R
    <2> QED
      BY <1>1, <1>3, SeqDef
  <1> QED
    BY <1>4 DEF Listed

\* One element more at the end.
LEMMA Grown ==
    ASSUME NEW s, Listed(s), NEW e
    PROVE  /\ Listed(Append(s, e)) /\ Len(s) \in Nat /\ DOMAIN s = 1..Len(s)
           /\ Len(Append(s, e)) = Len(s) + 1 /\ DOMAIN Append(s, e) = 1..(Len(s) + 1)
           /\ \A j \in 1..Len(s) : Append(s, e)[j] = s[j]
           /\ Append(s, e)[Len(s) + 1] = e
  <1> DEFINE S == {s[i] : i \in DOMAIN s} \cup {e}
             new == Append(s, e)
  <1>1. s \in Seq({s[i] : i \in DOMAIN s})
    BY DEF Listed
  <1>2. s \in Seq(S) /\ e \in S
    <2>1. Len(s) \in Nat /\ DOMAIN s = 1..Len(s) /\ s \in [1..Len(s) -> {s[i] : i \in DOMAIN s}]
      BY <1>1
    <2>2. s \in [1..Len(s) -> S]
      BY <2>1
    <2> QED
      BY <2>1, <2>2, SeqDef
  <1>3. /\ new \in Seq(S) /\ Len(new) = Len(s) + 1
        /\ \A j \in 1..Len(s) : new[j] = s[j]
        /\ new[Len(s) + 1] = e
    BY <1>2, AppendProperties
  <1>4. Len(s) \in Nat /\ DOMAIN s = 1..Len(s) /\ DOMAIN new = 1..(Len(s) + 1)
    BY <1>2, <1>3
  <1>5. Listed(new)
    BY <1>3, ListedSeq
  <1> QED
    BY <1>3, <1>4, <1>5

\* One element less at the front.
LEMMA Rested ==
    ASSUME NEW s, Listed(s), s # <<>>
    PROVE  /\ Listed(Tail(s)) /\ Len(s) \in Nat /\ Len(s) >= 1 /\ DOMAIN s = 1..Len(s)
           /\ DOMAIN Tail(s) = 1..(Len(s) - 1)
           /\ \A j \in 1..(Len(s) - 1) : Tail(s)[j] = s[j + 1]
           /\ Head(s) = s[1]
  <1> DEFINE S == {s[i] : i \in DOMAIN s}
             new == Tail(s)
  <1>1. s \in Seq(S)
    BY DEF Listed
  <1> HIDE DEF S
  <1>2. /\ new \in Seq(S) /\ Len(new) = Len(s) - 1 /\ Head(s) = s[1]
        /\ \A j \in 1..Len(new) : new[j] = s[j + 1]
    BY <1>1, HeadTailProperties
  <1>3. Len(s) \in Nat /\ Len(s) >= 1 /\ DOMAIN s = 1..Len(s) /\ DOMAIN new = 1..(Len(s) - 1)
    BY <1>1, <1>2
  <1>4. Listed(new)
    BY <1>2, ListedSeq
  <1> QED
    BY <1>2, <1>3, <1>4

\* The indices of a sequence.
LEMMA Indices ==
    ASSUME NEW s, Listed(s)
    PROVE  Len(s) \in Nat /\ DOMAIN s = 1..Len(s)
  BY DEF Listed

\* The empty sequence.
LEMMA EmptyList == Listed(<<>>) /\ DOMAIN <<>> = {}
  BY DEF Listed

\* Nothing of a caller that does not wait is newer than its last answer.
LEMMA NothingNewer ==
    ASSUME PlacesInv, NEW c \in StoreCallers, \A r : asks[c] # [state |-> "waiting", q |-> r]
    PROVE  /\ \A a \in Actors : \A i \in DOMAIN mailbox[a] : mailbox[a][i].who = c => mailbox[a][i].n <= Len(outcomes[c])
           /\ \A i \in DOMAIN ran : ran[i].q.who = c => ran[i].q.n <= Len(outcomes[c])
  <1>1. ASSUME NEW a \in Actors, NEW i \in DOMAIN mailbox[a], mailbox[a][i].who = c
        PROVE  mailbox[a][i].n <= Len(outcomes[c])
    <2>1. PICK q : q = mailbox[a][i]
      OBVIOUS
    <2>2. q.n <= Len(outcomes[q.who]) \/ AwaitsReply(q)
      BY <2>1 DEF PlacesInv, QueuesFit
    <2>3. q.who = c /\ asks[c] # [state |-> "waiting", q |-> q]
      BY <2>1, <1>1
    <2> QED
      BY <2>1, <2>2, <2>3 DEF AwaitsReply
  <1>2. \A i \in DOMAIN ran : ran[i].q.who = c => ran[i].q.n <= Len(outcomes[c])
    BY DEF PlacesInv, RanFit
  <1> QED
    BY <1>1, <1>2

\* Whatever is placed is no newer than the request that waits.
LEMMA NothingLater ==
    ASSUME PlacesInv
    PROVE  /\ \A a \in Actors : \A i \in DOMAIN mailbox[a] : mailbox[a][i].n <= Len(outcomes[mailbox[a][i].who]) + 1
           /\ \A i \in DOMAIN ran : ran[i].q.n <= Len(outcomes[ran[i].q.who])
           /\ \A c \in StoreCallers : Len(outcomes[c]) \in Nat /\ DOMAIN outcomes[c] = 1..Len(outcomes[c])
  <1>1. \A c \in StoreCallers : Len(outcomes[c]) \in Nat /\ DOMAIN outcomes[c] = 1..Len(outcomes[c])
    BY Indices DEF PlacesInv, PlacesTyped
  <1>2. ASSUME NEW a \in Actors, NEW i \in DOMAIN mailbox[a] PROVE mailbox[a][i].n <= Len(outcomes[mailbox[a][i].who]) + 1
    <2>1. PICK q : q = mailbox[a][i] /\ IsCommand(q) /\ (q.n <= Len(outcomes[q.who]) \/ AwaitsReply(q))
      BY DEF PlacesInv, QueuesFit
    <2>2. q.who \in StoreCallers /\ q.n \in Nat
      BY <2>1 DEF IsCommand
    <2>3. CASE AwaitsReply(q)
      <3>1. PICK r : AskOf(q.who, "sending", r) \/ AskOf(q.who, "waiting", r)
        <4>1. asks[q.who] # NoAsk
          BY <2>3 DEF AwaitsReply, NoAsk
        <4> QED
          BY <4>1, <2>2 DEF PlacesInv, AsksFit
      <3>2. r = q /\ r.n = Len(outcomes[q.who]) + 1
        BY <3>1, <2>3 DEF AskOf, AwaitsReply
      <3> QED
        BY <3>2, <2>1, <2>2, <1>1
    <2> QED
      BY <2>1, <2>2, <2>3, <1>1
  <1> QED
    BY <1>1, <1>2 DEF PlacesInv, RanFit

\* A caller's next command comes last in its actor's queue.
LEMMA QueueOne ==
    ASSUME PlacesInv, NEW c \in StoreCallers, NEW q, IsCommand(q), q.who = c, q.n = Len(outcomes[c]) + 1,
           \A r : asks[c] # [state |-> "waiting", q |-> r],
           mailbox' = [mailbox EXCEPT ![q.actor] = Append(@, q)],
           asks' = [asks EXCEPT ![c] = [state |-> "waiting", q |-> q]],
           UNCHANGED <<asked, outcomes, ran>>
    PROVE  PlacesInv'
  <1>1. PICK b \in Actors : b = q.actor
    BY DEF IsCommand, Fit
  <1>2. PICK s : s = mailbox[b]
    OBVIOUS
  <1>3. /\ Listed(Append(s, q)) /\ Len(s) \in Nat /\ DOMAIN s = 1..Len(s)
        /\ DOMAIN Append(s, q) = 1..(Len(s) + 1)
        /\ \A j \in 1..Len(s) : Append(s, q)[j] = s[j]
        /\ Append(s, q)[Len(s) + 1] = q
    BY <1>2, Grown DEF PlacesInv, PlacesTyped
  <1>4. mailbox'[b] = Append(s, q) /\ \A a \in Actors : a # b => mailbox'[a] = mailbox[a]
    BY <1>1, <1>2 DEF PlacesInv, PlacesTyped
  <1>5. asks'[c] = [state |-> "waiting", q |-> q] /\ \A d \in StoreCallers : d # c => asks'[d] = asks[d]
    BY DEF PlacesInv, PlacesTyped
  <1>6. PlacesTyped'
    BY <1>1, <1>3, <1>4 DEF PlacesInv, PlacesTyped
  <1>7. AsksFit'
    <2>1. ASSUME NEW d \in StoreCallers
          PROVE  asks'[d] = NoAsk \/ \E r : AskOf(d, "sending", r)' \/ AskOf(d, "waiting", r)'
      <3>1. CASE d = c
        <4>1. AskOf(d, "waiting", q)'
          BY <3>1, <1>5 DEF AskOf
        <4> QED
          BY <4>1
      <3>2. CASE d # c
        <4>1. asks[d] = NoAsk \/ \E r : AskOf(d, "sending", r) \/ AskOf(d, "waiting", r)
          BY DEF PlacesInv, AsksFit
        <4>2. \A r, st : AskOf(d, st, r) => AskOf(d, st, r)'
          BY <3>2, <1>5 DEF AskOf
        <4> QED
          BY <4>1, <4>2, <3>2, <1>5
      <3> QED
        BY <3>1, <3>2
    <2> QED
      BY <2>1 DEF AsksFit
  <1>8. \A a \in Actors : \A i \in DOMAIN mailbox'[a] :
           \/ i \in DOMAIN mailbox[a] /\ mailbox'[a][i] = mailbox[a][i]
           \/ a = b /\ i = Len(s) + 1 /\ mailbox'[a][i] = q
    <2>1. \A i \in 1..(Len(s) + 1) : i \in 1..Len(s) \/ i = Len(s) + 1
      BY <1>3
    <2> QED
      BY <2>1, <1>2, <1>3, <1>4
  <1>9. /\ \A a \in Actors : \A i \in DOMAIN mailbox[a] : mailbox[a][i].who = c => mailbox[a][i].n <= Len(outcomes[c])
        /\ \A i \in DOMAIN ran : ran[i].q.who = c => ran[i].q.n <= Len(outcomes[c])
    BY NothingNewer
  <1>10. Len(outcomes[c]) \in Nat /\ DOMAIN outcomes[c] = 1..Len(outcomes[c])
    BY NothingLater
  <1>11. QueuesFit'
    <2>1. ASSUME NEW a \in Actors, NEW i \in DOMAIN mailbox'[a]
          PROVE  LET r == mailbox'[a][i] IN IsCommand(r) /\ r.actor = a /\ (r.n <= Len(outcomes[r.who]) \/ asks'[r.who] = [state |-> "waiting", q |-> r])
      <3>1. CASE i \in DOMAIN mailbox[a] /\ mailbox'[a][i] = mailbox[a][i]
        <4>1. PICK r : r = mailbox[a][i]
          OBVIOUS
        <4>2. IsCommand(r) /\ r.actor = a /\ (r.n <= Len(outcomes[r.who]) \/ asks[r.who] = [state |-> "waiting", q |-> r])
          BY <4>1, <3>1 DEF PlacesInv, QueuesFit, AwaitsReply
        <4>3. r.who \in StoreCallers
          BY <4>2 DEF IsCommand
        <4>4. r.who = c => r.n <= Len(outcomes[r.who])
          BY <4>1, <3>1, <1>9
        <4>5. r.n <= Len(outcomes[r.who]) \/ asks'[r.who] = [state |-> "waiting", q |-> r]
          BY <4>2, <4>3, <4>4, <1>5
        <4> QED
          BY <4>1, <4>2, <4>5, <3>1
      <3>2. CASE a = b /\ mailbox'[a][i] = q
        BY <3>2, <1>1, <1>5
      <3> QED
        BY <3>1, <3>2, <1>8
    <2> QED
      BY <2>1 DEF QueuesFit, AwaitsReply
  <1>12. RanFit'
    BY DEF PlacesInv, RanFit
  <1>13. \A a \in Actors : \A i \in DOMAIN mailbox[a] : mailbox[a][i].n \in Nat
    BY DEF PlacesInv, QueuesFit, IsCommand
  <1>14. \A i \in DOMAIN ran : ran[i].q.n \in Nat
    BY DEF PlacesInv, RanFit, IsCommand
  <1>15. \A a \in Actors : \A i \in DOMAIN mailbox[a] : /\ Before(mailbox[a][i], q)
                                                        /\ a # b => Before(q, mailbox[a][i])
    <2>1. \A a \in Actors : \A i \in DOMAIN mailbox[a] : mailbox[a][i].actor = a
      BY DEF PlacesInv, QueuesFit
    <2> QED
      BY <2>1, <1>1, <1>9, <1>10, <1>13 DEF Before
  <1>16. \A i \in DOMAIN ran : Before(ran[i].q, q)
    BY <1>9, <1>10, <1>14 DEF Before
  <1>17. InTurn'
    <2>1. (\A i, j \in DOMAIN ran : i < j => Before(ran[i].q, ran[j].q))'
      BY DEF PlacesInv, InTurn
    <2>2. (\A i \in DOMAIN ran : \A a \in Actors : \A j \in DOMAIN mailbox[a] : Before(ran[i].q, mailbox[a][j]))'
      BY <1>8, <1>16 DEF PlacesInv, InTurn
    <2>3. (\A a \in Actors : \A i, j \in DOMAIN mailbox[a] : i < j => Before(mailbox[a][i], mailbox[a][j]))'
      <3>1. ASSUME NEW a \in Actors, NEW i \in DOMAIN mailbox'[a], NEW j \in DOMAIN mailbox'[a], i < j
            PROVE  Before(mailbox'[a][i], mailbox'[a][j])
        <4>1. CASE i \in DOMAIN mailbox[a] /\ mailbox'[a][i] = mailbox[a][i]
          BY <4>1, <3>1, <1>8, <1>15 DEF PlacesInv, InTurn
        <4>2. CASE a = b /\ i = Len(s) + 1
          <5>1. DOMAIN mailbox'[a] = 1..(Len(s) + 1)
            BY <4>2, <1>3, <1>4
          <5> QED
            BY <5>1, <4>2, <3>1, <1>3
        <4> QED
          BY <4>1, <4>2, <1>8
      <3> QED
        BY <3>1
    <2>4. (\A a, d \in Actors : a # d => \A i \in DOMAIN mailbox[a], j \in DOMAIN mailbox[d] : Before(mailbox[a][i], mailbox[d][j]))'
      <3>1. ASSUME NEW a \in Actors, NEW d \in Actors, a # d, NEW i \in DOMAIN mailbox'[a], NEW j \in DOMAIN mailbox'[d]
            PROVE  Before(mailbox'[a][i], mailbox'[d][j])
        <4>1. CASE i \in DOMAIN mailbox[a] /\ mailbox'[a][i] = mailbox[a][i]
          BY <4>1, <3>1, <1>8, <1>15 DEF PlacesInv, InTurn
        <4>2. CASE a = b /\ mailbox'[a][i] = q
          BY <4>2, <3>1, <1>8, <1>15
        <4> QED
          BY <4>1, <4>2, <1>8
      <3> QED
        BY <3>1
    <2> QED
      BY <2>1, <2>2, <2>3, <2>4 DEF InTurn
  <1>18. OutcomesFit'
    <2>1. ASSUME NEW d \in StoreCallers, NEW n \in DOMAIN outcomes[d]
          PROVE  ToldTruly(d, n, outcomes[d][n])'
      <3>1. ToldTruly(d, n, outcomes[d][n])
        BY DEF PlacesInv, OutcomesFit
      <3>2. QueuedFor(d, n)' => QueuedFor(d, n)
        <4>1. ~(q.who = d /\ q.n = n)
          BY <1>10
        <4> QED
          BY <4>1, <1>8 DEF QueuedFor
      <3>3. RanFor(d, n)' <=> RanFor(d, n)
        BY DEF RanFor
      <3>4. RanWith(outcomes[d][n])' <=> RanWith(outcomes[d][n])
        BY DEF RanWith
      <3> QED
        BY <3>1, <3>2, <3>3, <3>4 DEF ToldTruly
    <2> QED
      BY <2>1 DEF OutcomesFit
  <1> QED
    BY <1>6, <1>7, <1>11, <1>12, <1>17, <1>18 DEF PlacesInv

\* What a caller is told without its command being run.
LEMMA EndOne ==
    ASSUME PlacesInv, NEW c \in StoreCallers, NEW q, IsCommand(q), q.who = c, q.n = Len(outcomes[c]) + 1,
           NEW st \in {"refused", "gone", "cancelled", "unknown"},
           st # "unknown" => \A r : asks[c] # [state |-> "waiting", q |-> r],
           Ended(c, st, q, {}), UNCHANGED <<asked, mailbox, ran>>
    PROVE  PlacesInv'
  <1>1. PICK s, o : s = outcomes[c] /\ o = [state |-> st, q |-> q, reply |-> {}]
    OBVIOUS
  <1>2. /\ Listed(Append(s, o)) /\ Len(s) \in Nat /\ DOMAIN s = 1..Len(s)
        /\ Len(Append(s, o)) = Len(s) + 1 /\ DOMAIN Append(s, o) = 1..(Len(s) + 1)
        /\ \A j \in 1..Len(s) : Append(s, o)[j] = s[j]
        /\ Append(s, o)[Len(s) + 1] = o
    BY <1>1, Grown DEF PlacesInv, PlacesTyped
  <1>3. asks'[c] = NoAsk /\ \A d \in StoreCallers : d # c => asks'[d] = asks[d]
    BY DEF PlacesInv, PlacesTyped, Ended
  <1>4. outcomes'[c] = Append(s, o) /\ \A d \in StoreCallers : d # c => outcomes'[d] = outcomes[d]
    BY <1>1 DEF PlacesInv, PlacesTyped, Ended
  <1>5. PlacesTyped'
    BY <1>2, <1>3, <1>4 DEF PlacesInv, PlacesTyped, Ended
  <1>6. AsksFit'
    <2>1. ASSUME NEW d \in StoreCallers
          PROVE  asks'[d] = NoAsk \/ \E r : AskOf(d, "sending", r)' \/ AskOf(d, "waiting", r)'
      <3>1. CASE d = c
        BY <3>1, <1>3
      <3>2. CASE d # c
        <4>1. asks[d] = NoAsk \/ \E r : AskOf(d, "sending", r) \/ AskOf(d, "waiting", r)
          BY DEF PlacesInv, AsksFit
        <4>2. \A r, t : AskOf(d, t, r) => AskOf(d, t, r)'
          BY <3>2, <1>3, <1>4 DEF AskOf
        <4> QED
          BY <4>1, <4>2, <3>2, <1>3
      <3> QED
        BY <3>1, <3>2
    <2> QED
      BY <2>1 DEF AsksFit
  <1>7. QueuesFit'
    <2>1. ASSUME NEW a \in Actors, NEW i \in DOMAIN mailbox[a]
          PROVE  LET r == mailbox[a][i] IN IsCommand(r) /\ r.actor = a /\ (r.n <= Len(outcomes'[r.who]) \/ asks'[r.who] = [state |-> "waiting", q |-> r])
      <3>1. PICK r : r = mailbox[a][i]
        OBVIOUS
      <3>2. IsCommand(r) /\ r.actor = a /\ (r.n <= Len(outcomes[r.who]) \/ asks[r.who] = [state |-> "waiting", q |-> r])
        BY <3>1 DEF PlacesInv, QueuesFit, AwaitsReply
      <3>3. r.who \in StoreCallers
        BY <3>2 DEF IsCommand
      <3>4. r.who = c => r.n <= Len(outcomes'[c])
        <4>1. r.n <= Len(outcomes[r.who]) + 1
          BY <3>1, NothingLater
        <4> QED
          BY <4>1, <1>1, <1>2, <1>4
      <3>5. r.n <= Len(outcomes'[r.who]) \/ asks'[r.who] = [state |-> "waiting", q |-> r]
        BY <3>2, <3>3, <3>4, <1>3, <1>4
      <3> QED
        BY <3>1, <3>2, <3>5
    <2> QED
      BY <2>1 DEF QueuesFit, AwaitsReply
  <1>8. RanFit'
    <2>1. ASSUME NEW i \in DOMAIN ran PROVE IsCommand(ran[i].q) /\ ran[i].q.n <= Len(outcomes'[ran[i].q.who])
      <3>1. PICK r : r = ran[i].q
        OBVIOUS
      <3>2. IsCommand(r) /\ r.n <= Len(outcomes[r.who])
        BY <3>1 DEF PlacesInv, RanFit
      <3>3. r.who \in StoreCallers /\ r.n \in Nat
        BY <3>2 DEF IsCommand
      <3>4. r.who = c => r.n <= Len(outcomes'[r.who])
        BY <3>2, <3>3, <1>1, <1>2, <1>4
      <3> QED
        BY <3>1, <3>2, <3>3, <3>4, <1>4
    <2> QED
      BY <2>1 DEF RanFit
  <1>9. InTurn'
    BY DEF PlacesInv, InTurn
  <1>10. OutcomesFit'
    <2>1. ASSUME NEW d \in StoreCallers, NEW n \in DOMAIN outcomes'[d]
          PROVE  ToldTruly(d, n, outcomes[d][n])'
      <3>0. (RanFor(d, n)' <=> RanFor(d, n)) /\ (QueuedFor(d, n)' <=> QueuedFor(d, n))
        BY DEF RanFor, QueuedFor
      <3>1. CASE n \in DOMAIN outcomes[d] /\ outcomes'[d][n] = outcomes[d][n]
        <4>1. PICK x : x = outcomes[d][n]
          OBVIOUS
        <4>2. ToldTruly(d, n, x)
          BY <4>1, <3>1 DEF PlacesInv, OutcomesFit
        <4>3. RanWith(x)' <=> RanWith(x)
          BY DEF RanWith
        <4> QED
          BY <4>1, <4>2, <4>3, <3>0, <3>1 DEF ToldTruly
      <3>2. CASE d = c /\ n = Len(s) + 1 /\ outcomes'[d][n] = o
        <4>1. ~RanFor(c, n)
          <5>1. ASSUME NEW i \in DOMAIN ran, ran[i].q.who = c, ran[i].q.n = n PROVE FALSE
            <6>1. n <= Len(s)
              BY <5>1, <1>1, NothingLater
            <6> QED
              BY <6>1, <3>2, <1>2
          <5> QED
            BY <5>1 DEF RanFor
        <4>2. st # "unknown" => ~QueuedFor(c, n)
          <5>1. ASSUME st # "unknown", NEW a \in Actors, NEW i \in DOMAIN mailbox[a], mailbox[a][i].who = c, mailbox[a][i].n = n PROVE FALSE
            <6>1. n <= Len(s)
              BY <5>1, <1>1, NothingNewer
            <6> QED
              BY <6>1, <3>2, <1>2
          <5> QED
            BY <5>1 DEF QueuedFor
        <4>3. o.state = st /\ o.q = q
          BY <1>1
        <4> QED
          BY <4>1, <4>2, <4>3, <3>0, <3>2, <1>1 DEF ToldTruly
      <3>3. n \in 1..(Len(s) + 1) => n \in 1..Len(s) \/ n = Len(s) + 1
        BY <1>2
      <3> QED
        BY <2>1, <3>1, <3>2, <3>3, <1>1, <1>2, <1>4
    <2> QED
      BY <2>1 DEF OutcomesFit
  <1> QED
    BY <1>5, <1>6, <1>7, <1>8, <1>9, <1>10 DEF PlacesInv

\* The first command of a queue is run, and its caller told if it still waits.
LEMMA ServeOne ==
    ASSUME PlacesInv, NEW a \in Actors, mailbox[a] # <<>>, NEW q, q = Head(mailbox[a]), NEW e, e.q = q,
           mailbox' = [mailbox EXCEPT ![a] = Tail(@)], ran' = Append(ran, e), asked' = asked,
           NEW st \in {"ok", "error"},
           \/ AwaitsReply(q) /\ Ended(q.who, st, q, {e.said})
           \/ ~AwaitsReply(q) /\ UNCHANGED <<asks, outcomes>>
    PROVE  PlacesInv'
  <1>1. PICK s : s = mailbox[a]
    OBVIOUS
  <1>2. /\ Listed(Tail(s)) /\ Len(s) \in Nat /\ Len(s) >= 1 /\ DOMAIN s = 1..Len(s)
        /\ DOMAIN Tail(s) = 1..(Len(s) - 1)
        /\ \A j \in 1..(Len(s) - 1) : Tail(s)[j] = s[j + 1]
        /\ Head(s) = s[1]
    BY <1>1, Rested DEF PlacesInv, PlacesTyped
  <1>3. mailbox'[a] = Tail(s) /\ \A b \in Actors : b # a => mailbox'[b] = mailbox[b]
    BY <1>1 DEF PlacesInv, PlacesTyped
  <1>4. 1 \in DOMAIN mailbox[a] /\ mailbox[a][1] = q
    BY <1>1, <1>2
  <1>5. \A b \in Actors : \A i \in DOMAIN mailbox'[b] :
           /\ b = a => i + 1 \in DOMAIN mailbox[b] /\ mailbox'[b][i] = mailbox[b][i + 1] /\ i \in Nat /\ 1 < i + 1
           /\ b # a => i \in DOMAIN mailbox[b] /\ mailbox'[b][i] = mailbox[b][i]
    <2>1. \A i \in 1..(Len(s) - 1) : i + 1 \in 1..Len(s) /\ i \in Nat /\ 1 < i + 1
      BY <1>2
    <2> QED
      BY <2>1, <1>1, <1>2, <1>3
  <1>6. \A b \in Actors : \A i \in DOMAIN mailbox'[b] : \E k \in DOMAIN mailbox[b] : mailbox'[b][i] = mailbox[b][k]
    BY <1>5
  <1>7. IsCommand(q) /\ q.actor = a /\ (q.n <= Len(outcomes[q.who]) \/ AwaitsReply(q)) /\ q.who \in StoreCallers /\ q.n \in Nat
    <2>1. IsCommand(q) /\ q.actor = a /\ (q.n <= Len(outcomes[q.who]) \/ AwaitsReply(q))
      BY <1>4 DEF PlacesInv, QueuesFit
    <2> QED
      BY <2>1 DEF IsCommand
  <1>8. PICK t : t = outcomes[q.who]
    OBVIOUS
  <1>9. PICK o : o = [state |-> st, q |-> q, reply |-> {e.said}]
    OBVIOUS
  <1>10. /\ Listed(Append(t, o)) /\ Len(t) \in Nat /\ DOMAIN t = 1..Len(t)
         /\ Len(Append(t, o)) = Len(t) + 1 /\ DOMAIN Append(t, o) = 1..(Len(t) + 1)
         /\ \A j \in 1..Len(t) : Append(t, o)[j] = t[j]
         /\ Append(t, o)[Len(t) + 1] = o
    BY <1>7, <1>8, Grown DEF PlacesInv, PlacesTyped
  <1>11. /\ \A d \in StoreCallers : d # q.who => outcomes'[d] = outcomes[d] /\ asks'[d] = asks[d]
         /\ \/ AwaitsReply(q) /\ outcomes'[q.who] = Append(t, o) /\ asks'[q.who] = NoAsk
            \/ ~AwaitsReply(q) /\ outcomes'[q.who] = t /\ asks'[q.who] = asks[q.who]
    BY <1>7, <1>8, <1>9 DEF PlacesInv, PlacesTyped, Ended
  <1>12. AwaitsReply(q) => q.n = Len(t) + 1
    <2>1. SUFFICES ASSUME AwaitsReply(q) PROVE q.n = Len(t) + 1
      OBVIOUS
    <2>2. PICK r : AskOf(q.who, "sending", r) \/ AskOf(q.who, "waiting", r)
      <3>1. asks[q.who] # NoAsk
        BY <2>1 DEF AwaitsReply, NoAsk
      <3> QED
        BY <3>1, <1>7 DEF PlacesInv, AsksFit
    <2> QED
      BY <2>1, <2>2, <1>8 DEF AskOf, AwaitsReply
  <1>13. /\ Listed(ran') /\ Len(ran) \in Nat /\ DOMAIN ran = 1..Len(ran)
         /\ DOMAIN ran' = 1..(Len(ran) + 1)
         /\ \A j \in 1..Len(ran) : ran'[j] = ran[j]
         /\ ran'[Len(ran) + 1] = e
    <2>1. Listed(ran)
      BY DEF PlacesInv, PlacesTyped
    <2> QED
      BY <2>1, Grown
  <1>14. \A d \in StoreCallers : Len(outcomes'[d]) \in Nat /\ Len(outcomes[d]) \in Nat /\ Len(outcomes[d]) <= Len(outcomes'[d])
    <2>1. ASSUME NEW d \in StoreCallers
          PROVE  Len(outcomes'[d]) \in Nat /\ Len(outcomes[d]) \in Nat /\ Len(outcomes[d]) <= Len(outcomes'[d])
      <3>1. Len(outcomes[d]) \in Nat
        BY NothingLater
      <3>2. CASE d = q.who
        BY <3>1, <3>2, <1>8, <1>10, <1>11
      <3>3. CASE d # q.who
        BY <3>1, <3>3, <1>11
      <3> QED
        BY <3>2, <3>3
    <2> QED
      BY <2>1
  <1>15. PlacesTyped'
    <2>1. \A b \in Actors : Listed(mailbox'[b])
      BY <1>2, <1>3 DEF PlacesInv, PlacesTyped
    <2>2. \A d \in StoreCallers : Listed(outcomes'[d])
      BY <1>8, <1>10, <1>11 DEF PlacesInv, PlacesTyped
    <2>3. asks' = [d \in StoreCallers |-> asks'[d]] /\ outcomes' = [d \in StoreCallers |-> outcomes'[d]] /\ mailbox' = [b \in Actors |-> mailbox'[b]]
      BY DEF PlacesInv, PlacesTyped, Ended
    <2> QED
      BY <2>1, <2>2, <2>3, <1>13 DEF PlacesInv, PlacesTyped
  <1>16. AsksFit'
    <2>1. ASSUME NEW d \in StoreCallers
          PROVE  asks'[d] = NoAsk \/ \E r : AskOf(d, "sending", r)' \/ AskOf(d, "waiting", r)'
      <3>1. asks'[d] = NoAsk \/ (asks'[d] = asks[d] /\ outcomes'[d] = outcomes[d])
        BY <1>8, <1>11
      <3>2. asks[d] = NoAsk \/ \E r : AskOf(d, "sending", r) \/ AskOf(d, "waiting", r)
        BY DEF PlacesInv, AsksFit
      <3>3. asks'[d] = asks[d] /\ outcomes'[d] = outcomes[d] => \A r, x : AskOf(d, x, r) => AskOf(d, x, r)'
        BY DEF AskOf
      <3> QED
        BY <3>1, <3>2, <3>3
    <2> QED
      BY <2>1 DEF AsksFit
  <1>17. \A b \in Actors : \A i \in DOMAIN mailbox'[b] : Before(q, mailbox'[b][i])
    <2>1. ASSUME NEW b \in Actors, NEW i \in DOMAIN mailbox'[b] PROVE Before(q, mailbox'[b][i])
      <3>1. CASE b = a
        <4>1. i + 1 \in DOMAIN mailbox[a] /\ mailbox'[a][i] = mailbox[a][i + 1] /\ 1 < i + 1
          BY <3>1, <1>5
        <4>2. \A k \in DOMAIN mailbox[a] : 1 < k => Before(mailbox[a][1], mailbox[a][k])
          BY <1>4 DEF PlacesInv, InTurn
        <4> QED
          BY <4>1, <4>2, <3>1, <1>4
      <3>2. CASE b # a
        BY <3>2, <1>4, <1>5 DEF PlacesInv, InTurn
      <3> QED
        BY <3>1, <3>2
    <2> QED
      BY <2>1
  <1>18. QueuesFit'
    <2>1. ASSUME NEW b \in Actors, NEW i \in DOMAIN mailbox'[b]
          PROVE  LET r == mailbox'[b][i] IN IsCommand(r) /\ r.actor = b /\ (r.n <= Len(outcomes'[r.who]) \/ asks'[r.who] = [state |-> "waiting", q |-> r])
      <3>1. PICK r : r = mailbox'[b][i]
        OBVIOUS
      <3>2. IsCommand(r) /\ r.actor = b /\ (r.n <= Len(outcomes[r.who]) \/ asks[r.who] = [state |-> "waiting", q |-> r])
        <4>1. PICK k \in DOMAIN mailbox[b] : mailbox'[b][i] = mailbox[b][k]
          BY <1>6
        <4>2. r = mailbox[b][k]
          BY <4>1, <3>1
        <4> QED
          BY <4>2 DEF PlacesInv, QueuesFit, AwaitsReply
      <3>3. r.who \in StoreCallers /\ r.n \in Nat
        BY <3>2 DEF IsCommand
      <3>4. r.who = q.who => r.n # q.n
        BY <3>1, <1>17 DEF Before
      <3>5. Len(outcomes'[r.who]) \in Nat /\ Len(outcomes[r.who]) \in Nat /\ Len(outcomes[r.who]) <= Len(outcomes'[r.who])
        BY <3>3, <1>14
      <3>6. r.n <= Len(outcomes[r.who]) => r.n <= Len(outcomes'[r.who])
        BY <3>5, <3>3
      <3>7. asks[r.who] = [state |-> "waiting", q |-> r] => asks'[r.who] = [state |-> "waiting", q |-> r]
        <4>1. ~(AwaitsReply(q) /\ r.who = q.who /\ asks[r.who] = [state |-> "waiting", q |-> r])
          BY <3>4 DEF AwaitsReply
        <4> QED
          BY <4>1, <3>3, <1>11
      <3> QED
        BY <3>1, <3>2, <3>6, <3>7
    <2> QED
      BY <2>1 DEF QueuesFit, AwaitsReply
  <1>19. \A i \in 1..(Len(ran) + 1) : i \in 1..Len(ran) \/ i = Len(ran) + 1
    BY <1>13
  <1>20. RanFit'
    <2>1. ASSUME NEW i \in DOMAIN ran' PROVE IsCommand(ran'[i].q) /\ ran'[i].q.n <= Len(outcomes'[ran'[i].q.who])
      <3>1. CASE i \in DOMAIN ran /\ ran'[i] = ran[i]
        <4>1. PICK r : r = ran[i].q
          OBVIOUS
        <4>2. IsCommand(r) /\ r.n <= Len(outcomes[r.who])
          BY <4>1, <3>1 DEF PlacesInv, RanFit
        <4>3. r.who \in StoreCallers /\ r.n \in Nat
          BY <4>2 DEF IsCommand
        <4>4. r.n <= Len(outcomes'[r.who])
          BY <4>2, <4>3, <1>14
        <4> QED
          BY <4>1, <4>2, <4>4, <3>1
      <3>2. CASE ran'[i] = e
        <4>1. q.n <= Len(outcomes'[q.who])
          <5>1. CASE AwaitsReply(q)
            <6>1. outcomes'[q.who] = Append(t, o)
              BY <5>1, <1>11
            <6>2. q.n = Len(t) + 1 /\ Len(Append(t, o)) = Len(t) + 1 /\ Len(t) \in Nat
              BY <5>1, <1>10, <1>12
            <6> QED
              BY <6>1, <6>2
          <5>2. CASE ~AwaitsReply(q)
            <6>1. outcomes'[q.who] = t
              BY <5>2, <1>11
            <6>2. q.n <= Len(t)
              BY <5>2, <1>7, <1>8
            <6> QED
              BY <6>1, <6>2
          <5> QED
            BY <5>1, <5>2
        <4> QED
          BY <4>1, <3>2, <1>7
      <3> QED
        BY <3>1, <3>2, <1>13, <1>19
    <2> QED
      BY <2>1 DEF RanFit
  <1>21. InTurn'
    <2>1. (\A i, j \in DOMAIN ran : i < j => Before(ran[i].q, ran[j].q))'
      <3>1. ASSUME NEW i \in DOMAIN ran', NEW j \in DOMAIN ran', i < j PROVE Before(ran'[i].q, ran'[j].q)
        <4>1. i \in DOMAIN ran /\ ran'[i] = ran[i]
          BY <3>1, <1>13
        <4>2. CASE j \in DOMAIN ran /\ ran'[j] = ran[j]
          BY <4>1, <4>2, <3>1 DEF PlacesInv, InTurn
        <4>3. CASE ran'[j] = e
          <5>1. Before(ran[i].q, mailbox[a][1])
            BY <4>1, <1>4 DEF PlacesInv, InTurn
          <5> QED
            BY <5>1, <4>1, <4>3, <1>4
        <4> QED
          BY <4>2, <4>3, <1>13, <1>19
      <3> QED
        BY <3>1
    <2>2. (\A i \in DOMAIN ran : \A b \in Actors : \A j \in DOMAIN mailbox[b] : Before(ran[i].q, mailbox[b][j]))'
      <3>1. ASSUME NEW i \in DOMAIN ran', NEW b \in Actors, NEW j \in DOMAIN mailbox'[b] PROVE Before(ran'[i].q, mailbox'[b][j])
        <4>1. CASE i \in DOMAIN ran /\ ran'[i] = ran[i]
          <5>1. PICK k \in DOMAIN mailbox[b] : mailbox'[b][j] = mailbox[b][k]
            BY <1>6
          <5> QED
            BY <5>1, <4>1 DEF PlacesInv, InTurn
        <4>2. CASE ran'[i] = e
          BY <4>2, <1>17
        <4> QED
          BY <4>1, <4>2, <1>13, <1>19
      <3> QED
        BY <3>1
    <2>3. (\A b \in Actors : \A i, j \in DOMAIN mailbox[b] : i < j => Before(mailbox[b][i], mailbox[b][j]))'
      <3>1. ASSUME NEW b \in Actors, NEW i \in DOMAIN mailbox'[b], NEW j \in DOMAIN mailbox'[b], i < j
            PROVE  Before(mailbox'[b][i], mailbox'[b][j])
        <4>1. CASE b = a
          <5>1. /\ i + 1 \in DOMAIN mailbox[a] /\ mailbox'[a][i] = mailbox[a][i + 1] /\ i \in Nat
                /\ j + 1 \in DOMAIN mailbox[a] /\ mailbox'[a][j] = mailbox[a][j + 1] /\ j \in Nat
            BY <4>1, <1>5
          <5>2. i + 1 < j + 1
            BY <5>1, <3>1
          <5>3. \A k, l \in DOMAIN mailbox[a] : k < l => Before(mailbox[a][k], mailbox[a][l])
            BY DEF PlacesInv, InTurn
          <5> QED
            BY <5>1, <5>2, <5>3, <4>1
        <4>2. CASE b # a
          BY <4>2, <3>1, <1>5 DEF PlacesInv, InTurn
        <4> QED
          BY <4>1, <4>2
      <3> QED
        BY <3>1
    <2>4. (\A b, d \in Actors : b # d => \A i \in DOMAIN mailbox[b], j \in DOMAIN mailbox[d] : Before(mailbox[b][i], mailbox[d][j]))'
      <3>1. ASSUME NEW b \in Actors, NEW d \in Actors, b # d, NEW i \in DOMAIN mailbox'[b], NEW j \in DOMAIN mailbox'[d]
            PROVE  Before(mailbox'[b][i], mailbox'[d][j])
        <4>1. PICK k \in DOMAIN mailbox[b] : mailbox'[b][i] = mailbox[b][k]
          BY <1>6
        <4>2. PICK l \in DOMAIN mailbox[d] : mailbox'[d][j] = mailbox[d][l]
          BY <1>6
        <4> QED
          BY <4>1, <4>2, <3>1 DEF PlacesInv, InTurn
      <3> QED
        BY <3>1
    <2> QED
      BY <2>1, <2>2, <2>3, <2>4 DEF InTurn
  <1>22. OutcomesFit'
    <2>1. ASSUME NEW d \in StoreCallers, NEW n \in DOMAIN outcomes'[d]
          PROVE  ToldTruly(d, n, outcomes[d][n])'
      <3>1. CASE n \in DOMAIN outcomes[d] /\ outcomes'[d][n] = outcomes[d][n]
        <4>1. PICK x : x = outcomes[d][n]
          OBVIOUS
        <4>2. ToldTruly(d, n, x)
          BY <4>1, <3>1 DEF PlacesInv, OutcomesFit
        <4>3. RanWith(x) => RanWith(x)'
          <5>1. ASSUME NEW i \in DOMAIN ran, ran[i].q = x.q, x.reply = {ran[i].said} PROVE RanWith(x)'
            <6>1. i \in DOMAIN ran' /\ ran'[i] = ran[i]
              BY <1>13
            <6> QED
              BY <5>1, <6>1 DEF RanWith
          <5> QED
            BY <5>1 DEF RanWith
        <4>4. ~RanFor(d, n) /\ ~QueuedFor(d, n) => ~RanFor(d, n)'
          <5>1. QueuedFor(q.who, q.n)
            BY <1>4 DEF QueuedFor
          <5>2. ~RanFor(d, n) /\ ~QueuedFor(d, n) => \A i \in DOMAIN ran' : ~(ran'[i].q.who = d /\ ran'[i].q.n = n)
            BY <5>1, <1>13, <1>19 DEF RanFor
          <5> QED
            BY <5>2 DEF RanFor
        <4>5. ~QueuedFor(d, n) => ~QueuedFor(d, n)'
          BY <1>6 DEF QueuedFor
        <4> QED
          BY <4>1, <4>2, <4>3, <4>4, <4>5, <3>1 DEF ToldTruly
      <3>2. CASE AwaitsReply(q) /\ d = q.who /\ n = Len(t) + 1 /\ outcomes'[d][n] = o
        <4>1. o.state = st /\ o.q = q /\ o.reply = {e.said}
          BY <1>9
        <4>2. RanWith(o)'
          <5>1. Len(ran) + 1 \in DOMAIN ran'
            BY <1>13
          <5> QED
            BY <5>1, <4>1, <1>13 DEF RanWith
        <4> QED
          BY <4>1, <4>2, <3>2, <1>7, <1>12 DEF ToldTruly
      <3>3. n \in 1..(Len(t) + 1) => n \in 1..Len(t) \/ n = Len(t) + 1
        BY <1>10
      <3> QED
        BY <2>1, <3>1, <3>2, <3>3, <1>8, <1>10, <1>11
    <2> QED
      BY <2>1 DEF OutcomesFit
  <1> QED
    BY <1>15, <1>16, <1>18, <1>20, <1>21, <1>22 DEF PlacesInv

\* A request that waits for room, with nothing placed.
LEMMA SendOne ==
    ASSUME PlacesInv, NEW c \in StoreCallers, NEW q, IsCommand(q), q.who = c, q.n = Len(outcomes[c]) + 1, asks[c] = NoAsk,
           asks' = [asks EXCEPT ![c] = [state |-> "sending", q |-> q]], UNCHANGED <<asked, mailbox, outcomes, ran>>
    PROVE  PlacesInv'
  <1>1. asks'[c] = [state |-> "sending", q |-> q] /\ \A d \in StoreCallers : d # c => asks'[d] = asks[d]
    BY DEF PlacesInv, PlacesTyped
  <1>2. PlacesTyped'
    BY DEF PlacesInv, PlacesTyped
  <1>3. AsksFit'
    <2>1. ASSUME NEW d \in StoreCallers
          PROVE  asks'[d] = NoAsk \/ \E r : AskOf(d, "sending", r)' \/ AskOf(d, "waiting", r)'
      <3>1. CASE d = c
        <4>1. AskOf(d, "sending", q)'
          BY <3>1, <1>1 DEF AskOf
        <4> QED
          BY <4>1
      <3>2. CASE d # c
        <4>1. asks[d] = NoAsk \/ \E r : AskOf(d, "sending", r) \/ AskOf(d, "waiting", r)
          BY DEF PlacesInv, AsksFit
        <4>2. \A r, t : AskOf(d, t, r) => AskOf(d, t, r)'
          BY <3>2, <1>1 DEF AskOf
        <4> QED
          BY <4>1, <4>2, <3>2, <1>1
      <3> QED
        BY <3>1, <3>2
    <2> QED
      BY <2>1 DEF AsksFit
  <1>4. QueuesFit'
    <2>1. ASSUME NEW a \in Actors, NEW i \in DOMAIN mailbox[a]
          PROVE  LET r == mailbox[a][i] IN IsCommand(r) /\ r.actor = a /\ (r.n <= Len(outcomes[r.who]) \/ asks'[r.who] = [state |-> "waiting", q |-> r])
      <3>1. PICK r : r = mailbox[a][i]
        OBVIOUS
      <3>2. IsCommand(r) /\ r.actor = a /\ (r.n <= Len(outcomes[r.who]) \/ asks[r.who] = [state |-> "waiting", q |-> r])
        BY <3>1 DEF PlacesInv, QueuesFit, AwaitsReply
      <3>3. r.who \in StoreCallers
        BY <3>2 DEF IsCommand
      <3>4. asks[r.who] = [state |-> "waiting", q |-> r] => r.who # c
        BY DEF NoAsk
      <3> QED
        BY <3>1, <3>2, <3>3, <3>4, <1>1
    <2> QED
      BY <2>1 DEF QueuesFit, AwaitsReply
  <1>5. RanFit' /\ InTurn'
    BY DEF PlacesInv, RanFit, InTurn
  <1>6. OutcomesFit'
    BY DEF PlacesInv, OutcomesFit, ToldTruly, RanWith, RanFor, QueuedFor
  <1> QED
    BY <1>2, <1>3, <1>4, <1>5, <1>6 DEF PlacesInv

\* A thread that ends drops its queue, and every answer with it.
LEMMA DropOne ==
    ASSUME PlacesInv, NEW a \in Actors, Die(a)
    PROVE  PlacesInv'
  <1>1. mailbox'[a] = <<>> /\ \A b \in Actors : b # a => mailbox'[b] = mailbox[b]
    BY DEF PlacesInv, PlacesTyped, Die
  <1>2. DOMAIN mailbox'[a] = {}
    BY <1>1, EmptyList
  <1>3. UNCHANGED <<asked, ran>>
    BY DEF Die
  <1>4. \A d \in StoreCallers : Len(outcomes[d]) \in Nat /\ DOMAIN outcomes[d] = 1..Len(outcomes[d])
    BY NothingLater
  <1>5. ASSUME NEW d \in StoreCallers, d \in Stranded(a)
        PROVE  \E q : /\ AskOf(d, "waiting", q) /\ q.actor = a
                      /\ asks'[d] = NoAsk /\ outcomes'[d] = Append(outcomes[d], [state |-> "dropped", q |-> q, reply |-> {}])
    <2>1. asks[d].state = "waiting" /\ asks[d].q.actor = a
      BY <1>5 DEF Stranded
    <2>2. asks[d] # NoAsk
      BY <2>1 DEF NoAsk
    <2>3. PICK q : AskOf(d, "sending", q) \/ AskOf(d, "waiting", q)
      BY <2>2 DEF PlacesInv, AsksFit
    <2>4. AskOf(d, "waiting", q) /\ asks[d].q = q
      BY <2>1, <2>3 DEF AskOf
    <2>5. asks'[d] = NoAsk /\ outcomes'[d] = Append(outcomes[d], [state |-> "dropped", q |-> asks[d].q, reply |-> {}])
      BY <1>5 DEF Die
    <2> QED
      BY <2>1, <2>4, <2>5
  <1>6. \A d \in StoreCallers : d \notin Stranded(a) => asks'[d] = asks[d] /\ outcomes'[d] = outcomes[d]
    BY DEF Die
  <1>7. ASSUME NEW d \in StoreCallers
        PROVE  /\ Listed(outcomes'[d]) /\ Len(outcomes'[d]) \in Nat /\ Len(outcomes[d]) <= Len(outcomes'[d])
               /\ \A n \in DOMAIN outcomes'[d] :
                     \/ n \in DOMAIN outcomes[d] /\ outcomes'[d][n] = outcomes[d][n]
                     \/ outcomes'[d][n].state = "dropped" /\ IsCommand(outcomes'[d][n].q) /\ outcomes'[d][n].q.who = d /\ outcomes'[d][n].q.n = n
    <2>0. PICK s : s = outcomes[d] /\ Listed(s)
      BY DEF PlacesInv, PlacesTyped
    <2>1. CASE d \in Stranded(a)
      <3>1. PICK q : AskOf(d, "waiting", q) /\ outcomes'[d] = Append(s, [state |-> "dropped", q |-> q, reply |-> {}])
        BY <2>0, <2>1, <1>5
      <3>2. PICK o : o = [state |-> "dropped", q |-> q, reply |-> {}]
        OBVIOUS
      <3>3. /\ Listed(Append(s, o)) /\ Len(s) \in Nat /\ DOMAIN s = 1..Len(s)
            /\ Len(Append(s, o)) = Len(s) + 1 /\ DOMAIN Append(s, o) = 1..(Len(s) + 1)
            /\ \A j \in 1..Len(s) : Append(s, o)[j] = s[j]
            /\ Append(s, o)[Len(s) + 1] = o
        BY <2>0, Grown
      <3>4. \A n \in 1..(Len(s) + 1) : n \in 1..Len(s) \/ n = Len(s) + 1
        BY <3>3
      <3>5. IsCommand(q) /\ q.who = d /\ q.n = Len(s) + 1 /\ o.state = "dropped" /\ o.q = q
        BY <3>1, <3>2, <2>0 DEF AskOf
      <3> QED
        BY <3>1, <3>2, <3>3, <3>4, <3>5, <2>0
    <2>2. CASE d \notin Stranded(a)
      BY <2>0, <2>2, <1>4, <1>6
    <2> QED
      BY <2>1, <2>2
  <1>8. PlacesTyped'
    <2>1. asks' = [d \in StoreCallers |-> asks'[d]] /\ outcomes' = [d \in StoreCallers |-> outcomes'[d]] /\ mailbox' = [b \in Actors |-> mailbox'[b]]
      BY DEF PlacesInv, PlacesTyped, Die
    <2>2. \A b \in Actors : Listed(mailbox'[b])
      BY <1>1, EmptyList DEF PlacesInv, PlacesTyped
    <2> QED
      BY <2>1, <2>2, <1>3, <1>7 DEF PlacesInv, PlacesTyped
  <1>9. AsksFit'
    <2>1. ASSUME NEW d \in StoreCallers
          PROVE  asks'[d] = NoAsk \/ \E r : AskOf(d, "sending", r)' \/ AskOf(d, "waiting", r)'
      <3>1. CASE d \in Stranded(a)
        BY <3>1, <1>5
      <3>2. CASE d \notin Stranded(a)
        <4>1. asks[d] = NoAsk \/ \E r : AskOf(d, "sending", r) \/ AskOf(d, "waiting", r)
          BY DEF PlacesInv, AsksFit
        <4>2. \A r, t : AskOf(d, t, r) => AskOf(d, t, r)'
          BY <3>2, <1>6 DEF AskOf
        <4> QED
          BY <4>1, <4>2, <3>2, <1>6
      <3> QED
        BY <3>1, <3>2
    <2> QED
      BY <2>1 DEF AsksFit
  <1>10. QueuesFit'
    <2>1. ASSUME NEW b \in Actors, NEW i \in DOMAIN mailbox'[b]
          PROVE  LET r == mailbox'[b][i] IN IsCommand(r) /\ r.actor = b /\ (r.n <= Len(outcomes'[r.who]) \/ asks'[r.who] = [state |-> "waiting", q |-> r])
      <3>1. b # a /\ i \in DOMAIN mailbox[b] /\ mailbox'[b][i] = mailbox[b][i]
        BY <1>1, <1>2
      <3>2. PICK r : r = mailbox[b][i]
        OBVIOUS
      <3>3. IsCommand(r) /\ r.actor = b /\ (r.n <= Len(outcomes[r.who]) \/ asks[r.who] = [state |-> "waiting", q |-> r])
        BY <3>1, <3>2 DEF PlacesInv, QueuesFit, AwaitsReply
      <3>4. r.who \in StoreCallers /\ r.n \in Nat
        BY <3>3 DEF IsCommand
      <3>5. r.n <= Len(outcomes[r.who]) => r.n <= Len(outcomes'[r.who])
        <4>1. Len(outcomes'[r.who]) \in Nat /\ Len(outcomes[r.who]) \in Nat /\ Len(outcomes[r.who]) <= Len(outcomes'[r.who])
          BY <3>4, <1>4, <1>7
        <4> QED
          BY <4>1, <3>4
      <3>6. asks[r.who] = [state |-> "waiting", q |-> r] => asks'[r.who] = [state |-> "waiting", q |-> r]
        <4>1. asks[r.who] = [state |-> "waiting", q |-> r] => r.who \notin Stranded(a)
          BY <3>1, <3>3 DEF Stranded
        <4> QED
          BY <4>1, <3>4, <1>6
      <3> QED
        BY <3>1, <3>2, <3>3, <3>5, <3>6
    <2> QED
      BY <2>1 DEF QueuesFit, AwaitsReply
  <1>11. RanFit'
    <2>1. ASSUME NEW i \in DOMAIN ran PROVE IsCommand(ran[i].q) /\ ran[i].q.n <= Len(outcomes'[ran[i].q.who])
      <3>1. PICK r : r = ran[i].q
        OBVIOUS
      <3>2. IsCommand(r) /\ r.n <= Len(outcomes[r.who])
        BY <3>1 DEF PlacesInv, RanFit
      <3>3. r.who \in StoreCallers /\ r.n \in Nat
        BY <3>2 DEF IsCommand
      <3>4. Len(outcomes'[r.who]) \in Nat /\ Len(outcomes[r.who]) \in Nat /\ Len(outcomes[r.who]) <= Len(outcomes'[r.who])
        BY <3>3, <1>4, <1>7
      <3> QED
        BY <3>1, <3>2, <3>3, <3>4
    <2> QED
      BY <2>1, <1>3 DEF RanFit
  <1>12. \A b \in Actors : \A i \in DOMAIN mailbox'[b] : i \in DOMAIN mailbox[b] /\ mailbox'[b][i] = mailbox[b][i]
    BY <1>1, <1>2
  <1>13. InTurn'
    <2>1. (\A i, j \in DOMAIN ran : i < j => Before(ran[i].q, ran[j].q))'
      BY <1>3 DEF PlacesInv, InTurn
    <2>2. (\A i \in DOMAIN ran : \A b \in Actors : \A j \in DOMAIN mailbox[b] : Before(ran[i].q, mailbox[b][j]))'
      BY <1>3, <1>12 DEF PlacesInv, InTurn
    <2>3. (\A b \in Actors : \A i, j \in DOMAIN mailbox[b] : i < j => Before(mailbox[b][i], mailbox[b][j]))'
      BY <1>12 DEF PlacesInv, InTurn
    <2>4. (\A b, d \in Actors : b # d => \A i \in DOMAIN mailbox[b], j \in DOMAIN mailbox[d] : Before(mailbox[b][i], mailbox[d][j]))'
      BY <1>12 DEF PlacesInv, InTurn
    <2> QED
      BY <2>1, <2>2, <2>3, <2>4 DEF InTurn
  <1>14. OutcomesFit'
    <2>1. ASSUME NEW d \in StoreCallers, NEW n \in DOMAIN outcomes'[d]
          PROVE  ToldTruly(d, n, outcomes[d][n])'
      <3>1. CASE n \in DOMAIN outcomes[d] /\ outcomes'[d][n] = outcomes[d][n]
        <4>1. PICK x : x = outcomes[d][n]
          OBVIOUS
        <4>2. ToldTruly(d, n, x)
          BY <4>1, <3>1 DEF PlacesInv, OutcomesFit
        <4>3. (RanWith(x)' <=> RanWith(x)) /\ (RanFor(d, n)' <=> RanFor(d, n))
          BY <1>3 DEF RanWith, RanFor
        <4>4. QueuedFor(d, n)' => QueuedFor(d, n)
          BY <1>12 DEF QueuedFor
        <4> QED
          BY <4>1, <4>2, <4>3, <4>4, <3>1 DEF ToldTruly
      <3>2. CASE outcomes'[d][n].state = "dropped" /\ IsCommand(outcomes'[d][n].q) /\ outcomes'[d][n].q.who = d /\ outcomes'[d][n].q.n = n
        BY <3>2 DEF ToldTruly
      <3> QED
        BY <3>1, <3>2, <1>7
    <2> QED
      BY <2>1 DEF OutcomesFit
  <1> QED
    BY <1>8, <1>9, <1>10, <1>11, <1>13, <1>14 DEF PlacesInv

\* What a caller decides on is a command of its own, the next after those answered.
LEMMA CommandIs ==
    ASSUME PlacesInv, NEW c \in StoreCallers, NEW s \in Wanted(c)
    PROVE  /\ IsCommand(CommandFor(c, s)) /\ CommandFor(c, s).who = c /\ CommandFor(c, s).n = Len(outcomes[c]) + 1
  <1>1. PICK k : k = Len(outcomes[c]) /\ k \in Nat
    BY NothingLater
  <1>2. PICK plan : plan = asked[c] /\ plan \in Seq(StoreAsk)
    BY DEF PlacesInv, PlacesTyped
  <1>3. k < Len(plan) /\ s = plan[k + 1]
    BY <1>1, <1>2 DEF Wanted
  <1>4. s \in StoreAsk
    BY <1>1, <1>2, <1>3
  <1>5. PICK r : r = StoreRequests[s.name] /\ Fit(r) /\ r.table \in Tables
    <2>1. s.name \in DOMAIN StoreRequests
      BY <1>4 DEF StoreAsk
    <2> QED
      BY <2>1, RequestsFit
  <1>6. PICK q : q = CommandFor(c, s)
    OBVIOUS
  <1>7. /\ q.does = r.does /\ q.table = r.table /\ q.actor = r.actor
        /\ q.key = s.key /\ q.at = s.at /\ q.since = s.since /\ q.seed = s.seed /\ q.who = c /\ q.n = k + 1
    BY <1>1, <1>5, <1>6 DEF CommandFor
  <1>8. Fit(q)
    BY <1>5, <1>7 DEF Fit
  <1>9. q.key \in STRING /\ q.at \in Nat /\ q.since \in Nat /\ q.seed \in BOOLEAN
    BY <1>4, <1>7 DEF StoreAsk
  <1> QED
    BY <1>1, <1>5, <1>6, <1>7, <1>8, <1>9 DEF IsCommand

\* Nothing is placed at the start.
LEMMA PlacesStart ==
    ASSUME StoreInit
    PROVE  PlacesInv
  <1>1. PlacesTyped
    BY StoreAssumption, EmptyList DEF StoreInit, PlacesTyped
  <1>2. /\ \A c \in StoreCallers : asks[c] = NoAsk /\ DOMAIN outcomes[c] = {}
        /\ \A a \in Actors : DOMAIN mailbox[a] = {}
        /\ DOMAIN ran = {}
    BY EmptyList DEF StoreInit
  <1> QED
    BY <1>1, <1>2 DEF PlacesInv, AsksFit, QueuesFit, RanFit, InTurn, OutcomesFit

\* What a caller that is not idle asks for.
LEMMA PendingIs ==
    ASSUME PlacesInv, NEW c \in StoreCallers, NEW st \in {"sending", "waiting"}, asks[c].state = st
    PROVE  /\ AskOf(c, st, asks[c].q) /\ asks[c] = [state |-> st, q |-> asks[c].q]
  <1>1. asks[c] # NoAsk
    BY DEF NoAsk
  <1>2. PICK q : AskOf(c, "sending", q) \/ AskOf(c, "waiting", q)
    BY <1>1 DEF PlacesInv, AsksFit
  <1>3. AskOf(c, st, q) /\ asks[c].q = q
    BY <1>2 DEF AskOf
  <1> QED
    BY <1>3 DEF AskOf

\* A call places its command at most once.
LEMMA CallsKeep ==
    ASSUME PlacesInv, NEW c \in StoreCallers, Call(c) \/ TryCall(c)
    PROVE  PlacesInv'
  <1>1. asks[c] = NoAsk /\ \A r : asks[c] # [state |-> "waiting", q |-> r]
    BY DEF Call, TryCall, NoAsk
  <1>2. CASE Call(c)
    <2>1. PICK s \in Wanted(c) : asks' = [asks EXCEPT ![c] = [state |-> "sending", q |-> CommandFor(c, s)]]
      BY <1>2 DEF Call
    <2>2. PICK q : q = CommandFor(c, s)
      OBVIOUS
    <2>3. IsCommand(q) /\ q.who = c /\ q.n = Len(outcomes[c]) + 1
      BY <2>2, CommandIs
    <2>4. UNCHANGED <<asked, mailbox, outcomes, ran>>
      BY <1>2 DEF Call
    <2> QED
      BY <2>1, <2>2, <2>3, <2>4, <1>1, SendOne
  <1>3. CASE TryCall(c)
    <2>1. PICK s \in Wanted(c) : Admission(c, CommandFor(c, s))
      BY <1>3 DEF TryCall
    <2>2. PICK q : q = CommandFor(c, s)
      OBVIOUS
    <2>3. IsCommand(q) /\ q.who = c /\ q.n = Len(outcomes[c]) + 1
      BY <2>2, CommandIs
    <2>4. UNCHANGED <<asked, ran>>
      BY <1>3 DEF TryCall
    <2>5. \/ /\ mailbox' = [mailbox EXCEPT ![q.actor] = Append(@, q)]
             /\ asks' = [asks EXCEPT ![c] = [state |-> "waiting", q |-> q]]
             /\ UNCHANGED outcomes
          \/ Ended(c, "refused", q, {}) /\ UNCHANGED mailbox
      BY <2>1, <2>2 DEF Admission
    <2>6. CASE /\ mailbox' = [mailbox EXCEPT ![q.actor] = Append(@, q)]
               /\ asks' = [asks EXCEPT ![c] = [state |-> "waiting", q |-> q]]
               /\ UNCHANGED outcomes
      BY <2>3, <2>4, <2>6, <1>1, QueueOne
    <2>7. CASE Ended(c, "refused", q, {}) /\ UNCHANGED mailbox
      BY <2>3, <2>4, <2>7, <1>1, EndOne
    <2> QED
      BY <2>5, <2>6, <2>7
  <1> QED
    BY <1>2, <1>3

\* A sender's command is queued, or its thread is gone.
LEMMA EnqueueKeeps ==
    ASSUME PlacesInv, NEW c \in StoreCallers, Enqueue(c)
    PROVE  PlacesInv'
  <1>1. asks[c].state = "sending"
    BY DEF Enqueue
  <1>2. PICK q : q = asks[c].q
    OBVIOUS
  <1>3. asks[c] = [state |-> "sending", q |-> q] /\ IsCommand(q) /\ q.who = c /\ q.n = Len(outcomes[c]) + 1
    BY <1>1, <1>2, PendingIs DEF AskOf
  <1>4. \A r : asks[c] # [state |-> "waiting", q |-> r]
    BY <1>1
  <1>5. UNCHANGED <<asked, ran>>
    BY DEF Enqueue
  <1>6. CASE Ended(c, "gone", q, {}) /\ UNCHANGED mailbox
    BY <1>3, <1>4, <1>5, <1>6, EndOne
  <1>7. CASE mailbox' = [mailbox EXCEPT ![q.actor] = Append(@, q)] /\ asks' = [asks EXCEPT ![c].state = "waiting"] /\ UNCHANGED outcomes
    <2>1. [asks[c] EXCEPT !.state = "waiting"] = [state |-> "waiting", q |-> q]
      BY <1>3
    <2>2. asks' = [asks EXCEPT ![c] = [state |-> "waiting", q |-> q]]
      BY <2>1, <1>7 DEF PlacesInv, PlacesTyped
    <2> QED
      BY <2>2, <1>3, <1>4, <1>5, <1>7, QueueOne
  <1> QED
    BY <1>2, <1>6, <1>7 DEF Enqueue

\* A caller that gives up leaves the queue as it is.
LEMMA GiveUpKeeps ==
    ASSUME PlacesInv, NEW c \in StoreCallers, GiveUp(c)
    PROVE  PlacesInv'
  <1>1. PICK st \in {"sending", "waiting"} : asks[c].state = st
    BY DEF GiveUp
  <1>2. PICK q : q = asks[c].q
    OBVIOUS
  <1>3. asks[c] = [state |-> st, q |-> q] /\ IsCommand(q) /\ q.who = c /\ q.n = Len(outcomes[c]) + 1
    BY <1>1, <1>2, PendingIs DEF AskOf
  <1>4. UNCHANGED <<asked, mailbox, ran>>
    BY DEF GiveUp
  <1>5. CASE st = "sending"
    <2>1. Ended(c, "cancelled", q, {})
      BY <1>1, <1>2, <1>5 DEF GiveUp
    <2>2. \A r : asks[c] # [state |-> "waiting", q |-> r]
      BY <1>1, <1>5
    <2> QED
      BY <2>1, <2>2, <1>3, <1>4, EndOne
  <1>6. CASE st = "waiting"
    <2>1. Ended(c, "unknown", q, {})
      BY <1>1, <1>2, <1>6 DEF GiveUp
    <2> QED
      BY <2>1, <1>3, <1>4, EndOne
  <1> QED
    BY <1>5, <1>6

\* A served command moves from the queue to the history.
LEMMA ServeKeeps ==
    ASSUME PlacesInv, NEW a \in Actors, Serve(a)
    PROVE  PlacesInv'
  <1>1. PICK q : q = Head(mailbox[a])
    OBVIOUS
  <1>2. PICK e : e = [q |-> q, ok |-> Applied(q).ok, said |-> Applied(q).reply]
    OBVIOUS
  <1>3. PICK st \in {"ok", "error"} : st = IF Applied(q).ok THEN "ok" ELSE "error"
    OBVIOUS
  <1>4. e.q = q /\ e.said = Applied(q).reply
    BY <1>2
  <1>5. /\ mailbox[a] # <<>> /\ mailbox' = [mailbox EXCEPT ![a] = Tail(@)] /\ ran' = Append(ran, e) /\ asked' = asked
        /\ IF asks[q.who].state = "waiting" /\ asks[q.who].q = q THEN Ended(q.who, st, q, {e.said}) ELSE UNCHANGED <<asks, outcomes>>
    BY <1>1, <1>2, <1>3, <1>4 DEF Serve, Served
  <1>6. q.who \in StoreCallers
    <2>1. PICK s : s = mailbox[a] /\ Listed(s) /\ s # <<>>
      BY <1>5 DEF PlacesInv, PlacesTyped
    <2>2. 1 \in DOMAIN s /\ Head(s) = s[1]
      <3>1. Len(s) \in Nat /\ Len(s) >= 1 /\ DOMAIN s = 1..Len(s) /\ Head(s) = s[1]
        BY <2>1, Rested
      <3> QED
        BY <3>1
    <2>3. IsCommand(mailbox[a][1])
      BY <2>1, <2>2 DEF PlacesInv, QueuesFit
    <2> QED
      BY <2>1, <2>2, <2>3, <1>1 DEF IsCommand
  <1>7. asks[q.who].state = "waiting" /\ asks[q.who].q = q => AwaitsReply(q)
    BY <1>6, PendingIs DEF AwaitsReply
  <1>8. AwaitsReply(q) => asks[q.who].state = "waiting" /\ asks[q.who].q = q
    BY DEF AwaitsReply
  <1>9. \/ AwaitsReply(q) /\ Ended(q.who, st, q, {e.said})
        \/ ~AwaitsReply(q) /\ UNCHANGED <<asks, outcomes>>
    BY <1>5, <1>7, <1>8
  <1> QED
    BY <1>1, <1>4, <1>5, <1>9, ServeOne

\* Every step keeps the commands' places.
LEMMA PlacesStep ==
    ASSUME PlacesInv, [StoreNext]_storeVars
    PROVE  PlacesInv'
  <1>1. ASSUME NEW c \in StoreCallers, Call(c) \/ TryCall(c) \/ Enqueue(c) \/ GiveUp(c) PROVE PlacesInv'
    BY <1>1, CallsKeep, EnqueueKeeps, GiveUpKeeps
  <1>2. ASSUME NEW a \in Actors, Serve(a) \/ Die(a) PROVE PlacesInv'
    BY <1>2, ServeKeeps, DropOne
  <1>3. CASE ProductionWrites \/ UNCHANGED storeVars
    <2>1. UNCHANGED <<asked, mailbox, asks, outcomes, ran>>
      BY <1>3 DEF ProductionWrites, storeVars
    <2>2. PlacesTyped' /\ AsksFit'
      BY <2>1 DEF PlacesInv, PlacesTyped, AsksFit, AskOf
    <2>3. QueuesFit' /\ RanFit' /\ InTurn'
      BY <2>1 DEF PlacesInv, QueuesFit, AwaitsReply, RanFit, InTurn
    <2>4. OutcomesFit'
      BY <2>1 DEF PlacesInv, OutcomesFit, ToldTruly, RanWith, RanFor, QueuedFor
    <2> QED
      BY <2>2, <2>3, <2>4 DEF PlacesInv
  <1> QED
    BY <1>1, <1>2, <1>3 DEF StoreNext

\* One command is executed: what it does to the tables and to the history.
Runs(q) ==
    /\ IsCommand(q) /\ Listed(ran)
    /\ ran' = Append(ran, [q |-> q, ok |-> Applied(q).ok, said |-> Applied(q).reply])
    /\ store' = After(q) /\ generation' = Applied(q).gen

\* The history grows by the command run.
LEMMA RunGrows ==
    ASSUME NEW q, Runs(q)
    PROVE  /\ Len(ran) \in Nat /\ DOMAIN ran = 1..Len(ran) /\ Len(ran') = Len(ran) + 1
           /\ DOMAIN ran' = 1..(Len(ran) + 1)
           /\ \A i \in DOMAIN ran : i \in DOMAIN ran' /\ ran'[i] = ran[i]
           /\ \A i \in DOMAIN ran' : i \in DOMAIN ran \/ i = Len(ran) + 1
           /\ Len(ran) + 1 \in DOMAIN ran'
           /\ ran'[Len(ran) + 1].q = q /\ ran'[Len(ran) + 1].ok = Applied(q).ok /\ ran'[Len(ran) + 1].said = Applied(q).reply
  <1>1. PICK e : e = [q |-> q, ok |-> Applied(q).ok, said |-> Applied(q).reply]
    OBVIOUS
  <1>2. /\ Len(ran) \in Nat /\ DOMAIN ran = 1..Len(ran) /\ Len(ran') = Len(ran) + 1 /\ DOMAIN ran' = 1..(Len(ran) + 1)
        /\ \A j \in 1..Len(ran) : ran'[j] = ran[j]
        /\ ran'[Len(ran) + 1] = e
    BY <1>1, Grown DEF Runs
  <1>3. Len(ran) + 1 \in 1..(Len(ran) + 1)
    BY <1>2
  <1>4. \A i \in 1..(Len(ran) + 1) : i \in 1..Len(ran) \/ i = Len(ran) + 1
    BY <1>2
  <1>5. \A i \in 1..Len(ran) : i \in 1..(Len(ran) + 1)
    BY <1>2
  <1> QED
    BY <1>1, <1>2, <1>3, <1>4, <1>5

\* What was taken stays taken.
LEMMA TakenStays ==
    ASSUME NEW q, Runs(q), NEW i \in DOMAIN ran, NEW j, j \in DOMAIN ran \/ j = Len(ran) + 1, NEW table, NEW k, Taken(i, j, table, k)
    PROVE  Taken(i, j, table, k)'
  <1>1. PICK l \in (i + 1)..(j - 1) : TakesKey(ran[l].q, table, k)
    BY DEF Taken
  <1>2. l \in DOMAIN ran
    <2>1. i \in Nat /\ 1 <= i /\ i <= Len(ran) /\ Len(ran) \in Nat /\ DOMAIN ran = 1..Len(ran)
      BY RunGrows
    <2>2. j \in Nat /\ j <= Len(ran) + 1
      BY <2>1
    <2> QED
      BY <2>1, <2>2
  <1>3. TakesKey(ran'[l].q, table, k)
    BY <1>1, <1>2, RunGrows
  <1> QED
    BY <1>3 DEF Taken

\* What was written stays, unless the command run takes it.
LEMMA RunKeys ==
    ASSUME TablesInv, RanFit, NEW q, Runs(q)
    PROVE  KeysStay'
  <1>1. Effects(q)
    BY EffectsOf DEF TablesInv, Runs
  <1>2. ASSUME NEW i \in DOMAIN ran', ran'[i].q.does \in KeyWrites
        PROVE  ran'[i].q.key \in RowKeys(store'[ran'[i].q.table]) \/ Taken(i, Len(ran) + 1, ran[i].q.table, ran[i].q.key)'
    <2>0. Len(ran) \in Nat /\ Len(ran') = Len(ran) + 1 /\ DOMAIN ran = 1..Len(ran)
      BY RunGrows
    <2>1. CASE i \in DOMAIN ran /\ ran'[i] = ran[i]
      <3>1. PICK w : w = ran[i].q /\ w.table \in Tables
        BY <2>1 DEF RanFit, IsCommand
      <3>2. w.key \in RowKeys(store[w.table]) \/ Taken(i, Len(ran) + 1, w.table, w.key)
        BY <2>1, <3>1, <1>2 DEF TablesInv, KeysStay
      <3>3. CASE w.key \in RowKeys(store[w.table])
        <4>1. w.key \in RowKeys(After(q)[w.table]) \/ TakesKey(q, w.table, w.key)
          BY <1>1, <3>1, <3>3 DEF Effects
        <4>2. CASE TakesKey(q, w.table, w.key)
          <5>1. TakesKey(ran'[Len(ran) + 1].q, w.table, w.key)
            BY <4>2, RunGrows
          <5>2. Len(ran) + 1 \in (i + 1)..((Len(ran') + 1) - 1)
            BY <2>0, <2>1
          <5> QED
            BY <5>1, <5>2, <2>1, <3>1 DEF Taken
        <4> QED
          BY <4>1, <4>2, <2>1, <3>1 DEF Runs
      <3>4. CASE Taken(i, Len(ran) + 1, w.table, w.key)
        <4>1. PICK l \in (i + 1)..((Len(ran) + 1) - 1) : TakesKey(ran[l].q, w.table, w.key)
          BY <3>4 DEF Taken
        <4>2. l \in DOMAIN ran /\ l \in (i + 1)..((Len(ran') + 1) - 1)
          BY <2>0, <2>1
        <4>3. TakesKey(ran'[l].q, w.table, w.key)
          BY <4>1, <4>2, RunGrows
        <4> QED
          BY <4>2, <4>3, <2>1, <3>1 DEF Taken
      <3> QED
        BY <3>2, <3>3, <3>4
    <2>2. CASE i = Len(ran) + 1
      <3>1. ran'[i].q = q
        BY <2>2, RunGrows
      <3> QED
        BY <3>1, <1>1, <1>2 DEF Effects, Runs
    <2> QED
      BY <2>1, <2>2, RunGrows
  <1> QED
    BY <1>2 DEF KeysStay

\* A list shows what was written before it.
LEMMA RunLists ==
    ASSUME TablesInv, RanFit, NEW q, Runs(q)
    PROVE  ListsShow' /\ WindowsShow'
  <1>0. /\ Len(ran) \in Nat /\ DOMAIN ran = 1..Len(ran) /\ DOMAIN ran' = 1..(Len(ran) + 1)
        /\ \A i \in DOMAIN ran : i \in DOMAIN ran' /\ ran'[i] = ran[i]
        /\ \A i \in DOMAIN ran' : i \in DOMAIN ran \/ i = Len(ran) + 1
        /\ ran'[Len(ran) + 1].q = q /\ ran'[Len(ran) + 1].said = Applied(q).reply
    BY RunGrows
  <1>1. ASSUME NEW i \in DOMAIN ran', NEW j \in DOMAIN ran', i < j, ran'[i].q.does \in KeyWrites, ran'[j].q.does = "list", ran'[j].q.table = ran'[i].q.table
        PROVE  ran'[i].q.key \in RowKeys(ran'[j].said) \/ Taken(i, j, ran[i].q.table, ran[i].q.key)'
    <2>1. i \in DOMAIN ran /\ ran'[i] = ran[i]
      BY <1>0, <1>1
    <2>2. CASE j \in DOMAIN ran
      <3>1. ran[i].q.key \in RowKeys(ran[j].said) \/ Taken(i, j, ran[i].q.table, ran[i].q.key)
        BY <2>1, <2>2, <1>0, <1>1 DEF TablesInv, ListsShow
      <3>2. CASE Taken(i, j, ran[i].q.table, ran[i].q.key)
        <4>1. PICK table, k : table = ran[i].q.table /\ k = ran[i].q.key
          OBVIOUS
        <4>2. Taken(i, j, table, k)'
          BY <4>1, <3>2, <2>1, <2>2, TakenStays
        <4> QED
          BY <4>1, <4>2, <2>1 DEF Taken
      <3> QED
        BY <3>1, <3>2, <2>1, <2>2, <1>0
    <2>3. CASE j = Len(ran) + 1
      <3>1. ran[i].q.key \in RowKeys(store[ran[i].q.table]) \/ Taken(i, Len(ran) + 1, ran[i].q.table, ran[i].q.key)
        BY <2>1, <1>1 DEF TablesInv, KeysStay
      <3>2. CASE Taken(i, Len(ran) + 1, ran[i].q.table, ran[i].q.key)
        <4>1. PICK table, k : table = ran[i].q.table /\ k = ran[i].q.key
          OBVIOUS
        <4>2. Taken(i, j, table, k)'
          BY <4>1, <3>2, <2>1, <2>3, TakenStays
        <4> QED
          BY <4>1, <4>2, <2>1 DEF Taken
      <3>3. ran'[j].said = store[ran[i].q.table]
        <4>1. q.does = "list" /\ q.table = ran[i].q.table /\ IsCommand(q)
          BY <2>1, <2>3, <1>0, <1>1 DEF Runs
        <4> QED
          BY <4>1, <2>3, <1>0, ListTells
      <3> QED
        BY <3>1, <3>2, <3>3, <2>1
    <2> QED
      BY <2>2, <2>3, <1>0
  <1>2. ASSUME NEW i \in DOMAIN ran', ran'[i].q.does = "refresh", ran'[i].q.since <= ran'[i].q.at PROVE ran'[i].q.key \in RowKeys(ran'[i].said)
    <2>1. CASE i \in DOMAIN ran
      BY <2>1, <1>0, <1>2 DEF TablesInv, WindowsShow
    <2>2. CASE i = Len(ran) + 1
      <3>1. IsCommand(q) /\ q.does = "refresh" /\ q.since <= q.at
        BY <2>2, <1>0, <1>2 DEF Runs
      <3>2. store[q.table] \in Seq(Rows)
        BY <3>1 DEF TablesInv, StoreTyped, IsCommand
      <3> QED
        BY <3>1, <3>2, <2>2, <1>0, RefreshTells
    <2> QED
      BY <2>1, <2>2, <1>0
  <1> QED
    BY <1>1, <1>2 DEF ListsShow, WindowsShow

\* Only the first request of a nonce is told that it was new.
LEMMA RunNonces ==
    ASSUME TablesInv, RanFit, NEW q, Runs(q)
    PROVE  FirstNonceWins'
  <1>0. /\ Len(ran) \in Nat /\ DOMAIN ran = 1..Len(ran) /\ DOMAIN ran' = 1..(Len(ran) + 1)
        /\ \A i \in DOMAIN ran : i \in DOMAIN ran' /\ ran'[i] = ran[i]
        /\ \A i \in DOMAIN ran' : i \in DOMAIN ran \/ i = Len(ran) + 1
        /\ ran'[Len(ran) + 1].q = q /\ ran'[Len(ran) + 1].said = Applied(q).reply
    BY RunGrows
  <1>1. ASSUME NEW i \in DOMAIN ran', NEW j \in DOMAIN ran', ran'[i].q.does = "ignore", ran'[j].q.does = "ignore",
               ran'[i].q.table = ran'[j].q.table, ran'[i].q.key = ran'[j].q.key, i < j
        PROVE  ran'[j].said = FALSE
    <2>1. i \in DOMAIN ran /\ ran'[i] = ran[i]
      BY <1>0, <1>1
    <2>2. CASE j \in DOMAIN ran
      BY <2>1, <2>2, <1>0, <1>1 DEF TablesInv, FirstNonceWins
    <2>3. CASE j = Len(ran) + 1
      <3>1. PICK w : w = ran[i].q /\ IsCommand(w) /\ w.does = "ignore" /\ w.table = q.table /\ w.key = q.key
        BY <2>1, <2>3, <1>0, <1>1 DEF RanFit
      <3>2. w.key \in RowKeys(store[w.table]) \/ Taken(i, Len(ran) + 1, w.table, w.key)
        BY <2>1, <3>1 DEF TablesInv, KeysStay, KeyWrites
      <3>3. ~Taken(i, Len(ran) + 1, w.table, w.key)
        <4>1. ASSUME NEW l \in (i + 1)..((Len(ran) + 1) - 1), TakesKey(ran[l].q, w.table, w.key) PROVE FALSE
          <5>1. l \in DOMAIN ran
            BY <2>1, <1>0
          <5>2. PICK t : t = ran[l].q /\ Fit(t)
            BY <5>1 DEF RanFit, IsCommand
          <5>3. w.table \in Once
            BY <3>1 DEF IsCommand, Fit
          <5>4. t.table = w.table /\ t.does \in {"replace", "sweep", "pruned", "refresh"}
            BY <4>1, <5>2 DEF TakesKey, Takes
          <5> QED
            BY <5>2, <5>3, <5>4 DEF Fit
        <4> QED
          BY <4>1 DEF Taken
      <3>4. q.does = "ignore" /\ q.key \in RowKeys(store[q.table])
        BY <3>1, <3>2, <3>3, <2>3, <1>0, <1>1
      <3> QED
        BY <3>4, <2>3, <1>0, IgnoreTells
    <2> QED
      BY <2>2, <2>3, <1>0
  <1> QED
    BY <1>1 DEF FirstNonceWins

\* The new entry of the history, and the old ones, as the commits see them.
LEMMA RunCommits ==
    ASSUME NEW q, Runs(q), NEW m, m = Len(ran) + 1
    PROVE  /\ \A i \in DOMAIN ran : (Committed(i)' <=> Committed(i)) /\ (Refuses(i)' <=> Refuses(i))
           /\ Committed(m)' <=> (q.does \in {"commit", "guarded"} /\ Applied(q).ok /\ Applied(q).reply.committed)
           /\ Refuses(m)' <=> (q.does = "refusal" /\ Applied(q).ok)
  <1>1. ASSUME NEW i \in DOMAIN ran PROVE (Committed(i)' <=> Committed(i)) /\ (Refuses(i)' <=> Refuses(i))
    <2>1. ran'[i] = ran[i]
      BY RunGrows
    <2> QED
      BY <2>1 DEF Committed, Refuses
  <1>2. ran'[m].q = q /\ ran'[m].ok = Applied(q).ok /\ ran'[m].said = Applied(q).reply
    BY RunGrows
  <1> QED
    BY <1>1, <1>2 DEF Committed, Refuses

\* Commits follow one another, one generation each.
LEMMA RunForks ==
    ASSUME TablesInv, NEW q, Runs(q)
    PROVE  CommitsGrow' /\ CommitsDoNotFork'
  <1>0. PICK m : m = Len(ran) + 1
    OBVIOUS
  <1>1. /\ Len(ran) \in Nat /\ DOMAIN ran = 1..Len(ran) /\ DOMAIN ran' = 1..m
        /\ \A i \in DOMAIN ran : i \in DOMAIN ran' /\ ran'[i] = ran[i]
        /\ \A i \in DOMAIN ran' : i \in DOMAIN ran \/ i = m
        /\ ran'[m].q = q /\ ran'[m].said = Applied(q).reply
    BY <1>0, RunGrows
  <1>2. Effects(q) /\ generation \in Nat /\ store' = After(q) /\ generation' = Applied(q).gen
    BY EffectsOf DEF TablesInv, Runs, StoreTyped
  <1>3. PICK cs \in Seq(Rows) : cs = store["cycles"] /\ Len(cs) = generation
    BY TablesKnown DEF TablesInv, StoreTyped, CommitsDoNotFork
  <1>4. \A i \in DOMAIN ran : Committed(i)' => Committed(i) /\ ran'[i].said.gen \in Nat /\ ran'[i].said.gen <= generation
                                               /\ (ran'[i].q.does = "guarded" => ran'[i].said.gen = ran'[i].q.expected + 1)
    <2>1. ASSUME NEW i \in DOMAIN ran, Committed(i)'
          PROVE  Committed(i) /\ ran'[i].said.gen \in Nat /\ ran'[i].said.gen <= generation
                 /\ (ran'[i].q.does = "guarded" => ran'[i].said.gen = ran'[i].q.expected + 1)
      <3>1. Committed(i) /\ ran'[i] = ran[i]
        BY <2>1, <1>0, <1>1, RunCommits
      <3> QED
        BY <3>1 DEF TablesInv, CommitsGrow, CommitsDoNotFork
    <2> QED
      BY <2>1
  <1>5. \A i, j \in DOMAIN ran : Committed(i)' /\ Committed(j)' /\ i < j => ran'[i].said.gen < ran'[j].said.gen
    BY <1>1, <1>4 DEF TablesInv, CommitsDoNotFork
  <1>6. CASE Commits(q)
    <2>1. /\ generation' = generation + 1 /\ Applied(q).reply.gen = generation + 1 /\ store'["cycles"] = Append(cs, StoreRow(q))
          /\ q.does = "guarded" => q.expected = generation
      BY <1>2, <1>3, <1>6 DEF Commits
    <2>2. Len(store'["cycles"]) = generation + 1
      <3>1. PICK row \in Rows : row = StoreRow(q)
        BY NewRow DEF Runs
      <3>2. Len(Append(cs, row)) = Len(cs) + 1
        OBVIOUS
      <3> QED
        BY <3>1, <3>2, <2>1, <1>3
    <2>3. CommitsGrow'
      <3>1. ASSUME NEW i \in DOMAIN ran', Committed(i)' PROVE ran'[i].said.gen \in Nat /\ ran'[i].said.gen <= generation'
        <4>1. CASE i \in DOMAIN ran
          BY <4>1, <3>1, <2>1, <1>2, <1>4
        <4>2. CASE i = m
          BY <4>2, <2>1, <1>1, <1>2
        <4> QED
          BY <4>1, <4>2, <1>1
      <3> QED
        BY <3>1 DEF CommitsGrow
    <2>4. \A i \in DOMAIN ran' : Committed(i)' /\ ran'[i].q.does = "guarded" => ran'[i].said.gen = ran'[i].q.expected + 1
      BY <2>1, <1>1, <1>4
    <2>5. ASSUME NEW i \in DOMAIN ran', NEW j \in DOMAIN ran', Committed(i)', Committed(j)', i < j PROVE ran'[i].said.gen < ran'[j].said.gen
      <3>1. i \in DOMAIN ran
        BY <2>5, <1>0, <1>1
      <3>2. CASE j \in DOMAIN ran
        BY <3>1, <3>2, <2>5, <1>5
      <3>3. CASE j = m
        BY <3>1, <3>3, <2>5, <2>1, <1>1, <1>2, <1>4
      <3> QED
        BY <3>2, <3>3, <1>1
    <2> QED
      BY <2>1, <2>2, <2>3, <2>4, <2>5 DEF CommitsDoNotFork
  <1>7. CASE Quiets(q)
    <2>1. generation' = generation /\ store'["cycles"] = cs
      BY <1>2, <1>3, <1>7 DEF Quiets
    <2>2. ~Committed(m)'
      <3>1. Committed(m)' => (q.does \in {"commit", "guarded"} /\ Applied(q).ok /\ Applied(q).reply.committed)
        BY <1>0, RunCommits
      <3> QED
        BY <3>1, <1>7 DEF Quiets
    <2>3. \A i \in DOMAIN ran' : Committed(i)' => i \in DOMAIN ran
      BY <2>2, <1>1
    <2>4. CommitsGrow'
      BY <2>1, <2>3, <1>4 DEF CommitsGrow
    <2>5. \A i, j \in DOMAIN ran' : Committed(i)' /\ Committed(j)' /\ i < j => ran'[i].said.gen < ran'[j].said.gen
      BY <2>3, <1>5
    <2>6. \A i \in DOMAIN ran' : Committed(i)' /\ ran'[i].q.does = "guarded" => ran'[i].said.gen = ran'[i].q.expected + 1
      BY <2>3, <1>4
    <2> QED
      BY <2>1, <2>4, <2>5, <2>6, <1>3 DEF CommitsDoNotFork
  <1> QED
    BY <1>2, <1>6, <1>7 DEF Effects

\* The import's provenance: the first cycle's alone, and no refusal after it.
LEMMA RunSeeds ==
    ASSUME TablesInv, NEW q, Runs(q)
    PROVE  SeedsFit' /\ SeedDescribesFirst'
  <1>0. PICK m : m = Len(ran) + 1
    OBVIOUS
  <1>1. /\ Len(ran) \in Nat /\ DOMAIN ran = 1..Len(ran) /\ DOMAIN ran' = 1..m
        /\ \A i \in DOMAIN ran : i \in DOMAIN ran' /\ ran'[i] = ran[i]
        /\ \A i \in DOMAIN ran' : i \in DOMAIN ran \/ i = m
        /\ m \in DOMAIN ran' /\ ran'[m].q = q /\ ran'[m].said = Applied(q).reply
    BY <1>0, RunGrows
  <1>2. Effects(q) /\ generation \in Nat /\ store' = After(q) /\ generation' = Applied(q).gen
    BY EffectsOf DEF TablesInv, Runs, StoreTyped
  <1>3. PICK cs \in Seq(Rows), ss \in Seq(Rows), row \in Rows :
           cs = store["cycles"] /\ Len(cs) = generation /\ ss = store["seeds"] /\ row = StoreRow(q) /\ row.seed = q.seed
    BY TablesKnown, NewRow DEF TablesInv, StoreTyped, CommitsDoNotFork, Runs
  <1>4. /\ DOMAIN cs = 1..Len(cs) /\ Len(cs) \in Nat /\ DOMAIN ss = 1..Len(ss) /\ Len(ss) \in Nat
        /\ Len(Append(cs, row)) = Len(cs) + 1 /\ DOMAIN Append(cs, row) = 1..(Len(cs) + 1)
        /\ Len(Append(ss, row)) = Len(ss) + 1 /\ DOMAIN Append(ss, row) = 1..(Len(ss) + 1)
        /\ \A j \in 1..Len(cs) : Append(cs, row)[j] = cs[j]
        /\ \A j \in 1..Len(ss) : Append(ss, row)[j] = ss[j]
        /\ Append(cs, row)[Len(cs) + 1] = row /\ Append(ss, row)[Len(ss) + 1] = row
    BY AppendRow
  <1>5. /\ (\E i \in DOMAIN ss : ss[i].seed) => Len(cs) >= 1 /\ cs[1].seed
        /\ \A i \in DOMAIN ran : ran[i].q.does = "binding" /\ ran[i].said = "bound" => Len(cs) >= 1 /\ cs[1].seed
        /\ (\E i \in DOMAIN ss : ss[i].seed /\ i = Len(ss)) => \A j \in DOMAIN ran : Refuses(j) => SeededAfter(j)
        /\ \A i \in DOMAIN cs : cs[i].seed => i = 1
        /\ \A i \in DOMAIN ran : ran[i].q.does = "binding" /\ ran[i].said = "bound" =>
              \A j \in 1..(i - 1) : Refuses(j) => \E k \in j..i : Committed(k) /\ ran[k].q.seed
    BY <1>3 DEF TablesInv, SeedsFit, SeedDescribesFirst, Refuses
  <1>6. \A i \in DOMAIN ran : (Committed(i)' <=> Committed(i)) /\ (Refuses(i)' <=> Refuses(i))
    BY <1>0, RunCommits
  <1>7. \A j \in DOMAIN ran : SeededAfter(j) => \E k \in DOMAIN ran : j <= k /\ k <= Len(ran) /\ Committed(k)' /\ ran'[k].q.seed
    BY <1>1, <1>6 DEF SeededAfter
  \* What the old answers said stays true.
  <1>8. ASSUME NEW i \in DOMAIN ran, ran'[i].q.does = "binding", ran'[i].said = "bound"
        PROVE  \A j \in 1..(i - 1) : Refuses(j)' => \E k \in j..i : Committed(k)' /\ ran'[k].q.seed
    <2>1. ASSUME NEW j \in 1..(i - 1), Refuses(j)' PROVE \E k \in j..i : Committed(k)' /\ ran'[k].q.seed
      <3>1. j \in DOMAIN ran
        BY <1>1
      <3>2. PICK k \in j..i : Committed(k) /\ ran[k].q.seed
        BY <3>1, <2>1, <1>1, <1>5, <1>6, <1>8
      <3>3. k \in DOMAIN ran
        BY <3>1, <1>1
      <3> QED
        BY <3>2, <3>3, <1>1, <1>6
    <2> QED
      BY <2>1
  \* What a new answer says is true.
  <1>9. ASSUME q.does = "binding", Applied(q).reply = "bound"
        PROVE  /\ Len(cs) >= 1 /\ cs[1].seed
               /\ \A j \in 1..(m - 1) : Refuses(j)' => \E k \in j..m : Committed(k)' /\ ran'[k].q.seed
    <2>1. \E i \in DOMAIN ss : ss[i].seed /\ i = Len(ss)
      BY <1>9, <1>3, BindingTells DEF Runs
    <2>2. ASSUME NEW j \in 1..(m - 1), Refuses(j)' PROVE \E k \in j..m : Committed(k)' /\ ran'[k].q.seed
      <3>1. j \in DOMAIN ran
        BY <1>0, <1>1
      <3>2. Refuses(j)
        BY <3>1, <2>2, <1>6
      <3>3. PICK k \in DOMAIN ran : j <= k /\ k <= Len(ran) /\ Committed(k)' /\ ran'[k].q.seed
        BY <3>1, <3>2, <2>1, <1>5, <1>7
      <3>4. k \in j..m
        BY <3>1, <3>3, <1>0, <1>1
      <3> QED
        BY <3>3, <3>4
    <2> QED
      BY <2>1, <2>2, <1>5
  \* The seeded cycle stays the first.
  <1>10. CASE Commits(q)
    <2>1. /\ store'["cycles"] = Append(cs, row) /\ store'["seeds"] = (IF q.seed THEN Append(ss, row) ELSE ss)
          /\ q.seed => generation = 0
      BY <1>2, <1>3, <1>10 DEF Commits
    <2>2. Committed(m)'
      <3>1. q.does \in {"commit", "guarded"} /\ Applied(q).ok /\ Applied(q).reply.committed
        BY <1>10 DEF Commits
      <3> QED
        BY <3>1, <1>0, RunCommits
    <2>3. q.does # "binding" /\ ~Refuses(m)'
      <3>1. q.does \in {"commit", "guarded"}
        BY <1>10 DEF Commits
      <3> QED
        BY <3>1, <1>1 DEF Refuses
    <2>4. /\ Len(cs) >= 1 /\ cs[1].seed => Append(cs, row)[1].seed
          /\ q.seed => Append(cs, row)[1].seed
          /\ Len(Append(cs, row)) >= 1
      BY <2>1, <1>3, <1>4
    <2>5. SeedsFit'
      <3>1. (\E i \in DOMAIN store'["seeds"] : store'["seeds"][i].seed) => Len(store'["cycles"]) >= 1 /\ store'["cycles"][1].seed
        <4>1. CASE q.seed
          BY <4>1, <2>1, <2>4
        <4>2. CASE ~q.seed
          BY <4>2, <2>1, <2>4, <1>5
        <4> QED
          BY <4>1, <4>2
      <3>2. \A i \in DOMAIN ran' : ran'[i].q.does = "binding" /\ ran'[i].said = "bound" => Len(store'["cycles"]) >= 1
        BY <2>1, <2>4
      <3>3. ASSUME \E i \in DOMAIN store'["seeds"] : store'["seeds"][i].seed /\ i = Len(store'["seeds"]), NEW j \in DOMAIN ran', Refuses(j)'
            PROVE  SeededAfter(j)'
        <4>1. j \in DOMAIN ran
          BY <3>3, <2>3, <1>1
        <4>2. CASE q.seed
          <5>1. j <= m /\ ran'[m].q.seed
            BY <4>1, <4>2, <1>0, <1>1
          <5> QED
            BY <5>1, <2>2, <1>1 DEF SeededAfter
        <4>3. CASE ~q.seed
          <5>1. PICK k \in DOMAIN ran : j <= k /\ Committed(k)' /\ ran'[k].q.seed
            BY <4>1, <4>3, <3>3, <2>1, <1>5, <1>6, <1>7
          <5> QED
            BY <5>1, <1>1 DEF SeededAfter
        <4> QED
          BY <4>2, <4>3
      <3> QED
        BY <3>1, <3>2, <3>3 DEF SeedsFit
    <2>6. \A i \in DOMAIN store'["cycles"] : store'["cycles"][i].seed => i = 1
      <3>1. ASSUME NEW i \in 1..(Len(cs) + 1), Append(cs, row)[i].seed PROVE i = 1
        <4>1. CASE i \in 1..Len(cs)
          BY <4>1, <3>1, <1>4, <1>5
        <4>2. CASE i = Len(cs) + 1
          BY <4>2, <3>1, <2>1, <1>3, <1>4
        <4> QED
          BY <4>1, <4>2, <1>4
      <3> QED
        BY <3>1, <2>1, <1>4
    <2>7. \A i \in DOMAIN ran' : ran'[i].q.does = "binding" /\ ran'[i].said = "bound" =>
             /\ store'["cycles"][1].seed
             /\ \A j \in 1..(i - 1) : Refuses(j)' => \E k \in j..i : Committed(k)' /\ ran'[k].q.seed
      <3>1. ASSUME NEW i \in DOMAIN ran', ran'[i].q.does = "binding", ran'[i].said = "bound" PROVE i \in DOMAIN ran /\ store'["cycles"][1].seed
        <4>1. i \in DOMAIN ran /\ ran'[i] = ran[i]
          BY <3>1, <2>3, <1>1
        <4> QED
          BY <4>1, <3>1, <2>1, <2>4, <1>5
      <3> QED
        BY <3>1, <1>8
    <2> QED
      BY <2>5, <2>6, <2>7 DEF SeedDescribesFirst, Refuses
  <1>11. CASE Quiets(q)
    <2>1. /\ store'["cycles"] = cs
          /\ IF q.does = "refusal" /\ Applied(q).ok THEN ~row.seed /\ store'["seeds"] = Append(ss, row) ELSE store'["seeds"] = ss
      BY <1>2, <1>3, <1>11 DEF Quiets
    <2>2. (\E i \in DOMAIN store'["seeds"] : store'["seeds"][i].seed) => \E i \in DOMAIN ss : ss[i].seed
      <3>1. CASE q.does = "refusal" /\ Applied(q).ok
        <4>1. ASSUME NEW i \in 1..(Len(ss) + 1), Append(ss, row)[i].seed PROVE i \in DOMAIN ss /\ ss[i].seed
          <5>1. i # Len(ss) + 1
            BY <4>1, <3>1, <2>1, <1>4
          <5> QED
            BY <5>1, <4>1, <1>4
        <4> QED
          BY <4>1, <3>1, <2>1, <1>4
      <3>2. CASE ~(q.does = "refusal" /\ Applied(q).ok)
        BY <3>2, <2>1
      <3> QED
        BY <3>1, <3>2
    <2>3. (\E i \in DOMAIN store'["seeds"] : store'["seeds"][i].seed /\ i = Len(store'["seeds"])) =>
             store'["seeds"] = ss /\ ~(q.does = "refusal" /\ Applied(q).ok)
      BY <2>1, <1>4
    <2>4. \A i \in DOMAIN ran' : ran'[i].q.does = "binding" /\ ran'[i].said = "bound" =>
             /\ Len(cs) >= 1 /\ cs[1].seed
             /\ \A j \in 1..(i - 1) : Refuses(j)' => \E k \in j..i : Committed(k)' /\ ran'[k].q.seed
      <3>1. ASSUME NEW i \in DOMAIN ran', ran'[i].q.does = "binding", ran'[i].said = "bound"
            PROVE  /\ Len(cs) >= 1 /\ cs[1].seed
                   /\ \A j \in 1..(i - 1) : Refuses(j)' => \E k \in j..i : Committed(k)' /\ ran'[k].q.seed
        <4>1. CASE i \in DOMAIN ran
          <5>1. ran'[i] = ran[i]
            BY <4>1, <1>1
          <5>2. Len(cs) >= 1 /\ cs[1].seed
            BY <5>1, <4>1, <3>1, <1>5
          <5> QED
            BY <5>2, <4>1, <3>1, <1>8
        <4>2. CASE i = m
          <5>1. q.does = "binding" /\ Applied(q).reply = "bound"
            BY <4>2, <3>1, <1>1
          <5> QED
            BY <5>1, <4>2, <1>9
        <4> QED
          BY <4>1, <4>2, <1>1
      <3> QED
        BY <3>1
    <2>5. SeedsFit'
      <3>1. (\E i \in DOMAIN store'["seeds"] : store'["seeds"][i].seed) => Len(store'["cycles"]) >= 1 /\ store'["cycles"][1].seed
        BY <2>1, <2>2, <1>5
      <3>2. \A i \in DOMAIN ran' : ran'[i].q.does = "binding" /\ ran'[i].said = "bound" => Len(store'["cycles"]) >= 1
        BY <2>1, <2>4
      <3>3. ASSUME \E i \in DOMAIN store'["seeds"] : store'["seeds"][i].seed /\ i = Len(store'["seeds"]), NEW j \in DOMAIN ran', Refuses(j)'
            PROVE  SeededAfter(j)'
        <4>0. (\E i \in DOMAIN ss : ss[i].seed /\ i = Len(ss)) /\ ~(q.does = "refusal" /\ Applied(q).ok)
          BY <3>3, <2>3
        <4>1. j \in DOMAIN ran
          <5>1. ~Refuses(m)'
            BY <4>0, <1>0, RunCommits
          <5> QED
            BY <5>1, <3>3, <1>1
        <4>2. Refuses(j)
          BY <4>1, <3>3, <1>6
        <4>3. PICK k \in DOMAIN ran : j <= k /\ Committed(k)' /\ ran'[k].q.seed
          BY <4>0, <4>1, <4>2, <1>5, <1>7
        <4> QED
          BY <4>3, <1>1 DEF SeededAfter
      <3> QED
        BY <3>1, <3>2, <3>3 DEF SeedsFit
    <2> QED
      BY <2>1, <2>4, <2>5, <1>5 DEF SeedDescribesFirst, Refuses
  <1> QED
    BY <1>2, <1>10, <1>11 DEF Effects

\* What was answered under a command's number was answered about that command.
Told(q) == q.n \in DOMAIN outcomes[q.who] => outcomes[q.who][q.n].q = q
ToldSame == (\A a \in Actors : \A i \in DOMAIN mailbox[a] : Told(mailbox[a][i])) /\ (\A i \in DOMAIN ran : Told(ran[i].q))

Placed(q) == (\E a \in Actors : \E i \in DOMAIN mailbox[a] : q = mailbox[a][i]) \/ (\E i \in DOMAIN ran : q = ran[i].q)

\* An answer is about the request its caller waits for, if it waits for one.
Answers(d) ==
    \/ outcomes'[d] = outcomes[d]
    \/ \E o : outcomes'[d] = Append(outcomes[d], o) /\ \A r : asks[d] = [state |-> "waiting", q |-> r] => o.q = r

\* A placed command keeps the answer it was told.
LEMMA ToldOne ==
    ASSUME PlacesInv, ToldSame, \A d \in StoreCallers : Answers(d), NEW q, Placed(q)
    PROVE  Told(q)'
  <1>1. IsCommand(q) /\ Told(q) /\ (q.n <= Len(outcomes[q.who]) \/ AwaitsReply(q))
    <2>1. ASSUME NEW a \in Actors, NEW i \in DOMAIN mailbox[a], q = mailbox[a][i]
          PROVE  IsCommand(q) /\ Told(q) /\ (q.n <= Len(outcomes[q.who]) \/ AwaitsReply(q))
      BY <2>1 DEF PlacesInv, QueuesFit, ToldSame
    <2>2. ASSUME NEW i \in DOMAIN ran, q = ran[i].q
          PROVE  IsCommand(q) /\ Told(q) /\ (q.n <= Len(outcomes[q.who]) \/ AwaitsReply(q))
      BY <2>2 DEF PlacesInv, RanFit, ToldSame
    <2> QED
      BY <2>1, <2>2 DEF Placed
  <1>2. PICK c \in StoreCallers : c = q.who
    BY <1>1 DEF IsCommand
  <1>3. PICK s : s = outcomes[c] /\ Listed(s) /\ Len(s) \in Nat /\ DOMAIN s = 1..Len(s)
    BY Indices DEF PlacesInv, PlacesTyped
  <1>4. CASE outcomes'[c] = outcomes[c]
    BY <1>1, <1>2, <1>4 DEF Told
  <1>5. ASSUME NEW o, outcomes'[c] = Append(s, o), \A r : asks[c] = [state |-> "waiting", q |-> r] => o.q = r PROVE Told(q)'
    <2>1. /\ DOMAIN Append(s, o) = 1..(Len(s) + 1)
          /\ \A j \in 1..Len(s) : Append(s, o)[j] = s[j]
          /\ Append(s, o)[Len(s) + 1] = o
      BY <1>3, Grown
    <2>2. ASSUME q.n \in 1..(Len(s) + 1) PROVE Append(s, o)[q.n].q = q
      <3>1. CASE q.n \in 1..Len(s)
        BY <3>1, <2>1, <1>1, <1>2, <1>3 DEF Told
      <3>2. CASE q.n = Len(s) + 1
        <4>1. AwaitsReply(q)
          BY <3>2, <1>1, <1>2, <1>3
        <4> QED
          BY <4>1, <3>2, <2>1, <1>2, <1>5 DEF AwaitsReply
      <3> QED
        BY <2>2, <3>1, <3>2, <1>3
    <2> QED
      BY <2>1, <2>2, <1>2, <1>5 DEF Told
  <1> QED
    BY <1>2, <1>3, <1>4, <1>5 DEF Answers

\* Answers about what is placed stay about it.
LEMMA ToldAll ==
    ASSUME PlacesInv, ToldSame, \A d \in StoreCallers : Answers(d),
           \A a \in Actors : \A i \in DOMAIN mailbox'[a] : Placed(mailbox'[a][i]) \/ Told(mailbox[a][i])',
           \A i \in DOMAIN ran' : Placed(ran'[i].q)
    PROVE  ToldSame'
  <1>1. ASSUME NEW a \in Actors, NEW i \in DOMAIN mailbox'[a] PROVE Told(mailbox[a][i])'
    <2>1. PICK q : q = mailbox'[a][i]
      OBVIOUS
    <2>2. Placed(q) => Told(q)'
      BY ToldOne
    <2> QED
      BY <2>1, <2>2 DEF Told
  <1>2. ASSUME NEW i \in DOMAIN ran' PROVE Told(ran[i].q)'
    <2>1. PICK q : q = ran'[i].q /\ Placed(q)
      OBVIOUS
    <2>2. Told(q)'
      BY <2>1, ToldOne
    <2> QED
      BY <2>1, <2>2 DEF Told
  <1> QED
    BY <1>1, <1>2 DEF ToldSame

\* What is queued or in the history is placed.
LEMMA PlacedStay ==
           /\ \A a \in Actors : \A i \in DOMAIN mailbox[a] : Placed(mailbox[a][i])
           /\ \A i \in DOMAIN ran : Placed(ran[i].q)
  BY DEF Placed

\* An ended request leaves the other callers' answers as they are.
LEMMA EndsOne ==
    ASSUME PlacesInv, NEW c \in StoreCallers, NEW st, NEW q, NEW answer, Ended(c, st, q, answer),
           \A r : asks[c] = [state |-> "waiting", q |-> r] => q = r
    PROVE  \A d \in StoreCallers : Answers(d)
  <1>0. PICK o : o = [state |-> st, q |-> q, reply |-> answer]
    OBVIOUS
  <1>1. o = [state |-> st, q |-> q, reply |-> answer] /\ o.q = q
    BY <1>0
  <1>2. outcomes'[c] = Append(outcomes[c], o) /\ \A d \in StoreCallers : d # c => outcomes'[d] = outcomes[d]
    BY <1>1 DEF PlacesInv, PlacesTyped, Ended
  <1> QED
    BY <1>1, <1>2 DEF Answers

\* A newly queued command has no answer yet.
LEMMA ToldQueue ==
    ASSUME PlacesInv, ToldSame, NEW q, NEW b \in Actors, IsCommand(q), q.n = Len(outcomes[q.who]) + 1,
           mailbox' = [mailbox EXCEPT ![b] = Append(@, q)], UNCHANGED <<outcomes, ran>>
    PROVE  ToldSame'
  <1>1. \A d \in StoreCallers : Answers(d)
    BY DEF Answers
  <1>2. PICK s : s = mailbox[b] /\ Listed(s)
    BY DEF PlacesInv, PlacesTyped
  <1>3. /\ Len(s) \in Nat /\ DOMAIN s = 1..Len(s) /\ DOMAIN Append(s, q) = 1..(Len(s) + 1)
        /\ \A j \in 1..Len(s) : Append(s, q)[j] = s[j]
        /\ Append(s, q)[Len(s) + 1] = q
    BY <1>2, Grown
  <1>4. mailbox'[b] = Append(s, q) /\ \A a \in Actors : a # b => mailbox'[a] = mailbox[a]
    BY <1>2 DEF PlacesInv, PlacesTyped
  <1>5. Told(q)'
    <2>1. PICK c \in StoreCallers : c = q.who
      BY DEF IsCommand
    <2>2. Len(outcomes[c]) \in Nat /\ DOMAIN outcomes[c] = 1..Len(outcomes[c])
      BY NothingLater
    <2>3. q.n \notin DOMAIN outcomes[c]
      BY <2>1, <2>2
    <2> QED
      BY <2>1, <2>3 DEF Told
  <1>6. ASSUME NEW a \in Actors, NEW i \in DOMAIN mailbox'[a] PROVE Placed(mailbox'[a][i]) \/ Told(mailbox[a][i])'
    <2>1. CASE a # b
      BY <2>1, <1>4, PlacedStay
    <2>2. CASE a = b /\ i \in 1..Len(s)
      BY <2>2, <1>2, <1>3, <1>4, PlacedStay
    <2>3. CASE a = b /\ i = Len(s) + 1
      <3>1. mailbox'[a][i] = q
        BY <2>3, <1>3, <1>4
      <3> QED
        BY <3>1, <1>5 DEF Told
    <2> QED
      BY <2>1, <2>2, <2>3, <1>3, <1>4
  <1>7. \A i \in DOMAIN ran' : Placed(ran'[i].q)
    BY PlacedStay
  <1> QED
    BY <1>1, <1>6, <1>7, ToldAll

\* Answers elsewhere leave the queues and the history alone.
LEMMA ToldStill ==
    ASSUME PlacesInv, ToldSame, \A d \in StoreCallers : Answers(d), UNCHANGED <<mailbox, ran>>
    PROVE  ToldSame'
  <1>1. ASSUME NEW a \in Actors, NEW i \in DOMAIN mailbox'[a] PROVE Placed(mailbox'[a][i]) \/ Told(mailbox[a][i])'
    BY PlacedStay
  <1>2. \A i \in DOMAIN ran' : Placed(ran'[i].q)
    BY PlacedStay
  <1> QED
    BY <1>1, <1>2, ToldAll

\* Every step keeps answers about their commands.
LEMMA ToldStep ==
    ASSUME PlacesInv, ToldSame, [StoreNext]_storeVars
    PROVE  ToldSame'
  <1>1. ASSUME NEW c \in StoreCallers, Call(c) PROVE ToldSame'
    <2>1. UNCHANGED <<mailbox, outcomes, ran>>
      BY <1>1 DEF Call
    <2>2. \A d \in StoreCallers : Answers(d)
      BY <2>1 DEF Answers
    <2> QED
      BY <2>1, <2>2, ToldStill
  <1>2. ASSUME NEW c \in StoreCallers, TryCall(c) PROVE ToldSame'
    <2>1. PICK s \in Wanted(c) : Admission(c, CommandFor(c, s))
      BY <1>2 DEF TryCall
    <2>2. PICK q : q = CommandFor(c, s)
      OBVIOUS
    <2>3. IsCommand(q) /\ q.who = c /\ q.n = Len(outcomes[c]) + 1
      BY <2>2, CommandIs
    <2>4. q.actor \in Actors
      BY <2>3 DEF IsCommand, Fit
    <2>5. asks[c] = NoAsk /\ UNCHANGED ran
      BY <1>2 DEF TryCall
    <2>6. CASE mailbox' = [mailbox EXCEPT ![q.actor] = Append(@, q)] /\ UNCHANGED outcomes
      BY <2>3, <2>4, <2>5, <2>6, ToldQueue
    <2>7. CASE Ended(c, "refused", q, {}) /\ UNCHANGED mailbox
      <3>1. \A r : asks[c] = [state |-> "waiting", q |-> r] => q = r
        BY <2>5 DEF NoAsk
      <3>2. \A d \in StoreCallers : Answers(d)
        BY <3>1, <2>7, EndsOne
      <3> QED
        BY <3>2, <2>5, <2>7, ToldStill
    <2> QED
      BY <2>1, <2>2, <2>6, <2>7 DEF Admission
  <1>3. ASSUME NEW c \in StoreCallers, Enqueue(c) PROVE ToldSame'
    <2>1. asks[c].state = "sending" /\ UNCHANGED ran
      BY <1>3 DEF Enqueue
    <2>2. PICK q : q = asks[c].q
      OBVIOUS
    <2>3. IsCommand(q) /\ q.who = c /\ q.n = Len(outcomes[c]) + 1
      BY <2>1, <2>2, PendingIs DEF AskOf
    <2>4. q.actor \in Actors
      BY <2>3 DEF IsCommand, Fit
    <2>5. CASE Ended(c, "gone", q, {}) /\ UNCHANGED mailbox
      <3>1. \A r : asks[c] = [state |-> "waiting", q |-> r] => q = r
        BY <2>2
      <3>2. \A d \in StoreCallers : Answers(d)
        BY <3>1, <2>5, EndsOne
      <3> QED
        BY <3>2, <2>1, <2>5, ToldStill
    <2>6. CASE mailbox' = [mailbox EXCEPT ![q.actor] = Append(@, q)] /\ UNCHANGED outcomes
      BY <2>1, <2>3, <2>4, <2>6, ToldQueue
    <2> QED
      BY <1>3, <2>2, <2>5, <2>6 DEF Enqueue
  <1>4. ASSUME NEW c \in StoreCallers, GiveUp(c) PROVE ToldSame'
    <2>1. PICK st, q : Ended(c, st, q, {}) /\ q = asks[c].q /\ UNCHANGED <<mailbox, ran>>
      BY <1>4 DEF GiveUp
    <2>2. \A r : asks[c] = [state |-> "waiting", q |-> r] => q = r
      BY <2>1
    <2>3. \A d \in StoreCallers : Answers(d)
      BY <2>1, <2>2, EndsOne
    <2> QED
      BY <2>1, <2>3, ToldStill
  <1>5. ASSUME NEW a \in Actors, Serve(a) PROVE ToldSame'
    <2>1. PICK q : q = Head(mailbox[a])
      OBVIOUS
    <2>0. PICK e : e = [q |-> q, ok |-> Applied(q).ok, said |-> Applied(q).reply]
      OBVIOUS
    <2>2. e = [q |-> q, ok |-> Applied(q).ok, said |-> Applied(q).reply] /\ e.q = q
      BY <2>0
    <2>3. /\ mailbox[a] # <<>> /\ mailbox' = [mailbox EXCEPT ![a] = Tail(@)] /\ ran' = Append(ran, e)
          /\ IF asks[q.who].state = "waiting" /\ asks[q.who].q = q THEN \E st : Ended(q.who, st, q, {Applied(q).reply})
             ELSE UNCHANGED <<asks, outcomes>>
      BY <1>5, <2>1, <2>2 DEF Serve, Served
    <2>4. PICK s : s = mailbox[a] /\ Listed(s) /\ s # <<>>
      BY <2>3 DEF PlacesInv, PlacesTyped
    <2>5. /\ Len(s) \in Nat /\ Len(s) >= 1 /\ DOMAIN s = 1..Len(s) /\ DOMAIN Tail(s) = 1..(Len(s) - 1)
          /\ \A j \in 1..(Len(s) - 1) : Tail(s)[j] = s[j + 1]
          /\ Head(s) = s[1]
      BY <2>4, Rested
    <2>6. mailbox'[a] = Tail(s) /\ \A b \in Actors : b # a => mailbox'[b] = mailbox[b]
      BY <2>3, <2>4 DEF PlacesInv, PlacesTyped
    <2>7. \A b \in Actors : \A i \in DOMAIN mailbox'[b] : Placed(mailbox'[b][i])
      <3>1. ASSUME NEW b \in Actors, NEW i \in DOMAIN mailbox'[b] PROVE \E k \in DOMAIN mailbox[b] : mailbox'[b][i] = mailbox[b][k]
        <4>1. CASE b = a
          <5>1. i \in 1..(Len(s) - 1) /\ i + 1 \in 1..Len(s)
            BY <4>1, <2>5, <2>6
          <5> QED
            BY <5>1, <4>1, <2>4, <2>5, <2>6
        <4>2. CASE b # a
          BY <4>2, <2>6
        <4> QED
          BY <4>1, <4>2
      <3> QED
        BY <3>1 DEF Placed
    <2>8. 1 \in DOMAIN mailbox[a] /\ q = mailbox[a][1]
      BY <2>1, <2>4, <2>5
    <2>9. \A i \in DOMAIN ran' : Placed(ran'[i].q)
      <3>1. Listed(ran)
        BY DEF PlacesInv, PlacesTyped
      <3>2. /\ Len(ran) \in Nat /\ DOMAIN ran = 1..Len(ran) /\ DOMAIN ran' = 1..(Len(ran) + 1)
            /\ \A j \in 1..Len(ran) : ran'[j] = ran[j]
            /\ ran'[Len(ran) + 1] = e
        BY <2>3, <3>1, Grown
      <3>3. ASSUME NEW i \in DOMAIN ran' PROVE Placed(ran'[i].q)
        <4>1. CASE i \in DOMAIN ran
          BY <4>1, <3>2, PlacedStay
        <4>2. CASE i = Len(ran) + 1
          <5>1. Placed(q)
            BY <2>8 DEF Placed
          <5> QED
            BY <5>1, <4>2, <3>2, <2>2
        <4> QED
          BY <4>1, <4>2, <3>2
      <3> QED
        BY <3>3
    <2>10. q.who \in StoreCallers
      <3>1. IsCommand(q)
        BY <2>8 DEF PlacesInv, QueuesFit
      <3> QED
        BY <3>1 DEF IsCommand
    <2>11. \A d \in StoreCallers : Answers(d)
      <3>1. CASE asks[q.who].state = "waiting" /\ asks[q.who].q = q
        <4>1. PICK st, answer : Ended(q.who, st, q, answer)
          BY <2>3, <3>1
        <4>2. \A r : asks[q.who] = [state |-> "waiting", q |-> r] => q = r
          BY <3>1
        <4> QED
          BY <4>1, <4>2, <2>10, EndsOne
      <3>2. CASE ~(asks[q.who].state = "waiting" /\ asks[q.who].q = q)
        BY <3>2, <2>3 DEF Answers
      <3> QED
        BY <3>1, <3>2
    <2> QED
      BY <2>7, <2>9, <2>11, ToldAll
  <1>6. ASSUME NEW a \in Actors, Die(a) PROVE ToldSame'
    <2>1. \A b \in Actors : \A i \in DOMAIN mailbox'[b] : Placed(mailbox'[b][i])
      <3>1. DOMAIN mailbox'[a] = {} /\ \A b \in Actors : b # a => mailbox'[b] = mailbox[b]
        BY <1>6, EmptyList DEF PlacesInv, PlacesTyped, Die
      <3> QED
        BY <3>1, PlacedStay
    <2>2. \A i \in DOMAIN ran' : Placed(ran'[i].q)
      BY <1>6, PlacedStay DEF Die
    <2>3. ASSUME NEW d \in StoreCallers PROVE Answers(d)
      <3>1. CASE d \in Stranded(a)
        <4>0. PICK o : o = [state |-> "dropped", q |-> asks[d].q, reply |-> {}]
          OBVIOUS
        <4>1. o = [state |-> "dropped", q |-> asks[d].q, reply |-> {}] /\ o.q = asks[d].q
          BY <4>0
        <4>2. outcomes'[d] = Append(outcomes[d], o)
          BY <4>1, <3>1, <1>6 DEF Die
        <4> QED
          BY <4>1, <4>2 DEF Answers
      <3>2. CASE d \notin Stranded(a)
        BY <3>2, <1>6 DEF Die, Answers
      <3> QED
        BY <3>1, <3>2
    <2> QED
      BY <2>1, <2>2, <2>3, ToldAll
  <1>7. CASE ProductionWrites \/ UNCHANGED storeVars
    <2>1. UNCHANGED <<mailbox, outcomes, ran>>
      BY <1>7 DEF ProductionWrites, storeVars
    <2>2. \A d \in StoreCallers : Answers(d)
      BY <2>1 DEF Answers
    <2> QED
      BY <2>1, <2>2, ToldStill
  <1> QED
    BY <1>1, <1>2, <1>3, <1>4, <1>5, <1>6, <1>7 DEF StoreNext

\* The tables and the history are empty at the start.
LEMMA StoreStart ==
    ASSUME StoreInit
    PROVE  TablesInv /\ ToldSame
  <1>1. /\ \A t \in Tables : store[t] = <<>>
        /\ generation = 0 /\ DOMAIN ran = {} /\ \A a \in Actors : DOMAIN mailbox[a] = {}
    BY EmptyList DEF StoreInit
  <1>2. StoreTyped
    BY DEF StoreInit, StoreTyped
  <1>3. /\ store["cycles"] = <<>> /\ store["seeds"] = <<>> /\ Len(<<>>) = 0
        /\ DOMAIN store["cycles"] = {} /\ DOMAIN store["seeds"] = {}
    BY <1>1, TablesKnown, EmptyList
  <1>4. KeysStay /\ ListsShow /\ WindowsShow /\ FirstNonceWins /\ CommitsGrow
    BY <1>1 DEF KeysStay, ListsShow, WindowsShow, FirstNonceWins, CommitsGrow
  <1>5. CommitsDoNotFork /\ SeedsFit /\ SeedDescribesFirst
    BY <1>1, <1>3 DEF CommitsDoNotFork, SeedsFit, SeedDescribesFirst
  <1> QED
    BY <1>1, <1>2, <1>4, <1>5 DEF TablesInv, ToldSame

\* The other program's rows are not of this store's tables.
LEMMA OthersWrite ==
    ASSUME TablesInv, RanFit, ProductionWrites
    PROVE  TablesInv'
  <1>1. UNCHANGED <<generation, ran>>
    BY DEF ProductionWrites
  <1>2. PICK ps \in Seq(Rows) : ps = store["production"]
    BY TablesKnown DEF TablesInv, StoreTyped
  <1>3. PICK row \in Rows : row = [key |-> "x", at |-> Len(ps) + 1, done |-> FALSE, halted |-> FALSE, seed |-> FALSE]
    <2>1. PICK n \in Nat : n = Len(ps) + 1
      OBVIOUS
    <2>2. PICK k \in RowNames : k = "x"
      BY DEF RowNames
    <2>3. [key |-> k, at |-> n, done |-> FALSE, halted |-> FALSE, seed |-> FALSE] \in Rows
      BY DEF Rows
    <2> QED
      BY <2>1, <2>2, <2>3
  <1>4. store' = [store EXCEPT !["production"] = Append(ps, row)]
    BY <1>2, <1>3 DEF ProductionWrites
  <1>5. store'["production"] = Append(ps, row) /\ \A t \in Tables : t # "production" => store'[t] = store[t]
    BY <1>4, TablesKnown DEF TablesInv, StoreTyped
  <1>6. Append(ps, row) \in Seq(Rows) /\ RowKeys(Append(ps, row)) = RowKeys(ps) \cup {row.key}
    BY AppendRow
  <1>7. \A t \in Tables : RowKeys(store[t]) \subseteq RowKeys(store'[t])
    BY <1>2, <1>5, <1>6
  <1>8. StoreTyped'
    <2>1. store' \in [Tables -> Seq(Rows)]
      BY <1>4, <1>6 DEF TablesInv, StoreTyped
    <2> QED
      BY <2>1, <1>1 DEF TablesInv, StoreTyped
  <1>9. KeysStay'
    <2>1. ASSUME NEW i \in DOMAIN ran, ran[i].q.does \in KeyWrites
          PROVE  ran[i].q.key \in RowKeys(store'[ran[i].q.table]) \/ Taken(i, Len(ran) + 1, ran[i].q.table, ran[i].q.key)
      <3>1. ran[i].q.key \in RowKeys(store[ran[i].q.table]) \/ Taken(i, Len(ran) + 1, ran[i].q.table, ran[i].q.key)
        BY <2>1 DEF TablesInv, KeysStay
      <3>2. ran[i].q.table \in Tables
        BY <2>1 DEF RanFit, IsCommand
      <3> QED
        BY <3>1, <3>2, <1>7
    <2> QED
      BY <2>1, <1>1 DEF KeysStay, Taken
  <1>10. ListsShow' /\ WindowsShow' /\ FirstNonceWins' /\ CommitsGrow'
    BY <1>1 DEF TablesInv, ListsShow, Taken, WindowsShow, FirstNonceWins, CommitsGrow, Committed
  <1>11. store'["cycles"] = store["cycles"] /\ store'["seeds"] = store["seeds"]
    BY <1>5, TablesKnown
  <1>12. CommitsDoNotFork' /\ SeedDescribesFirst'
    BY <1>1, <1>11 DEF TablesInv, CommitsDoNotFork, SeedDescribesFirst, Committed
  <1>13. SeedsFit'
    BY <1>1, <1>11 DEF TablesInv, SeedsFit, SeededAfter, Refuses, Committed
  <1> QED
    BY <1>8, <1>9, <1>10, <1>12, <1>13 DEF TablesInv

\* Every step keeps the tables' invariant.
LEMMA StoreStep ==
    ASSUME PlacesInv, TablesInv, [StoreNext]_storeVars
    PROVE  TablesInv'
  <1>1. ASSUME NEW a \in Actors, Serve(a) PROVE TablesInv'
    <2>1. PICK q : q = Head(mailbox[a])
      OBVIOUS
    <2>2. Runs(q)
      <3>1. PICK s : s = mailbox[a] /\ Listed(s) /\ s # <<>>
        BY <1>1 DEF PlacesInv, PlacesTyped, Serve
      <3>2. 1 \in DOMAIN s /\ Head(s) = s[1]
        <4>1. Len(s) \in Nat /\ Len(s) >= 1 /\ DOMAIN s = 1..Len(s) /\ Head(s) = s[1]
          BY <3>1, Rested
        <4> QED
          BY <4>1
      <3>3. IsCommand(q)
        BY <3>1, <3>2, <2>1 DEF PlacesInv, QueuesFit
      <3>4. Listed(ran)
        BY DEF PlacesInv, PlacesTyped
      <3>5. /\ ran' = Append(ran, [q |-> q, ok |-> Applied(q).ok, said |-> Applied(q).reply])
            /\ store' = After(q) /\ generation' = Applied(q).gen
        BY <1>1, <2>1 DEF Serve, Served, After
      <3> QED
        BY <3>3, <3>4, <3>5 DEF Runs
    <2>3. StoreTyped'
      <3>1. Effects(q)
        BY <2>2, EffectsOf DEF TablesInv, Runs
      <3> QED
        BY <3>1, <2>2 DEF Effects, Runs, StoreTyped
    <2>4. RanFit
      BY DEF PlacesInv
    <2> QED
      BY <2>2, <2>3, <2>4, RunKeys, RunLists, RunNonces, RunForks, RunSeeds DEF TablesInv
  <1>2. CASE UNCHANGED <<store, generation, ran>>
    <2>1. StoreTyped' /\ KeysStay' /\ ListsShow' /\ WindowsShow' /\ FirstNonceWins'
      BY <1>2 DEF TablesInv, StoreTyped, KeysStay, ListsShow, Taken, WindowsShow, FirstNonceWins
    <2>2. CommitsGrow' /\ CommitsDoNotFork' /\ SeedsFit' /\ SeedDescribesFirst'
      BY <1>2 DEF TablesInv, CommitsGrow, CommitsDoNotFork, SeedsFit, SeededAfter, Refuses, SeedDescribesFirst, Committed
    <2> QED
      BY <2>1, <2>2 DEF TablesInv
  <1>3. ASSUME NEW c \in StoreCallers, Call(c) \/ TryCall(c) \/ Enqueue(c) \/ GiveUp(c) PROVE TablesInv'
    BY <1>2, <1>3 DEF Call, TryCall, Enqueue, GiveUp
  <1>4. ASSUME NEW a \in Actors, Die(a) PROVE TablesInv'
    BY <1>2, <1>4 DEF Die
  <1>5. CASE ProductionWrites
    <2>1. RanFit
      BY DEF PlacesInv
    <2> QED
      BY <1>5, <2>1, OthersWrite
  <1>6. CASE UNCHANGED storeVars
    BY <1>2, <1>6 DEF storeVars
  <1> QED
    BY <1>1, <1>3, <1>4, <1>5, <1>6 DEF StoreNext

\* The inductive invariant of the two database threads.
StoreOrder == PlacesInv /\ ToldSame /\ TablesInv

(* The invariant of the store's threads holds in every reachable state, for   *)
(* any callers, any plans of requests and any room in the queues.            *)
THEOREM StoreInvariant == StoreSpec => []StoreOrder
  <1>1. StoreInit => StoreOrder
    BY PlacesStart, StoreStart DEF StoreOrder
  <1>2. StoreOrder /\ [StoreNext]_storeVars => StoreOrder'
    BY PlacesStep, ToldStep, StoreStep DEF StoreOrder
  <1> QED
    BY <1>1, <1>2, PTL DEF StoreSpec

\* The runs of an answered request.
LEMMA RunOnce ==
    ASSUME StoreOrder, NEW c \in StoreCallers, NEW n \in DOMAIN outcomes[c]
    PROVE  /\ \A i, j \in RanAs(c, n) : i = j
           /\ QueuedFor(c, n) => RanAs(c, n) = {}
           /\ \A i \in RanAs(c, n) : ran[i].q = outcomes[c][n].q
           /\ RanWith(outcomes[c][n]) => \E i \in RanAs(c, n) : ran[i].q = outcomes[c][n].q /\ outcomes[c][n].reply = {ran[i].said}
  <1>0. Len(ran) \in Nat /\ DOMAIN ran = 1..Len(ran)
    BY Indices DEF StoreOrder, PlacesInv, PlacesTyped
  <1>1. ASSUME NEW i \in RanAs(c, n), NEW j \in RanAs(c, n), i < j PROVE FALSE
    BY <1>1 DEF StoreOrder, PlacesInv, InTurn, Before, RanAs
  <1>2. \A i, j \in RanAs(c, n) : i = j
    BY <1>0, <1>1 DEF RanAs
  <1>3. QueuedFor(c, n) => RanAs(c, n) = {}
    <2>1. ASSUME NEW a \in Actors, NEW k \in DOMAIN mailbox[a], mailbox[a][k].who = c, mailbox[a][k].n = n, NEW i \in RanAs(c, n) PROVE FALSE
      <3>1. i \in DOMAIN ran /\ ran[i].q.who = c /\ ran[i].q.n = n
        BY DEF RanAs
      <3>2. Before(ran[i].q, mailbox[a][k])
        BY <3>1 DEF StoreOrder, PlacesInv, InTurn
      <3> QED
        BY <3>1, <3>2, <2>1 DEF Before
    <2> QED
      BY <2>1 DEF QueuedFor
  <1>4. \A i \in RanAs(c, n) : ran[i].q = outcomes[c][n].q
    BY DEF StoreOrder, ToldSame, Told, RanAs
  <1>5. PICK o : o = outcomes[c][n] /\ o.q.who = c /\ o.q.n = n
    BY DEF StoreOrder, PlacesInv, OutcomesFit, ToldTruly
  <1>6. RanWith(o) => \E i \in RanAs(c, n) : ran[i].q = o.q /\ o.reply = {ran[i].said}
    BY <1>5 DEF RanWith, RanAs
  <1> QED
    BY <1>2, <1>3, <1>4, <1>5, <1>6

\* A command runs at most once, a refused one never.
LEMMA OnceOnly ==
    ASSUME StoreOrder
    PROVE  RefusedNeverRuns
  <1>1. ASSUME NEW c \in StoreCallers, NEW n \in DOMAIN outcomes[c]
        PROVE  /\ Cardinality(RanAs(c, n)) + (IF QueuedFor(c, n) THEN 1 ELSE 0) <= 1
               /\ outcomes[c][n].state \in {"ok", "error"} => \E i \in RanAs(c, n) : {ran[i].said} = outcomes[c][n].reply
               /\ outcomes[c][n].state \in {"refused", "gone", "cancelled"} => RanAs(c, n) = {} /\ ~QueuedFor(c, n)
    <2>1. PICK R : R = RanAs(c, n)
      OBVIOUS
    <2>2. /\ \A i, j \in R : i = j
          /\ QueuedFor(c, n) => R = {}
          /\ RanWith(outcomes[c][n]) => \E i \in R : outcomes[c][n].reply = {ran[i].said}
      BY <2>1, RunOnce
    <2>3. Cardinality(R) + (IF QueuedFor(c, n) THEN 1 ELSE 0) <= 1
      <3>1. CASE R = {}
        <4>1. Cardinality(R) = 0
          BY <3>1, FS_EmptySet
        <4> QED
          BY <4>1
      <3>2. CASE R # {}
        <4>1. PICK i : R = {i}
          BY <2>2, <3>2
        <4>2. Cardinality(R) = 1
          BY <4>1, FS_Singleton
        <4>3. ~QueuedFor(c, n)
          BY <2>2, <3>2
        <4> QED
          BY <4>2, <4>3
      <3> QED
        BY <3>1, <3>2
    <2>4. PICK o : o = outcomes[c][n] /\ ToldTruly(c, n, o)
      BY DEF StoreOrder, PlacesInv, OutcomesFit
    <2>5. o.state \in {"ok", "error"} => \E i \in R : {ran[i].said} = o.reply
      BY <2>2, <2>4 DEF ToldTruly
    <2>6. o.state \in {"refused", "gone", "cancelled"} => R = {} /\ ~QueuedFor(c, n)
      BY <2>1, <2>4 DEF ToldTruly, RanFor, RanAs
    <2> QED
      BY <2>1, <2>3, <2>4, <2>5, <2>6
  <1> QED
    BY <1>1 DEF RefusedNeverRuns, QueuedFor

\* Two answered requests of one caller to one actor ran in their order.
LEMMA RunInTurn ==
    ASSUME StoreOrder, NEW c \in StoreCallers, NEW n \in DOMAIN outcomes[c], NEW m \in DOMAIN outcomes[c], n < m,
           outcomes[c][n].q.actor = outcomes[c][m].q.actor, NEW i \in RanAs(c, n), NEW j \in RanAs(c, m)
    PROVE  i < j
  <1>1. PICK q, r : /\ q = outcomes[c][n].q /\ r = outcomes[c][m].q /\ ran[i].q = q /\ ran[j].q = r
    BY RunOnce
  <1>2. i \in DOMAIN ran /\ j \in DOMAIN ran /\ q.who = c /\ q.n = n /\ r.who = c /\ r.n = m
    BY <1>1 DEF RanAs
  <1>3. i \in Nat /\ j \in Nat /\ n \in Nat /\ m \in Nat
    <2>1. Len(ran) \in Nat /\ DOMAIN ran = 1..Len(ran)
      BY Indices DEF StoreOrder, PlacesInv, PlacesTyped
    <2>2. Len(outcomes[c]) \in Nat /\ DOMAIN outcomes[c] = 1..Len(outcomes[c])
      BY NothingLater DEF StoreOrder
    <2> QED
      BY <2>1, <2>2, <1>2
  <1>4. i # j
    BY <1>1, <1>2, <1>3
  <1>5. ~(j < i)
    <2>1. j < i => Before(r, q)
      BY <1>1, <1>2 DEF StoreOrder, PlacesInv, InTurn
    <2> QED
      BY <2>1, <1>1, <1>2, <1>3 DEF Before
  <1> QED
    BY <1>3, <1>4, <1>5

\* A caller reads its own writes.
LEMMA OwnWrites ==
    ASSUME StoreOrder
    PROVE  ReadsSeeOwnWrites
  <1>1. ASSUME NEW c \in StoreCallers, NEW n \in DOMAIN outcomes[c], NEW m \in DOMAIN outcomes[c], NEW w, NEW r, w = outcomes[c][n], r = outcomes[c][m]
        PROVE  /\ ( /\ n < m /\ w.state = "ok" /\ w.q.does \in {"ignore", "append", "upsert"}
                    /\ r.state = "ok" /\ r.q.does = "list" /\ r.q.table = w.q.table )
                  => \/ \E i \in RanAs(c, n), j \in RanAs(c, m) : \E k \in (i + 1)..(j - 1) :
                           Takes(ran[k].q) /\ ran[k].q.table = w.q.table /\ ran[k].q.key # w.q.key
                     \/ \A x \in r.reply : w.q.key \in RowKeys(x)
               /\ (w.state = "ok" /\ w.q.does = "refresh" /\ w.q.since <= w.q.at) => \A x \in w.reply : w.q.key \in RowKeys(x)
               /\ \A i \in RanAs(c, n), j \in RanAs(c, m) : (n < m /\ w.q.actor = r.q.actor) => i < j
    <2>1. ToldTruly(c, n, w) /\ ToldTruly(c, m, r)
      BY <1>1 DEF StoreOrder, PlacesInv, OutcomesFit
    <2>2. w.state = "ok" => \E i \in RanAs(c, n) : ran[i].q = w.q /\ w.reply = {ran[i].said}
      <3>1. w.state = "ok" => RanWith(w)
        BY <2>1 DEF ToldTruly
      <3> QED
        BY <3>1, <1>1, RunOnce
    <2>3. r.state = "ok" => \E j \in RanAs(c, m) : ran[j].q = r.q /\ r.reply = {ran[j].said}
      <3>1. r.state = "ok" => RanWith(r)
        BY <2>1 DEF ToldTruly
      <3> QED
        BY <3>1, <1>1, RunOnce
    <2>4. \A i \in RanAs(c, n), j \in RanAs(c, m) : (n < m /\ w.q.actor = r.q.actor) => i < j
      BY <1>1, RunInTurn
    <2>5. ASSUME w.state = "ok", w.q.does = "refresh", w.q.since <= w.q.at PROVE \A x \in w.reply : w.q.key \in RowKeys(x)
      <3>1. PICK i \in RanAs(c, n) : ran[i].q = w.q /\ w.reply = {ran[i].said}
        BY <2>2, <2>5
      <3>2. w.q.key \in RowKeys(ran[i].said)
        BY <3>1, <2>5 DEF StoreOrder, TablesInv, WindowsShow, RanAs
      <3> QED
        BY <3>1, <3>2
    <2>6. ASSUME n < m, w.state = "ok", w.q.does \in {"ignore", "append", "upsert"}, r.state = "ok", r.q.does = "list", r.q.table = w.q.table
          PROVE  \/ \E i \in RanAs(c, n), j \in RanAs(c, m) : \E k \in (i + 1)..(j - 1) :
                       Takes(ran[k].q) /\ ran[k].q.table = w.q.table /\ ran[k].q.key # w.q.key
                 \/ \A x \in r.reply : w.q.key \in RowKeys(x)
      <3>1. PICK i \in RanAs(c, n) : ran[i].q = w.q /\ w.reply = {ran[i].said}
        BY <2>2, <2>6
      <3>2. PICK j \in RanAs(c, m) : ran[j].q = r.q /\ r.reply = {ran[j].said}
        BY <2>3, <2>6
      <3>3. i \in DOMAIN ran /\ j \in DOMAIN ran
        BY DEF RanAs
      <3>4. w.q.actor = r.q.actor /\ w.q.table \notin Windows
        <4>1. Fit(w.q) /\ Fit(r.q)
          BY <2>1 DEF ToldTruly, IsCommand
        <4> QED
          BY <4>1, <2>6 DEF Fit, Actors
      <3>5. i < j
        BY <3>4, <2>4, <2>6
      <3>6. w.q.key \in RowKeys(ran[j].said) \/ Taken(i, j, w.q.table, w.q.key)
        BY <3>1, <3>2, <3>3, <3>5, <2>6 DEF StoreOrder, TablesInv, ListsShow, KeyWrites
      <3>7. ASSUME Taken(i, j, w.q.table, w.q.key)
            PROVE  \E k \in (i + 1)..(j - 1) : Takes(ran[k].q) /\ ran[k].q.table = w.q.table /\ ran[k].q.key # w.q.key
        <4>1. PICK k \in (i + 1)..(j - 1) : TakesKey(ran[k].q, w.q.table, w.q.key)
          BY <3>7 DEF Taken
        <4>2. k \in DOMAIN ran
          <5>1. Len(ran) \in Nat /\ DOMAIN ran = 1..Len(ran)
            BY Indices DEF StoreOrder, PlacesInv, PlacesTyped
          <5> QED
            BY <5>1, <3>3
        <4>3. PICK t : t = ran[k].q /\ Fit(t)
          BY <4>2 DEF StoreOrder, PlacesInv, RanFit, IsCommand
        <4>4. t.does = "replace"
          BY <4>1, <4>3, <3>4 DEF TakesKey, Takes, Fit
        <4> QED
          BY <4>1, <4>3, <4>4 DEF TakesKey
      <3> QED
        BY <3>2, <3>6, <3>7
    <2> QED
      BY <2>4, <2>5, <2>6
  <1> QED
    BY <1>1 DEF ReadsSeeOwnWrites

(* The store's threads answer as one serial store would: a refused request    *)
(* never runs, a caller reads its own writes, one request consumes a nonce,    *)
(* guarded commits do not fork the fee state, and the provenance of an import  *)
(* stays with the first generation.                                         *)
THEOREM StoreSerial == StoreSpec => []StoreIsSerial
  <1>1. StoreOrder => StoreIsSerial
    <2>1. SUFFICES ASSUME StoreOrder PROVE StoreIsSerial
      OBVIOUS
    <2>2. FirstNonceWins /\ CommitsDoNotFork /\ SeedDescribesFirst
      BY <2>1 DEF StoreOrder, TablesInv
    <2> QED
      BY <2>1, <2>2, OnceOnly, OwnWrites DEF StoreIsSerial
  <1> QED
    BY <1>1, StoreInvariant, PTL

-----------------------------------------------------------------------------
(***************************************************************************)
(* The throwaway layers of the pricing cycles, for any routers and exclude   *)
(* sets.  A layer is named once: its number is new when it is made.          *)
(***************************************************************************)

\* What a router remembers of a layer, and the layer.
Reference == [key : ExcludeSets, id : Nat]
RouterState == [on : BOOLEAN, cache : SUBSET Reference, build : SUBSET Reference]
Layer == [id : Nat, key : ExcludeSets, ready : SUBSET UNION ExcludeSets]

LayersTyped ==
    /\ live \subseteq Layer /\ router \in [Routers -> RouterState] /\ minted \in Nat
    /\ \A l \in live : l.ready \subseteq l.key
    /\ \A r \in Routers : \A b, c \in router[r].build : b = c

\* No number beyond the counter is in use, and no two layers share one.
NamesAreMinted ==
    /\ \A l \in live : l.id <= minted
    /\ \A r \in Routers : \A n \in Of(r) : n <= minted
    /\ \A l, m \in live : l.id = m.id => l = m

\* A layer that is being built is the one its router asked for.
BuildsAreTheirs == \A r \in Routers : \A b \in router[r].build : \A l \in live : l.id = b.id => l.key = b.key

LayerInv ==
    /\ LayersTyped /\ NamesAreMinted /\ BuildsAreTheirs
    /\ NoLeakedLayer /\ CachedLayersAreWhole /\ LayersAreNotShared

\* The layers of a router are those it cached and the one it builds.
LEMMA OfIs ==
    ASSUME LayersTyped, NEW r \in Routers
    PROVE  /\ Of(r) \subseteq Nat
           /\ \A b \in router[r].cache \cup router[r].build : b \in Reference /\ b.id \in Of(r)
           /\ \A n \in Of(r) : \E b \in router[r].cache \cup router[r].build : b.id = n
  BY DEF LayersTyped, RouterState, Reference, Of

LEMMA LayersStart == LayerInit => LayerInv
  <1> SUFFICES ASSUME LayerInit PROVE LayerInv OBVIOUS
  <1>1. /\ live = {} /\ minted = 0 /\ \A r \in Routers : router[r] = Closed
        /\ router \in [Routers -> RouterState]
    BY DEF LayerInit, Closed, RouterState
  <1>2. \A r \in Routers : router[r].cache = {} /\ router[r].build = {} BY <1>1 DEF Closed
  <1>3. \A r \in Routers : Of(r) = {} BY <1>2 DEF Of
  <1> QED
    BY <1>1, <1>2, <1>3 DEF LayerInv, LayersTyped, NamesAreMinted, BuildsAreTheirs, NoLeakedLayer, CachedLayersAreWhole, LayersAreNotShared

\* Layers are removed, and routers forget some of what they knew.  Nothing is
\* leaked when what a router forgets was removed or is an orphan.
LEMMA Forgotten ==
    ASSUME LayerInv, live' \subseteq live, minted' = minted,
           router' \in [Routers -> RouterState],
           \A r \in Routers : router'[r].cache \subseteq router[r].cache /\ router'[r].build \subseteq router[r].build,
           \A l \in live' : l.id \in orphans => l.id \in orphans',
           \A r \in Routers : \A b \in router[r].cache \cup router[r].build :
               b \in router'[r].cache \cup router'[r].build \/ \A l \in live' : l.id = b.id => l.id \in orphans'
    PROVE  LayerInv'
  <1>0. /\ LayersTyped /\ NamesAreMinted /\ BuildsAreTheirs /\ NoLeakedLayer /\ CachedLayersAreWhole /\ LayersAreNotShared
    BY DEF LayerInv
  <1>1. LayersTyped' BY <1>0 DEF LayersTyped
  <1>2. \A r \in Routers : Of(r)' \subseteq Of(r) BY DEF Of
  <1>3. NamesAreMinted' BY <1>0, <1>2 DEF NamesAreMinted
  <1>4. BuildsAreTheirs' BY <1>0 DEF BuildsAreTheirs
  <1>5. CachedLayersAreWhole' BY <1>0 DEF CachedLayersAreWhole
  <1>6. LayersAreNotShared' BY <1>0, <1>2 DEF LayersAreNotShared
  <1>7. NoLeakedLayer'
    <2>1. ASSUME NEW l \in live', l.id \notin orphans' PROVE \E r \in Routers : l.id \in Of(r)'
      <3>1. l.id \notin orphans BY <2>1
      <3>2. PICK r \in Routers : l.id \in Of(r) BY <1>0, <2>1, <3>1 DEF NoLeakedLayer
      <3>3. PICK b \in router[r].cache \cup router[r].build : b.id = l.id BY <1>0, <3>2, OfIs
      <3>4. b \in router'[r].cache \cup router'[r].build BY <2>1, <3>3
      <3>5. b.id \in Of(r)' BY <3>4 DEF Of
      <3> QED BY <3>3, <3>5
    <2> QED BY <2>1 DEF NoLeakedLayer
  <1> QED BY <1>1, <1>3, <1>4, <1>5, <1>6, <1>7 DEF LayerInv

\* One router's record is replaced.
LEMMA OneRouter ==
    ASSUME LayersTyped, NEW r \in Routers, NEW x \in RouterState, router' = [router EXCEPT ![r] = x]
    PROVE  /\ router' \in [Routers -> RouterState] /\ router'[r] = x
           /\ \A s \in Routers : s # r => router'[s] = router[s]
  BY DEF LayersTyped

LEMMA LayersStep ==
    ASSUME LayerInv, [LayerNext]_layerVars
    PROVE  LayerInv'
  <1>0. /\ LayersTyped /\ NamesAreMinted /\ BuildsAreTheirs /\ NoLeakedLayer /\ CachedLayersAreWhole /\ LayersAreNotShared
        /\ router \in [Routers -> RouterState] /\ live \subseteq Layer /\ minted \in Nat
    BY DEF LayerInv, LayersTyped
  <1>1. CASE UNCHANGED layerVars
    <2>1. /\ live' = live /\ router' = router /\ minted' = minted /\ orphans' = orphans BY <1>1 DEF layerVars
    <2> QED BY <1>0, <2>1, Forgotten
  <1>2. CASE ProcessDies
    <2>1. /\ live' = live /\ minted' = minted /\ orphans' = orphans \cup UNION { Of(r) : r \in Routers }
          /\ router' = [r \in Routers |-> Closed]
      BY <1>2 DEF ProcessDies
    <2>2. /\ router' \in [Routers -> RouterState]
          /\ \A r \in Routers : router'[r].cache = {} /\ router'[r].build = {}
      BY <2>1 DEF Closed, RouterState
    <2>3. \A r \in Routers : \A b \in router[r].cache \cup router[r].build : b.id \in orphans'
      BY <1>0, <2>1, OfIs
    <2> QED BY <1>0, <2>1, <2>2, <2>3, Forgotten
  <1>3. CASE AskreneRestarts
    <2>1. live' = {} /\ router' = router /\ minted' = minted /\ orphans' = orphans BY <1>3 DEF AskreneRestarts
    <2> QED BY <1>0, <2>1, Forgotten
  <1>4. CASE Sweep
    <2>1. PICK failed : RemoveLayers({ l.id : l \in live }, failed) /\ router' = router /\ minted' = minted
      BY <1>4 DEF Sweep
    <2>2. live' \subseteq live /\ orphans' = orphans \cup failed BY <2>1 DEF RemoveLayers
    <2> QED BY <1>0, <2>1, <2>2, Forgotten
  <1>5. ASSUME NEW r \in Routers, BeginCycle(r) PROVE LayerInv'
    <2>1. /\ live' = live /\ minted' = minted /\ orphans' = orphans
          /\ router' = [router EXCEPT ![r] = [router[r] EXCEPT !.on = TRUE]]
      BY <1>5 DEF BeginCycle
    <2>2. [router[r] EXCEPT !.on = TRUE] \in RouterState BY <1>0 DEF RouterState
    <2>3. /\ router' \in [Routers -> RouterState] /\ router'[r] = [router[r] EXCEPT !.on = TRUE]
          /\ \A s \in Routers : s # r => router'[s] = router[s]
      BY <1>0, <2>1, <2>2, OneRouter
    <2>4. router'[r].cache = router[r].cache /\ router'[r].build = router[r].build BY <1>0, <2>3 DEF RouterState
    <2> QED BY <1>0, <2>1, <2>3, <2>4, Forgotten
  <1>6. ASSUME NEW r \in Routers, NEW key \in ExcludeSets, CreateLayer(r, key) PROVE LayerInv'
    <2> DEFINE n == minted + 1
    <2> DEFINE x == [router[r] EXCEPT !.build = {[key |-> key, id |-> n]}]
    <2> DEFINE new == [id |-> n, key |-> key, ready |-> {}]
    <2>1. /\ minted' = n /\ orphans' = orphans /\ live' = live \cup {new}
          /\ router' = [router EXCEPT ![r] = x] /\ router[r].build = {}
      BY <1>6 DEF CreateLayer, mint_exclude_layer_name
    <2>2. x \in RouterState /\ x.cache = router[r].cache /\ x.build = {[key |-> key, id |-> n]}
      BY <1>0 DEF RouterState, Reference
    <2>3. /\ router' \in [Routers -> RouterState] /\ router'[r] = x
          /\ \A s \in Routers : s # r => router'[s] = router[s]
      BY <1>0, <2>1, <2>2, OneRouter
    <2>4. n \in Nat /\ n > minted /\ new \in Layer /\ new.id = n /\ new.key = key /\ new.ready = {}
      BY <1>0 DEF Layer
    <2>5. /\ Of(r)' = Of(r) \cup {n}
          /\ \A s \in Routers : s # r => Of(s)' = Of(s)
      <3>1. \A s \in Routers : s # r => Of(s)' = Of(s) BY <2>3 DEF Of
      <3>2. PICK b : b = [key |-> key, id |-> n] OBVIOUS
      <3>3. router'[r].cache \cup router'[r].build = router[r].cache \cup {b} BY <2>2, <2>3, <3>2
      <3>4. Of(r)' = { l.id : l \in router[r].cache \cup {b} } BY <3>3 DEF Of
      <3>5. Of(r) = { l.id : l \in router[r].cache } BY <2>1 DEF Of
      <3>6. b.id = n BY <3>2
      <3>7. Of(r)' = Of(r) \cup {b.id} BY <3>4, <3>5
      <3> QED BY <3>1, <3>6, <3>7
    <2>6. /\ \A l \in live : l.id \in Nat /\ l.id <= minted
          /\ \A s \in Routers : \A m \in Of(s) : m \in Nat /\ m <= minted
      BY <1>0, OfIs DEF NamesAreMinted, Layer
    <2>7. /\ \A l \in live : l.id # n
          /\ \A s \in Routers : n \notin Of(s)
      BY <1>0, <2>4, <2>6
    <2> HIDE DEF n, x, new
    <2>8. LayersTyped'
      <3>1. \A s \in Routers : \A b, c \in router'[s].build : b = c BY <1>0, <2>2, <2>3 DEF LayersTyped
      <3> QED BY <1>0, <2>1, <2>3, <2>4, <3>1 DEF LayersTyped
    <2>9. NamesAreMinted'
      <3>1. \A l \in live' : l.id <= minted' BY <1>0, <2>1, <2>4, <2>6
      <3>2. \A s \in Routers : \A m \in Of(s)' : m <= minted'
        <4>1. ASSUME NEW s \in Routers, NEW m \in Of(s)' PROVE m <= minted'
          <5>1. m = n \/ m \in Of(s) BY <2>5, <4>1
          <5> QED BY <1>0, <2>1, <2>4, <2>6, <5>1
        <4> QED BY <4>1
      <3>3. \A l, m \in live' : l.id = m.id => l = m BY <1>0, <2>1, <2>4, <2>7 DEF NamesAreMinted
      <3> QED BY <3>1, <3>2, <3>3 DEF NamesAreMinted
    <2>10. BuildsAreTheirs'
      <3>1. ASSUME NEW s \in Routers, NEW b \in router'[s].build, NEW l \in live', l.id = b.id PROVE l.key = b.key
        <4>1. CASE s = r
          <5>1. b.id = n /\ b.key = key BY <2>2, <2>3, <3>1, <4>1
          <5>2. l = new BY <2>1, <2>7, <3>1, <5>1
          <5> QED BY <2>4, <5>1, <5>2
        <4>2. CASE s # r
          <5>1. b \in router[s].build /\ b.id \in Of(s) BY <1>0, <2>3, <3>1, <4>2, OfIs
          <5>2. l \in live BY <2>1, <2>4, <2>7, <3>1, <5>1
          <5> QED BY <1>0, <3>1, <5>1, <5>2 DEF BuildsAreTheirs
        <4> QED BY <4>1, <4>2
      <3> QED BY <3>1 DEF BuildsAreTheirs
    <2>11. CachedLayersAreWhole'
      <3>1. ASSUME NEW s \in Routers, NEW c \in router'[s].cache, NEW l \in live', l.id = c.id
            PROVE l.ready = c.key /\ l.key = c.key
        <4>1. c \in router[s].cache /\ c.id \in Of(s) BY <1>0, <2>2, <2>3, <3>1, OfIs
        <4>2. l \in live BY <2>1, <2>4, <2>7, <3>1, <4>1
        <4> QED BY <1>0, <3>1, <4>1, <4>2 DEF CachedLayersAreWhole
      <3> QED BY <3>1 DEF CachedLayersAreWhole
    <2>12. NoLeakedLayer'
      BY <1>0, <2>1, <2>4, <2>5 DEF NoLeakedLayer
    <2>13. LayersAreNotShared'
      BY <1>0, <2>5, <2>7 DEF LayersAreNotShared
    <2> QED BY <2>8, <2>9, <2>10, <2>11, <2>12, <2>13 DEF LayerInv
  <1>7. ASSUME NEW r \in Routers, NEW entry, UpdateChannel(r, entry) PROVE LayerInv'
    <2>1. PICK b \in router[r].build, l \in live :
             /\ l.id = b.id /\ entry \in l.key \ l.ready
             /\ live' = (live \ {l}) \cup {[l EXCEPT !.ready = @ \cup {entry}]}
             /\ router' = [router EXCEPT ![r].cache = router[r].cache]
             /\ minted' = minted /\ orphans' = orphans
      BY <1>7 DEF UpdateChannel, CacheWhile
    <2>2. router' = router BY <1>0, <2>1 DEF RouterState
    <2>3. PICK m : m = [l EXCEPT !.ready = @ \cup {entry}] OBVIOUS
    <2>4. l \in Layer /\ l.ready \subseteq l.key BY <1>0, <2>1 DEF LayersTyped
    <2>5. m \in Layer /\ m.id = l.id /\ m.key = l.key /\ m.ready = l.ready \cup {entry} /\ m.ready \subseteq m.key
      BY <2>1, <2>3, <2>4 DEF Layer
    <2>6. live' = (live \ {l}) \cup {m} BY <2>1, <2>3
    <2>7. \A s \in Routers : Of(s)' = Of(s) BY <2>2 DEF Of
    \* A layer that is still being completed is nobody's cached one.
    <2>8. \A s \in Routers : \A c \in router[s].cache : c.id # l.id
      BY <1>0, <2>1, <2>4 DEF CachedLayersAreWhole
    <2>9. LayersTyped' BY <1>0, <2>1, <2>2, <2>5, <2>6 DEF LayersTyped
    <2>10. NamesAreMinted'
      <3>1. \A k \in live' : k.id <= minted' BY <1>0, <2>1, <2>5, <2>6 DEF NamesAreMinted
      <3>2. \A s \in Routers : \A k \in Of(s)' : k <= minted' BY <1>0, <2>1, <2>7 DEF NamesAreMinted
      <3>3. \A j, k \in live' : j.id = k.id => j = k BY <1>0, <2>1, <2>5, <2>6 DEF NamesAreMinted
      <3> QED BY <3>1, <3>2, <3>3 DEF NamesAreMinted
    <2>11. BuildsAreTheirs' BY <1>0, <2>1, <2>2, <2>5, <2>6 DEF BuildsAreTheirs
    <2>12. CachedLayersAreWhole' BY <1>0, <2>2, <2>5, <2>6, <2>8 DEF CachedLayersAreWhole
    <2>13. NoLeakedLayer' BY <1>0, <2>1, <2>5, <2>6, <2>7 DEF NoLeakedLayer
    <2>14. LayersAreNotShared' BY <1>0, <2>7 DEF LayersAreNotShared
    <2> QED BY <2>9, <2>10, <2>11, <2>12, <2>13, <2>14 DEF LayerInv
  <1>8. ASSUME NEW r \in Routers, BuildDone(r) PROVE LayerInv'
    <2>1. PICK b \in router[r].build :
             /\ \E l \in live : l.id = b.id /\ l.ready = l.key
             /\ router' = [router EXCEPT ![r].build = {}, ![r].cache = @ \cup {b}]
             /\ live' = live /\ minted' = minted /\ orphans' = orphans
      BY <1>8 DEF BuildDone
    <2>2. PICK x : x = [router[r] EXCEPT !.build = {}, !.cache = @ \cup {b}] OBVIOUS
    <2>3. x \in RouterState /\ x.build = {} /\ x.cache = router[r].cache \cup {b}
      BY <1>0, <2>1, <2>2 DEF RouterState
    <2>4. router' = [router EXCEPT ![r] = x] BY <1>0, <2>1, <2>2 DEF RouterState
    <2>5. /\ router' \in [Routers -> RouterState] /\ router'[r] = x
          /\ \A s \in Routers : s # r => router'[s] = router[s]
      BY <1>0, <2>3, <2>4, OneRouter
    <2>6. router[r].build = {b} BY <1>0, <2>1 DEF LayersTyped
    <2>7. \A s \in Routers : Of(s)' = Of(s) BY <2>3, <2>5, <2>6 DEF Of
    <2>8. LayersTyped' BY <1>0, <2>1, <2>3, <2>5 DEF LayersTyped
    <2>9. NamesAreMinted' BY <1>0, <2>1, <2>7 DEF NamesAreMinted
    <2>10. BuildsAreTheirs' BY <1>0, <2>1, <2>3, <2>5 DEF BuildsAreTheirs
    <2>11. CachedLayersAreWhole'
      <3>1. ASSUME NEW l \in live, l.id = b.id PROVE l.ready = b.key /\ l.key = b.key
        BY <1>0, <2>1, <3>1 DEF NamesAreMinted, BuildsAreTheirs
      <3> QED BY <1>0, <2>1, <2>3, <2>5, <3>1 DEF CachedLayersAreWhole
    <2>12. NoLeakedLayer' BY <1>0, <2>1, <2>7 DEF NoLeakedLayer
    <2>13. LayersAreNotShared' BY <1>0, <2>7 DEF LayersAreNotShared
    <2> QED BY <2>8, <2>9, <2>10, <2>11, <2>12, <2>13 DEF LayerInv
  \* Every way in which a router gives up some or all of its layers.
  <1>9. ASSUME NEW r \in Routers, NEW x \in RouterState, NEW failed, NEW ids \in SUBSET Of(r),
               router' = [router EXCEPT ![r] = x], minted' = minted, RemoveLayers(ids, failed),
               x.cache \subseteq router[r].cache, x.build \subseteq router[r].build,
               \A b \in router[r].cache \cup router[r].build : b \in x.cache \cup x.build \/ b.id \in ids
        PROVE  LayerInv'
    <2>1. /\ live' = { l \in live : l.id \notin ids \ failed } /\ orphans' = orphans \cup failed
      BY <1>9 DEF RemoveLayers
    <2>2. /\ router' \in [Routers -> RouterState] /\ router'[r] = x
          /\ \A s \in Routers : s # r => router'[s] = router[s]
      BY <1>0, <1>9, OneRouter
    <2>3. ASSUME NEW s \in Routers, NEW b \in router[s].cache \cup router[s].build,
                 b \notin router'[s].cache \cup router'[s].build, NEW l \in live', l.id = b.id
          PROVE  l.id \in orphans'
      <3>1. s = r /\ b.id \in ids BY <1>9, <2>2, <2>3
      <3> QED BY <2>1, <2>3, <3>1
    <2>4. live' \subseteq live BY <2>1
    <2>5. \A l \in live' : l.id \in orphans => l.id \in orphans' BY <2>1
    <2>6. \A s \in Routers : router'[s].cache \subseteq router[s].cache /\ router'[s].build \subseteq router[s].build
      BY <1>9, <2>2
    <2> QED BY <1>9, <2>2, <2>3, <2>4, <2>5, <2>6, Forgotten
  <1>10. ASSUME NEW r \in Routers, BuildFails(r) PROVE LayerInv'
    <2>1. PICK failed : RemoveLayers({ b.id : b \in router[r].build }, failed) BY <1>10 DEF BuildFails, RollBack
    <2>2. PICK x : x = [router[r] EXCEPT !.build = {}] OBVIOUS
    <2>3. x \in RouterState /\ x.build = {} /\ x.cache = router[r].cache BY <1>0, <2>2 DEF RouterState
    <2>4. router' = [router EXCEPT ![r] = x] /\ minted' = minted BY <1>10, <2>2 DEF BuildFails
    <2>5. PICK ids : ids = { b.id : b \in router[r].build } OBVIOUS
    <2>6. ids \subseteq Of(r) /\ \A b \in router[r].build : b.id \in ids BY <2>5 DEF Of
    <2> QED BY <1>9, <2>1, <2>3, <2>4, <2>5, <2>6
  <1>11. ASSUME NEW r \in Routers, UnknownLayer(r) PROVE LayerInv'
    <2>1. PICK failed : RemoveLayers(Of(r), failed) BY <1>11 DEF UnknownLayer
    <2>2. PICK x : x = [router[r] EXCEPT !.cache = {}] OBVIOUS
    <2>3. x \in RouterState /\ x.build = router[r].build /\ x.cache = {} BY <1>0, <2>2 DEF RouterState
    <2>4. router' = [router EXCEPT ![r] = x] /\ minted' = minted BY <1>11, <2>2 DEF UnknownLayer
    <2>5. \A b \in router[r].cache \cup router[r].build : b.id \in Of(r) BY <1>0, OfIs
    <2> QED BY <1>9, <2>1, <2>3, <2>4, <2>5
  <1>12. ASSUME NEW r \in Routers, EndCycle(r) PROVE LayerInv'
    <2>1. PICK failed : RemoveLayers(Of(r), failed) BY <1>12 DEF EndCycle
    <2>2. Closed \in RouterState /\ Closed.cache = {} /\ Closed.build = {} BY DEF Closed, RouterState
    <2>3. router' = [router EXCEPT ![r] = Closed] /\ minted' = minted BY <1>12 DEF EndCycle
    <2>4. \A b \in router[r].cache \cup router[r].build : b.id \in Of(r) BY <1>0, OfIs
    <2> QED BY <1>9, <2>1, <2>2, <2>3, <2>4
  <1> QED
    BY <1>1, <1>2, <1>3, <1>4, <1>5, <1>6, <1>7, <1>8, <1>10, <1>11, <1>12 DEF LayerNext, RouterStep

\* However builds, removals and whole processes fail, no layer is leaked
\* unrecorded, a cached layer excludes all it should, and no two cycles share a
\* layer (router.rs, CycleRouter).
THEOREM LayersAreKept == LayerSpec => [](NoLeakedLayer /\ CachedLayersAreWhole /\ LayersAreNotShared)
  <1>1. LayerInit => LayerInv BY LayersStart
  <1>2. LayerInv /\ [LayerNext]_layerVars => LayerInv' BY LayersStep
  <1>3. LayerInv => NoLeakedLayer /\ CachedLayersAreWhole /\ LayersAreNotShared BY DEF LayerInv
  <1> QED BY <1>1, <1>2, <1>3, PTL DEF LayerSpec
============================================================================
