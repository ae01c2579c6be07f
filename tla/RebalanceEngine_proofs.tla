----------------------- MODULE RebalanceEngine_proofs -----------------------
(***************************************************************************)
(* Theorems about RebalanceEngine, for any channels, fees, budgets and       *)
(* number of executions, payments and concurrent workers.                    *)
(***************************************************************************)
EXTENDS RebalanceEngine, SumTheorems

\* The engine reserves and accounts for these; the facade for the others.
ByEngine(job) == job.mode \in {"cycle", "diagnostic"}

\* The payment can no longer take a fee, as far as the engine can tell.
Dead(job) == job.wire \in {"none", "failed"} \/ job.cut

Charge(job) == IF job.paid > 0 THEN 1 ELSE 0

Unspent(job) == job.cost = 0 /\ job.reservation \in {"none", "active"}

\* A payment without an answer: its row waits for the sweep, or was swept.
Swept(job) ==
    \/ job.status = "pending_settlement" /\ Unspent(job)
    \/ /\ job.status = "success" /\ job.wire = "complete"
       /\ job.cost = Charge(job) /\ job.reservation \in {"none", "spent"}
    \/ /\ job.status = "failed" /\ job.wire \in {"none", "failed"}
       /\ job.cost = 0 /\ job.reservation \in {"none", "released"}

\* The result is known, its reservation and perhaps its cost are not settled.
Handed(job) ==
    CASE job.class = "success" -> job.status = "success" /\ job.wire = "complete" /\ Unspent(job)
      [] job.class = "failed"  -> job.status \in {"pending", "failed"} /\ Dead(job) /\ Unspent(job)
      [] job.class = "pending" -> Swept(job)
      [] OTHER                 -> FALSE

\* Row, cost and reservation are settled, or left to the sweep.
Closed(job) ==
    CASE job.class = "success" -> /\ job.status = "success" /\ job.wire = "complete"
                                  /\ job.cost = Charge(job)
                                  /\ job.reservation \in {"none", "spent"}
      [] job.class = "failed"  -> /\ job.status \in {"none", "pending", "failed"} /\ Dead(job)
                                  /\ job.cost = 0 /\ job.reservation \in {"none", "released"}
      [] job.class = "pending" -> Swept(job)
      [] job.class = "blocked" -> /\ job.status \in {"skipped", "failed"} /\ job.wire = "none"
                                  /\ job.cost = 0 /\ job.reservation = "none"
      [] OTHER                 -> FALSE

\* What each point of an execution may rely on.
JobInv(job) ==
    /\ job.phase \in {"unused", "call", "policy", "reserve"} =>
           /\ job.status \in {"none", "pending"} /\ job.class = "none"
           /\ job.wire = "none" /\ ~job.cut /\ Unspent(job)
           /\ job.reservation = "active" => job.mode = "execute"
    /\ job.phase = "unused" \/ (job.phase = "policy" /\ job.mode = "cycle") => job.status = "none"
    /\ job.phase = "reserve" => ByEngine(job) /\ job.status = "pending"
    /\ job.phase = "pay" =>
           /\ job.status = "pending" /\ job.wire \in {"none", "failed"}
           /\ ~job.cut /\ Unspent(job)
    /\ job.phase = "wait" =>
           /\ job.status = "pending" /\ job.wire # "none" /\ ~job.cut /\ Unspent(job)
    /\ job.phase = "record" =>
           /\ job.status = "pending" /\ Unspent(job)
           /\ job.class \in {"success", "pending", "failed"}
           /\ job.class = "success" => job.wire = "complete"
           /\ job.class = "failed" => Dead(job)
    /\ job.phase = "finish" =>
           IF ByEngine(job) /\ job.class = "success"
           THEN /\ job.status = "success" /\ job.wire = "complete" /\ job.cost = Charge(job)
                /\ job.reservation \in {"none", "active"}
           ELSE Handed(job)
    /\ job.phase \in {"leave", "sent", "returned"} =>
           IF ByEngine(job) THEN Closed(job) ELSE Handed(job)
    /\ job.phase \in {"retry", "done"} => Closed(job)
    /\ job.phase = "sent" => job.mode = "cycle"
    /\ job.phase \in {"returned", "call"} => job.mode # "cycle"
    /\ job.phase \in {"finish", "leave", "sent", "retry", "done"} => job.status # "pending"
    /\ job.mode = "manual" => job.reservation = "none"

\* Executions are opened in order.
NumberInv == \E n \in 0..MaxJobs : Opened = 1..n

\* The rows a sweep still has to visit are waiting for it.
ParkedInv == \A j \in parked : jobs[j].status = "pending_settlement"

EngineInv == NumberInv /\ ParkedInv /\ \A j \in Jobs : JobInv(jobs[j])

\* An execution whose cycle, or caller, still counts on it.
OnTime(j) ==
    \/ At(j, "policy") /\ (jobs[j].mode = "cycle" => j \in awaited)
    \/ InWindow(j) /\ ~jobs[j].late

\* An explicit execution inside the engine.
Explicit(j) == jobs[j].mode # "cycle" /\ (At(j, "policy") \/ InWindow(j))

Engaged(dest) == {j \in Jobs : InWindow(j) /\ Dst(j) = dest}

\* Who holds the lock, who is counted, and who may share a destination.
WindowInv ==
    /\ \A d \in Dests : inflight[d] = Cardinality(Engaged(d))
    /\ (lock = "cycle") <=> (cycle # "idle")
    /\ awaited # {} => cycle \in {"collect", "drain"}
    /\ \A j \in awaited : jobs[j].mode = "cycle" /\ ~At(j, "unused")
    /\ \A j \in Jobs : Explicit(j) => lock = "explicit"
    /\ \A i, j \in Jobs : Explicit(i) /\ Explicit(j) => i = j
    /\ \A i, j \in Jobs : OnTime(i) /\ OnTime(j) /\ i # j => Dst(i) # Dst(j)

-----------------------------------------------------------------------------
(* One execution at a time *)

\* What a step of an execution leaves alone: which execution it is, the other
\* executions, a row that is closed.
Stepped(j) ==
    /\ jobs' \in [Jobs -> Job]
    /\ \A i \in Jobs \ {j} : jobs'[i] = jobs[i]
    /\ jobs'[j].pair = jobs[j].pair /\ jobs'[j].mode = jobs[j].mode
    /\ jobs[j].phase # "unused" /\ jobs'[j].phase # "unused"
    /\ JobInv(jobs'[j])
    /\ jobs[j].status \in {"success", "failed"} => jobs'[j].status = jobs[j].status

\* Nor does it touch a row that waits for the sweep.
Moved(j) ==
    /\ Stepped(j)
    /\ jobs[j].status = "pending_settlement" => jobs'[j].status = "pending_settlement"

\* The parts of JobInv.
USE DEF ByEngine, Dead, Charge, Unspent

\* execute_pair up to the payment.
LEMMA EnterMoves ==
    ASSUME TypeOK, NEW j \in Jobs, JobInv(jobs[j]), PolicyBlocks(j) \/ PricingFails(j) \/ Enter(j)
    PROVE  Moved(j)
  <1>0. jobs[j] \in Job /\ jobs \in [Jobs -> Job] BY DEF TypeOK
  <1>1. CASE PolicyBlocks(j)
    <2>1. At(j, "policy")
      BY <1>1 DEF PolicyBlocks, LeaveWith
    <2>2. CASE /\ jobs[j].mode = "cycle"
               /\ jobs' = [jobs EXCEPT ![j].class = "failed", ![j].route = FALSE,
                                       ![j].phase = "sent"]
      <3> DEFINE new == [jobs[j] EXCEPT !.class = "failed", !.route = FALSE, !.phase = "sent"]
      <3>a. jobs' = [jobs EXCEPT ![j] = new] BY <1>0, <2>1, <2>2
      <3>b. new \in Job BY <1>0 DEF Job, Phases, Window
      <3>c. JobInv(new) BY <1>0, <2>1, <2>2 DEF JobInv, Job, At, Handed, Closed
      <3> QED BY <1>0, <3>a, <3>b, <3>c, <2>1, <2>2 DEF Moved, Stepped, Job, At, JobInv
    <2>3. CASE /\ jobs[j].mode = "cycle"
               /\ jobs' = [jobs EXCEPT ![j].class = "failed", ![j].route = FALSE,
                                       ![j].phase = "done"]
      <3> DEFINE new == [jobs[j] EXCEPT !.class = "failed", !.route = FALSE, !.phase = "done"]
      <3>a. jobs' = [jobs EXCEPT ![j] = new] BY <1>0, <2>1, <2>3
      <3>b. new \in Job BY <1>0 DEF Job, Phases, Window
      <3>c. JobInv(new) BY <1>0, <2>1, <2>3 DEF JobInv, Job, At, Handed, Closed
      <3> QED BY <1>0, <3>a, <3>b, <3>c, <2>1, <2>3 DEF Moved, Stepped, Job, At, JobInv
    <2>4. CASE /\ jobs[j].mode # "cycle"
               /\ jobs' = [jobs EXCEPT ![j].class = "failed", ![j].route = FALSE,
                                       ![j].phase = "returned"]
      <3> DEFINE new == [jobs[j] EXCEPT !.class = "failed", !.route = FALSE,
                                        !.phase = "returned"]
      <3>a. jobs' = [jobs EXCEPT ![j] = new] BY <1>0, <2>1, <2>4
      <3>b. new \in Job BY <1>0 DEF Job, Phases, Window
      <3>c. JobInv(new) BY <1>0, <2>1, <2>4 DEF JobInv, Job, At, Handed, Closed
      <3> QED BY <1>0, <3>a, <3>b, <3>c, <2>1, <2>4 DEF Moved, Stepped, Job, At, JobInv
    <2> QED BY <1>1, <2>2, <2>3, <2>4 DEF PolicyBlocks, LeaveWith
  <1>2. CASE PricingFails(j)
    <2>1. At(j, "policy") /\ jobs[j].mode # "cycle"
      BY <1>2 DEF PricingFails, LeaveWith, Markers
    <2>2. CASE /\ jobs[j].mode # "cycle"
               /\ jobs' = [jobs EXCEPT ![j].class = "failed", ![j].route = TRUE,
                                       ![j].phase = "returned"]
      <3> DEFINE new == [jobs[j] EXCEPT !.class = "failed", !.route = TRUE,
                                        !.phase = "returned"]
      <3>a. jobs' = [jobs EXCEPT ![j] = new] BY <1>0, <2>1, <2>2
      <3>b. new \in Job BY <1>0, ZenonT(40) DEF Job, Phases, Window
      <3>c. JobInv(new) BY <1>0, <2>1, <2>2 DEF JobInv, Job, At, Handed, Closed
      <3> QED BY <1>0, <3>a, <3>b, <3>c, <2>1, <2>2 DEF Moved, Stepped, Job, At, JobInv
    <2>3. CASE /\ jobs[j].mode # "cycle"
               /\ jobs' = [jobs EXCEPT ![j].class = "failed", ![j].route = FALSE,
                                       ![j].phase = "returned"]
      <3> DEFINE new == [jobs[j] EXCEPT !.class = "failed", !.route = FALSE,
                                        !.phase = "returned"]
      <3>a. jobs' = [jobs EXCEPT ![j] = new] BY <1>0, <2>1, <2>3
      <3>b. new \in Job BY <1>0 DEF Job, Phases, Window
      <3>c. JobInv(new) BY <1>0, <2>1, <2>3 DEF JobInv, Job, At, Handed, Closed
      <3> QED BY <1>0, <3>a, <3>b, <3>c, <2>1, <2>3 DEF Moved, Stepped, Job, At, JobInv
    <2> QED BY <1>2, <2>2, <2>3 DEF PricingFails, LeaveWith, Markers
  <1>3. CASE Enter(j)
    <2>1. At(j, "policy")
      BY <1>3 DEF Enter, reserve_on_rail
    <2>2. CASE /\ jobs[j].mode \in {"cycle", "diagnostic"}
               /\ jobs' = [jobs EXCEPT ![j].status = "pending",
                                       ![j].late = (jobs[j].mode = "cycle" /\ j \notin awaited), ![j].phase = "reserve"]
      <3> DEFINE new == [jobs[j] EXCEPT !.status = "pending",
                                        !.late = (jobs[j].mode = "cycle" /\ j \notin awaited),
                                               !.phase = "reserve"]
      <3>a. jobs' = [jobs EXCEPT ![j] = new] BY <1>0, <2>1, <2>2
      <3>b. new \in Job BY <1>0, ZenonT(40) DEF Job, Phases, Window
      <3>c. JobInv(new) BY <1>0, <2>1, <2>2 DEF JobInv, Job, At
      <3> QED BY <1>0, <3>a, <3>b, <3>c, <2>1, <2>2 DEF Moved, Stepped, Job, At, JobInv
    <2>3. CASE jobs' = [jobs EXCEPT ![j].status = "pending",
                                    ![j].late = (jobs[j].mode = "cycle" /\ j \notin awaited),
                                           ![j].phase = "pay"]
      <3> DEFINE new == [jobs[j] EXCEPT !.status = "pending",
                                        !.late = (jobs[j].mode = "cycle" /\ j \notin awaited),
                                               !.phase = "pay"]
      <3>a. jobs' = [jobs EXCEPT ![j] = new] BY <1>0, <2>1, <2>3
      <3>b. new \in Job BY <1>0, ZenonT(40) DEF Job, Phases, Window
      <3>c. JobInv(new) BY <1>0, <2>1, <2>3 DEF JobInv, Job, At
      <3> QED BY <1>0, <3>a, <3>b, <3>c, <2>1, <2>3 DEF Moved, Stepped, Job, At, JobInv
    <2> QED BY <1>3, <2>2, <2>3 DEF Enter, reserve_on_rail
  <1> QED BY <1>1, <1>2, <1>3

\* The reservation.
LEMMA ReserveMoves ==
    ASSUME TypeOK, NEW j \in Jobs, JobInv(jobs[j]), reserve_execution_budget(j) \/ BudgetBlocks(j)
    PROVE  Moved(j)
  <1>0. jobs[j] \in Job /\ jobs \in [Jobs -> Job] BY DEF TypeOK
  <1>1. CASE reserve_execution_budget(j)
    <2>1. At(j, "reserve")
      BY <1>1 DEF reserve_execution_budget
    <2>2. CASE jobs' = [jobs EXCEPT ![j].phase = "pay"]
      <3> DEFINE new == [jobs[j] EXCEPT !.phase = "pay"]
      <3>a. jobs' = [jobs EXCEPT ![j] = new] BY <1>0, <2>1, <2>2
      <3>b. new \in Job BY <1>0 DEF Job, Phases, Window
      <3>c. JobInv(new) BY <1>0, <2>1, <2>2 DEF JobInv, Job, At
      <3> QED BY <1>0, <3>a, <3>b, <3>c, <2>1, <2>2 DEF Moved, Stepped, Job, At, JobInv
    <2>3. CASE jobs' = [jobs EXCEPT ![j].reservation = "active", ![j].phase = "pay"]
      <3> DEFINE new == [jobs[j] EXCEPT !.reservation = "active", !.phase = "pay"]
      <3>a. jobs' = [jobs EXCEPT ![j] = new] BY <1>0, <2>1, <2>3
      <3>b. new \in Job BY <1>0, ZenonT(40) DEF Job, Phases, Window
      <3>c. JobInv(new) BY <1>0, <2>1, <2>3 DEF JobInv, Job, At
      <3> QED BY <1>0, <3>a, <3>b, <3>c, <2>1, <2>3 DEF Moved, Stepped, Job, At, JobInv
    <2> QED BY <1>1, <2>2, <2>3 DEF reserve_execution_budget
  <1>2. CASE BudgetBlocks(j)
    <2>1. At(j, "reserve")
          /\ jobs' = [jobs EXCEPT ![j].status = "skipped", ![j].class = "blocked",
                                  ![j].phase = "leave"]
      BY <1>2 DEF BudgetBlocks
    <2> DEFINE new == [jobs[j] EXCEPT !.status = "skipped", !.class = "blocked",
                                      !.phase = "leave"]
    <2>a. jobs' = [jobs EXCEPT ![j] = new] BY <1>0, <2>1
    <2>b. new \in Job BY <1>0, ZenonT(40) DEF Job, Phases, Window
    <2>c. JobInv(new) BY <1>0, <2>1 DEF JobInv, Job, At, Closed
    <2> QED BY <1>0, <2>a, <2>b, <2>c, <2>1 DEF Moved, Stepped, Job, At, JobInv
  <1> QED BY <1>1, <1>2

\* The executor and its retries.
LEMMA PayMoves ==
    ASSUME TypeOK, NEW j \in Jobs, JobInv(jobs[j]),
           \/ StopsBeforeWrite(j) \/ Sendpay(j) \/ SendpayUnheard(j) \/ TimesOut(j)
           \/ TransportFails(j) \/ Completes(j) \/ Fails(j)
    PROVE  Moved(j)
  <1>0. jobs[j] \in Job /\ jobs \in [Jobs -> Job] BY DEF TypeOK
  <1>1. CASE StopsBeforeWrite(j)
    <2>1. At(j, "pay")
      BY <1>1 DEF StopsBeforeWrite, Ends, Markers
    <2>2. CASE jobs' = [jobs EXCEPT ![j].class = "failed", ![j].route = TRUE, ![j].tries = 0,
                                    ![j].phase = "record"]
      <3> DEFINE new == [jobs[j] EXCEPT !.class = "failed", !.route = TRUE, !.tries = 0,
                                        !.phase = "record"]
      <3>a. jobs' = [jobs EXCEPT ![j] = new] BY <1>0, <2>1, <2>2
      <3>b. new \in Job BY <1>0, ZenonT(40) DEF Job, Phases, Window
      <3>c. JobInv(new) BY <1>0, <2>1, <2>2 DEF JobInv, Job, At
      <3> QED BY <1>0, <3>a, <3>b, <3>c, <2>1, <2>2 DEF Moved, Stepped, Job, At, JobInv
    <2>3. CASE jobs' = [jobs EXCEPT ![j].class = "failed", ![j].route = FALSE, ![j].tries = 0,
                                    ![j].phase = "record"]
      <3> DEFINE new == [jobs[j] EXCEPT !.class = "failed", !.route = FALSE, !.tries = 0,
                                        !.phase = "record"]
      <3>a. jobs' = [jobs EXCEPT ![j] = new] BY <1>0, <2>1, <2>3
      <3>b. new \in Job BY <1>0 DEF Job, Phases, Window
      <3>c. JobInv(new) BY <1>0, <2>1, <2>3 DEF JobInv, Job, At
      <3> QED BY <1>0, <3>a, <3>b, <3>c, <2>1, <2>3 DEF Moved, Stepped, Job, At, JobInv
    <2> QED BY <1>1, <2>2, <2>3 DEF StopsBeforeWrite, Ends, Markers
  <1>2. CASE Sendpay(j)
    <2>1. At(j, "pay")
          /\ jobs' = [jobs EXCEPT ![j].wire = "inflight", ![j].tries = @ + 1,
                                  ![j].attempted = TRUE, ![j].phase = "wait"]
      BY <1>2 DEF Sendpay
    <2>2. jobs[j].tries + 1 \in Nat BY <1>0 DEF Job
    <2> DEFINE new == [jobs[j] EXCEPT !.wire = "inflight", !.tries = @ + 1, !.attempted = TRUE,
                                      !.phase = "wait"]
    <2>a. jobs' = [jobs EXCEPT ![j] = new] BY <1>0, <2>1
    <2>b. new \in Job BY <1>0, <2>2, ZenonT(40) DEF Job, Phases, Window
    <2>c. JobInv(new) BY <1>0, <2>1 DEF JobInv, Job, At
    <2> QED BY <1>0, <2>a, <2>b, <2>c, <2>1 DEF Moved, Stepped, Job, At, JobInv
  <1>3. CASE SendpayUnheard(j)
    <2>1. At(j, "pay")
          /\ jobs' = [jobs EXCEPT ![j].wire = "none", ![j].tries = 0, ![j].attempted = TRUE,
                                  ![j].class = "pending", ![j].phase = "record"]
      BY <1>3 DEF SendpayUnheard
    <2> DEFINE new == [jobs[j] EXCEPT !.wire = "none", !.tries = 0, !.attempted = TRUE,
                                      !.class = "pending", !.phase = "record"]
    <2>a. jobs' = [jobs EXCEPT ![j] = new] BY <1>0, <2>1
    <2>b. new \in Job BY <1>0, ZenonT(40) DEF Job, Phases, Window
    <2>c. JobInv(new) BY <1>0, <2>1 DEF JobInv, Job, At
    <2> QED BY <1>0, <2>a, <2>b, <2>c, <2>1 DEF Moved, Stepped, Job, At, JobInv
  <1>4. CASE TimesOut(j)
    <2>1. At(j, "wait")
          /\ jobs' = [jobs EXCEPT ![j].class = "pending", ![j].route = FALSE, ![j].tries = 0,
                                  ![j].phase = "record"]
      BY <1>4 DEF TimesOut, Ends
    <2> DEFINE new == [jobs[j] EXCEPT !.class = "pending", !.route = FALSE, !.tries = 0,
                                      !.phase = "record"]
    <2>a. jobs' = [jobs EXCEPT ![j] = new] BY <1>0, <2>1
    <2>b. new \in Job BY <1>0 DEF Job, Phases, Window
    <2>c. JobInv(new) BY <1>0, <2>1 DEF JobInv, Job, At
    <2> QED BY <1>0, <2>a, <2>b, <2>c, <2>1 DEF Moved, Stepped, Job, At, JobInv
  <1>5. CASE TransportFails(j)
    <2>1. At(j, "wait")
          /\ jobs' = [jobs EXCEPT ![j].cut = TRUE, ![j].class = "failed", ![j].tries = 0,
                                  ![j].phase = "record"]
      BY <1>5 DEF TransportFails
    <2> DEFINE new == [jobs[j] EXCEPT !.cut = TRUE, !.class = "failed", !.tries = 0,
                                      !.phase = "record"]
    <2>a. jobs' = [jobs EXCEPT ![j] = new] BY <1>0, <2>1
    <2>b. new \in Job BY <1>0, ZenonT(40) DEF Job, Phases, Window
    <2>c. JobInv(new) BY <1>0, <2>1 DEF JobInv, Job, At
    <2> QED BY <1>0, <2>a, <2>b, <2>c, <2>1 DEF Moved, Stepped, Job, At, JobInv
  <1>6. CASE Completes(j)
    <2>1. At(j, "wait") /\ jobs[j].wire = "complete"
          /\ jobs' = [jobs EXCEPT ![j].class = "success", ![j].route = FALSE, ![j].tries = 0,
                                  ![j].phase = "record"]
      BY <1>6 DEF Completes, Ends
    <2> DEFINE new == [jobs[j] EXCEPT !.class = "success", !.route = FALSE, !.tries = 0,
                                      !.phase = "record"]
    <2>a. jobs' = [jobs EXCEPT ![j] = new] BY <1>0, <2>1
    <2>b. new \in Job BY <1>0 DEF Job, Phases, Window
    <2>c. JobInv(new) BY <1>0, <2>1 DEF JobInv, Job, At
    <2> QED BY <1>0, <2>a, <2>b, <2>c, <2>1 DEF Moved, Stepped, Job, At, JobInv
  <1>7. CASE Fails(j)
    <2>1. At(j, "wait") /\ jobs[j].wire = "failed"
      BY <1>7 DEF Fails, Ends, Markers
    <2>2. CASE jobs' = [jobs EXCEPT ![j].phase = "pay"]
      <3> DEFINE new == [jobs[j] EXCEPT !.phase = "pay"]
      <3>a. jobs' = [jobs EXCEPT ![j] = new] BY <1>0, <2>1, <2>2
      <3>b. new \in Job BY <1>0 DEF Job, Phases, Window
      <3>c. JobInv(new) BY <1>0, <2>1, <2>2 DEF JobInv, Job, At
      <3> QED BY <1>0, <3>a, <3>b, <3>c, <2>1, <2>2 DEF Moved, Stepped, Job, At, JobInv
    <2>3. CASE jobs' = [jobs EXCEPT ![j].class = "failed", ![j].route = TRUE, ![j].tries = 0,
                                    ![j].phase = "record"]
      <3> DEFINE new == [jobs[j] EXCEPT !.class = "failed", !.route = TRUE, !.tries = 0,
                                        !.phase = "record"]
      <3>a. jobs' = [jobs EXCEPT ![j] = new] BY <1>0, <2>1, <2>3
      <3>b. new \in Job BY <1>0 DEF Job, Phases, Window
      <3>c. JobInv(new) BY <1>0, <2>1, <2>3 DEF JobInv, Job, At
      <3> QED BY <1>0, <3>a, <3>b, <3>c, <2>1, <2>3 DEF Moved, Stepped, Job, At, JobInv
    <2>4. CASE jobs' = [jobs EXCEPT ![j].class = "failed", ![j].route = FALSE, ![j].tries = 0,
                                    ![j].phase = "record"]
      <3> DEFINE new == [jobs[j] EXCEPT !.class = "failed", !.route = FALSE, !.tries = 0,
                                        !.phase = "record"]
      <3>a. jobs' = [jobs EXCEPT ![j] = new] BY <1>0, <2>1, <2>4
      <3>b. new \in Job BY <1>0 DEF Job, Phases, Window
      <3>c. JobInv(new) BY <1>0, <2>1, <2>4 DEF JobInv, Job, At
      <3> QED BY <1>0, <3>a, <3>b, <3>c, <2>1, <2>4 DEF Moved, Stepped, Job, At, JobInv
    <2> QED BY <1>7, <2>2, <2>3, <2>4 DEF Fails, Ends, Markers
  <1> QED BY <1>1, <1>2, <1>3, <1>4, <1>5, <1>6, <1>7

\* A decided payment stays decided; an undecided one belongs to an execution
\* that waits, was parked or was cut.
LEMMA NodeMoves ==
    ASSUME TypeOK, NEW j \in Jobs, JobInv(jobs[j]), NodeDecides(j)
    PROVE  Moved(j)
  <1>0. jobs[j] \in Job /\ jobs \in [Jobs -> Job] BY DEF TypeOK
  <1>1. jobs[j].wire = "inflight" /\ jobs[j].phase # "unused" BY DEF NodeDecides, JobInv
  <1>2. CASE jobs' = [jobs EXCEPT ![j].wire = "failed"]
    <2> DEFINE new == [jobs[j] EXCEPT !.wire = "failed"]
    <2>a. jobs' = [jobs EXCEPT ![j] = new] BY <1>0, <1>1, <1>2
    <2>b. new \in Job /\ new.pair = jobs[j].pair BY <1>0 DEF Job, Phases, Window
    <2>f. /\ new.phase = jobs[j].phase
          /\ new.mode = jobs[j].mode
          /\ new.status = jobs[j].status
          /\ new.reservation = jobs[j].reservation
          /\ new.cost = jobs[j].cost
          /\ new.paid = jobs[j].paid
          /\ new.wire = "failed"
          /\ new.class = jobs[j].class
          /\ new.cut = jobs[j].cut
      BY <1>0 DEF Job
    <2>c. JobInv(new)
      <3> HIDE DEF new
      <3> QED BY <1>1, <1>2, <2>f DEF JobInv, At, Handed, Closed, Swept
    <2> QED BY <1>0, <2>a, <2>b, <2>c, <2>f, <1>1, <1>2 DEF Moved, Stepped, At, JobInv
  <1>3. ASSUME NEW paid \in 0..jobs[j].fee,
               jobs' = [jobs EXCEPT ![j].wire = "complete", ![j].paid = paid]
        PROVE  Moved(j)
    <2>1. paid \in Nat BY <1>0, EngineAssumption DEF Job
    <2> DEFINE new == [jobs[j] EXCEPT !.wire = "complete", !.paid = paid]
    <2>a. jobs' = [jobs EXCEPT ![j] = new] BY <1>0, <1>1, <1>3
    <2>b. new \in Job /\ new.pair = jobs[j].pair BY <1>0, <2>1 DEF Job, Phases, Window
    <2>f. /\ new.phase = jobs[j].phase
          /\ new.mode = jobs[j].mode
          /\ new.status = jobs[j].status
          /\ new.reservation = jobs[j].reservation
          /\ new.cost = jobs[j].cost
          /\ new.paid = paid
          /\ new.wire = "complete"
          /\ new.class = jobs[j].class
          /\ new.cut = jobs[j].cut
      BY <1>0, <2>1 DEF Job
    <2>c. JobInv(new)
      <3> HIDE DEF new
      <3> QED BY <1>1, <1>3, <2>1, <2>f, ZenonT(40) DEF JobInv, At, Handed, Closed, Swept
    <2> QED BY <1>0, <2>a, <2>b, <2>c, <2>f, <1>1, <1>3 DEF Moved, Stepped, At, JobInv
  <1> QED BY <1>2, <1>3 DEF NodeDecides

\* record_rebalance_result, finish_execution_budget and the guard's drop.
LEMMA FinishMoves ==
    ASSUME TypeOK, NEW j \in Jobs, JobInv(jobs[j]), Record(j) \/ Finish(j) \/ DropGuard(j)
    PROVE  Moved(j)
  <1>0. jobs[j] \in Job /\ jobs \in [Jobs -> Job] BY DEF TypeOK
  <1>1. CASE Record(j)
    <2>0. jobs[j].cost \in Nat /\ jobs[j].cost + 1 \in Nat BY <1>0 DEF Job
    <2>1. /\ At(j, "record") /\ jobs[j].class \in {"success", "pending", "failed"}
          /\ jobs' = [jobs EXCEPT ![j] = [record_rebalance_result(jobs[j]) EXCEPT !.phase = "finish"]]
      BY <1>1 DEF Record, Set, At, JobInv
    <2>2. CASE jobs[j].class = "success" /\ ByEngine(jobs[j]) /\ jobs[j].paid > 0
      <3>1. [record_rebalance_result(jobs[j]) EXCEPT !.phase = "finish"]
              = [jobs[j] EXCEPT !.status = "success", !.cost = jobs[j].cost + 1,
                                !.phase = "finish"]
        BY <1>0, <2>2 DEF Job, record_rebalance_result, record_rebalance_cost, account_costs
      <3> DEFINE new == [jobs[j] EXCEPT !.status = "success", !.cost = jobs[j].cost + 1,
                                        !.phase = "finish"]
      <3>a. jobs' = [jobs EXCEPT ![j] = new] BY <1>0, <2>1, <2>2, <3>1
      <3>b. new \in Job /\ new.pair = jobs[j].pair BY <1>0, <2>0, ZenonT(40) DEF Job, Phases, Window
      <3>f. /\ new.phase = "finish"
            /\ new.mode = jobs[j].mode
            /\ new.status = "success"
            /\ new.reservation = jobs[j].reservation
            /\ new.cost = jobs[j].cost + 1
            /\ new.paid = jobs[j].paid
            /\ new.wire = jobs[j].wire
            /\ new.class = jobs[j].class
            /\ new.cut = jobs[j].cut
        BY <1>0, <2>0 DEF Job
      <3>c. JobInv(new)
        <4> HIDE DEF new
        <4> QED BY <2>1, <2>2, <3>1, <2>0, <3>f DEF JobInv, At, Handed, Closed, Swept
      <3> QED BY <1>0, <3>a, <3>b, <3>c, <3>f, <2>1, <2>2, <3>1 DEF Moved, Stepped, At, JobInv
    <2>3. CASE jobs[j].class = "success" /\ (ByEngine(jobs[j]) => ~(jobs[j].paid > 0))
      <3>1. [record_rebalance_result(jobs[j]) EXCEPT !.phase = "finish"]
              = [jobs[j] EXCEPT !.status = "success", !.phase = "finish"]
        BY <1>0, <2>3 DEF Job, record_rebalance_result, record_rebalance_cost, account_costs
      <3> DEFINE new == [jobs[j] EXCEPT !.status = "success", !.phase = "finish"]
      <3>a. jobs' = [jobs EXCEPT ![j] = new] BY <1>0, <2>1, <2>3, <3>1
      <3>b. new \in Job /\ new.pair = jobs[j].pair BY <1>0, <2>0, ZenonT(40) DEF Job, Phases, Window
      <3>f. /\ new.phase = "finish"
            /\ new.mode = jobs[j].mode
            /\ new.status = "success"
            /\ new.reservation = jobs[j].reservation
            /\ new.cost = jobs[j].cost
            /\ new.paid = jobs[j].paid
            /\ new.wire = jobs[j].wire
            /\ new.class = jobs[j].class
            /\ new.cut = jobs[j].cut
        BY <1>0, <2>0 DEF Job
      <3>c. JobInv(new)
        <4> HIDE DEF new
        <4> QED BY <2>1, <2>3, <3>1, <2>0, <3>f DEF JobInv, At, Handed, Closed, Swept
      <3> QED BY <1>0, <3>a, <3>b, <3>c, <3>f, <2>1, <2>3, <3>1 DEF Moved, Stepped, At, JobInv
    <2>4. CASE jobs[j].class = "pending"
      <3>1. [record_rebalance_result(jobs[j]) EXCEPT !.phase = "finish"]
              = [jobs[j] EXCEPT !.status = "pending_settlement", !.phase = "finish"]
        BY <1>0, <2>4 DEF Job, record_rebalance_result, record_rebalance_cost, account_costs
      <3> DEFINE new == [jobs[j] EXCEPT !.status = "pending_settlement", !.phase = "finish"]
      <3>a. jobs' = [jobs EXCEPT ![j] = new] BY <1>0, <2>1, <2>4, <3>1
      <3>b. new \in Job /\ new.pair = jobs[j].pair BY <1>0, <2>0, ZenonT(40) DEF Job, Phases, Window
      <3>f. /\ new.phase = "finish"
            /\ new.mode = jobs[j].mode
            /\ new.status = "pending_settlement"
            /\ new.reservation = jobs[j].reservation
            /\ new.cost = jobs[j].cost
            /\ new.paid = jobs[j].paid
            /\ new.wire = jobs[j].wire
            /\ new.class = jobs[j].class
            /\ new.cut = jobs[j].cut
        BY <1>0, <2>0 DEF Job
      <3>c. JobInv(new)
        <4> HIDE DEF new
        <4> QED BY <2>1, <2>4, <3>1, <2>0, <3>f DEF JobInv, At, Handed, Closed, Swept
      <3> QED BY <1>0, <3>a, <3>b, <3>c, <3>f, <2>1, <2>4, <3>1 DEF Moved, Stepped, At, JobInv
    <2>5. CASE jobs[j].class = "failed"
      <3>1. [record_rebalance_result(jobs[j]) EXCEPT !.phase = "finish"]
              = [jobs[j] EXCEPT !.status = "failed", !.phase = "finish"]
        BY <1>0, <2>5 DEF Job, record_rebalance_result, record_rebalance_cost, account_costs
      <3> DEFINE new == [jobs[j] EXCEPT !.status = "failed", !.phase = "finish"]
      <3>a. jobs' = [jobs EXCEPT ![j] = new] BY <1>0, <2>1, <2>5, <3>1
      <3>b. new \in Job /\ new.pair = jobs[j].pair BY <1>0, <2>0, ZenonT(40) DEF Job, Phases, Window
      <3>f. /\ new.phase = "finish"
            /\ new.mode = jobs[j].mode
            /\ new.status = "failed"
            /\ new.reservation = jobs[j].reservation
            /\ new.cost = jobs[j].cost
            /\ new.paid = jobs[j].paid
            /\ new.wire = jobs[j].wire
            /\ new.class = jobs[j].class
            /\ new.cut = jobs[j].cut
        BY <1>0, <2>0 DEF Job
      <3>c. JobInv(new)
        <4> HIDE DEF new
        <4> QED BY <2>1, <2>5, <3>1, <2>0, <3>f DEF JobInv, At, Handed, Closed, Swept
      <3> QED BY <1>0, <3>a, <3>b, <3>c, <3>f, <2>1, <2>5, <3>1 DEF Moved, Stepped, At, JobInv
    <2> QED BY <2>1, <2>2, <2>3, <2>4, <2>5
  <1>2. CASE Finish(j)
    <2> DEFINE res == finish_execution_budget(jobs[j])
    <2>1. /\ At(j, "finish")
          /\ jobs' = [jobs EXCEPT ![j].reservation = res, ![j].phase = "leave"]
      BY <1>2 DEF Finish
    <2>2. /\ res \in {"none", "active", "spent", "released"}
          /\ ~ByEngine(jobs[j]) \/ jobs[j].class = "pending" => res = jobs[j].reservation
          /\ ByEngine(jobs[j]) /\ jobs[j].class = "success" => res \in {"none", "spent"}
          /\ ByEngine(jobs[j]) /\ jobs[j].class = "failed" => res \in {"none", "released"}
          /\ jobs[j].mode = "manual" => res = jobs[j].reservation
      BY <1>0 DEF Job, finish_execution_budget, mark_budget_spent, release_reservation,
             reserve_on_rail
    <2>3. res \in {"none", "active", "spent", "released"} BY <2>2
    <2> HIDE DEF res
    <2> DEFINE new == [jobs[j] EXCEPT !.reservation = res, !.phase = "leave"]
    <2>a. jobs' = [jobs EXCEPT ![j] = new] BY <1>0, <2>1, <2>2
    <2>b. new \in Job /\ new.pair = jobs[j].pair BY <1>0, <2>3, ZenonT(40) DEF Job, Phases, Window
    <2>f. /\ new.phase = "leave"
          /\ new.mode = jobs[j].mode
          /\ new.status = jobs[j].status
          /\ new.reservation = res
          /\ new.cost = jobs[j].cost
          /\ new.paid = jobs[j].paid
          /\ new.wire = jobs[j].wire
          /\ new.class = jobs[j].class
          /\ new.cut = jobs[j].cut
      BY <1>0, <2>3 DEF Job
    <2>c. JobInv(new)
      <3> HIDE DEF new
      <3> QED BY <2>1, <2>2, <2>3, <2>f DEF JobInv, At, Handed, Closed, Swept
    <2> QED BY <1>0, <2>a, <2>b, <2>c, <2>f, <2>1, <2>2 DEF Moved, Stepped, At, JobInv
  <1>3. CASE DropGuard(j)
    <2>1. At(j, "leave")
      BY <1>3 DEF DropGuard, Leave
    <2>2. CASE /\ jobs[j].mode = "cycle"
               /\ jobs' = [jobs EXCEPT ![j].phase = "sent", ![j].late = FALSE]
      <3> DEFINE new == [jobs[j] EXCEPT !.phase = "sent", !.late = FALSE]
      <3>a. jobs' = [jobs EXCEPT ![j] = new] BY <1>0, <2>1, <2>2
      <3>b. new \in Job BY <1>0 DEF Job, Phases, Window
      <3>c. JobInv(new) BY <1>0, <2>1, <2>2 DEF JobInv, Job, At, Handed, Closed, Swept
      <3> QED BY <1>0, <3>a, <3>b, <3>c, <2>1, <2>2 DEF Moved, Stepped, Job, At, JobInv
    <2>3. CASE /\ jobs[j].mode = "cycle"
               /\ jobs' = [jobs EXCEPT ![j].phase = "done", ![j].late = FALSE]
      <3> DEFINE new == [jobs[j] EXCEPT !.phase = "done", !.late = FALSE]
      <3>a. jobs' = [jobs EXCEPT ![j] = new] BY <1>0, <2>1, <2>3
      <3>b. new \in Job BY <1>0 DEF Job, Phases, Window
      <3>c. JobInv(new) BY <1>0, <2>1, <2>3 DEF JobInv, Job, At, Handed, Closed, Swept
      <3> QED BY <1>0, <3>a, <3>b, <3>c, <2>1, <2>3 DEF Moved, Stepped, Job, At, JobInv
    <2>4. CASE jobs[j].mode # "cycle" /\ jobs' = [jobs EXCEPT ![j].phase = "returned"]
      <3> DEFINE new == [jobs[j] EXCEPT !.phase = "returned"]
      <3>a. jobs' = [jobs EXCEPT ![j] = new] BY <1>0, <2>1, <2>4
      <3>b. new \in Job BY <1>0 DEF Job, Phases, Window
      <3>c. JobInv(new) BY <1>0, <2>1, <2>4 DEF JobInv, Job, At, Handed, Closed, Swept
      <3> QED BY <1>0, <3>a, <3>b, <3>c, <2>1, <2>4 DEF Moved, Stepped, Job, At, JobInv
    <2> QED BY <1>3, <2>2, <2>3, <2>4 DEF DropGuard, Leave
  <1> QED BY <1>1, <1>2, <1>3

\* The cycle reads a result; a caller is refused, or let in.
LEMMA CallMoves ==
    ASSUME TypeOK, NEW j \in Jobs, JobInv(jobs[j]),
           consume_worker_result(j) \/ EngineRefuses(j) \/ execute_candidate(j)
    PROVE  Moved(j)
  <1>0. jobs[j] \in Job /\ jobs \in [Jobs -> Job] BY DEF TypeOK
  <1>1. CASE consume_worker_result(j)
    <2>1. At(j, "sent")
          /\ jobs' = [jobs EXCEPT ![j].phase = "done"]
      BY <1>1 DEF consume_worker_result
    <2> DEFINE new == [jobs[j] EXCEPT !.phase = "done"]
    <2>a. jobs' = [jobs EXCEPT ![j] = new] BY <1>0, <2>1
    <2>b. new \in Job BY <1>0 DEF Job, Phases, Window
    <2>c. JobInv(new) BY <1>0, <2>1 DEF JobInv, Job, At, Closed, Swept
    <2> QED BY <1>0, <2>a, <2>b, <2>c, <2>1 DEF Moved, Stepped, Job, At, JobInv
  <1>2. CASE EngineRefuses(j)
    <2>1. At(j, "call")
          /\ jobs' = [jobs EXCEPT ![j].class = "failed", ![j].phase = "returned"]
      BY <1>2 DEF EngineRefuses
    <2> DEFINE new == [jobs[j] EXCEPT !.class = "failed", !.phase = "returned"]
    <2>a. jobs' = [jobs EXCEPT ![j] = new] BY <1>0, <2>1
    <2>b. new \in Job BY <1>0, ZenonT(40) DEF Job, Phases, Window
    <2>c. JobInv(new) BY <1>0, <2>1 DEF JobInv, Job, At, Handed, Closed
    <2> QED BY <1>0, <2>a, <2>b, <2>c, <2>1 DEF Moved, Stepped, Job, At, JobInv
  <1>3. CASE execute_candidate(j)
    <2>1. At(j, "call")
          /\ jobs' = [jobs EXCEPT ![j].phase = "policy"]
      BY <1>3 DEF execute_candidate
    <2> DEFINE new == [jobs[j] EXCEPT !.phase = "policy"]
    <2>a. jobs' = [jobs EXCEPT ![j] = new] BY <1>0, <2>1
    <2>b. new \in Job BY <1>0 DEF Job, Phases, Window
    <2>c. JobInv(new) BY <1>0, <2>1 DEF JobInv, Job, At
    <2> QED BY <1>0, <2>a, <2>b, <2>c, <2>1 DEF Moved, Stepped, Job, At, JobInv
  <1> QED BY <1>1, <1>2, <1>3

\* The facade settles what the engine left to it.
LEMMA FacadeMoves ==
    ASSUME TypeOK, NEW j \in Jobs, JobInv(jobs[j]), FacadeSettles(j)
    PROVE  Moved(j)
  <1>0. jobs[j] \in Job /\ jobs \in [Jobs -> Job] BY DEF TypeOK
  <1> DEFINE ph    == IF TriesNext(jobs[j]) THEN "retry" ELSE "done"
             spent == mark_budget_spent(jobs[j])
             freed == release_reservation(jobs[j])
  <1>1. /\ At(j, "returned")
        /\ jobs' = [jobs EXCEPT ![j] = [FacadeSettled(jobs[j]) EXCEPT !.phase = ph]]
    BY DEF FacadeSettles, Set
  <1>2. ph \in {"retry", "done"} /\ jobs[j].cost + 1 \in Nat BY <1>0 DEF Job
  <1>3. /\ spent \in {"none", "spent"} /\ freed \in {"none", "released"}
        /\ jobs[j].reservation = "none" => spent = "none" /\ freed = "none"
    BY DEF mark_budget_spent, release_reservation
  <1>9. /\ spent \in {"none", "active", "spent", "released"}
        /\ freed \in {"none", "active", "spent", "released"}
    BY <1>3
  <1>11. ph \in Phases BY DEF Phases
  <1>12. jobs[j].mode \in {"cycle", "execute", "manual", "diagnostic"} BY <1>0 DEF Job, Modes
  <1> HIDE DEF ph, spent, freed
  <1>4. CASE jobs[j].class = "success" /\ jobs[j].mode # "diagnostic" /\ jobs[j].paid > 0
    <2>1. [FacadeSettled(jobs[j]) EXCEPT !.phase = ph]
            = [jobs[j] EXCEPT !.status = "success", !.cost = jobs[j].cost + 1,
                              !.reservation = spent, !.phase = ph]
      BY <1>0, <1>4 DEF Job, FacadeSettled, record_rebalance_cost, spent
    <2> DEFINE new == [jobs[j] EXCEPT !.status = "success", !.cost = jobs[j].cost + 1,
                                      !.reservation = spent, !.phase = ph]
    <2>a. jobs' = [jobs EXCEPT ![j] = new] BY <1>0, <1>1, <1>2, <1>3, <1>12, <1>4, <2>1
    <2>b. new \in Job /\ new.pair = jobs[j].pair BY <1>0, <1>2, <1>9, <1>11 DEF Job
    <2>f. /\ new.phase = ph
          /\ new.mode = jobs[j].mode
          /\ new.status = "success"
          /\ new.reservation = spent
          /\ new.cost = jobs[j].cost + 1
          /\ new.paid = jobs[j].paid
          /\ new.wire = jobs[j].wire
          /\ new.class = jobs[j].class
          /\ new.cut = jobs[j].cut
      BY <1>0, <1>2, <1>9, <1>11 DEF Job
    <2>c. JobInv(new)
      <3> HIDE DEF new
      <3> QED BY <1>1, <1>2, <1>3, <1>12, <1>4, <2>1, <1>9, <1>11, <2>f
          DEF JobInv, At, Handed, Closed, Swept
    <2> QED BY <1>0, <2>a, <2>b, <2>c, <2>f, <1>1, <1>2, <1>3, <1>12, <1>4, <2>1
        DEF Moved, Stepped, At, JobInv, Handed, Closed
  <1>5. CASE jobs[j].class = "success" /\ jobs[j].mode # "diagnostic" /\ ~(jobs[j].paid > 0)
    <2>1. [FacadeSettled(jobs[j]) EXCEPT !.phase = ph]
            = [jobs[j] EXCEPT !.status = "success", !.reservation = spent, !.phase = ph]
      BY <1>0, <1>5 DEF Job, FacadeSettled, record_rebalance_cost, spent
    <2> DEFINE new == [jobs[j] EXCEPT !.status = "success", !.reservation = spent, !.phase = ph]
    <2>a. jobs' = [jobs EXCEPT ![j] = new] BY <1>0, <1>1, <1>2, <1>3, <1>12, <1>5, <2>1
    <2>b. new \in Job /\ new.pair = jobs[j].pair BY <1>0, <1>2, <1>9, <1>11 DEF Job
    <2>f. /\ new.phase = ph
          /\ new.mode = jobs[j].mode
          /\ new.status = "success"
          /\ new.reservation = spent
          /\ new.cost = jobs[j].cost
          /\ new.paid = jobs[j].paid
          /\ new.wire = jobs[j].wire
          /\ new.class = jobs[j].class
          /\ new.cut = jobs[j].cut
      BY <1>0, <1>2, <1>9, <1>11 DEF Job
    <2>c. JobInv(new)
      <3> HIDE DEF new
      <3> QED BY <1>1, <1>2, <1>3, <1>12, <1>5, <2>1, <1>9, <1>11, <2>f
          DEF JobInv, At, Handed, Closed, Swept
    <2> QED BY <1>0, <2>a, <2>b, <2>c, <2>f, <1>1, <1>2, <1>3, <1>12, <1>5, <2>1
        DEF Moved, Stepped, At, JobInv, Handed, Closed
  <1>6. CASE jobs[j].class \in {"failed", "blocked"} /\ jobs[j].mode = "execute"
    <2>1. [FacadeSettled(jobs[j]) EXCEPT !.phase = ph]
            = [jobs[j] EXCEPT !.status = "failed", !.reservation = freed, !.phase = ph]
      BY <1>0, <1>6 DEF Job, FacadeSettled, freed
    <2> DEFINE new == [jobs[j] EXCEPT !.status = "failed", !.reservation = freed, !.phase = ph]
    <2>a. jobs' = [jobs EXCEPT ![j] = new] BY <1>0, <1>1, <1>2, <1>3, <1>12, <1>6, <2>1
    <2>b. new \in Job /\ new.pair = jobs[j].pair BY <1>0, <1>2, <1>9, <1>11 DEF Job
    <2>f. /\ new.phase = ph
          /\ new.mode = jobs[j].mode
          /\ new.status = "failed"
          /\ new.reservation = freed
          /\ new.cost = jobs[j].cost
          /\ new.paid = jobs[j].paid
          /\ new.wire = jobs[j].wire
          /\ new.class = jobs[j].class
          /\ new.cut = jobs[j].cut
      BY <1>0, <1>2, <1>9, <1>11 DEF Job
    <2>c. JobInv(new)
      <3> HIDE DEF new
      <3> QED BY <1>1, <1>2, <1>3, <1>12, <1>6, <2>1, <1>9, <1>11, <2>f
          DEF JobInv, At, Handed, Closed, Swept
    <2> QED BY <1>0, <2>a, <2>b, <2>c, <2>f, <1>1, <1>2, <1>3, <1>12, <1>6, <2>1
        DEF Moved, Stepped, At, JobInv, Handed, Closed
  <1>7. CASE jobs[j].class \in {"failed", "blocked"} /\ jobs[j].mode # "execute"
    <2>1. [FacadeSettled(jobs[j]) EXCEPT !.phase = ph]
            = [jobs[j] EXCEPT !.status = "failed", !.phase = ph]
      BY <1>0, <1>7 DEF Job, FacadeSettled, record_rebalance_cost
    <2> DEFINE new == [jobs[j] EXCEPT !.status = "failed", !.phase = ph]
    <2>a. jobs' = [jobs EXCEPT ![j] = new] BY <1>0, <1>1, <1>2, <1>3, <1>12, <1>7, <2>1
    <2>b. new \in Job /\ new.pair = jobs[j].pair BY <1>0, <1>2, <1>9, <1>11 DEF Job
    <2>f. /\ new.phase = ph
          /\ new.mode = jobs[j].mode
          /\ new.status = "failed"
          /\ new.reservation = jobs[j].reservation
          /\ new.cost = jobs[j].cost
          /\ new.paid = jobs[j].paid
          /\ new.wire = jobs[j].wire
          /\ new.class = jobs[j].class
          /\ new.cut = jobs[j].cut
      BY <1>0, <1>2, <1>9, <1>11 DEF Job
    <2>c. JobInv(new)
      <3> HIDE DEF new
      <3> QED BY <1>1, <1>2, <1>3, <1>12, <1>7, <2>1, <1>9, <1>11, <2>f
          DEF JobInv, At, Handed, Closed, Swept
    <2> QED BY <1>0, <2>a, <2>b, <2>c, <2>f, <1>1, <1>2, <1>3, <1>12, <1>7, <2>1
        DEF Moved, Stepped, At, JobInv, Handed, Closed
  <1>8. CASE jobs[j].class = "pending" \/ (jobs[j].class = "success" /\ jobs[j].mode = "diagnostic")
    <2>1. [FacadeSettled(jobs[j]) EXCEPT !.phase = ph] = [jobs[j] EXCEPT !.phase = ph]
      BY <1>0, <1>8 DEF Job, FacadeSettled, record_rebalance_cost
    <2> DEFINE new == [jobs[j] EXCEPT !.phase = ph]
    <2>a. jobs' = [jobs EXCEPT ![j] = new] BY <1>0, <1>1, <1>2, <1>3, <1>12, <1>8, <2>1
    <2>b. new \in Job /\ new.pair = jobs[j].pair BY <1>0, <1>2, <1>9, <1>11 DEF Job
    <2>f. /\ new.phase = ph
          /\ new.mode = jobs[j].mode
          /\ new.status = jobs[j].status
          /\ new.reservation = jobs[j].reservation
          /\ new.cost = jobs[j].cost
          /\ new.paid = jobs[j].paid
          /\ new.wire = jobs[j].wire
          /\ new.class = jobs[j].class
          /\ new.cut = jobs[j].cut
      BY <1>0, <1>2, <1>9, <1>11 DEF Job
    <2>c. JobInv(new)
      <3> HIDE DEF new
      <3> QED BY <1>1, <1>2, <1>3, <1>12, <1>8, <2>1, <1>9, <1>11, <2>f
          DEF JobInv, At, Handed, Closed, Swept
    <2> QED BY <1>0, <2>a, <2>b, <2>c, <2>f, <1>1, <1>2, <1>3, <1>12, <1>8, <2>1
        DEF Moved, Stepped, At, JobInv, Handed, Closed
  <1>10. jobs[j].class \in {"success", "pending", "failed", "blocked"}
    BY <1>1 DEF JobInv, At, Handed, Closed
  <1> QED BY <1>4, <1>5, <1>6, <1>7, <1>8, <1>10

\* The sweep settles a row that waits for it.
LEMMA SweepSteps ==
    ASSUME TypeOK, NEW j \in Jobs, JobInv(jobs[j]), jobs[j].status = "pending_settlement",
           reconcile_pending_row(j)
    PROVE  Stepped(j)
  <1>0. jobs[j] \in Job /\ jobs \in [Jobs -> Job] BY DEF TypeOK
  <1> DEFINE spent == mark_budget_spent(jobs[j])
             freed == release_reservation(jobs[j])
  <1>1. /\ spent \in {"none", "spent"} /\ freed \in {"none", "released"}
        /\ jobs[j].reservation = "none" => spent = "none" /\ freed = "none"
    BY DEF mark_budget_spent, release_reservation
  <1>2. /\ spent \in {"none", "active", "spent", "released"}
        /\ freed \in {"none", "active", "spent", "released"}
    BY <1>1
  <1>3. jobs[j].phase \in Phases BY <1>0 DEF Job
  <1>4. jobs[j].cost + 1 \in Nat BY <1>0 DEF Job
  <1>5. /\ jobs[j].phase \in {"finish", "leave", "sent", "returned", "retry", "done"}
        /\ jobs[j].class = "pending" /\ Unspent(jobs[j])
    BY <1>3 DEF JobInv, Handed, Closed, Swept, Phases, Window
  <1> HIDE DEF spent, freed
  <1>6. CASE jobs[j].wire = "complete" /\ jobs[j].paid > 0
    <2>1. jobs' = [jobs EXCEPT ![j]
                    = [jobs[j] EXCEPT !.status = "success", !.cost = jobs[j].cost + 1,
                                                      !.reservation = spent]]
      BY <1>6 DEF reconcile_pending_row, Set, SweptComplete, record_rebalance_cost, spent
    <2> DEFINE new == [jobs[j] EXCEPT !.status = "success", !.cost = jobs[j].cost + 1,
                                      !.reservation = spent]
    <2>2. new \in Job BY <1>0, <1>2, <1>4 DEF Job
    <2>3. JobInv(new) BY <1>0, <1>1, <1>5, <1>6 DEF Job, JobInv, Handed, Closed, Swept
    <2> QED BY <1>0, <1>5, <2>1, <2>2, <2>3 DEF Stepped, Job
  <1>7. CASE jobs[j].wire = "complete" /\ ~(jobs[j].paid > 0)
    <2> DEFINE new == [jobs[j] EXCEPT !.status = "success", !.cost = jobs[j].cost,
                                      !.reservation = spent]
    <2>1. jobs' = [jobs EXCEPT ![j] = new]
      BY <1>7 DEF reconcile_pending_row, Set, SweptComplete, record_rebalance_cost, spent
    <2>2. new \in Job BY <1>0, <1>2 DEF Job
    <2>3. JobInv(new) BY <1>0, <1>1, <1>5, <1>7 DEF Job, JobInv, Handed, Closed, Swept
    <2> QED BY <1>0, <1>5, <2>1, <2>2, <2>3 DEF Stepped, Job
  <1>8. CASE jobs[j].wire # "complete"
    <2> DEFINE new == [jobs[j] EXCEPT !.status = "failed", !.reservation = freed]
    <2>1. jobs' = [jobs EXCEPT ![j] = new] /\ jobs[j].wire \in {"none", "failed"}
      BY <1>0, <1>8 DEF reconcile_pending_row, Set, SweptFailed, freed, Job
    <2>2. new \in Job BY <1>0, <1>2 DEF Job
    <2>3. JobInv(new) BY <1>0, <1>1, <1>5, <2>1 DEF Job, JobInv, Handed, Closed, Swept
    <2> QED BY <1>0, <1>5, <2>1, <2>2, <2>3 DEF Stepped, Job
  <1> QED BY <1>6, <1>7, <1>8

-----------------------------------------------------------------------------
(* Opening an execution *)

LEMMA Numbering ==
    ASSUME NumberInv
    PROVE  \E n \in 0..MaxJobs : /\ Opened = 1..n /\ Cardinality(Opened) = n /\ Next1 = n + 1
  <1>1. PICK n \in 0..MaxJobs : Opened = 1..n BY DEF NumberInv
  <1>2. n \in Nat BY EngineAssumption
  <1>3. Cardinality(1..n) = n BY <1>2, FS_Interval
  <1> QED BY <1>1, <1>2, <1>3 DEF Next1

\* The invariant is kept by a step that opens the next m executions, if any,
\* and leaves the parked rows waiting.
LEMMA Keeps ==
    ASSUME TypeOK, NumberInv, NEW m \in Nat,
           Next1 .. (Cardinality(Opened) + m) \subseteq Jobs,
           \A j \in Jobs : JobInv(jobs'[j]),
           \A j \in Jobs : jobs'[j].phase # "unused" <=>
                  jobs[j].phase # "unused" \/ j \in Next1 .. (Cardinality(Opened) + m),
           \A j \in parked' : jobs'[j].status = "pending_settlement"
    PROVE  EngineInv'
  <1>1. PICK n \in 0..MaxJobs : Opened = 1..n /\ Cardinality(Opened) = n /\ Next1 = n + 1
    BY Numbering
  <1>2. n \in Nat /\ MaxJobs \in Nat BY EngineAssumption
  <1>3. n + m \in 0..MaxJobs
    <2>1. CASE m = 0 BY <1>1, <1>2, <2>1
    <2>2. CASE m > 0
      <3>1. n + m \in Next1 .. (Cardinality(Opened) + m) BY <1>1, <1>2, <2>2
      <3> QED BY <1>2, <3>1 DEF Jobs
    <2> QED BY <2>1, <2>2
  <1>4. Opened' = 1..(n + m)
    <2>1. Opened' = {j \in Jobs : jobs[j].phase # "unused" \/ j \in (n + 1)..(n + m)}
      BY <1>1 DEF Opened
    <2>2. Opened' = {j \in Jobs : j \in 1..n \/ j \in (n + 1)..(n + m)}
      BY <1>1, <2>1 DEF Opened
    <2> QED BY <1>2, <1>3, <2>2 DEF Jobs
  <1> QED BY <1>3, <1>4 DEF EngineInv, NumberInv, ParkedInv

\* A step of one execution opens none.
LEMMA StepKeeps ==
    ASSUME TypeOK, EngineInv, NEW j \in Jobs, Stepped(j), parked' \subseteq parked,
           j \in parked' => jobs'[j].status = "pending_settlement"
    PROVE  EngineInv'
  <1>1. PICK n \in 0..MaxJobs : Opened = 1..n /\ Cardinality(Opened) = n /\ Next1 = n + 1
    BY Numbering DEF EngineInv
  <1>2. n \in Nat BY EngineAssumption
  <1>3. Next1 .. (Cardinality(Opened) + 0) = {} BY <1>1, <1>2
  <1>4. \A i \in Jobs : JobInv(jobs'[i])
    BY DEF EngineInv, Stepped
  <1>5. \A i \in Jobs : jobs'[i].phase # "unused" <=> jobs[i].phase # "unused"
    BY DEF Stepped
  <1>6. \A i \in parked' : jobs'[i].status = "pending_settlement"
    BY DEF EngineInv, ParkedInv, Stepped, TypeOK
  <1> QED BY <1>3, <1>4, <1>5, <1>6, Keeps DEF EngineInv


\* What every step owes.
RowsKept ==
    \A j \in Jobs : jobs[j].status \in {"success", "failed"} => jobs'[j].status = jobs[j].status

Kept == jobs' \in [Jobs -> Job] /\ EngineInv' /\ RowsKept

LEMMA MovedKeeps ==
    ASSUME TypeOK, EngineInv, NEW j \in Jobs, Moved(j), parked' \subseteq parked
    PROVE  Kept
  <1>1. j \in parked' => jobs'[j].status = "pending_settlement"
    BY DEF Moved, EngineInv, ParkedInv
  <1>2. EngineInv' BY <1>1, StepKeeps DEF Moved
  <1> QED BY <1>2 DEF Kept, RowsKept, Moved, Stepped

LEMMA SweepKeeps ==
    ASSUME TypeOK, EngineInv, NEW j \in Jobs, reconcile_pending_row(j)
    PROVE  Kept
  <1>1. j \in parked /\ parked' = parked \ {j} BY DEF reconcile_pending_row
  <1>2. jobs[j].status = "pending_settlement" /\ JobInv(jobs[j])
    BY <1>1 DEF EngineInv, ParkedInv
  <1>3. Stepped(j) BY <1>2, SweepSteps
  <1>4. EngineInv' BY <1>1, <1>3, StepKeeps
  <1> QED BY <1>3, <1>4 DEF Kept, RowsKept, Stepped

\* The next execution has not been opened, so its row is not there.
LEMMA NextIsUnused ==
    ASSUME TypeOK, EngineInv, Next1 \in Jobs
    PROVE  /\ jobs[Next1].phase = "unused" /\ jobs[Next1].status = "none" /\ Next1 \notin parked
           /\ Next1 .. (Cardinality(Opened) + 1) = {Next1}
  <1>1. PICK n \in 0..MaxJobs : Opened = 1..n /\ Cardinality(Opened) = n /\ Next1 = n + 1
    BY Numbering DEF EngineInv
  <1>2. n \in Nat BY EngineAssumption
  <1>3. jobs[Next1].phase = "unused" BY <1>1, <1>2 DEF Opened
  <1>4. jobs[Next1].status = "none" BY <1>3 DEF EngineInv, JobInv
  <1>5. Next1 \notin parked BY <1>4 DEF EngineInv, ParkedInv
  <1> QED BY <1>1, <1>2, <1>3, <1>4, <1>5

LEMMA OpenKeeps ==
    ASSUME TypeOK, EngineInv, NEW job \in Job, JobInv(job), job.phase # "unused",
           Next1 \in Jobs, jobs' = [jobs EXCEPT ![Next1] = job], parked' = parked
    PROVE  Kept
  <1>0. jobs \in [Jobs -> Job] BY DEF TypeOK
  <1>1. /\ jobs[Next1].phase = "unused" /\ jobs[Next1].status = "none" /\ Next1 \notin parked
        /\ Next1 .. (Cardinality(Opened) + 1) = {Next1}
    BY NextIsUnused
  <1>2. jobs'[Next1] = job /\ \A i \in Jobs \ {Next1} : jobs'[i] = jobs[i] BY <1>0
  <1>3. \A i \in Jobs : JobInv(jobs'[i]) BY <1>2 DEF EngineInv
  <1>4. \A i \in Jobs : jobs'[i].phase # "unused" <=>
                            jobs[i].phase # "unused" \/ i \in Next1 .. (Cardinality(Opened) + 1)
    BY <1>1, <1>2
  <1>5. \A i \in parked' : jobs'[i].status = "pending_settlement"
    BY <1>1, <1>2 DEF EngineInv, ParkedInv, TypeOK
  <1>6. Next1 .. (Cardinality(Opened) + 1) \subseteq Jobs BY <1>1
  <1>7. EngineInv' BY <1>3, <1>4, <1>5, <1>6, Keeps DEF EngineInv
  <1>8. RowsKept BY <1>1, <1>2 DEF RowsKept
  <1> QED BY <1>0, <1>7, <1>8 DEF Kept

\* A new execution satisfies its part of the invariant.
LEMMA NewIsJob ==
    ASSUME NEW pair \in Pairs, NEW fee \in Fees, NEW mode \in Modes, NEW phase \in Phases
    PROVE  /\ NewJob(pair, fee, mode, phase) \in Job
           /\ (phase = "policy" /\ mode = "cycle") \/ phase = "unused"
                 => JobInv(NewJob(pair, fee, mode, phase))
  <1>1. {pair[1]} \in SUBSET Sources BY DEF Pairs
  <1>2. NewJob(pair, fee, mode, phase) \in Job BY <1>1 DEF NewJob, Job
  <1> QED BY <1>2 DEF NewJob, JobInv

LEMMA RowIsJob ==
    ASSUME NEW pair \in Pairs, NEW fee \in Fees, NEW mode \in Modes \ {"cycle"},
           NEW tried \in SUBSET Sources
    PROVE  /\ OpenRow(pair, fee, mode, tried) \in Job
           /\ JobInv(OpenRow(pair, fee, mode, tried))
           /\ OpenRow(pair, fee, mode, tried).phase = "call"
  <1>1. NewJob(pair, fee, mode, "call") \in Job BY NewIsJob DEF Phases
  <1>2. OpenRow(pair, fee, mode, tried) \in Job BY <1>1 DEF OpenRow, Job
  <1> QED BY <1>2 DEF OpenRow, NewJob, JobInv

LEMMA FacadeOpens ==
    ASSUME TypeOK, EngineInv, NEW pair \in Requests, NEW fee \in RequestFees
    PROVE  /\ \A mode \in {"manual", "diagnostic"} : Open(pair, fee, mode) => Kept
           /\ \A capex \in BOOLEAN : execute_rebalance(pair, fee, capex) => Kept
  <1>0. pair \in Pairs /\ fee \in Fees /\ {pair[1]} \in SUBSET Sources
    BY EngineAssumption DEF Pairs
  <1>1. ASSUME NEW mode \in {"manual", "diagnostic"}, Open(pair, fee, mode) PROVE Kept
    <2>1. mode \in Modes \ {"cycle"} BY DEF Modes
    <2> DEFINE row == OpenRow(pair, fee, mode, {pair[1]})
    <2>2. row \in Job /\ JobInv(row) /\ row.phase # "unused" BY <1>0, <2>1, RowIsJob
    <2>3. /\ Next1 \in Jobs /\ parked' = parked
          /\ jobs' = [jobs EXCEPT ![Next1] = row]
      BY <1>1 DEF Open, Set, cycleVars
    <2> HIDE DEF row
    <2> QED BY <2>2, <2>3, OpenKeeps
  <1>2. ASSUME NEW capex \in BOOLEAN, execute_rebalance(pair, fee, capex) PROVE Kept
    <2>1. "execute" \in Modes \ {"cycle"} BY DEF Modes
    <2> DEFINE row     == OpenRow(pair, fee, "execute", {pair[1]})
               held    == [row EXCEPT !.reservation = "active"]
               refused == [row EXCEPT !.status = "failed", !.class = "blocked",
                                      !.phase = "done"]
    <2>2. row \in Job /\ JobInv(row) /\ row.phase = "call" BY <1>0, <2>1, RowIsJob
    <2>3. row.mode = "execute" /\ row.wire = "none" /\ row.reservation = "none" /\ row.cost = 0
      BY DEF OpenRow, NewJob
    <2>4. Next1 \in Jobs /\ parked' = parked
      BY <1>2 DEF execute_rebalance, cycleVars
    <2>5. jobs' = [jobs EXCEPT ![Next1] = held] \/ jobs' = [jobs EXCEPT ![Next1] = refused]
      BY <1>2 DEF execute_rebalance, Set
    <2> HIDE DEF row
    <2>6. held \in Job /\ held.phase # "unused" BY <2>2 DEF Job
    <2>7. refused \in Job /\ refused.phase # "unused" BY <2>2, ZenonT(40) DEF Job, Phases
    <2>8. JobInv(held) BY <2>2, <2>3 DEF JobInv, Job
    <2>9. JobInv(refused) BY <2>2, <2>3 DEF JobInv, Job, Closed
    <2> HIDE DEF held, refused
    <2> QED BY <2>4, <2>5, <2>6, <2>7, <2>8, <2>9, OpenKeeps
  <1> QED BY <1>1, <1>2

LEMMA NextSourceKeeps ==
    ASSUME TypeOK, EngineInv, NEW j \in Jobs, NEW source \in Sources, NextSource(j, source)
    PROVE  Kept
  <1>0. jobs \in [Jobs -> Job] /\ jobs[j] \in Job BY DEF TypeOK
  <1>1. Next1 \in Jobs /\ jobs[j].phase = "retry" /\ parked' = parked
    BY DEF NextSource, At, Rest, cycleVars
  <1>2. /\ jobs[Next1].phase = "unused" /\ jobs[Next1].status = "none" /\ Next1 \notin parked
        /\ Next1 .. (Cardinality(Opened) + 1) = {Next1}
    BY <1>1, NextIsUnused
  <1>3. j # Next1 BY <1>1, <1>2
  <1> DEFINE row  == OpenRow(<<source, Dst(j)>>, jobs[j].fee, "diagnostic",
                             jobs[j].tried \cup {source})
             left == [jobs[j] EXCEPT !.phase = "done"]
  <1>4. row \in Job /\ JobInv(row) /\ row.phase = "call"
    <2>1. <<source, Dst(j)>> \in Pairs BY <1>0 DEF Dst, Job, Pairs
    <2>2. jobs[j].fee \in Fees /\ jobs[j].tried \cup {source} \in SUBSET Sources BY <1>0 DEF Job
    <2>3. "diagnostic" \in Modes \ {"cycle"} BY DEF Modes
    <2> QED BY <2>1, <2>2, <2>3, RowIsJob
  <1>5. left \in Job /\ left.phase = "done" /\ left.status = jobs[j].status
    BY <1>0 DEF Job, Phases
  <1>6. JobInv(left) BY <1>0, <1>1 DEF Job, EngineInv, JobInv, Closed, Swept
  <1>7. jobs' = [jobs EXCEPT ![j] = left, ![Next1] = row]
    BY DEF NextSource
  <1> HIDE DEF row, left
  <1>8. /\ jobs'[Next1] = row /\ jobs'[j] = left /\ jobs' \in [Jobs -> Job]
        /\ \A i \in Jobs \ {j, Next1} : jobs'[i] = jobs[i]
    BY <1>0, <1>1, <1>3, <1>4, <1>5, <1>7
  <1>9. \A i \in Jobs : JobInv(jobs'[i]) BY <1>4, <1>6, <1>8 DEF EngineInv
  <1>10. \A i \in Jobs : jobs'[i].phase # "unused" <=>
                             jobs[i].phase # "unused" \/ i \in Next1 .. (Cardinality(Opened) + 1)
    BY <1>1, <1>2, <1>4, <1>5, <1>8
  <1>11. \A i \in parked' : jobs'[i].status = "pending_settlement"
    BY <1>1, <1>2, <1>5, <1>8 DEF EngineInv, ParkedInv, TypeOK
  <1>12. EngineInv' BY <1>1, <1>2, <1>9, <1>10, <1>11, Keeps DEF EngineInv
  <1>13. RowsKept BY <1>2, <1>5, <1>8 DEF RowsKept
  <1> QED BY <1>8, <1>12, <1>13 DEF Kept

LEMMA SpawnKeeps ==
    ASSUME TypeOK, EngineInv, NEW m \in 1..MaxConcurrentJobs, SpawnWorkers(m)
    PROVE  Kept /\ awaited' \subseteq Jobs
  <1>0. jobs \in [Jobs -> Job] BY DEF TypeOK
  <1>1. PICK n \in 0..MaxJobs : Opened = 1..n /\ Cardinality(Opened) = n /\ Next1 = n + 1
    BY Numbering DEF EngineInv
  <1>2. n \in Nat /\ m \in Nat BY EngineAssumption
  <1> DEFINE J == Next1 .. (Cardinality(Opened) + m)
  <1>3. J \subseteq Jobs /\ parked' = {} /\ parked = {} /\ awaited' = J BY DEF SpawnWorkers
  <1>4. PICK pick \in [J -> Planned], fee \in [J -> Fees] :
            jobs' = [j \in Jobs |-> IF j \in J THEN NewJob(pick[j], fee[j], "cycle", "policy")
                                               ELSE jobs[j]]
    BY DEF SpawnWorkers
  <1>5. \A j \in J : jobs[j].phase = "unused" /\ jobs[j].status = "none"
    <2>1. \A j \in J : j \notin Opened BY <1>1, <1>2
    <2>2. \A j \in J : jobs[j].phase = "unused" BY <1>3, <2>1 DEF Opened
    <2> QED BY <1>3, <2>2 DEF EngineInv, JobInv
  <1>6. \A j \in J : NewJob(pick[j], fee[j], "cycle", "policy") \in Job
                        /\ JobInv(NewJob(pick[j], fee[j], "cycle", "policy"))
    <2> SUFFICES ASSUME NEW j \in J
                 PROVE  /\ NewJob(pick[j], fee[j], "cycle", "policy") \in Job
                        /\ JobInv(NewJob(pick[j], fee[j], "cycle", "policy"))
      OBVIOUS
    <2>1. pick[j] \in Pairs /\ fee[j] \in Fees BY EngineAssumption DEF Pairs
    <2>2. "cycle" \in Modes /\ "policy" \in Phases BY DEF Modes, Phases
    <2> QED BY <2>1, <2>2, NewIsJob
  <1>7. \A j \in J : NewJob(pick[j], fee[j], "cycle", "policy").phase = "policy" BY DEF NewJob
  <1> HIDE DEF J
  <1>8. /\ \A j \in J : jobs'[j] = NewJob(pick[j], fee[j], "cycle", "policy")
        /\ \A j \in Jobs \ J : jobs'[j] = jobs[j]
    BY <1>3, <1>4
  <1>9. jobs' \in [Jobs -> Job] BY <1>0, <1>4, <1>6
  <1>10. \A i \in Jobs : JobInv(jobs'[i]) BY <1>6, <1>8 DEF EngineInv
  <1>11. \A i \in Jobs : jobs'[i].phase # "unused" <=> jobs[i].phase # "unused" \/ i \in J
    BY <1>5, <1>7, <1>8
  <1>12. EngineInv' BY <1>2, <1>3, <1>10, <1>11, Keeps DEF EngineInv, J
  <1>13. RowsKept BY <1>5, <1>8 DEF RowsKept
  <1> QED BY <1>3, <1>9, <1>12, <1>13 DEF Kept

\* The cycle's own steps touch no execution.
LEMMA StillKeeps ==
    ASSUME TypeOK, EngineInv, jobs' = jobs,
           parked' \subseteq parked \/ parked' = pending_settlement_rows
    PROVE  Kept
  <1>1. NumberInv' /\ \A j \in Jobs : JobInv(jobs'[j])
    BY DEF EngineInv, NumberInv, Opened
  <1>2. ParkedInv' BY DEF EngineInv, ParkedInv, pending_settlement_rows
  <1>3. jobs' \in [Jobs -> Job] /\ RowsKept BY DEF TypeOK, RowsKept
  <1> QED BY <1>1, <1>2, <1>3 DEF Kept, EngineInv

LEMMA EngineStep ==
    ASSUME TypeOK, EngineInv, [Next]_vars
    PROVE  Kept
  <1>j. \A j \in Jobs : JobInv(jobs[j]) BY DEF EngineInv
  <1>1. CASE BeginCycle BY <1>1, StillKeeps DEF BeginCycle
  <1>2. CASE \E j \in Jobs : SweepSkips(j)
    <2>1. jobs' = jobs /\ parked' \subseteq parked BY <1>2 DEF SweepSkips
    <2> QED BY <2>1, StillKeeps
  <1>3. CASE \E j \in Jobs : reconcile_pending_row(j) BY <1>3, SweepKeeps
  <1>4. ASSUME NEW j \in Jobs, consume_worker_result(j) PROVE Kept
    <2>1. parked' \subseteq parked BY <1>4 DEF consume_worker_result
    <2>2. Moved(j) BY <1>j, <1>4, CallMoves
    <2> QED BY <2>1, <2>2, MovedKeeps
  <1>5. CASE \E n \in 1..MaxConcurrentJobs : SpawnWorkers(n) BY <1>5, SpawnKeeps
  <1>6. CASE NoCandidates \/ Deadline \/ CycleEnds \/ UNCHANGED vars
    <2>1. jobs' = jobs /\ parked' \subseteq parked
      BY <1>6 DEF NoCandidates, Deadline, CycleEnds, vars
    <2> QED BY <2>1, StillKeeps
  <1>7. ASSUME NEW j \in Jobs, Worker(j) PROVE Kept
    <2>1. parked' \subseteq parked
      BY <1>7 DEF Worker, PolicyBlocks, Enter, reserve_execution_budget, BudgetBlocks,
                  StopsBeforeWrite, Sendpay, SendpayUnheard, TimesOut, TransportFails, Completes,
                  Fails, Record, Finish, DropGuard, Rest, cycleVars
    <2>2. Moved(j)
      BY <1>j, <1>7, EnterMoves, ReserveMoves, PayMoves, FinishMoves DEF Worker
    <2> QED BY <2>1, <2>2, MovedKeeps
  <1>8. ASSUME NEW j \in Jobs, Caller(j) PROVE Kept
    <2>1. CASE \E s \in Sources : NextSource(j, s) BY <2>1, NextSourceKeeps
    <2>2. CASE EngineRefuses(j) \/ execute_candidate(j) \/ PricingFails(j) \/ FacadeSettles(j)
      <3>1. parked' \subseteq parked
        BY <2>2
            DEF EngineRefuses, execute_candidate, PricingFails, FacadeSettles, Rest, cycleVars
      <3>2. Moved(j) BY <1>j, <2>2, CallMoves, EnterMoves, FacadeMoves
      <3> QED BY <3>1, <3>2, MovedKeeps
    <2> QED BY <1>8, <2>1, <2>2 DEF Caller
  <1>9. ASSUME NEW j \in Jobs, NodeDecides(j) PROVE Kept
    <2>1. parked' \subseteq parked BY <1>9 DEF NodeDecides, Rest, cycleVars
    <2>2. Moved(j) BY <1>j, <1>9, NodeMoves
    <2> QED BY <2>1, <2>2, MovedKeeps
  <1>10. ASSUME NEW p \in Requests, NEW f \in RequestFees,
                \/ \E mode \in {"manual", "diagnostic"} : Open(p, f, mode)
                \/ \E capex \in BOOLEAN : execute_rebalance(p, f, capex)
         PROVE Kept
    BY <1>10, FacadeOpens
  <1> QED BY <1>1, <1>2, <1>3, <1>4, <1>5, <1>6, <1>7, <1>8, <1>9, <1>10 DEF Next, Cycle

-----------------------------------------------------------------------------
(* Types and the theorems on single executions *)

LEMMA TypeStep ==
    ASSUME TypeOK, EngineInv, [Next]_vars
    PROVE  TypeOK'
  <1> DEFINE Pools    == /\ inflight' \in [Dests -> Nat] /\ lock' \in {"free", "cycle", "explicit"}
             Progress == /\ cycle' \in {"idle", "sweep", "collect", "drain"}
                         /\ parked' \subseteq Jobs /\ awaited' \subseteq Jobs
             Tallies  == strikes' \in [Pairs -> 0..Threshold] /\ cooling' \subseteq Pairs
  <1>0. \A j \in Jobs : Dst(j) \in Dests /\ jobs[j].pair \in Pairs BY
      DEF TypeOK, Job, Dst, Pairs
  <1>t. Threshold \in Nat BY EngineAssumption
  <1>1. ASSUME BeginCycle \/ NoCandidates \/ Deadline \/ CycleEnds \/ UNCHANGED vars
        PROVE  Pools /\ Progress /\ Tallies
    <2>1. Pools /\ Progress
      BY <1>1 DEF BeginCycle, NoCandidates, Deadline, CycleEnds, vars, TypeOK,
                  pending_settlement_rows
    <2>2. Tallies
      BY <1>1 DEF BeginCycle, NoCandidates, Deadline, CycleEnds, vars, pairVars, TypeOK
    <2> QED BY <2>1, <2>2
  <1>2. ASSUME NEW j \in Jobs, SweepSkips(j) PROVE Pools /\ Progress /\ Tallies
    BY <1>2 DEF SweepSkips, pairVars, TypeOK
  <1>3. ASSUME NEW j \in Jobs, reconcile_pending_row(j) PROVE Pools /\ Progress /\ Tallies
    BY <1>0, <1>t, <1>3 DEF reconcile_pending_row, TypeOK
  <1>4. ASSUME NEW j \in Jobs, consume_worker_result(j) PROVE Pools /\ Progress /\ Tallies
    <2>1. Pools /\ Progress BY <1>4 DEF consume_worker_result, TypeOK
    <2>2. Tallies
      <3> DEFINE p == jobs[j].pair
      <3>1. \/ strikes' = [strikes EXCEPT ![p] = 0] /\ cooling' = cooling \ {p}
            \/ /\ strikes' = [strikes EXCEPT ![p] = IF @ < Threshold THEN @ + 1 ELSE @]
               /\ cooling' = cooling \cup {p}
            \/ strikes' = strikes /\ cooling' = cooling
        BY <1>4 DEF consume_worker_result, pairVars
      <3> QED BY <1>0, <1>t, <3>1 DEF TypeOK
    <2> QED BY <2>1, <2>2
  <1>5. ASSUME NEW n \in 1..MaxConcurrentJobs, SpawnWorkers(n) PROVE Pools /\ Progress /\ Tallies
    <2>1. awaited' \subseteq Jobs BY <1>5, SpawnKeeps
    <2> QED BY <1>5, <2>1 DEF SpawnWorkers, pairVars, TypeOK
  <1>6. ASSUME NEW j \in Jobs, Worker(j) PROVE Pools /\ Progress /\ Tallies
    <2>1. CASE PolicyBlocks(j) \/ Enter(j) \/ DropGuard(j)
      <3>1. Progress /\ Tallies
        BY <2>1 DEF PolicyBlocks, Enter, DropGuard, cycleVars, pairVars, TypeOK
      <3>2. inflight' \in {inflight, register(Dst(j)), unregister(Dst(j))}
        BY <2>1 DEF PolicyBlocks, Enter, DropGuard
      <3>3. inflight' \in [Dests -> Nat]
        BY <1>0, <3>2 DEF register, unregister, TypeOK
      <3>4. lock' \in {lock, "free"}
        BY <2>1 DEF PolicyBlocks, Enter, DropGuard, Leave, LeaveWith
      <3> QED BY <3>1, <3>3, <3>4 DEF TypeOK
    <2>2. CASE ~(PolicyBlocks(j) \/ Enter(j) \/ DropGuard(j))
      BY <1>6, <2>2 DEF Worker, reserve_execution_budget, BudgetBlocks,
                  StopsBeforeWrite, Sendpay, SendpayUnheard, TimesOut, TransportFails, Completes,
                  Fails, Record, Finish, Rest, cycleVars, pairVars, TypeOK
    <2> QED BY <2>1, <2>2
  <1>7. ASSUME NEW j \in Jobs, Caller(j) \/ NodeDecides(j) PROVE Pools /\ Progress /\ Tallies
    BY <1>7
        DEF Caller, EngineRefuses, execute_candidate, PricingFails, LeaveWith, FacadeSettles,
                NextSource, NodeDecides, Rest, cycleVars, pairVars, TypeOK
  <1>8. ASSUME NEW p \in Requests, NEW f \in RequestFees,
               \/ \E mode \in {"manual", "diagnostic"} : Open(p, f, mode)
               \/ \E capex \in BOOLEAN : execute_rebalance(p, f, capex)
         PROVE Pools /\ Progress /\ Tallies
    BY <1>8 DEF Open, execute_rebalance, cycleVars, pairVars, TypeOK
  <1>9. jobs' \in [Jobs -> Job] BY EngineStep DEF Kept
  <1>10. Pools /\ Progress /\ Tallies
    BY <1>1, <1>2, <1>3, <1>4, <1>5, <1>6, <1>7, <1>8 DEF Next, Cycle
  <1> QED BY <1>9, <1>10 DEF TypeOK

LEMMA InitHolds ==
    ASSUME Init
    PROVE  TypeOK /\ EngineInv
  <1>1. AnyPair \in Pairs /\ AnyFee \in Fees
    <2>0. PICK s \in Sources, d \in Dests : TRUE BY EngineAssumption
    <2>1. <<s, d>> \in Pairs /\ Fees # {} BY EngineAssumption DEF Pairs
    <2> QED BY <2>1 DEF AnyPair, AnyFee
  <1>2. "cycle" \in Modes /\ "unused" \in Phases BY DEF Modes, Phases
  <1> DEFINE fresh == NewJob(AnyPair, AnyFee, "cycle", "unused")
  <1>3. fresh \in Job /\ JobInv(fresh) /\ fresh.phase = "unused"
    BY <1>1, <1>2, NewIsJob DEF NewJob
  <1>4. jobs = [j \in Jobs |-> fresh] BY DEF Init
  <1> HIDE DEF fresh
  <1>5. Threshold \in Nat /\ MaxJobs \in Nat BY EngineAssumption
  <1>6. TypeOK BY <1>3, <1>4, <1>5 DEF Init, TypeOK
  <1>7. Opened = 1..0 BY <1>3, <1>4 DEF Opened
  <1>8. NumberInv BY <1>5, <1>7 DEF NumberInv
  <1>9. ParkedInv BY DEF Init, ParkedInv
  <1>10. \A j \in Jobs : JobInv(jobs[j]) BY <1>3, <1>4
  <1> QED BY <1>6, <1>8, <1>9, <1>10 DEF EngineInv

\* The inductive invariant, and the step property that comes with it.
LEMMA Invariance == Spec => [](TypeOK /\ EngineInv)
  <1>1. Init => TypeOK /\ EngineInv BY InitHolds
  <1>2. TypeOK /\ EngineInv /\ [Next]_vars => (TypeOK /\ EngineInv)'
    BY EngineStep, TypeStep DEF Kept
  <1> QED BY <1>1, <1>2, PTL DEF Spec

\* Every reachable state of the engine, the facade and the store is of the
\* declared types: no count goes below zero, no strike count passes its cap,
\* no status or reservation has a value its column does not know.
THEOREM TypeCorrect == Spec => []TypeOK
  BY Invariance, PTL

\* A reservation is released only when its payment can no longer take the fee
\* (finish_execution_budget, the facade and the sweep).
THEOREM Held == Spec => []HeldWhileLive
  <1>1. TypeOK /\ EngineInv => HeldWhileLive
    <2> SUFFICES ASSUME TypeOK, EngineInv, NEW j \in Jobs, jobs[j].reservation = "released",
                        ~jobs[j].cut
                 PROVE  jobs[j].wire \in {"none", "failed"}
      BY DEF HeldWhileLive
    <2>1. jobs[j].phase \in Phases BY DEF TypeOK, Job
    <2> QED BY <2>1 DEF EngineInv, JobInv, Handed, Closed, Swept, Phases, Window
  <1> QED BY <1>1, Invariance, PTL

\* A settled payment is charged exactly once, by the engine, the facade or the
\* sweep, and its reservation is settled with its row.
THEOREM Accounted == Spec => []AccountedOnce
  <1>1. TypeOK /\ EngineInv => AccountedOnce
    <2> SUFFICES ASSUME TypeOK, EngineInv, NEW j \in Jobs
                 PROVE  /\ jobs[j].cost <= 1
                        /\ At(j, "done") =>
                            /\ jobs[j].status = "success" =>
                                  /\ jobs[j].wire = "complete"
                                  /\ jobs[j].cost = IF jobs[j].paid > 0 THEN 1 ELSE 0
                                  /\ jobs[j].reservation \in {"none", "spent"}
                            /\ jobs[j].status \in {"failed", "skipped"} =>
                                  /\ jobs[j].cost = 0
                                  /\ jobs[j].reservation \in {"none", "released"}
                                  /\ jobs[j].wire \in {"inflight", "complete"} => jobs[j].cut
      BY DEF AccountedOnce
    <2>1. jobs[j].phase \in Phases /\ jobs[j].wire \in {"none", "inflight", "complete", "failed"}
      BY DEF TypeOK, Job
    <2>2. JobInv(jobs[j]) BY DEF EngineInv
    <2>3. jobs[j].cost <= 1
      BY <2>1, <2>2 DEF JobInv, Handed, Closed, Swept, Phases, Window
    <2>4. ASSUME At(j, "done") PROVE Closed(jobs[j]) BY <2>2, <2>4 DEF JobInv, At
    <2> QED BY <2>1, <2>3, <2>4 DEF Closed, Swept
  <1> QED BY <1>1, Invariance, PTL

\* An execution that is over keeps an active reservation only while its row
\* waits for the sweep.
THEOREM Owned == Spec => []ReservationsAreOwned
  <1>1. TypeOK /\ EngineInv => ReservationsAreOwned
    <2> SUFFICES ASSUME EngineInv, NEW j \in Jobs, jobs[j].reservation = "active", At(j, "done")
                 PROVE  jobs[j].status = "pending_settlement"
      BY DEF ReservationsAreOwned
    <2>1. Closed(jobs[j]) BY DEF EngineInv, JobInv, At
    <2> QED BY <2>1 DEF Closed, Swept
  <1> QED BY <1>1, Invariance, PTL

\* Sweep, worker and facade never overwrite a closed row.
THEOREM RowsFinal == Spec => RowsAreFinal
  <1>1. TypeOK /\ EngineInv /\ [Next]_vars =>
          [\A j \in Jobs : jobs[j].status \in {"success", "failed"}
                               => jobs'[j].status = jobs[j].status]_vars
    BY EngineStep DEF Kept, RowsKept
  <1> QED BY <1>1, Invariance, PTL DEF Spec, RowsAreFinal

-----------------------------------------------------------------------------
(* The engine lock and the destinations in flight *)

LEMMA EngagedFinite ==
    ASSUME NEW d
    PROVE  /\ IsFiniteSet(Engaged(d)) /\ Cardinality(Engaged(d)) \in Nat
           /\ Cardinality(Engaged(d)) = 0 <=> Engaged(d) = {}
  <1>1. IsFiniteSet(Jobs) BY EngineAssumption, FS_Interval DEF Jobs
  <1>2. IsFiniteSet(Engaged(d)) BY <1>1, FS_Subset DEF Engaged
  <1> QED BY <1>2, FS_CardinalityType, FS_EmptySet

\* A destination that is not in flight has nobody in its window.
LEMMA NobodyEngaged ==
    ASSUME WindowInv, NEW i \in Jobs, InWindow(i), Dst(i) \in Dests, inflight[Dst(i)] = 0
    PROVE  FALSE
  <1>1. i \in Engaged(Dst(i)) BY DEF Engaged
  <1>2. Cardinality(Engaged(Dst(i))) = 0 BY DEF WindowInv
  <1> QED BY <1>1, <1>2, EngagedFinite

\* No execution enters or leaves the part of the engine the lock and the
\* counts are about.
Apart(i) ==
    /\ jobs'[i].phase \in Window <=> jobs[i].phase \in Window
    /\ jobs'[i].phase = "policy" => jobs[i].phase = "policy"
    /\ jobs[i].phase \in Window \cup {"policy"} =>
          /\ jobs'[i].pair = jobs[i].pair /\ jobs'[i].mode = jobs[i].mode
          /\ jobs'[i].late = jobs[i].late
    /\ i \in awaited => jobs'[i].mode = jobs[i].mode /\ jobs'[i].phase # "unused"

LEMMA Quiet ==
    ASSUME TypeOK, WindowInv, \A i \in Jobs : Apart(i),
           inflight' = inflight, lock' = lock, cycle' = cycle, awaited' \subseteq awaited
    PROVE  WindowInv'
  <1>1. \A i \in Jobs : /\ OnTime(i)' => OnTime(i) /\ Dst(i)' = Dst(i)
                        /\ Explicit(i)' => Explicit(i)
    BY DEF Apart, OnTime, Explicit, InWindow, At, Dst
  <1>2. \A d \in Dests : Engaged(d)' = Engaged(d)
    BY DEF Apart, Engaged, InWindow, Dst
  <1>3. \A d \in Dests : inflight'[d] = Cardinality(Engaged(d)') BY <1>2 DEF WindowInv
  <1>4. \A j \in awaited' : jobs'[j].mode = "cycle" /\ jobs'[j].phase # "unused"
    BY DEF Apart, WindowInv, TypeOK
  <1>5. /\ \A j \in Jobs : Explicit(j)' => lock' = "explicit"
        /\ \A i, j \in Jobs : Explicit(i)' /\ Explicit(j)' => i = j
    BY <1>1 DEF WindowInv
  <1>6. \A i, j \in Jobs : OnTime(i)' /\ OnTime(j)' /\ i # j => Dst(i)' # Dst(j)'
    BY <1>1 DEF WindowInv
  <1>7. /\ (lock' = "cycle") <=> (cycle' # "idle")
        /\ awaited' # {} => cycle' \in {"collect", "drain"}
    BY DEF WindowInv
  <1> QED BY <1>3, <1>4, <1>5, <1>6, <1>7 DEF WindowInv, At

\* The same for a step of one execution.
LEMMA QuietStep ==
    ASSUME TypeOK, WindowInv, NEW j \in Jobs, Stepped(j),
           jobs'[j].late = jobs[j].late,
           jobs'[j].phase \in Window <=> jobs[j].phase \in Window,
           jobs'[j].phase = "policy" => jobs[j].phase = "policy",
           inflight' = inflight, lock' = lock, cycle' = cycle, awaited' \subseteq awaited
    PROVE  WindowInv'
  <1>1. \A i \in Jobs : Apart(i) BY DEF Apart, Stepped, WindowInv, At
  <1> QED BY <1>1, Quiet

\* A refused execution, policy or price, gives the lock back.
LEMMA BlocksWindow ==
    ASSUME TypeOK, WindowInv, NEW j \in Jobs, Stepped(j), PolicyBlocks(j) \/ PricingFails(j)
    PROVE  WindowInv'
  <1>1. /\ jobs[j].phase = "policy" /\ inflight' = inflight /\ cycle' = cycle /\ awaited' = awaited
        /\ lock' = IF jobs[j].mode = "cycle" THEN lock ELSE "free"
    BY DEF PolicyBlocks, PricingFails, LeaveWith, At, cycleVars
  <1>2. jobs'[j].phase \in {"returned", "sent", "done"}
    <2>1. PICK route \in BOOLEAN : LeaveWith(j, "failed", route)
      BY DEF PolicyBlocks, PricingFails, Markers
    <2> DEFINE next == IF jobs[j].mode # "cycle" THEN "returned"
                       ELSE IF j \in awaited THEN "sent" ELSE "done"
    <2>2. jobs' = [jobs EXCEPT ![j] = [jobs[j] EXCEPT !.class = "failed", !.route = route,
                                                      !.phase = next]]
      BY <2>1 DEF LeaveWith
    <2> QED BY <2>2 DEF TypeOK, Job
  <1>3. ~InWindow(j) /\ ~InWindow(j)' /\ ~OnTime(j)' /\ ~Explicit(j)'
    BY <1>1, <1>2 DEF InWindow, OnTime, Explicit, At, Window
  <1>4. \A i \in Jobs : /\ OnTime(i)' => OnTime(i) /\ Dst(i)' = Dst(i)
                        /\ Explicit(i)' => Explicit(i) /\ i # j
    BY <1>1, <1>3 DEF Stepped, OnTime, Explicit, InWindow, At, Dst
  <1>5. jobs[j].mode # "cycle" => Explicit(j) BY <1>1 DEF Explicit, At
  <1>6. \A d \in Dests : Engaged(d)' = Engaged(d)
    BY <1>3 DEF Engaged, InWindow, Dst, Stepped
  <1>7. \A d \in Dests : inflight'[d] = Cardinality(Engaged(d)') BY <1>1, <1>6 DEF WindowInv
  <1>8. \A i \in awaited' : jobs'[i].mode = "cycle" /\ jobs'[i].phase # "unused"
    BY <1>1 DEF WindowInv, TypeOK, Stepped, At
  <1>9. /\ \A i \in Jobs : Explicit(i)' => lock' = "explicit"
        /\ \A i, k \in Jobs : Explicit(i)' /\ Explicit(k)' => i = k
    BY <1>1, <1>4, <1>5 DEF WindowInv
  <1>10. \A i, k \in Jobs : OnTime(i)' /\ OnTime(k)' /\ i # k => Dst(i)' # Dst(k)'
    BY <1>4 DEF WindowInv
  <1>11. /\ (lock' = "cycle") <=> (cycle' # "idle")
         /\ awaited' # {} => cycle' \in {"collect", "drain"}
    BY <1>1, <1>5 DEF WindowInv
  <1> QED BY <1>7, <1>8, <1>9, <1>10, <1>11 DEF WindowInv, At

LEMMA EnterWindow ==
    ASSUME TypeOK, WindowInv, NEW j \in Jobs, Stepped(j), Enter(j)
    PROVE  WindowInv'
  <1>0. Dst(j) \in Dests /\ inflight \in [Dests -> Nat] BY DEF TypeOK, Job, Dst, Pairs
  <1>1. /\ jobs[j].phase = "policy" /\ inflight' = register(Dst(j)) /\ cycle' = cycle
        /\ awaited' = awaited /\ lock' = lock
    BY DEF Enter, At, cycleVars
  <1>2. /\ jobs'[j].phase \in {"reserve", "pay"}
        /\ jobs'[j].late = (jobs[j].mode = "cycle" /\ j \notin awaited)
    BY DEF Enter, TypeOK, Job
  <1>3. ~InWindow(j) /\ InWindow(j)' BY <1>1, <1>2 DEF InWindow, Window
  <1>4. \A i \in Jobs : /\ OnTime(i)' => OnTime(i) /\ Dst(i)' = Dst(i)
                        /\ Explicit(i)' => Explicit(i)
    BY <1>1, <1>2 DEF Stepped, OnTime, Explicit, InWindow, At, Dst, Window
  <1>5. \A d \in Dests : inflight'[d] = Cardinality(Engaged(d)')
    <2>1. ASSUME NEW d \in Dests, d # Dst(j) PROVE inflight'[d] = Cardinality(Engaged(d)')
      <3>1. Engaged(d)' = Engaged(d) BY <2>1 DEF Engaged, InWindow, Dst, Stepped
      <3>2. inflight'[d] = inflight[d] BY <1>0, <1>1, <2>1 DEF register
      <3> QED BY <3>1, <3>2 DEF WindowInv
    <2>2. inflight'[Dst(j)] = Cardinality(Engaged(Dst(j)) \cup {j})
      <3>1. j \notin Engaged(Dst(j)) BY <1>3 DEF Engaged
      <3>2. Cardinality(Engaged(Dst(j)) \cup {j}) = Cardinality(Engaged(Dst(j))) + 1
        BY <3>1, EngagedFinite, FS_AddElement
      <3>3. inflight'[Dst(j)] = inflight[Dst(j)] + 1 BY <1>0, <1>1 DEF register
      <3> QED BY <1>0, <3>2, <3>3 DEF WindowInv
    <2>3. ASSUME NEW d \in Dests, d = Dst(j) PROVE Engaged(d)' = Engaged(d) \cup {j}
      BY <1>3, <2>3 DEF Engaged, InWindow, Dst, Stepped
    <2> QED BY <2>1, <2>2, <2>3
  <1>6. \A i \in awaited' : jobs'[i].mode = "cycle" /\ jobs'[i].phase # "unused"
    BY <1>1 DEF WindowInv, TypeOK, Stepped, At
  <1>7. /\ \A i \in Jobs : Explicit(i)' => lock' = "explicit"
        /\ \A i, k \in Jobs : Explicit(i)' /\ Explicit(k)' => i = k
    BY <1>1, <1>4 DEF WindowInv
  <1>8. \A i, k \in Jobs : OnTime(i)' /\ OnTime(k)' /\ i # k => Dst(i)' # Dst(k)'
    BY <1>4 DEF WindowInv
  <1>9. /\ (lock' = "cycle") <=> (cycle' # "idle")
        /\ awaited' # {} => cycle' \in {"collect", "drain"}
    BY <1>1 DEF WindowInv
  <1> QED BY <1>5, <1>6, <1>7, <1>8, <1>9 DEF WindowInv, At

\* The guard's drop undoes its own registration and no other.
LEMMA DropWindow ==
    ASSUME TypeOK, WindowInv, NEW j \in Jobs, Stepped(j), DropGuard(j)
    PROVE  WindowInv'
  <1>0. Dst(j) \in Dests /\ inflight \in [Dests -> Nat] BY DEF TypeOK, Job, Dst, Pairs
  <1>1. /\ jobs[j].phase = "leave" /\ inflight' = unregister(Dst(j)) /\ cycle' = cycle
        /\ awaited' = awaited
        /\ lock' = IF jobs[j].mode = "cycle" THEN lock ELSE "free"
    BY DEF DropGuard, Leave, At, cycleVars
  <1>2. jobs'[j].phase \in {"returned", "sent", "done"}
    BY DEF DropGuard, Leave, TypeOK, Job
  <1>3. InWindow(j) /\ ~InWindow(j)' /\ ~OnTime(j)' /\ ~Explicit(j)'
    BY <1>1, <1>2 DEF InWindow, OnTime, Explicit, At, Window
  <1>4. \A i \in Jobs : /\ OnTime(i)' => OnTime(i) /\ Dst(i)' = Dst(i)
                        /\ Explicit(i)' => Explicit(i) /\ i # j
    BY <1>1, <1>3 DEF Stepped, OnTime, Explicit, InWindow, At, Dst
  <1>5. jobs[j].mode # "cycle" => Explicit(j) BY <1>3 DEF Explicit
  <1>6. \A d \in Dests : inflight'[d] = Cardinality(Engaged(d)')
    <2>1. ASSUME NEW d \in Dests, d # Dst(j) PROVE inflight'[d] = Cardinality(Engaged(d)')
      <3>1. Engaged(d)' = Engaged(d) BY <2>1 DEF Engaged, InWindow, Dst, Stepped
      <3>2. inflight'[d] = inflight[d] BY <1>0, <1>1, <2>1 DEF unregister
      <3> QED BY <3>1, <3>2 DEF WindowInv
    <2>2. inflight'[Dst(j)] = Cardinality(Engaged(Dst(j)) \ {j})
      <3>1. j \in Engaged(Dst(j)) BY <1>3 DEF Engaged
      <3>2. Cardinality(Engaged(Dst(j)) \ {j}) = Cardinality(Engaged(Dst(j))) - 1
        BY <3>1, EngagedFinite, FS_RemoveElement
      <3>3. Cardinality(Engaged(Dst(j))) \in Nat \ {0} BY <3>1, EngagedFinite
      <3>4. inflight[Dst(j)] = Cardinality(Engaged(Dst(j))) BY <1>0 DEF WindowInv
      <3>5. inflight'[Dst(j)] = inflight[Dst(j)] - 1 BY <1>0, <1>1, <3>3, <3>4 DEF unregister
      <3> QED BY <3>2, <3>4, <3>5
    <2>3. ASSUME NEW d \in Dests, d = Dst(j) PROVE Engaged(d)' = Engaged(d) \ {j}
      BY <1>3, <2>3 DEF Engaged, InWindow, Dst, Stepped
    <2> QED BY <2>1, <2>2, <2>3
  <1>8. \A i \in awaited' : jobs'[i].mode = "cycle" /\ jobs'[i].phase # "unused"
    BY <1>1 DEF WindowInv, TypeOK, Stepped, At
  <1>9. /\ \A i \in Jobs : Explicit(i)' => lock' = "explicit"
        /\ \A i, k \in Jobs : Explicit(i)' /\ Explicit(k)' => i = k
    BY <1>1, <1>4, <1>5 DEF WindowInv
  <1>10. \A i, k \in Jobs : OnTime(i)' /\ OnTime(k)' /\ i # k => Dst(i)' # Dst(k)'
    BY <1>4 DEF WindowInv
  <1>11. /\ (lock' = "cycle") <=> (cycle' # "idle")
         /\ awaited' # {} => cycle' \in {"collect", "drain"}
    BY <1>1, <1>5 DEF WindowInv
  <1> QED BY <1>6, <1>8, <1>9, <1>10, <1>11 DEF WindowInv, At

\* The lock is free and the destination is not in flight.
LEMMA AcceptWindow ==
    ASSUME TypeOK, WindowInv, NEW j \in Jobs, JobInv(jobs[j]), Stepped(j), execute_candidate(j)
    PROVE  WindowInv'
  <1>0. \A i \in Jobs : Dst(i) \in Dests BY DEF TypeOK, Job, Dst, Pairs
  <1>1. /\ jobs[j].phase = "call" /\ lock = "free" /\ inflight[Dst(j)] = 0 /\ lock' = "explicit"
        /\ inflight' = inflight /\ cycle' = cycle /\ awaited' = awaited
    BY DEF execute_candidate, Accepts, At, cycleVars
  <1>2. jobs'[j].phase = "policy" /\ jobs[j].mode # "cycle"
    BY <1>1 DEF execute_candidate, TypeOK, Job, JobInv
  <1>3. cycle = "idle" /\ awaited = {} /\ \A i \in Jobs : ~Explicit(i)
    BY <1>1 DEF WindowInv
  <1>4. \A i \in Jobs : OnTime(i)' /\ i # j => InWindow(i) /\ OnTime(i)
    BY <1>1, <1>3 DEF Stepped, OnTime, Explicit, InWindow, At
  <1>5. \A i \in Jobs : Dst(i)' = Dst(i) /\ (Explicit(i)' => i = j)
    BY <1>3 DEF Stepped, Explicit, InWindow, At, Dst
  <1>6. \A i \in Jobs : OnTime(i)' /\ i # j => Dst(i) # Dst(j)
    BY <1>0, <1>1, <1>4, NobodyEngaged
  <1>7. \A d \in Dests : Engaged(d)' = Engaged(d)
    BY <1>1, <1>2 DEF Engaged, InWindow, Dst, Stepped, Window
  <1>8. \A d \in Dests : inflight'[d] = Cardinality(Engaged(d)') BY <1>1, <1>7 DEF WindowInv
  <1>9. \A i, k \in Jobs : OnTime(i)' /\ OnTime(k)' /\ i # k => Dst(i)' # Dst(k)'
    BY <1>4, <1>5, <1>6 DEF WindowInv
  <1> QED BY <1>1, <1>3, <1>5, <1>8, <1>9 DEF WindowInv

\* The cycle takes the lock, gives it back, or stops listening.
LEMMA CycleWindow ==
    ASSUME TypeOK, WindowInv, BeginCycle \/ NoCandidates \/ Deadline \/ CycleEnds
    PROVE  WindowInv'
  <1>1. /\ jobs' = jobs /\ inflight' = inflight /\ awaited' \subseteq awaited
        /\ awaited' # {} => cycle' \in {"collect", "drain"}
        /\ (lock' = "cycle") <=> (cycle' # "idle")
        /\ lock = "explicit" => lock' = "explicit"
    BY DEF BeginCycle, NoCandidates, Deadline, CycleEnds, WindowInv
  <1>2. \A i \in Jobs : /\ OnTime(i)' => OnTime(i) /\ Dst(i)' = Dst(i)
                        /\ Explicit(i)' => Explicit(i)
    BY <1>1 DEF OnTime, Explicit, InWindow, At, Dst
  <1>3. \A d \in Dests : Engaged(d)' = Engaged(d)
    BY <1>1 DEF Engaged, InWindow, Dst
  <1>4. \A d \in Dests : inflight'[d] = Cardinality(Engaged(d)') BY <1>1, <1>3 DEF WindowInv
  <1>5. \A i \in awaited' : jobs'[i].mode = "cycle" /\ jobs'[i].phase # "unused"
    BY <1>1 DEF WindowInv, At
  <1>6. /\ \A i \in Jobs : Explicit(i)' => lock' = "explicit"
        /\ \A i, k \in Jobs : Explicit(i)' /\ Explicit(k)' => i = k
    BY <1>1, <1>2 DEF WindowInv
  <1>7. \A i, k \in Jobs : OnTime(i)' /\ OnTime(k)' /\ i # k => Dst(i)' # Dst(k)'
    BY <1>2 DEF WindowInv
  <1> QED BY <1>1, <1>4, <1>5, <1>6, <1>7 DEF WindowInv, At

\* The cycle's workers have destinations of their own, none of them in flight.
LEMMA SpawnWindow ==
    ASSUME TypeOK, EngineInv, WindowInv, NEW m \in 1..MaxConcurrentJobs, SpawnWorkers(m)
    PROVE  WindowInv'
  <1>0. jobs \in [Jobs -> Job] /\ \A i \in Jobs : Dst(i) \in Dests
    BY DEF TypeOK, Job, Dst, Pairs
  <1>1. PICK n \in 0..MaxJobs : Opened = 1..n /\ Cardinality(Opened) = n /\ Next1 = n + 1
    BY Numbering DEF EngineInv
  <1>2. n \in Nat /\ m \in Nat BY EngineAssumption
  <1> DEFINE J == Next1 .. (Cardinality(Opened) + m)
  <1>3. /\ J \subseteq Jobs /\ awaited' = J /\ cycle = "sweep" /\ cycle' = "collect"
        /\ inflight' = inflight /\ lock' = lock
    BY DEF SpawnWorkers
  <1>4. PICK pick \in [J -> Planned], fee \in [J -> Fees] :
            /\ Selectable(J, pick)
            /\ jobs' = [j \in Jobs |-> IF j \in J THEN NewJob(pick[j], fee[j], "cycle", "policy")
                                                  ELSE jobs[j]]
    BY DEF SpawnWorkers
  <1>5. \A j \in J : jobs[j].phase = "unused"
    <2>1. \A j \in J : j \notin Opened BY <1>1, <1>2
    <2> QED BY <1>3, <2>1 DEF Opened
  <1> HIDE DEF J
  <1>6. /\ \A j \in J : /\ jobs'[j].phase = "policy" /\ jobs'[j].mode = "cycle"
                        /\ jobs'[j].pair = pick[j]
        /\ \A j \in Jobs \ J : jobs'[j] = jobs[j]
    BY <1>3, <1>4 DEF NewJob
  <1>7. lock = "cycle" /\ awaited = {} /\ \A i \in Jobs : ~Explicit(i) BY <1>3 DEF WindowInv
  <1>8. \A i \in Jobs : ~Explicit(i)' BY <1>6, <1>7 DEF Explicit, InWindow, At
  <1>9. \A i \in Jobs \ J : /\ OnTime(i)' => OnTime(i) /\ InWindow(i)
                            /\ Dst(i)' = Dst(i)
    BY <1>3, <1>6, <1>7 DEF OnTime, Explicit, InWindow, At, Dst
  <1>10. \A j \in J : Dst(j)' = pick[j][2] /\ inflight[pick[j][2]] = 0
    BY <1>4, <1>6 DEF Selectable, Dst
  <1>11. \A i \in Jobs \ J, j \in J : OnTime(i)' => Dst(i)' # Dst(j)'
    BY <1>0, <1>9, <1>10, NobodyEngaged
  <1>12. \A i, j \in J : i # j => Dst(i)' # Dst(j)' BY <1>4, <1>10 DEF Selectable
  <1>13. \A i, k \in Jobs : OnTime(i)' /\ OnTime(k)' /\ i # k => Dst(i)' # Dst(k)'
    BY <1>9, <1>11, <1>12 DEF WindowInv
  <1>14. \A d \in Dests : Engaged(d)' = Engaged(d)
    BY <1>5, <1>6 DEF Engaged, InWindow, Dst, Window
  <1>15. \A d \in Dests : inflight'[d] = Cardinality(Engaged(d)') BY <1>3, <1>14 DEF WindowInv
  <1> QED BY <1>3, <1>6, <1>7, <1>8, <1>13, <1>15 DEF WindowInv, At

\* Opening an execution changes nothing inside the engine.
LEMMA OpenWindow ==
    ASSUME TypeOK, EngineInv, WindowInv, Next1 \in Jobs,
           jobs'[Next1].phase \in {"call", "done"},
           NEW j \in Jobs, jobs[j].phase = "retry" => jobs'[j].phase = "done",
           jobs[j].phase # "retry" => jobs'[j] = jobs[j] \/ j = Next1,
           jobs'[j].mode = jobs[j].mode \/ j = Next1,
           \A i \in Jobs \ {j, Next1} : jobs'[i] = jobs[i],
           inflight' = inflight, lock' = lock, cycle' = cycle, awaited' = awaited
    PROVE  WindowInv'
  <1>1. jobs[Next1].phase = "unused" BY NextIsUnused
  <1>2. Next1 \notin awaited BY <1>1 DEF WindowInv, At
  <1>3. \A i \in Jobs : Apart(i) BY <1>1, <1>2 DEF Apart, Window, WindowInv, At
  <1> QED BY <1>3, Quiet

\* Inside the window, and outside the engine.
LEMMA StaysPut ==
    ASSUME TypeOK, NEW j \in Jobs, Stepped(j), JobInv(jobs[j])
    PROVE  /\ \/ reserve_execution_budget(j) \/ BudgetBlocks(j) \/ StopsBeforeWrite(j)
              \/ Sendpay(j) \/ SendpayUnheard(j) \/ TimesOut(j) \/ TransportFails(j)
              \/ Completes(j) \/ Fails(j) \/ Record(j) \/ Finish(j)
              => /\ jobs[j].phase \in Window /\ jobs'[j].phase \in Window
                 /\ jobs'[j].late = jobs[j].late
           /\ NodeDecides(j) \/ reconcile_pending_row(j)
              => jobs'[j].phase = jobs[j].phase /\ jobs'[j].late = jobs[j].late
           /\ consume_worker_result(j) \/ EngineRefuses(j) \/ FacadeSettles(j)
              => /\ jobs[j].phase \in {"sent", "call", "returned"}
                 /\ jobs'[j].phase \in {"done", "retry", "returned"}
                 /\ jobs'[j].late = jobs[j].late
  <1>0. jobs[j] \in Job /\ jobs \in [Jobs -> Job] BY DEF TypeOK
  <1>1. ASSUME \/ reserve_execution_budget(j) \/ BudgetBlocks(j) \/ Sendpay(j)
               \/ SendpayUnheard(j) \/ TransportFails(j) \/ Finish(j)
        PROVE  /\ jobs[j].phase \in Window /\ jobs'[j].phase \in Window
               /\ jobs'[j].late = jobs[j].late
    BY <1>0, <1>1 DEF reserve_execution_budget, BudgetBlocks, Sendpay, SendpayUnheard,
                      TransportFails, Finish, At, Window, Job
  <1>2. ASSUME StopsBeforeWrite(j) \/ TimesOut(j) \/ Completes(j) \/ Fails(j)
        PROVE  /\ jobs[j].phase \in Window /\ jobs'[j].phase \in Window
               /\ jobs'[j].late = jobs[j].late
    <2>1. /\ jobs[j].phase \in Window
          /\ \/ jobs' = [jobs EXCEPT ![j].phase = "pay"]
             \/ \E class \in {"success", "pending", "failed"}, route \in BOOLEAN :
                    Ends(j, class, route)
      BY <1>2 DEF StopsBeforeWrite, TimesOut, Completes, Fails, Markers, At, Window
    <2>2. CASE jobs' = [jobs EXCEPT ![j].phase = "pay"] BY <1>0, <2>1, <2>2 DEF Window, Job
    <2>3. ASSUME NEW class, NEW route, Ends(j, class, route)
          PROVE  jobs'[j].phase \in Window /\ jobs'[j].late = jobs[j].late
      BY <1>0, <2>3 DEF Ends, Window, Job
    <2> QED BY <2>1, <2>2, <2>3
  <1>3. ASSUME Record(j)
        PROVE  /\ jobs[j].phase \in Window /\ jobs'[j].phase \in Window
               /\ jobs'[j].late = jobs[j].late
    BY <1>0, <1>3 DEF Record, record_rebalance_result, Set, At, Window, Job, JobInv
  <1>4. ASSUME NodeDecides(j) \/ reconcile_pending_row(j)
        PROVE  jobs'[j].phase = jobs[j].phase /\ jobs'[j].late = jobs[j].late
    <2>1. CASE NodeDecides(j)
      <3>1. CASE jobs' = [jobs EXCEPT ![j].wire = "failed"] BY <1>0, <3>1 DEF Job
      <3>2. ASSUME NEW paid, jobs' = [jobs EXCEPT ![j].wire = "complete", ![j].paid = paid]
            PROVE  jobs'[j].phase = jobs[j].phase /\ jobs'[j].late = jobs[j].late
        BY <1>0, <3>2 DEF Job
      <3> QED BY <2>1, <3>1, <3>2 DEF NodeDecides
    <2>2. CASE jobs' = [jobs EXCEPT ![j] = SweptComplete(jobs[j])]
      BY <1>0, <2>2 DEF SweptComplete, Job
    <2>3. CASE jobs' = [jobs EXCEPT ![j] = SweptFailed(jobs[j])]
      BY <1>0, <2>3 DEF SweptFailed, Job
    <2> QED BY <1>4, <2>1, <2>2, <2>3 DEF reconcile_pending_row, Set
  <1>5. ASSUME consume_worker_result(j) \/ EngineRefuses(j)
        PROVE  /\ jobs[j].phase \in {"sent", "call", "returned"}
               /\ jobs'[j].phase \in {"done", "retry", "returned"}
               /\ jobs'[j].late = jobs[j].late
    BY <1>0, <1>5 DEF consume_worker_result, EngineRefuses, At, Job
  <1>6. ASSUME FacadeSettles(j)
        PROVE  /\ jobs[j].phase \in {"sent", "call", "returned"}
               /\ jobs'[j].phase \in {"done", "retry", "returned"}
               /\ jobs'[j].late = jobs[j].late
    BY <1>0, <1>6 DEF FacadeSettles, FacadeSettled, Set, At, Job
  <1> QED BY <1>1, <1>2, <1>3, <1>4, <1>5, <1>6

LEMMA WindowStep ==
    ASSUME TypeOK, EngineInv, WindowInv, [Next]_vars
    PROVE  WindowInv'
  <1>j. \A j \in Jobs : JobInv(jobs[j]) BY DEF EngineInv
  <1>1. CASE BeginCycle \/ NoCandidates \/ Deadline \/ CycleEnds BY <1>1, CycleWindow
  <1>2. CASE UNCHANGED vars \/ \E j \in Jobs : SweepSkips(j)
    <2>1. /\ jobs' = jobs /\ inflight' = inflight /\ lock' = lock /\ cycle' = cycle
          /\ awaited' = awaited
      BY <1>2 DEF vars, SweepSkips
    <2>2. \A i \in Jobs : Apart(i) BY <2>1 DEF Apart, WindowInv, At
    <2> QED BY <2>1, <2>2, Quiet
  <1>3. ASSUME NEW j \in Jobs, reconcile_pending_row(j) PROVE WindowInv'
    <2>1. Stepped(j)
      BY <1>j, <1>3, SweepSteps DEF reconcile_pending_row, EngineInv, ParkedInv
    <2>2. jobs'[j].phase = jobs[j].phase /\ jobs'[j].late = jobs[j].late
      BY <1>j, <1>3, <2>1, StaysPut
    <2>3. inflight' = inflight /\ lock' = lock /\ cycle' = cycle /\ awaited' = awaited
      BY <1>3 DEF reconcile_pending_row
    <2> QED BY <2>1, <2>2, <2>3, QuietStep
  <1>4. ASSUME NEW j \in Jobs, consume_worker_result(j) \/ EngineRefuses(j) \/ FacadeSettles(j)
        PROVE  WindowInv'
    <2>1. Stepped(j) BY <1>j, <1>4, CallMoves, FacadeMoves DEF Moved
    <2>2. /\ jobs[j].phase \in {"sent", "call", "returned"}
          /\ jobs'[j].phase \in {"done", "retry", "returned"}
          /\ jobs'[j].late = jobs[j].late
      BY <1>j, <1>4, <2>1, StaysPut
    <2>3. jobs[j].phase \notin Window /\ jobs'[j].phase \notin Window /\ jobs'[j].phase # "policy"
      BY <2>2 DEF Window
    <2>4. inflight' = inflight /\ lock' = lock /\ cycle' = cycle /\ awaited' \subseteq awaited
      BY <1>4 DEF consume_worker_result, EngineRefuses, FacadeSettles, Rest, cycleVars
    <2> QED BY <2>1, <2>2, <2>3, <2>4, QuietStep
  <1>5. CASE \E n \in 1..MaxConcurrentJobs : SpawnWorkers(n) BY <1>5, SpawnWindow
  <1>6. ASSUME NEW j \in Jobs, PolicyBlocks(j) \/ PricingFails(j) \/ Enter(j) \/ DropGuard(j)
        PROVE  WindowInv'
    <2>1. Stepped(j) BY <1>j, <1>6, EnterMoves, FinishMoves DEF Moved
    <2> QED BY <1>6, <2>1, BlocksWindow, EnterWindow, DropWindow
  <1>7. ASSUME NEW j \in Jobs,
               \/ reserve_execution_budget(j) \/ BudgetBlocks(j) \/ StopsBeforeWrite(j)
               \/ Sendpay(j) \/ SendpayUnheard(j) \/ TimesOut(j) \/ TransportFails(j)
               \/ Completes(j) \/ Fails(j) \/ Record(j) \/ Finish(j)
        PROVE  WindowInv'
    <2>1. Stepped(j) BY <1>j, <1>7, ReserveMoves, PayMoves, FinishMoves DEF Moved
    <2>2. /\ jobs[j].phase \in Window /\ jobs'[j].phase \in Window
          /\ jobs'[j].late = jobs[j].late
      BY <1>j, <1>7, <2>1, StaysPut
    <2>3. jobs'[j].phase # "policy" BY <2>2 DEF Window
    <2>4. inflight' = inflight /\ lock' = lock /\ cycle' = cycle /\ awaited' = awaited
      BY <1>7 DEF reserve_execution_budget, BudgetBlocks, StopsBeforeWrite, Sendpay,
                  SendpayUnheard, TimesOut, TransportFails, Completes, Fails, Record, Finish,
                  Rest, cycleVars
    <2> QED BY <2>1, <2>2, <2>3, <2>4, QuietStep
  <1>8. ASSUME NEW j \in Jobs, execute_candidate(j) PROVE WindowInv'
    <2>1. Stepped(j) BY <1>j, <1>8, CallMoves DEF Moved
    <2> QED BY <1>j, <1>8, <2>1, AcceptWindow
  <1>9. ASSUME NEW j \in Jobs, NodeDecides(j) PROVE WindowInv'
    <2>1. Stepped(j) BY <1>j, <1>9, NodeMoves DEF Moved
    <2>2. jobs'[j].phase = jobs[j].phase /\ jobs'[j].late = jobs[j].late
      BY <1>j, <1>9, <2>1, StaysPut
    <2>3. inflight' = inflight /\ lock' = lock /\ cycle' = cycle /\ awaited' = awaited
      BY <1>9 DEF NodeDecides, Rest, cycleVars
    <2> QED BY <2>1, <2>2, <2>3, QuietStep
  <1>10. ASSUME NEW j \in Jobs, NEW s \in Sources, NextSource(j, s) PROVE WindowInv'
    <2>1. /\ Next1 \in Jobs /\ jobs[j].phase = "retry"
          /\ inflight' = inflight /\ lock' = lock /\ cycle' = cycle /\ awaited' = awaited
      BY <1>10 DEF NextSource, At, Rest, cycleVars
    <2>2. j # Next1 BY <2>1, NextIsUnused
    <2> DEFINE row == OpenRow(<<s, Dst(j)>>, jobs[j].fee, "diagnostic", jobs[j].tried \cup {s})
               left == [jobs[j] EXCEPT !.phase = "done"]
    <2>3. row.phase = "call" BY DEF OpenRow, NewJob
    <2>4. left.phase = "done" /\ left.mode = jobs[j].mode BY DEF TypeOK, Job
    <2>5. jobs' = [jobs EXCEPT ![j] = left, ![Next1] = row] BY <1>10 DEF NextSource
    <2> HIDE DEF row, left
    <2>6. /\ jobs'[Next1] = row /\ jobs'[j] = left
          /\ \A i \in Jobs \ {j, Next1} : jobs'[i] = jobs[i]
      BY <2>1, <2>2, <2>5 DEF TypeOK
    <2> QED BY <2>1, <2>3, <2>4, <2>6, OpenWindow
  <1>11. ASSUME NEW p \in Requests, NEW f \in RequestFees,
                \/ \E mode \in {"manual", "diagnostic"} : Open(p, f, mode)
                \/ \E capex \in BOOLEAN : execute_rebalance(p, f, capex)
         PROVE  WindowInv'
    <2>1. /\ Next1 \in Jobs
          /\ inflight' = inflight /\ lock' = lock /\ cycle' = cycle /\ awaited' = awaited
      BY <1>11 DEF Open, execute_rebalance, cycleVars
    <2>2. PICK row : jobs' = [jobs EXCEPT ![Next1] = row] /\ row.phase \in {"call", "done"}
      <3>1. CASE \E mode \in {"manual", "diagnostic"} : Open(p, f, mode)
        <4>1. PICK mode \in {"manual", "diagnostic"} : Open(p, f, mode) BY <3>1
        <4>2. jobs' = [jobs EXCEPT ![Next1] = OpenRow(p, f, mode, {p[1]})] BY <4>1 DEF Open, Set
        <4>3. OpenRow(p, f, mode, {p[1]}).phase = "call" BY DEF OpenRow, NewJob
        <4> QED BY <4>2, <4>3
      <3>2. CASE \E capex \in BOOLEAN : execute_rebalance(p, f, capex)
        <4> DEFINE row     == OpenRow(p, f, "execute", {p[1]})
                   held    == [row EXCEPT !.reservation = "active"]
                   refused == [row EXCEPT !.status = "failed", !.class = "blocked",
                                          !.phase = "done"]
        <4>1. jobs' = [jobs EXCEPT ![Next1] = held] \/ jobs' = [jobs EXCEPT ![Next1] = refused]
          BY <3>2 DEF execute_rebalance, Set
        <4>2. held.phase = "call" /\ refused.phase = "done" BY DEF OpenRow, NewJob
        <4> HIDE DEF held, refused
        <4> QED BY <4>1, <4>2
      <3> QED BY <1>11, <3>1, <3>2
    <2>3. jobs'[Next1] = row /\ \A i \in Jobs \ {Next1} : jobs'[i] = jobs[i]
      BY <2>1, <2>2 DEF TypeOK
    <2>4. jobs[Next1].phase = "unused" BY <2>1, NextIsUnused
    <2> QED BY <2>1, <2>2, <2>3, <2>4, OpenWindow
  <1> QED
    BY <1>1, <1>2, <1>3, <1>4, <1>5, <1>6, <1>7, <1>8, <1>9, <1>10, <1>11
    DEF Next, Cycle, Worker, Caller

LEMMA InitWindow ==
    ASSUME Init
    PROVE  WindowInv
  <1>1. \A j \in Jobs : jobs[j].phase = "unused" BY DEF Init, NewJob
  <1>2. \A j \in Jobs : ~InWindow(j) /\ ~OnTime(j) /\ ~Explicit(j)
    BY <1>1 DEF InWindow, OnTime, Explicit, At, Window
  <1>3. \A d \in Dests : Engaged(d) = {} BY <1>2 DEF Engaged
  <1>4. \A d \in Dests : inflight[d] = Cardinality(Engaged(d))
    BY <1>3, FS_EmptySet DEF Init
  <1>5. /\ (lock = "cycle") <=> (cycle # "idle")
        /\ awaited = {}
    BY DEF Init
  <1> QED BY <1>2, <1>4, <1>5 DEF WindowInv

\* Two executions share the reserve-and-pay window of a destination only when
\* one of them is a worker its cycle had given up before it registered: the
\* in-flight count, the cycle's selection and the engine lock together.
THEOREM OverlapBounded == Spec => []OverlapOnlyWhenLate
  <1>1. Init => WindowInv BY InitWindow
  <1>2. TypeOK /\ EngineInv /\ WindowInv /\ [Next]_vars => WindowInv' BY WindowStep
  <1>3. WindowInv => OverlapOnlyWhenLate
    <2> SUFFICES ASSUME WindowInv, NEW i \in Jobs, NEW j \in Jobs, i # j, InWindow(i), InWindow(j),
                        Dst(i) = Dst(j), ~(jobs[i].late \/ jobs[j].late)
                 PROVE  FALSE
      BY DEF OverlapOnlyWhenLate
    <2>1. OnTime(i) /\ OnTime(j) BY DEF OnTime
    <2> QED BY <2>1 DEF WindowInv
  <1> QED BY <1>1, <1>2, <1>3, Invariance, PTL DEF Spec

-----------------------------------------------------------------------------
(* The budget *)

\* A settled payment took at most the authorized fee, and what the store keeps
\* reserved or spent is within the budget.
BudgetInv ==
    /\ \A j \in Jobs : jobs[j].paid <= jobs[j].fee
    /\ BudgetRespected

\* The step raises no execution's commitment, and none is paid above its fee.
Modest == \A j \in Jobs : /\ Committed(jobs'[j]) <= Committed(jobs[j])
                          /\ jobs'[j].paid <= jobs'[j].fee

\* One execution reserves its fee, having found room for it.
Reserves(k) ==
    /\ k \in Jobs /\ jobs'[k].reservation = "active" /\ jobs'[k].paid <= jobs'[k].fee
    /\ \A j \in Jobs \ {k} : jobs'[j] = jobs[j]
    /\ DailyBudget > 0 => committed_sats + jobs'[k].fee <= DailyBudget

\* A commitment is a number.
LEMMA CommittedTyped ==
    ASSUME NEW job \in Job
    PROVE  /\ Committed(job) \in Nat /\ job.fee \in Nat /\ job.paid \in Nat
  BY EngineAssumption DEF Job, Committed

\* A spent reservation's payment is complete, and a row that waits for the sweep
\* has spent nothing.
LEMMA SpentIsComplete ==
    ASSUME NEW job \in Job, JobInv(job)
    PROVE  /\ job.reservation = "spent" => job.wire = "complete"
           /\ job.status = "pending_settlement" => Unspent(job)
  <1>1. job.phase \in Phases BY DEF Job
  <1> QED BY <1>1 DEF JobInv, Handed, Closed, Swept, Phases, Window

\* Neither kind of step leaves the budget.
LEMMA BudgetMoves ==
    ASSUME TypeOK, TypeOK', BudgetInv, Modest \/ \E k \in Jobs : Reserves(k)
    PROVE  BudgetInv'
  <1> DEFINE f == [j \in Jobs |-> Committed(jobs[j])]
             g == [j \in Jobs |-> Committed(jobs'[j])]
  <1>1. \A j \in Jobs : /\ f[j] = Committed(jobs[j]) /\ g[j] = Committed(jobs'[j])
                        /\ f[j] \in Nat /\ g[j] \in Nat
    BY CommittedTyped DEF TypeOK
  <1>2. IsFiniteSet(Jobs) BY FS_Interval, EngineAssumption DEF Jobs
  <1>3. committed_sats = SumFunctionOnSet(f, Jobs) BY DEF committed_sats
  <1>4. committed_sats' = SumFunctionOnSet(g, Jobs) BY DEF committed_sats
  <1>5. \A j \in Jobs : jobs[j].paid <= jobs[j].fee /\ jobs[j].fee \in Nat /\ jobs'[j].fee \in Nat
    BY CommittedTyped DEF TypeOK, BudgetInv
  <1> HIDE DEF f, g
  <1>6. SumFunctionOnSet(f, Jobs) \in Nat /\ SumFunctionOnSet(g, Jobs) \in Nat
    BY <1>1, <1>2, SumIsNat
  <1>7. DailyBudget \in Nat BY EngineAssumption
  <1>8. DailyBudget > 0 => SumFunctionOnSet(f, Jobs) <= DailyBudget
    BY <1>3 DEF BudgetInv, BudgetRespected
  <1>9. CASE Modest
    <2>1. SumFunctionOnSet(g, Jobs) <= SumFunctionOnSet(f, Jobs)
      BY <1>1, <1>2, <1>9, SumPointwise DEF Modest
    <2>2. DailyBudget > 0 => SumFunctionOnSet(g, Jobs) <= DailyBudget
      BY <1>6, <1>7, <1>8, <2>1
    <2> QED BY <1>4, <1>9, <2>2 DEF Modest, BudgetInv, BudgetRespected
  <1>10. ASSUME NEW k \in Jobs, Reserves(k) PROVE BudgetInv'
    <2> DEFINE Others == Jobs \ {k}
    <2>1. /\ IsFiniteSet(Others) /\ \A j \in Others : f[j] \in Nat /\ g[j] = f[j]
      BY <1>1, <1>2, <1>10, FS_Subset DEF Reserves
    <2>2. /\ SumFunctionOnSet(f, Jobs) = f[k] + SumFunctionOnSet(f, Others)
          /\ SumFunctionOnSet(g, Jobs) = g[k] + SumFunctionOnSet(g, Others)
      BY <1>1, <1>2, SumRemove
    <2> HIDE DEF Others
    <2>3. SumFunctionOnSet(g, Others) = SumFunctionOnSet(f, Others) BY <2>1, SumSame
    <2>4. SumFunctionOnSet(f, Others) \in Nat BY <2>1, SumIsNat
    <2>5. g[k] = jobs'[k].fee BY <1>1, <1>10 DEF Reserves, Committed
    <2>6. DailyBudget > 0 => SumFunctionOnSet(f, Jobs) + g[k] <= DailyBudget
      BY <1>3, <1>10, <2>5 DEF Reserves
    <2>7. f[k] \in Nat /\ g[k] \in Nat BY <1>1
    <2>8. DailyBudget > 0 => SumFunctionOnSet(g, Jobs) <= DailyBudget
      BY <1>7, <2>2, <2>3, <2>4, <2>6, <2>7
    <2>9. \A j \in Jobs : jobs'[j].paid <= jobs'[j].fee
      BY <1>5, <1>10 DEF Reserves
    <2> QED BY <1>4, <2>8, <2>9 DEF BudgetInv, BudgetRespected
  <1> QED BY <1>9, <1>10

\* A step of one execution that leaves its reservation, fee and payment alone,
\* or settles an open reservation, is modest.
LEMMA OneModest ==
    ASSUME TypeOK, TypeOK', BudgetInv, NEW j \in Jobs,
           \A i \in Jobs \ {j} : jobs'[i] = jobs[i],
           jobs'[j].fee = jobs[j].fee, jobs'[j].paid = jobs[j].paid,
           \/ jobs'[j].reservation = jobs[j].reservation
           \/ jobs[j].reservation \in {"none", "active"} /\ jobs'[j].reservation \in {"spent", "released"}
                /\ (jobs[j].reservation = "none" => jobs'[j].reservation = "released")
    PROVE  Modest
  <1>1. jobs[j] \in Job /\ jobs'[j] \in Job BY DEF TypeOK
  <1>2. Committed(jobs'[j]) <= Committed(jobs[j]) /\ jobs'[j].paid <= jobs'[j].fee
    BY <1>1, CommittedTyped DEF Committed, BudgetInv
  <1>3. \A i \in Jobs \ {j} : Committed(jobs'[i]) <= Committed(jobs[i]) /\ jobs'[i].paid <= jobs'[i].fee
    <2> SUFFICES ASSUME NEW i \in Jobs \ {j}
                 PROVE  Committed(jobs'[i]) <= Committed(jobs[i]) /\ jobs'[i].paid <= jobs'[i].fee
      OBVIOUS
    <2>1. jobs'[i] = jobs[i] /\ jobs[i] \in Job BY DEF TypeOK
    <2>2. Committed(jobs[i]) \in Nat BY <2>1, CommittedTyped
    <2> QED BY <2>1, <2>2 DEF BudgetInv
  <1> QED BY <1>2, <1>3 DEF Modest

\* What a step of one execution up to its reservation's settlement leaves alone.
LEMMA QuietMoney ==
    ASSUME TypeOK, NEW j \in Jobs,
           \/ PolicyBlocks(j) \/ PricingFails(j) \/ Enter(j) \/ BudgetBlocks(j)
           \/ StopsBeforeWrite(j) \/ Sendpay(j) \/ SendpayUnheard(j) \/ TimesOut(j)
           \/ TransportFails(j) \/ Completes(j) \/ Fails(j) \/ Record(j) \/ DropGuard(j)
           \/ EngineRefuses(j) \/ execute_candidate(j) \/ consume_worker_result(j)
    PROVE  /\ \A i \in Jobs \ {j} : jobs'[i] = jobs[i]
           /\ jobs'[j].fee = jobs[j].fee /\ jobs'[j].paid = jobs[j].paid
           /\ jobs'[j].reservation = jobs[j].reservation
  <1>0. jobs \in [Jobs -> Job] /\ jobs[j] \in Job BY DEF TypeOK
  <1>l. ASSUME NEW route, LeaveWith(j, "failed", route)
        PROVE  /\ \A i \in Jobs \ {j} : jobs'[i] = jobs[i]
               /\ jobs'[j].fee = jobs[j].fee /\ jobs'[j].paid = jobs[j].paid
               /\ jobs'[j].reservation = jobs[j].reservation
    <2> DEFINE next == IF jobs[j].mode # "cycle" THEN "returned"
                       ELSE IF j \in awaited THEN "sent" ELSE "done"
               new == [jobs[j] EXCEPT !.class = "failed", !.route = route, !.phase = next]
    <2>1. jobs' = [jobs EXCEPT ![j] = new] BY <1>0, <1>l DEF LeaveWith
    <2> HIDE DEF next
    <2>2. new.fee = jobs[j].fee /\ new.paid = jobs[j].paid /\ new.reservation = jobs[j].reservation
      BY <1>0 DEF Job
    <2> HIDE DEF new
    <2>3. jobs'[j] = new /\ \A i \in Jobs \ {j} : jobs'[i] = jobs[i] BY <1>0, <2>1
    <2> QED BY <2>2, <2>3
  <1>1. CASE PolicyBlocks(j) \/ PricingFails(j)
    BY <1>l, <1>1 DEF PolicyBlocks, PricingFails
  <1>2. CASE Enter(j) \/ BudgetBlocks(j) BY <1>0, <1>2 DEF Enter, BudgetBlocks, Job
  <1>n. ASSUME NEW new, jobs' = [jobs EXCEPT ![j] = new], new.fee = jobs[j].fee,
               new.paid = jobs[j].paid, new.reservation = jobs[j].reservation
        PROVE  /\ \A i \in Jobs \ {j} : jobs'[i] = jobs[i]
               /\ jobs'[j].fee = jobs[j].fee /\ jobs'[j].paid = jobs[j].paid
               /\ jobs'[j].reservation = jobs[j].reservation
    BY <1>0, <1>n
  <1>e. ASSUME NEW class, NEW route, Ends(j, class, route)
        PROVE  /\ \A i \in Jobs \ {j} : jobs'[i] = jobs[i]
               /\ jobs'[j].fee = jobs[j].fee /\ jobs'[j].paid = jobs[j].paid
               /\ jobs'[j].reservation = jobs[j].reservation
    <2> DEFINE new == [jobs[j] EXCEPT !.class = class, !.route = route, !.tries = 0, !.phase = "record"]
    <2>1. jobs' = [jobs EXCEPT ![j] = new] BY <1>0, <1>e DEF Ends
    <2>2. new.fee = jobs[j].fee /\ new.paid = jobs[j].paid /\ new.reservation = jobs[j].reservation
      BY <1>0 DEF Job
    <2> HIDE DEF new
    <2> QED BY <1>n, <2>1, <2>2
  <1>3. CASE StopsBeforeWrite(j) \/ TimesOut(j) \/ Completes(j)
    BY <1>e, <1>3 DEF StopsBeforeWrite, TimesOut, Completes
  <1>4. CASE Sendpay(j) \/ SendpayUnheard(j) \/ TransportFails(j)
    <2>1. CASE Sendpay(j)
      <3> DEFINE new == [jobs[j] EXCEPT !.wire = "inflight", !.tries = jobs[j].tries + 1,
                                        !.attempted = TRUE, !.phase = "wait"]
      <3>1. jobs' = [jobs EXCEPT ![j] = new] BY <1>0, <2>1 DEF Sendpay
      <3>2. new.fee = jobs[j].fee /\ new.paid = jobs[j].paid /\ new.reservation = jobs[j].reservation
        BY <1>0 DEF Job
      <3> HIDE DEF new
      <3> QED BY <1>n, <3>1, <3>2
    <2>2. CASE SendpayUnheard(j)
      <3> DEFINE new == [jobs[j] EXCEPT !.wire = "none", !.tries = 0, !.attempted = TRUE,
                                        !.class = "pending", !.phase = "record"]
      <3>1. jobs' = [jobs EXCEPT ![j] = new] BY <1>0, <2>2 DEF SendpayUnheard
      <3>2. new.fee = jobs[j].fee /\ new.paid = jobs[j].paid /\ new.reservation = jobs[j].reservation
        BY <1>0 DEF Job
      <3> HIDE DEF new
      <3> QED BY <1>n, <3>1, <3>2
    <2>3. CASE TransportFails(j)
      <3> DEFINE new == [jobs[j] EXCEPT !.cut = TRUE, !.class = "failed", !.tries = 0,
                                        !.phase = "record"]
      <3>1. jobs' = [jobs EXCEPT ![j] = new] BY <1>0, <2>3 DEF TransportFails
      <3>2. new.fee = jobs[j].fee /\ new.paid = jobs[j].paid /\ new.reservation = jobs[j].reservation
        BY <1>0 DEF Job
      <3> HIDE DEF new
      <3> QED BY <1>n, <3>1, <3>2
    <2> QED BY <1>4, <2>1, <2>2, <2>3
  <1>5. CASE Fails(j)
    <2>1. CASE jobs' = [jobs EXCEPT ![j].phase = "pay"]
      <3> DEFINE new == [jobs[j] EXCEPT !.phase = "pay"]
      <3>1. jobs' = [jobs EXCEPT ![j] = new] BY <1>0, <2>1
      <3>2. new.fee = jobs[j].fee /\ new.paid = jobs[j].paid /\ new.reservation = jobs[j].reservation
        BY <1>0 DEF Job
      <3> HIDE DEF new
      <3> QED BY <1>n, <3>1, <3>2
    <2>2. CASE \E route \in Markers(j) : Ends(j, "failed", route) BY <1>e, <2>2
    <2> QED BY <1>5, <2>1, <2>2 DEF Fails
  <1>6. CASE Record(j)
    <2>0. jobs' = [jobs EXCEPT ![j] = [record_rebalance_result(jobs[j]) EXCEPT !.phase = "finish"]]
      BY <1>6 DEF Record, Set
    <2>1. CASE jobs[j].class = "success"
      <3> DEFINE cost == IF account_costs(jobs[j].mode) THEN record_rebalance_cost(jobs[j]) ELSE jobs[j].cost
                 row == [jobs[j] EXCEPT !.status = "success", !.cost = cost]
                 new == [row EXCEPT !.phase = "finish"]
      <3>1. record_rebalance_result(jobs[j]) = row BY <2>1 DEF record_rebalance_result
      <3>2. new.fee = jobs[j].fee /\ new.paid = jobs[j].paid /\ new.reservation = jobs[j].reservation
        <4> HIDE DEF cost
        <4> QED BY <1>0 DEF Job
      <3>3. jobs' = [jobs EXCEPT ![j] = new] BY <2>0, <3>1
      <3> HIDE DEF new
      <3> QED BY <1>n, <3>2, <3>3
    <2>2. CASE jobs[j].class = "pending"
      <3> DEFINE new == [[jobs[j] EXCEPT !.status = "pending_settlement"] EXCEPT !.phase = "finish"]
      <3>1. jobs' = [jobs EXCEPT ![j] = new] BY <2>0, <2>2 DEF record_rebalance_result
      <3>2. new.fee = jobs[j].fee /\ new.paid = jobs[j].paid /\ new.reservation = jobs[j].reservation
        BY <1>0 DEF Job
      <3> HIDE DEF new
      <3> QED BY <1>n, <3>1, <3>2
    <2>3. CASE jobs[j].class \notin {"success", "pending"}
      <3> DEFINE new == [[jobs[j] EXCEPT !.status = "failed"] EXCEPT !.phase = "finish"]
      <3>1. jobs' = [jobs EXCEPT ![j] = new] BY <2>0, <2>3 DEF record_rebalance_result
      <3>2. new.fee = jobs[j].fee /\ new.paid = jobs[j].paid /\ new.reservation = jobs[j].reservation
        BY <1>0 DEF Job
      <3> HIDE DEF new
      <3> QED BY <1>n, <3>1, <3>2
    <2> QED BY <2>1, <2>2, <2>3
  <1>7. CASE DropGuard(j) BY <1>0, <1>7 DEF DropGuard, Leave, Job
  <1>8. CASE EngineRefuses(j) \/ execute_candidate(j) \/ consume_worker_result(j)
    BY <1>0, <1>8 DEF EngineRefuses, execute_candidate, consume_worker_result, Job
  <1> QED BY <1>1, <1>2, <1>3, <1>4, <1>5, <1>6, <1>7, <1>8

\* The node's decision takes at most the fee, of a payment nobody has spent yet.
LEMMA NodeMoney ==
    ASSUME TypeOK, TypeOK', EngineInv, BudgetInv, NEW j \in Jobs, NodeDecides(j)
    PROVE  Modest
  <1>0. jobs \in [Jobs -> Job] /\ jobs[j] \in Job /\ JobInv(jobs[j])
    BY DEF TypeOK, EngineInv
  <1>1. jobs[j].reservation # "spent" BY <1>0, SpentIsComplete DEF NodeDecides
  <1>2. CASE jobs' = [jobs EXCEPT ![j].wire = "failed"]
    <2>1. /\ \A i \in Jobs \ {j} : jobs'[i] = jobs[i]
          /\ jobs'[j].fee = jobs[j].fee /\ jobs'[j].paid = jobs[j].paid
          /\ jobs'[j].reservation = jobs[j].reservation
      BY <1>0, <1>2 DEF Job
    <2> QED BY <2>1, OneModest
  <1>3. ASSUME NEW paid \in 0..jobs[j].fee,
               jobs' = [jobs EXCEPT ![j].wire = "complete", ![j].paid = paid]
        PROVE  Modest
    <2> DEFINE new == [jobs[j] EXCEPT !.wire = "complete", !.paid = paid]
    <2>1. jobs' = [jobs EXCEPT ![j] = new] BY <1>0, <1>3
    <2>2. new.fee = jobs[j].fee /\ new.paid = paid /\ new.reservation = jobs[j].reservation
      BY <1>0 DEF Job
    <2> HIDE DEF new
    <2>3. jobs'[j] = new /\ \A i \in Jobs \ {j} : jobs'[i] = jobs[i] BY <1>0, <2>1
    <2>4. Committed(jobs'[j]) = Committed(jobs[j]) BY <1>1, <2>2, <2>3 DEF Committed
    <2>5. \A i \in Jobs : jobs[i] \in Job /\ Committed(jobs[i]) \in Nat
      BY CommittedTyped DEF TypeOK
    <2>6. jobs[j].fee \in Nat BY <1>0, CommittedTyped
    <2>7. jobs'[j].paid <= jobs'[j].fee BY <1>3, <2>2, <2>3, <2>6
    <2> QED BY <2>3, <2>4, <2>5, <2>7 DEF Modest, BudgetInv
  <1> QED BY <1>2, <1>3 DEF NodeDecides

\* Where a reservation is settled: after the result, by the facade, by the sweep.
LEMMA SettleMoney ==
    ASSUME TypeOK, TypeOK', EngineInv, BudgetInv, NEW j \in Jobs,
           Finish(j) \/ FacadeSettles(j) \/ reconcile_pending_row(j)
    PROVE  Modest
  <1>0. jobs \in [Jobs -> Job] /\ jobs[j] \in Job /\ JobInv(jobs[j]) /\ jobs[j].phase \in Phases
    BY DEF TypeOK, EngineInv, Job
  <1> DEFINE Settled(r) ==
                \/ r = jobs[j].reservation
                \/ /\ jobs[j].reservation \in {"none", "active"} /\ r \in {"spent", "released"}
                   /\ jobs[j].reservation = "none" => r = "released"
  <1>s. jobs[j].reservation \in {"none", "active"} =>
            Settled(mark_budget_spent(jobs[j])) /\ Settled(release_reservation(jobs[j]))
    BY DEF mark_budget_spent, release_reservation
  <1>n. ASSUME NEW new, jobs' = [jobs EXCEPT ![j] = new], new.fee = jobs[j].fee,
               new.paid = jobs[j].paid, Settled(new.reservation)
        PROVE  Modest
    <2>1. jobs'[j] = new /\ \A i \in Jobs \ {j} : jobs'[i] = jobs[i] BY <1>0, <1>n
    <2> QED BY <1>n, <2>1, OneModest
  <1>1. CASE Finish(j)
    <2> DEFINE r == finish_execution_budget(jobs[j])
               new == [jobs[j] EXCEPT !.reservation = r, !.phase = "leave"]
    <2>1. jobs' = [jobs EXCEPT ![j] = new] BY <1>0, <1>1 DEF Finish
    <2>2. Settled(r)
      <3>1. jobs[j].phase = "finish" BY <1>1 DEF Finish, At
      <3>2. jobs[j].class # "pending" => jobs[j].reservation \in {"none", "active"}
        BY <1>0, <3>1 DEF JobInv, Handed, Job
      <3> HIDE DEF Settled
      <3>3. Settled(jobs[j].reservation) BY DEF Settled
      <3> QED BY <1>s, <3>2, <3>3 DEF finish_execution_budget
    <2> HIDE DEF r
    <2>3. new.fee = jobs[j].fee /\ new.paid = jobs[j].paid /\ new.reservation = r
      BY <1>0 DEF Job
    <2> HIDE DEF new, Settled
    <2> QED BY <1>n, <2>1, <2>2, <2>3
  <1>2. CASE FacadeSettles(j)
    <2> DEFINE row == FacadeSettled(jobs[j])
               new == [row EXCEPT !.phase = IF TriesNext(jobs[j]) THEN "retry" ELSE "done"]
    <2>1. jobs' = [jobs EXCEPT ![j] = new] BY <1>0, <1>2 DEF FacadeSettles, Set
    <2>2. /\ row.fee = jobs[j].fee /\ row.paid = jobs[j].paid /\ Settled(row.reservation)
          /\ row \in [pair : Pairs, fee : Fees, mode : Modes, phase : Phases, late : BOOLEAN,
                      tried : SUBSET Sources,
                      status : {"none", "pending", "pending_settlement", "success", "failed", "skipped"},
                      reservation : {"none", "active", "spent", "released"}, cost : Nat,
                      wire : {"none", "inflight", "complete", "failed"}, paid : Nat, tries : Nat,
                      attempted : BOOLEAN, cut : BOOLEAN,
                      class : {"none", "success", "pending", "failed", "blocked"}, route : BOOLEAN]
      <3>1. jobs[j].phase = "returned" /\ jobs[j].mode # "cycle"
        BY <1>0, <1>2 DEF FacadeSettles, At, JobInv
      <3>2. /\ jobs[j].class = "success" /\ jobs[j].mode # "diagnostic" => Unspent(jobs[j])
            /\ jobs[j].class \in {"failed", "blocked"} /\ jobs[j].mode = "execute" => Unspent(jobs[j])
        BY <1>0, <3>1 DEF JobInv, Handed, Job
      <3> DEFINE spent == mark_budget_spent(jobs[j])
                 freed == release_reservation(jobs[j])
                 cost  == record_rebalance_cost(jobs[j])
      <3>3. /\ spent \in {"none", "spent"} /\ freed \in {"none", "released"} /\ cost \in Nat
        BY <1>0 DEF mark_budget_spent, release_reservation, record_rebalance_cost, Job
      <3>4. Settled(jobs[j].reservation) OBVIOUS
      <3>5. CASE jobs[j].class = "success" /\ jobs[j].mode # "diagnostic"
        <4>1. row = [jobs[j] EXCEPT !.status = "success", !.cost = cost, !.reservation = spent]
          BY <3>5 DEF FacadeSettled
        <4>2. Settled(spent) BY <1>s, <3>2, <3>5
        <4> HIDE DEF spent, cost, row, Settled
        <4> QED BY <1>0, <3>3, <4>1, <4>2 DEF Job
      <3>6. CASE jobs[j].class \in {"failed", "blocked"} /\ jobs[j].mode = "execute"
        <4>1. row = [jobs[j] EXCEPT !.status = "failed", !.reservation = freed]
          BY <3>6 DEF FacadeSettled
        <4>2. Settled(freed) BY <1>s, <3>2, <3>6
        <4> HIDE DEF freed, row, Settled
        <4> QED BY <1>0, <3>3, <4>1, <4>2 DEF Job
      <3>7. CASE jobs[j].class \in {"failed", "blocked"} /\ jobs[j].mode # "execute"
        <4>1. row = [jobs[j] EXCEPT !.status = "failed"] BY <3>7 DEF FacadeSettled
        <4> HIDE DEF row, Settled
        <4> QED BY <1>0, <3>4, <4>1 DEF Job
      <3>8. CASE /\ ~(jobs[j].class = "success" /\ jobs[j].mode # "diagnostic")
                 /\ jobs[j].class \notin {"failed", "blocked"}
        <4>1. row = jobs[j] BY <3>8 DEF FacadeSettled
        <4> HIDE DEF row, Settled
        <4> QED BY <1>0, <3>4, <4>1 DEF Job
      <3> QED BY <3>5, <3>6, <3>7, <3>8
    <2> HIDE DEF row
    <2>3. new.fee = row.fee /\ new.paid = row.paid /\ new.reservation = row.reservation
      BY <2>2
    <2> HIDE DEF new, Settled
    <2>4. new.fee = jobs[j].fee /\ new.paid = jobs[j].paid /\ Settled(new.reservation)
      BY <2>2, <2>3
    <2> QED BY <1>n, <2>1, <2>4
  <1>3. CASE reconcile_pending_row(j)
    <2>1. jobs[j].status = "pending_settlement" BY <1>3 DEF reconcile_pending_row, EngineInv, ParkedInv
    <2>2. Unspent(jobs[j]) BY <1>0, <2>1, SpentIsComplete
    <2> DEFINE spent == mark_budget_spent(jobs[j])
               freed == release_reservation(jobs[j])
               cost  == record_rebalance_cost(jobs[j])
    <2>3. Settled(spent) /\ Settled(freed) BY <1>s, <2>2
    <2>4. CASE jobs[j].wire = "complete"
      <3> DEFINE new == [jobs[j] EXCEPT !.status = "success", !.cost = cost, !.reservation = spent]
      <3>1. jobs' = [jobs EXCEPT ![j] = new]
        BY <1>3, <2>4 DEF reconcile_pending_row, Set, SweptComplete
      <3> HIDE DEF cost, spent
      <3>2. new.fee = jobs[j].fee /\ new.paid = jobs[j].paid /\ new.reservation = spent
        BY <1>0 DEF Job
      <3> HIDE DEF new, Settled
      <3> QED BY <1>n, <2>3, <3>1, <3>2
    <2>5. CASE jobs[j].wire # "complete"
      <3> DEFINE new == [jobs[j] EXCEPT !.status = "failed", !.reservation = freed]
      <3>1. jobs' = [jobs EXCEPT ![j] = new]
        BY <1>3, <2>5 DEF reconcile_pending_row, Set, SweptFailed
      <3> HIDE DEF freed
      <3>2. new.fee = jobs[j].fee /\ new.paid = jobs[j].paid /\ new.reservation = freed
        BY <1>0 DEF Job
      <3> HIDE DEF new, Settled
      <3> QED BY <1>n, <2>3, <3>1, <3>2
    <2> QED BY <2>4, <2>5
  <1> QED BY <1>1, <1>2, <1>3

\* Opening executions commits nothing of a new one that holds no reservation.
LEMMA OpenMoney ==
    ASSUME TypeOK, TypeOK', BudgetInv,
           \A j \in Jobs : \/ /\ jobs'[j].fee = jobs[j].fee /\ jobs'[j].paid = jobs[j].paid
                              /\ jobs'[j].reservation = jobs[j].reservation
                           \/ jobs'[j].reservation = "none" /\ jobs'[j].paid = 0
    PROVE  Modest
  <1> SUFFICES ASSUME NEW j \in Jobs
               PROVE  Committed(jobs'[j]) <= Committed(jobs[j]) /\ jobs'[j].paid <= jobs'[j].fee
    BY DEF Modest
  <1>1. jobs[j] \in Job /\ jobs'[j] \in Job BY DEF TypeOK
  <1>2. /\ Committed(jobs[j]) \in Nat /\ Committed(jobs'[j]) \in Nat
        /\ jobs'[j].fee \in Nat /\ jobs[j].paid <= jobs[j].fee
    BY <1>1, CommittedTyped DEF BudgetInv
  <1> QED BY <1>2 DEF Committed

\* The facade's and the cycle's new executions.
LEMMA OpeningMoney ==
    ASSUME TypeOK, TypeOK', EngineInv, BudgetInv, NEW pair \in Requests, NEW fee \in RequestFees
    PROVE  /\ \A mode \in {"manual", "diagnostic"} : Open(pair, fee, mode) => Modest
           /\ \A capex \in BOOLEAN :
                execute_rebalance(pair, fee, capex) => Modest \/ \E k \in Jobs : Reserves(k)
  <1>0. jobs \in [Jobs -> Job] BY DEF TypeOK
  <1>r. ASSUME NEW p, NEW f, NEW mode, NEW tried
        PROVE  /\ OpenRow(p, f, mode, tried).reservation = "none"
               /\ OpenRow(p, f, mode, tried).paid = 0 /\ OpenRow(p, f, mode, tried).fee = f
    BY DEF OpenRow, NewJob
  <1>1. ASSUME NEW mode \in {"manual", "diagnostic"}, Open(pair, fee, mode) PROVE Modest
    <2> DEFINE row == OpenRow(pair, fee, mode, {pair[1]})
    <2>1. jobs' = [jobs EXCEPT ![Next1] = row] BY <1>1 DEF Open, Set
    <2>2. row.reservation = "none" /\ row.paid = 0 BY <1>r
    <2> HIDE DEF row
    <2> QED BY <1>0, <2>1, <2>2, OpenMoney
  <1>2. ASSUME NEW capex \in BOOLEAN, execute_rebalance(pair, fee, capex)
        PROVE  Modest \/ \E k \in Jobs : Reserves(k)
    <2> DEFINE row     == OpenRow(pair, fee, "execute", {pair[1]})
               held    == [row EXCEPT !.reservation = "active"]
               refused == [row EXCEPT !.status = "failed", !.class = "blocked", !.phase = "done"]
    <2>1. /\ row.reservation = "none" /\ row.paid = 0 /\ row.fee = fee BY <1>r
    <2>2. /\ held.reservation = "active" /\ held.paid = 0 /\ held.fee = fee
          /\ refused.reservation = "none" /\ refused.paid = 0
      BY <2>1 DEF OpenRow, NewJob
    <2>3. CASE Fits(fee, Limit(fee, capex))
      <3>1. Next1 \in Jobs /\ jobs' = [jobs EXCEPT ![Next1] = held]
        BY <1>2, <2>3 DEF execute_rebalance, Set
      <3> HIDE DEF held
      <3>2. jobs'[Next1] = held /\ \A j \in Jobs \ {Next1} : jobs'[j] = jobs[j] BY <1>0, <3>1
      <3>3. fee \in Nat /\ DailyBudget \in Nat BY EngineAssumption
      <3>4. DailyBudget > 0 => committed_sats + fee <= DailyBudget
        <4>1. committed_sats + fee <= Limit(fee, capex) BY <2>3 DEF Fits
        <4>2. committed_sats \in Nat
          <5> DEFINE f == [j \in Jobs |-> Committed(jobs[j])]
          <5>1. \A j \in Jobs : f[j] \in Nat BY CommittedTyped DEF TypeOK
          <5>2. IsFiniteSet(Jobs) BY FS_Interval, EngineAssumption DEF Jobs
          <5> HIDE DEF f
          <5>3. SumFunctionOnSet(f, Jobs) \in Nat BY <5>1, <5>2, SumIsNat
          <5> QED BY <5>3 DEF committed_sats, f
        <4>3. Limit(fee, capex) <= DailyBudget \/ DailyBudget = 0
          BY <3>3 DEF Limit
        <4> QED BY <3>3, <4>1, <4>2, <4>3 DEF Limit
      <3> QED BY <2>2, <3>1, <3>2, <3>3, <3>4 DEF Reserves
    <2>4. CASE ~Fits(fee, Limit(fee, capex))
      <3>1. jobs' = [jobs EXCEPT ![Next1] = refused]
        BY <1>2, <2>4 DEF execute_rebalance, Set
      <3> HIDE DEF refused
      <3> QED BY <1>0, <2>2, <3>1, OpenMoney
    <2> QED BY <2>3, <2>4
  <1> QED BY <1>1, <1>2

\* The diagnostic's next row.
LEMMA NextSourceMoney ==
    ASSUME TypeOK, TypeOK', EngineInv, BudgetInv, NEW j \in Jobs, NEW s \in Sources, NextSource(j, s)
    PROVE  Modest
  <1>a. jobs \in [Jobs -> Job] BY DEF TypeOK
  <1> DEFINE row  == OpenRow(<<s, Dst(j)>>, jobs[j].fee, "diagnostic", jobs[j].tried \cup {s})
             left == [jobs[j] EXCEPT !.phase = "done"]
  <1>0. Next1 \in Jobs /\ jobs[j].phase = "retry" BY DEF NextSource, At
  <1>1. j # Next1 BY <1>0, NextIsUnused
  <1>2. jobs' = [jobs EXCEPT ![j] = left, ![Next1] = row] BY <1>a DEF NextSource
  <1>3. row.reservation = "none" /\ row.paid = 0 BY DEF OpenRow, NewJob
  <1>4. left.fee = jobs[j].fee /\ left.paid = jobs[j].paid /\ left.reservation = jobs[j].reservation
    BY <1>a DEF Job
  <1> HIDE DEF row, left
  <1>5. /\ jobs'[Next1] = row /\ jobs'[j] = left
        /\ \A i \in Jobs \ {j, Next1} : jobs'[i] = jobs[i]
    BY <1>a, <1>0, <1>1, <1>2
  <1> QED BY <1>3, <1>4, <1>5, OpenMoney

\* The workers of a cycle.
LEMMA SpawnMoney ==
    ASSUME TypeOK, TypeOK', BudgetInv, NEW n \in 1..MaxConcurrentJobs, SpawnWorkers(n)
    PROVE  Modest
  <1> DEFINE J == Next1 .. (Cardinality(Opened) + n)
  <1>1. PICK pick \in [J -> Planned], fees \in [J -> Fees] :
            jobs' = [j \in Jobs |-> IF j \in J THEN NewJob(pick[j], fees[j], "cycle", "policy")
                                               ELSE jobs[j]]
    BY DEF SpawnWorkers
  <1>2. \A j \in J : /\ NewJob(pick[j], fees[j], "cycle", "policy").reservation = "none"
                     /\ NewJob(pick[j], fees[j], "cycle", "policy").paid = 0
    BY DEF NewJob
  <1> HIDE DEF J
  <1> QED BY <1>1, <1>2, OpenMoney

\* Every step keeps the budget.
LEMMA BudgetStep == TypeOK /\ EngineInv /\ BudgetInv /\ [Next]_vars => BudgetInv'
  <1> SUFFICES ASSUME TypeOK, EngineInv, BudgetInv, [Next]_vars PROVE BudgetInv' OBVIOUS
  <1>0. TypeOK' /\ jobs \in [Jobs -> Job] BY TypeStep DEF TypeOK
  <1>q. ASSUME NEW j \in Jobs,
               \A i \in Jobs \ {j} : jobs'[i] = jobs[i],
               jobs'[j].fee = jobs[j].fee, jobs'[j].paid = jobs[j].paid,
               jobs'[j].reservation = jobs[j].reservation
        PROVE  Modest
    BY <1>0, <1>q, OneModest
  <1>1. CASE jobs' = jobs
    BY <1>1 DEF BudgetInv, BudgetRespected, committed_sats
  <1>2. ASSUME NEW j \in Jobs, Worker(j) PROVE Modest \/ \E k \in Jobs : Reserves(k)
    <2>1. CASE reserve_execution_budget(j)
      <3>1. CASE jobs' = [jobs EXCEPT ![j].phase = "pay"]
        <4>1. /\ \A i \in Jobs \ {j} : jobs'[i] = jobs[i]
              /\ jobs'[j].fee = jobs[j].fee /\ jobs'[j].paid = jobs[j].paid
              /\ jobs'[j].reservation = jobs[j].reservation
          BY <1>0, <3>1 DEF Job
        <4> QED BY <1>q, <4>1
      <3>2. CASE /\ Fits(jobs[j].fee, DailyBudget)
                 /\ jobs' = [jobs EXCEPT ![j].reservation = "active", ![j].phase = "pay"]
        <4> DEFINE new == [jobs[j] EXCEPT !.reservation = "active", !.phase = "pay"]
        <4>1. jobs' = [jobs EXCEPT ![j] = new] BY <1>0, <3>2
        <4>2. new.fee = jobs[j].fee /\ new.paid = jobs[j].paid /\ new.reservation = "active"
          BY <1>0 DEF Job
        <4> HIDE DEF new
        <4>3. jobs'[j] = new /\ \A i \in Jobs \ {j} : jobs'[i] = jobs[i] BY <1>0, <4>1
        <4>4. committed_sats + jobs[j].fee <= DailyBudget BY <3>2 DEF Fits
        <4> QED BY <4>2, <4>3, <4>4 DEF Reserves, BudgetInv
      <3> QED BY <2>1, <3>1, <3>2 DEF reserve_execution_budget
    <2>2. CASE Finish(j) BY <1>0, <2>2, SettleMoney
    <2>3. CASE ~(reserve_execution_budget(j) \/ Finish(j))
      <3>1. /\ \A i \in Jobs \ {j} : jobs'[i] = jobs[i]
            /\ jobs'[j].fee = jobs[j].fee /\ jobs'[j].paid = jobs[j].paid
            /\ jobs'[j].reservation = jobs[j].reservation
        BY <1>2, <2>3, QuietMoney DEF Worker
      <3> QED BY <1>q, <3>1
    <2> QED BY <2>1, <2>2, <2>3
  <1>3. ASSUME NEW j \in Jobs, Caller(j) PROVE Modest
    <2>1. CASE \E s \in Sources : NextSource(j, s)
      BY <1>0, <2>1, NextSourceMoney
    <2>2. CASE FacadeSettles(j) BY <1>0, <2>2, SettleMoney
    <2>3. CASE EngineRefuses(j) \/ execute_candidate(j) \/ PricingFails(j)
      <3>1. /\ \A i \in Jobs \ {j} : jobs'[i] = jobs[i]
            /\ jobs'[j].fee = jobs[j].fee /\ jobs'[j].paid = jobs[j].paid
            /\ jobs'[j].reservation = jobs[j].reservation
        BY <2>3, QuietMoney
      <3> QED BY <1>q, <3>1
    <2> QED BY <1>3, <2>1, <2>2, <2>3 DEF Caller
  <1>4. ASSUME NEW j \in Jobs, consume_worker_result(j) PROVE Modest
    <2>1. /\ \A i \in Jobs \ {j} : jobs'[i] = jobs[i]
          /\ jobs'[j].fee = jobs[j].fee /\ jobs'[j].paid = jobs[j].paid
          /\ jobs'[j].reservation = jobs[j].reservation
      BY <1>4, QuietMoney
    <2> QED BY <1>q, <2>1
  <1>5. CASE \E j \in Jobs : reconcile_pending_row(j)
    BY <1>0, <1>5, SettleMoney, BudgetMoves
  <1>6. CASE \E j \in Jobs : NodeDecides(j)
    BY <1>0, <1>6, NodeMoney, BudgetMoves
  <1>7. CASE BeginCycle \/ (\E j \in Jobs : SweepSkips(j)) \/ NoCandidates \/ Deadline \/ CycleEnds
             \/ UNCHANGED vars
    BY <1>1, <1>7 DEF BeginCycle, SweepSkips, NoCandidates, Deadline, CycleEnds, vars
  <1>8. CASE \E n \in 1..MaxConcurrentJobs : SpawnWorkers(n)
    BY <1>0, <1>8, SpawnMoney, BudgetMoves
  <1>9. ASSUME NEW p \in Requests, NEW f \in RequestFees,
               \/ \E mode \in {"manual", "diagnostic"} : Open(p, f, mode)
               \/ \E capex \in BOOLEAN : execute_rebalance(p, f, capex)
        PROVE  BudgetInv'
    BY <1>0, <1>9, OpeningMoney, BudgetMoves
  <1> QED BY <1>0, <1>2, <1>3, <1>4, <1>5, <1>6, <1>7, <1>8, <1>9, BudgetMoves DEF Next, Cycle

LEMMA InitBudget == Init => BudgetInv
  <1> SUFFICES ASSUME Init PROVE BudgetInv OBVIOUS
  <1>1. TypeOK BY InitHolds
  <1>2. \A j \in Jobs : jobs[j].reservation = "none" /\ jobs[j].paid = 0
    BY DEF Init, NewJob
  <1>3. \A j \in Jobs : jobs[j].fee \in Nat BY <1>1, CommittedTyped DEF TypeOK
  <1> DEFINE f == [j \in Jobs |-> Committed(jobs[j])]
             z == [j \in Jobs |-> 0]
  <1>4. \A j \in Jobs : f[j] = 0 BY <1>2 DEF Committed
  <1>5. IsFiniteSet(Jobs) BY FS_Interval, EngineAssumption DEF Jobs
  <1>6. ASSUME Jobs # {} PROVE DailyBudget > 0 => SumFunctionOnSet(f, Jobs) <= DailyBudget
    BY <1>4, <1>5, SumOfZeros, EngineAssumption
  <1>7. ASSUME Jobs = {} PROVE DailyBudget > 0 => SumFunctionOnSet(f, Jobs) <= DailyBudget
    BY <1>7, SumEmpty, EngineAssumption
  <1> QED BY <1>2, <1>3, <1>6, <1>7 DEF BudgetInv, BudgetRespected, committed_sats

LEMMA BudgetInvariance == Spec => [](TypeOK /\ EngineInv /\ BudgetInv)
  BY InitBudget, BudgetStep, Invariance, PTL DEF Spec

\* reserve_execution_budget and the facade's own reservation: what is reserved
\* and what was spent never exceed daily_budget_sats, whatever the concurrent
\* workers, callers and sweeps do.
THEOREM BudgetKept == Spec => []BudgetRespected
  <1>1. BudgetInv => BudgetRespected BY DEF BudgetInv
  <1> QED BY <1>1, BudgetInvariance, PTL

-----------------------------------------------------------------------------
(* Strikes and cooldowns *)

\* The failure a strike of the pair stands for.
Failure(j, p) ==
    /\ jobs[j].pair = p /\ jobs[j].mode = "cycle" /\ At(j, "done")
    /\ jobs[j].class \in {"failed", "pending"}

\* An execution that is over keeps its result.
ResultsKept ==
    \A j \in Jobs : At(j, "done") =>
        /\ jobs'[j].phase = "done" /\ jobs'[j].pair = jobs[j].pair
        /\ jobs'[j].mode = jobs[j].mode /\ jobs'[j].class = jobs[j].class

\* A step of another execution, or one that only touches the row and the payment.
LEMMA OthersKeep ==
    ASSUME TypeOK, NEW k, \A i \in Jobs \ {k} : jobs'[i] = jobs[i],
           k \in Jobs => ~At(k, "done")
    PROVE  ResultsKept
  BY DEF ResultsKept, At

LEMMA ResultStep == TypeOK /\ EngineInv /\ [Next]_vars => ResultsKept
  <1> SUFFICES ASSUME TypeOK, EngineInv, [Next]_vars PROVE ResultsKept OBVIOUS
  <1>0. jobs \in [Jobs -> Job] BY DEF TypeOK
  <1>1. CASE jobs' = jobs BY <1>1 DEF ResultsKept, At
  <1>2. ASSUME NEW j \in Jobs, Worker(j) PROVE ResultsKept
    <2>1. ~At(j, "done") /\ \A i \in Jobs \ {j} : jobs'[i] = jobs[i]
      <3>1. CASE reserve_execution_budget(j) \/ Finish(j)
        BY <1>0, <3>1, SMTT(40) DEF reserve_execution_budget, Finish, At
      <3>2. CASE ~(reserve_execution_budget(j) \/ Finish(j))
        BY <1>2, <3>2, QuietMoney
            DEF Worker, PolicyBlocks, Enter, BudgetBlocks, StopsBeforeWrite, Sendpay,
                SendpayUnheard, TimesOut, TransportFails, Completes, Fails, Record, DropGuard, At
      <3> QED BY <3>1, <3>2, SMTT(40)
    <2> QED BY <2>1, OthersKeep
  <1>3. ASSUME NEW j \in Jobs, Caller(j) PROVE ResultsKept
    <2>1. CASE FacadeSettles(j) BY <1>0, <2>1, OthersKeep DEF FacadeSettles, Set, At
    <2>2. CASE EngineRefuses(j) \/ execute_candidate(j) \/ PricingFails(j)
      <3>1. ~At(j, "done") BY <2>2 DEF EngineRefuses, execute_candidate, PricingFails, At
      <3> QED BY <2>2, <3>1, QuietMoney, OthersKeep
    <2>3. CASE \E s \in Sources : NextSource(j, s)
      <3>1. Next1 \in Jobs /\ jobs[j].phase = "retry" BY <2>3 DEF NextSource, At
      <3>2. jobs[Next1].phase = "unused" BY <3>1, NextIsUnused
      <3>3. \A i \in Jobs \ {j, Next1} : jobs'[i] = jobs[i] BY <1>0, <2>3 DEF NextSource
      <3> QED BY <3>1, <3>2, <3>3 DEF ResultsKept, At
    <2> QED BY <1>3, <2>1, <2>2, <2>3 DEF Caller
  <1>4. ASSUME NEW j \in Jobs, consume_worker_result(j) PROVE ResultsKept
    <2>1. ~At(j, "done") BY <1>4 DEF consume_worker_result, At
    <2> QED BY <1>4, <2>1, QuietMoney, OthersKeep
  <1>5. ASSUME NEW j \in Jobs, reconcile_pending_row(j) PROVE ResultsKept
    <2>1. \/ jobs' = [jobs EXCEPT ![j] = SweptComplete(jobs[j])]
          \/ jobs' = [jobs EXCEPT ![j] = SweptFailed(jobs[j])]
      BY <1>5 DEF reconcile_pending_row, Set
    <2> DEFINE spent == mark_budget_spent(jobs[j])
               cost  == record_rebalance_cost(jobs[j])
               freed == release_reservation(jobs[j])
               good  == [jobs[j] EXCEPT !.status = "success", !.cost = cost, !.reservation = spent]
               bad   == [jobs[j] EXCEPT !.status = "failed", !.reservation = freed]
    <2>2. SweptComplete(jobs[j]) = good /\ SweptFailed(jobs[j]) = bad
      BY DEF SweptComplete, SweptFailed
    <2> HIDE DEF spent, cost, freed
    <2>3. /\ good.phase = jobs[j].phase /\ good.pair = jobs[j].pair
          /\ good.mode = jobs[j].mode /\ good.class = jobs[j].class
      BY <1>0 DEF Job
    <2>4. /\ bad.phase = jobs[j].phase /\ bad.pair = jobs[j].pair
          /\ bad.mode = jobs[j].mode /\ bad.class = jobs[j].class
      BY <1>0 DEF Job
    <2> HIDE DEF good, bad
    <2> QED BY <1>0, <2>1, <2>2, <2>3, <2>4 DEF ResultsKept, At
  <1>6. ASSUME NEW j \in Jobs, NodeDecides(j) PROVE ResultsKept
    <2>1. CASE jobs' = [jobs EXCEPT ![j].wire = "failed"]
      BY <1>0, <2>1 DEF ResultsKept, At, Job
    <2>2. ASSUME NEW paid \in 0..jobs[j].fee,
                 jobs' = [jobs EXCEPT ![j].wire = "complete", ![j].paid = paid]
          PROVE  ResultsKept
      <3> DEFINE new == [jobs[j] EXCEPT !.wire = "complete", !.paid = paid]
      <3>1. jobs' = [jobs EXCEPT ![j] = new] BY <1>0, <2>2
      <3>2. /\ new.phase = jobs[j].phase /\ new.pair = jobs[j].pair
            /\ new.mode = jobs[j].mode /\ new.class = jobs[j].class
        BY <1>0 DEF Job
      <3> HIDE DEF new
      <3> QED BY <1>0, <3>1, <3>2 DEF ResultsKept, At
    <2> QED BY <1>6, <2>1, <2>2 DEF NodeDecides
  <1>7. CASE BeginCycle \/ (\E j \in Jobs : SweepSkips(j)) \/ NoCandidates \/ Deadline \/ CycleEnds
             \/ UNCHANGED vars
    BY <1>1, <1>7 DEF BeginCycle, SweepSkips, NoCandidates, Deadline, CycleEnds, vars
  <1>8. ASSUME NEW m \in 1..MaxConcurrentJobs, SpawnWorkers(m) PROVE ResultsKept
    <2> DEFINE J == Next1 .. (Cardinality(Opened) + m)
    <2>1. PICK n \in 0..MaxJobs : Opened = 1..n /\ Cardinality(Opened) = n /\ Next1 = n + 1
      BY Numbering DEF EngineInv
    <2>2. n \in Nat /\ m \in Nat BY EngineAssumption
    <2>3. \A j \in J : j \notin Opened BY <2>1, <2>2
    <2>4. \A j \in Jobs \ J : jobs'[j] = jobs[j] BY <1>8 DEF SpawnWorkers
    <2> HIDE DEF J
    <2>5. \A j \in Jobs : At(j, "done") => j \notin J BY <2>3 DEF Opened, At
    <2> QED BY <2>4, <2>5 DEF ResultsKept, At
  <1>9. ASSUME NEW p \in Requests, NEW f \in RequestFees,
               \/ \E mode \in {"manual", "diagnostic"} : Open(p, f, mode)
               \/ \E capex \in BOOLEAN : execute_rebalance(p, f, capex)
        PROVE  ResultsKept
    <2>1. Next1 \in Jobs /\ \A i \in Jobs \ {Next1} : jobs'[i] = jobs[i]
      BY <1>0, <1>9 DEF Open, execute_rebalance, Set
    <2>2. ~At(Next1, "done") BY <2>1, NextIsUnused DEF At
    <2> QED BY <2>1, <2>2, OthersKeep
  <1> QED BY <1>2, <1>3, <1>4, <1>5, <1>6, <1>7, <1>8, <1>9 DEF Next, Cycle

\* Only a consumed result raises strikes or cools a pair, and it is a failure.
LEMMA StrikeStep ==
    TypeOK /\ EngineInv /\ StrikesAreEarned /\ [Next]_vars => StrikesAreEarned'
  <1> SUFFICES ASSUME TypeOK, EngineInv, StrikesAreEarned, [Next]_vars,
                      NEW p \in Pairs, strikes'[p] > 0 \/ p \in cooling'
               PROVE  \E j \in Jobs : Failure(j, p)'
    BY DEF StrikesAreEarned, Failure
  <1>0. jobs \in [Jobs -> Job] /\ strikes \in [Pairs -> 0..Threshold] BY DEF TypeOK
  <1>t. Threshold \in Nat BY EngineAssumption
  <1>k. ASSUME strikes[p] > 0 \/ p \in cooling PROVE \E j \in Jobs : Failure(j, p)'
    <2>1. PICK j \in Jobs : Failure(j, p) BY <1>k DEF StrikesAreEarned, Failure
    <2>2. Failure(j, p)' BY <2>1, ResultStep DEF ResultsKept, Failure, At
    <2> QED BY <2>2
  <1>1. CASE UNCHANGED pairVars BY <1>1, <1>k DEF pairVars
  <1>2. CASE BeginCycle
    <2>1. strikes'[p] <= strikes[p] /\ strikes'[p] \in 0..Threshold /\ cooling' \subseteq cooling
      BY <1>2 DEF BeginCycle
    <2>2. strikes[p] > 0 \/ p \in cooling BY <1>0, <1>t, <2>1
    <2> QED BY <1>k, <2>2
  <1>3. CASE \E j \in Jobs : reconcile_pending_row(j)
    <2>1. strikes[p] > 0 \/ p \in cooling
      BY <1>0, <1>t, <1>3 DEF reconcile_pending_row
    <2> QED BY <1>k, <2>1
  <1>4. ASSUME NEW j \in Jobs, consume_worker_result(j) PROVE \E i \in Jobs : Failure(i, p)'
    <2>1. CASE strikes[p] > 0 \/ p \in cooling BY <1>k, <2>1
    <2>2. CASE ~(strikes[p] > 0 \/ p \in cooling)
      <3>1. Struck(jobs[j]) /\ p = jobs[j].pair
        <4>1. jobs[j].pair \in Pairs BY <1>0 DEF Job
        <4> QED BY <1>0, <1>t, <1>4, <2>2, <4>1 DEF consume_worker_result, pairVars
      <3>2. jobs[j].phase = "sent" /\ JobInv(jobs[j]) BY <1>4 DEF consume_worker_result, At, EngineInv
      <3>3. jobs[j].mode = "cycle" /\ Closed(jobs[j]) BY <3>2 DEF JobInv
      <3>4. jobs[j].class \in {"failed", "pending"} BY <3>1, <3>3 DEF Closed, Struck
      <3>5. /\ jobs'[j].phase = "done" /\ jobs'[j].pair = jobs[j].pair
            /\ jobs'[j].mode = jobs[j].mode /\ jobs'[j].class = jobs[j].class
        BY <1>0, <1>4 DEF consume_worker_result, Job
      <3>6. Failure(j, p)' BY <3>1, <3>3, <3>4, <3>5, SMTT(40) DEF Failure, At
      <3> QED BY <3>6
    <2> QED BY <2>1, <2>2
  <1>5. CASE \/ (\E j \in Jobs : SweepSkips(j)) \/ NoCandidates \/ Deadline \/ CycleEnds
             \/ \E n \in 1..MaxConcurrentJobs : SpawnWorkers(n)
    BY <1>1, <1>5 DEF SweepSkips, NoCandidates, Deadline, CycleEnds, SpawnWorkers
  <1>6. CASE \E j \in Jobs : Worker(j) \/ Caller(j) \/ NodeDecides(j)
    BY <1>1, <1>6, ZenonT(40)
        DEF Worker, PolicyBlocks, Enter, reserve_execution_budget, BudgetBlocks,
            StopsBeforeWrite, Sendpay, SendpayUnheard, TimesOut, TransportFails, Completes,
            Fails, Record, Finish, DropGuard, Caller, EngineRefuses, execute_candidate,
            PricingFails, FacadeSettles, NextSource, NodeDecides, Rest
  <1>7. CASE \E q \in Requests, f \in RequestFees :
                \/ \E mode \in {"manual", "diagnostic"} : Open(q, f, mode)
                \/ \E capex \in BOOLEAN : execute_rebalance(q, f, capex)
    BY <1>1, <1>7 DEF Open, execute_rebalance
  <1>8. CASE UNCHANGED vars BY <1>1, <1>8 DEF vars, pairVars
  <1> QED BY <1>2, <1>3, <1>4, <1>5, <1>6, <1>7, <1>8 DEF Next, Cycle

\* "Must never count as a routing failure": a budget block or a success never
\* leaves a strike or a cooldown behind, in any order of workers and sweeps.
THEOREM StrikesEarned == Spec => []StrikesAreEarned
  <1>1. Init => StrikesAreEarned BY DEF Init, StrikesAreEarned
  <1> QED BY <1>1, StrikeStep, Invariance, PTL DEF Spec

\* Everything the run checks of money, rows and strikes, for any channels, fees,
\* budgets and number of executions.
THEOREM MoneyAccounted == Spec => []MoneyIsAccounted
  BY TypeCorrect, Held, Owned, Accounted, BudgetKept, OverlapBounded, StrikesEarned, PTL
  DEF MoneyIsAccounted
=============================================================================
