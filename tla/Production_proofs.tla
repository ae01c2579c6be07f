-------------------------- MODULE Production_proofs --------------------------
(***************************************************************************)
(* What production rests on: the arm that grants a live session              *)
(* (CutoverStartup), the bracket that authorizes each batch of it            *)
(* (FeeAuthorization), and the writer of the production database             *)
(* (StateWriter).  They share no state, so they are proved side by side.     *)
(***************************************************************************)
EXTENDS FeeAuthorization, CutoverStartup, StateWriter, SumTheorems,
        NaturalsInduction, TLAPS

-----------------------------------------------------------------------------
(***************************************************************************)
(* The two-fetch bracket proves what it is meant to, for every clock bound,  *)
(* every freshness constant and every interleaving of switches and restarts. *)
(* The argument: (transitioned_at, generation) grows lexicographically with  *)
(* every transition of Python's gate, restarts included, although neither     *)
(* component alone does.                                                     *)
(***************************************************************************)

\* The epoch (t, g) is lexicographically after the epoch of reading r.
After(t, g, r) == \/ t > r.transitioned_at
                  \/ t = r.transitioned_at /\ g > r.generation

\* Python's gate is at the epoch of reading r or past it, and past it if it was
\* on at some time since.
Moved(r) ==
    /\ \/ transitioned_at = r.transitioned_at /\ generation = r.generation
       \/ After(transitioned_at, generation, r)
    /\ interrupted => After(transitioned_at, generation, r)

Bracketed == {"open", "q_read", "gen_read", "gates", "closing"}

\* Python's gate and the fetch in flight are never ahead of the clock; an answer
\* that said "disabled" bounds when Python can have been switched on since.
ClockInv ==
    /\ transitioned_at <= clock /\ onSince <= clock /\ sent <= clock
    /\ \A s \in status :
          /\ sent <= s.observed_at /\ s.observed_at <= clock
          /\ s.enabled \/ (enabled => s.observed_at <= onSince)

\* If Python was on at some time since fetch #1, its epoch has moved on.
EpochInv ==
    /\ pc = "opening" => \A s \in status : s.enabled \/ Moved(s)
    /\ pc \in Bracketed => Moved(first)
    /\ pc = "closing" => \A s \in status :
          offThroughout \/ After(s.transitioned_at, s.generation, first)

\* What an authorization carries.
MintInv ==
    /\ pc \in {"minted", "dispatched"} => offThroughout
    /\ pc = "minted" => \E s \in status :
          ~s.enabled /\ minted_at <= s.observed_at + RpcTimeout

\* The generation bound by the authorization.
GenInv ==
    /\ pc \in {"open", "q_read", "gen_read", "gates", "closing", "minted", "dispatched"}
          => openGen <= stateGen
    /\ pc \in {"gates", "closing", "minted", "dispatched"}
          => openGen <= candidate /\ candidate <= stateGen

AuthInv == TypeOK /\ ClockInv /\ EpochInv /\ MintInv /\ GenInv

\* The initial state satisfies the invariant.
LEMMA AuthInit == Init => AuthInv
  <1> SUFFICES ASSUME Init PROVE AuthInv
    OBVIOUS
  <1>1. 0 \in Time /\ 0 \in Epoch
    BY BoundsAssumption DEF Time, Epoch
  <1>2. NoReading \in Status
    BY <1>1 DEF NoReading, Status
  <1>3. TypeOK
    BY <1>1, <1>2 DEF Init, TypeOK, PCs
  <1>4. ClockInv /\ EpochInv /\ MintInv /\ GenInv
    BY DEF Init, ClockInv, EpochInv, MintInv, GenInv, Bracketed, Moved
  <1> QED
    BY <1>3, <1>4 DEF AuthInv

\* Types are kept by every step.
LEMMA AuthType == TypeOK /\ [Next]_vars => TypeOK'
  <1> SUFFICES ASSUME TypeOK, [Next]_vars PROVE TypeOK'
    OBVIOUS
  <1> USE BoundsAssumption DEF TypeOK, Time, Epoch, PCs
  <1>1. ASSUME Environment PROVE TypeOK'
    <2>1. CASE Tick
      BY <2>1 DEF Tick, py, task, hist
    <2>2. CASE SetAuthority
      BY <2>2 DEF SetAuthority, env, task
    <2>3. CASE PythonRestart
      BY <2>3 DEF PythonRestart, env, task
    <2>4. CASE CycleCommits
      BY <2>4 DEF CycleCommits, py, task, hist
    <2>5. CASE QuarantineChanges
      BY <2>5 DEF QuarantineChanges, py, task, hist
    <2>6. CASE PythonAnswers
      <3>1. [enabled |-> enabled, generation |-> generation,
             transitioned_at |-> transitioned_at, observed_at |-> clock] \in Status
        BY DEF Status
      <3>2. status' \subseteq Status
        BY <2>6, <3>1 DEF PythonAnswers
      <3>3. interrupted' \in BOOLEAN /\ offThroughout' \in BOOLEAN
        BY <2>6, Zenon DEF PythonAnswers
      <3> QED
        BY <2>6, <3>2, <3>3 DEF PythonAnswers, env, py
    <2> QED
      BY <1>1, <2>1, <2>2, <2>3, <2>4, <2>5, <2>6 DEF Environment
  <1>2. NoReading \in Status
    BY DEF NoReading, Status
  <1>3. ASSUME Deny, UNCHANGED <<env, py, hist>> PROVE TypeOK'
    BY <1>2, <1>3 DEF Deny, env, py, hist
  <1>4. CASE OpenBracket
    BY <1>4 DEF OpenBracket, env, py, hist
  <1>5. CASE Opened
    BY <1>5 DEF Opened, Fetched, env, py
  <1>6. CASE Authorize
    BY <1>6 DEF Authorize, env, py, hist
  <1>7. CASE QuarantineRead \/ GenerationRead \/ CloseBracket
    BY <1>7 DEF QuarantineRead, GenerationRead, CloseBracket, env, py, hist
  <1>8. CASE Mint \/ Dispatch
    BY <1>8 DEF Mint, Dispatch, env, py, hist
  <1>9. CASE FetchDenied \/ AuthorizeDenied \/ CloseRefused \/ Retire
    BY <1>3, <1>9 DEF FetchDenied, AuthorizeDenied, CloseRefused, Retire
  <1>10. CASE UNCHANGED vars
    BY <1>10 DEF vars, py, env, task, hist
  <1> QED
    BY <1>1, <1>4, <1>5, <1>6, <1>7, <1>8, <1>9, <1>10 DEF Next

\* The invariant is kept by every step of Python, of the clock, of the store and
\* of the authorizing task.
LEMMA AuthStep == AuthInv /\ [Next]_vars => AuthInv'
  <1> SUFFICES ASSUME AuthInv, [Next]_vars PROVE AuthInv'
    OBVIOUS
  <1>t. TypeOK /\ TypeOK'
    BY AuthType DEF AuthInv
  <1> USE <1>t, BoundsAssumption
      DEF TypeOK, Time, Epoch, PCs, Status, AuthInv, ClockInv, EpochInv, MintInv, GenInv,
          Bracketed, After, Moved
  <1>1. ASSUME Environment PROVE AuthInv'
    <2>1. CASE Tick
      BY <2>1 DEF Tick, py, task, hist
    <2>a. ASSUME SetAuthority \/ PythonRestart
          PROVE  /\ transitioned_at' = clock /\ onSince' \in {onSince, clock}
                 /\ enabled' => onSince' = clock
                 /\ transitioned_at' > transitioned_at \/ generation' > generation
                 /\ UNCHANGED <<clock, stateGen, quarantine, pc, now, sent, status, first,
                                opened_at, candidate, minted_at, offThroughout, openGen>>
      BY <2>a DEF SetAuthority, PythonRestart, env, task
    <2>2. CASE SetAuthority \/ PythonRestart
      <3>1. ClockInv'
        BY <2>2, <2>a
      <3>2. \A r \in Status : Moved(r) => After(transitioned_at', generation', r)
        BY <2>2, <2>a
      <3>3. EpochInv'
        BY <2>2, <2>a, <3>2
      <3>4. MintInv' /\ GenInv'
        BY <2>2, <2>a
      <3> QED
        BY <3>1, <3>3, <3>4
    <2>4. CASE CycleCommits
      BY <2>4 DEF CycleCommits, py, task, hist
    <2>5. CASE QuarantineChanges
      BY <2>5 DEF QuarantineChanges, py, task, hist
    <2>6. CASE PythonAnswers
      BY <2>6 DEF PythonAnswers, env, py
    <2> QED
      BY <1>1, <2>1, <2>2, <2>4, <2>5, <2>6 DEF Environment
  <1>3. ASSUME Deny, UNCHANGED <<env, py, hist>> PROVE AuthInv'
    BY <1>3 DEF Deny, env, py, hist
  <1>4. CASE OpenBracket
    BY <1>4 DEF OpenBracket, env, py, hist
  <1>5. CASE Opened
    BY <1>5 DEF Opened, Fetched, validate_status, env, py
  <1>6. CASE Authorize
    BY <1>6 DEF Authorize, env, py, hist
  <1>7. CASE QuarantineRead
    BY <1>7 DEF QuarantineRead, env, py, hist
  <1>8. CASE GenerationRead
    BY <1>8 DEF GenerationRead, env, py, hist
  <1>9. CASE CloseBracket
    BY <1>9 DEF CloseBracket, env, py, hist
  <1>10. CASE Mint
    BY <1>10 DEF Mint, Fetched, validate_status, validate_stable_epoch, env, py, hist
  <1>11. CASE Dispatch
    BY <1>11 DEF Dispatch, env, py, hist
  <1>12. CASE FetchDenied \/ AuthorizeDenied \/ CloseRefused \/ Retire
    BY <1>3, <1>12 DEF FetchDenied, AuthorizeDenied, CloseRefused, Retire
  <1>13. CASE UNCHANGED vars
    BY <1>13 DEF vars, py, env, task, hist
  <1> QED
    BY <1>1, <1>4, <1>5, <1>6, <1>7, <1>8, <1>9, <1>10, <1>11, <1>12, <1>13 DEF Next

\* The invariant holds in every reachable state.
LEMMA AuthInvariant == Spec => []AuthInv
  BY AuthInit, AuthStep, PTL DEF Spec

\* An authorization exists only if Python's authority was off from the first
\* fetch to the second.
THEOREM BracketIsSound == Spec => []OffThroughoutBracket
  <1>1. AuthInv => OffThroughoutBracket
    BY DEF AuthInv, MintInv, OffThroughoutBracket
  <1> QED
    BY AuthInvariant, <1>1, PTL

\* The bound generation was current after the bracket opened.
THEOREM GenerationBound == Spec => []GenerationIsRecent
  <1>1. AuthInv => GenerationIsRecent
    BY BoundsAssumption DEF AuthInv, GenInv, TypeOK, Epoch, GenerationIsRecent
  <1> QED
    BY AuthInvariant, <1>1, PTL

\* Python has been back on for at most the fetch budget plus the dispatch
\* deadline when an authorization is dispatched.
THEOREM OverlapIsBounded == Spec => DualAuthorityBounded
  <1>1. AuthInv /\ [Next]_vars =>
          [pc = "minted" /\ pc' = "dispatched" /\ enabled
             => clock - onSince <= RpcTimeout + DispatchFreshness]_vars
    <2> SUFFICES ASSUME AuthInv, Next, pc = "minted", pc' = "dispatched", enabled
                 PROVE clock - onSince <= RpcTimeout + DispatchFreshness
      OBVIOUS
    <2>1. clock - minted_at <= DispatchFreshness
      BY DEF Next, Environment, Tick, SetAuthority, PythonRestart, CycleCommits,
             QuarantineChanges, PythonAnswers, OpenBracket, Opened, FetchDenied, Authorize,
             QuarantineRead, GenerationRead, AuthorizeDenied, CloseRefused, CloseBracket,
             Mint, Dispatch, Retire, Deny, task
    <2>2. PICK s \in status : ~s.enabled /\ minted_at <= s.observed_at + RpcTimeout
      BY DEF AuthInv, MintInv
    <2>3. s.observed_at <= onSince
      BY <2>2 DEF AuthInv, ClockInv
    <2> QED
      BY <2>1, <2>2, <2>3, BoundsAssumption DEF AuthInv, TypeOK, Time, Status
  <1> QED
    BY AuthInvariant, <1>1, PTL DEF Spec, DualAuthorityBounded

\* Every authorization minted or dispatched rests on a bracket in which Python
\* was off throughout and on a generation read inside it (python_authority.rs,
\* fee_execution.rs).
THEOREM AuthorizationProven == Spec => []AuthorizationIsProven
  <1>1. AuthInv => TypeOK
    BY DEF AuthInv
  <1>2. TypeOK /\ OffThroughoutBracket /\ GenerationIsRecent => AuthorizationIsProven
    BY DEF AuthorizationIsProven
  <1> QED
    BY AuthInvariant, BracketIsSound, GenerationBound, <1>1, <1>2, PTL

-----------------------------------------------------------------------------
(***************************************************************************)
(* An arm is single-use for any number of processes and nonces.  Each of the  *)
(* two deny records, as long as it was not lost, has one owner per nonce: a   *)
(* process on its way to a session, or the session itself.  The boundary      *)
(* "never both lost" leaves at least one of them intact.                      *)
(***************************************************************************)

\* p holds nonce n behind the ledger record, or behind the consumed file.
BehindLedger(p, n) == n \in nonce[p] /\ stage[p] \in {"burned", "renamed", "resolve"}
BehindDir(p, n)    == n \in nonce[p] /\ stage[p] \in {"renamed", "resolve"}

\* A process that holds a nonce is past validation, and holds only one.
HeldInv ==
    /\ \A p \in Procs : stage[p] \in {"down", "started", "observer"} => nonce[p] = {}
    /\ \A p \in Procs : \A n, m \in nonce[p] : n = m

\* While the ledger is intact, it has one owner per nonce.
LedgerInv ==
    ~ledgerLost =>
      /\ \A p \in Procs, n \in Nonces : BehindLedger(p, n) =>
            n \in ledger /\ sessions[n] = 0
      /\ \A p, q \in Procs, n \in Nonces :
            BehindLedger(p, n) /\ BehindLedger(q, n) => p = q
      /\ \A n \in Nonces : sessions[n] > 0 => n \in ledger

\* While the directory is intact, so has it.
DirInv ==
    ~dirLost =>
      /\ \A p \in Procs, n \in Nonces : BehindDir(p, n) =>
            n \in dir /\ sessions[n] = 0
      /\ \A p, q \in Procs, n \in Nonces :
            BehindDir(p, n) /\ BehindDir(q, n) => p = q
      /\ \A n \in Nonces : sessions[n] > 0 => n \in dir

CutoverInv ==
    /\ StartupTypeOK
    /\ HeldInv
    /\ LedgerInv
    /\ DirInv
    /\ ~(ledgerLost /\ dirLost)
    /\ ArmSingleUse

\* The initial state satisfies the invariant.
LEMMA CutoverInit == StartupInit => CutoverInv
  <1> SUFFICES ASSUME StartupInit PROVE CutoverInv
    OBVIOUS
  <1>1. StartupTypeOK
    BY DEF StartupInit, StartupTypeOK, Stages, Modes, Bindings
  <1>2. HeldInv /\ LedgerInv /\ DirInv
    BY DEF StartupInit, HeldInv, LedgerInv, DirInv, BehindLedger, BehindDir
  <1>3. ~(ledgerLost /\ dirLost) /\ ArmSingleUse
    BY DEF StartupInit, ArmSingleUse
  <1> QED
    BY <1>1, <1>2, <1>3 DEF CutoverInv

\* Types are kept by every step.
LEMMA CutoverType == StartupTypeOK /\ [StartupNext]_startupVars => StartupTypeOK'
  <1> SUFFICES ASSUME StartupTypeOK, [StartupNext]_startupVars PROVE StartupTypeOK'
    OBVIOUS
  <1> USE DEF StartupTypeOK, Stages, Modes, Bindings, disk, proc, lost
  <1>1. ASSUME NEW n \in Nonces, PlaceArm(n) \/ Expire(n) PROVE StartupTypeOK'
    BY <1>1 DEF PlaceArm, Expire
  <1>2. CASE LoseLedger \/ LoseDir
    BY <1>2 DEF LoseLedger, LoseDir
  <1>3. CASE PowerLoss
    BY <1>3 DEF PowerLoss
  <1>4. ASSUME NEW p \in Procs, ProcStep(p) PROVE StartupTypeOK'
    <2>1. CASE Start(p)
      BY <2>1 DEF Start
    <2>2. CASE NoArm(p) \/ Fsync(p) \/ GoObserver(p)
      BY <2>2 DEF NoArm, Fsync, GoObserver
    <2>3. CASE Validate(p)
      BY <2>3 DEF Validate
    <2>4. CASE Burn(p) \/ Rename(p)
      BY <2>4 DEF Burn, Rename
    <2>5. CASE GoLive(p)
      BY <2>5 DEF GoLive
    <2>6. CASE FirstCommit(p)
      BY <2>6 DEF FirstCommit
    <2>7. CASE Exit(p)
      BY <2>7 DEF Exit, Down
    <2> QED
      BY <1>4, <2>1, <2>2, <2>3, <2>4, <2>5, <2>6, <2>7 DEF ProcStep
  <1>5. CASE UNCHANGED startupVars
    BY <1>5 DEF startupVars
  <1> QED
    BY <1>1, <1>2, <1>3, <1>4, <1>5 DEF StartupNext

\* Every step keeps the ownership invariant.
LEMMA CutoverStep == CutoverInv /\ [StartupNext]_startupVars => CutoverInv'
  <1> SUFFICES ASSUME CutoverInv, [StartupNext]_startupVars PROVE CutoverInv'
    OBVIOUS
  <1>t. StartupTypeOK /\ StartupTypeOK'
    BY CutoverType DEF CutoverInv
  <1> USE <1>t DEF CutoverInv, HeldInv, LedgerInv, DirInv, ArmSingleUse, BehindLedger,
                   BehindDir, disk, proc, lost
  <1>1. ASSUME NEW n \in Nonces, PlaceArm(n) \/ Expire(n) PROVE CutoverInv'
    BY <1>1 DEF PlaceArm, Expire
  <1>2. CASE LoseLedger
    BY <1>2 DEF LoseLedger
  <1>3. CASE LoseDir
    BY <1>3 DEF LoseDir
  <1>4. CASE PowerLoss
    BY <1>4 DEF PowerLoss, StartupTypeOK
  <1>5. ASSUME NEW p \in Procs, ProcStep(p) PROVE CutoverInv'
    <2>1. CASE Start(p)
      BY <2>1 DEF Start, StartupTypeOK
    <2>2. CASE NoArm(p)
      BY <2>2 DEF NoArm, StartupTypeOK
    <2>3. CASE Validate(p)
      BY <2>3 DEF Validate, StartupTypeOK
    <2>4. CASE Burn(p)
      BY <2>4 DEF Burn, StartupTypeOK
    <2>5. CASE Rename(p)
      BY <2>5 DEF Rename, StartupTypeOK
    <2>6. CASE Fsync(p)
      BY <2>6 DEF Fsync, StartupTypeOK
    <2>7. CASE GoLive(p)
      BY <2>7 DEF GoLive, StartupTypeOK
    <2>8. CASE GoObserver(p)
      BY <2>8 DEF GoObserver, StartupTypeOK
    <2>9. CASE FirstCommit(p)
      BY <2>9 DEF FirstCommit
    <2>10. CASE Exit(p)
      BY <2>10 DEF Exit, Down, StartupTypeOK
    <2> QED
      BY <1>5, <2>1, <2>2, <2>3, <2>4, <2>5, <2>6, <2>7, <2>8, <2>9, <2>10 DEF ProcStep
  <1>6. CASE UNCHANGED startupVars
    BY <1>6 DEF startupVars
  <1> QED
    BY <1>1, <1>2, <1>3, <1>4, <1>5, <1>6 DEF StartupNext

\* The invariant holds in every reachable state.
LEMMA CutoverInvariant == StartupSpec => []CutoverInv
  BY CutoverInit, CutoverStep, PTL DEF StartupSpec

\* A cutover arm grants at most one live session, whatever crashes, replays,
\* overlaps or loses one of the two records.
THEOREM ArmIsSingleUse == StartupSpec => []ArmSingleUse
  <1>1. CutoverInv => ArmSingleUse
    BY DEF CutoverInv
  <1> QED
    BY CutoverInvariant, <1>1, PTL

\* The nonce of every granted session stays denied by at least one record.
THEOREM DenyRecordIsDurable == StartupSpec => []DenyRecordSurvives
  <1>1. CutoverInv => DenyRecordSurvives
    BY DEF CutoverInv, LedgerInv, DirInv, DenyRecordSurvives
  <1> QED
    BY CutoverInvariant, <1>1, PTL

\* An arm file is spent by the first process that uses it, and the record of that
\* survives crashes and a restored copy of either ledger (cutover_arm.rs).
THEOREM ArmIsSpent == StartupSpec => []ArmIsSpentForGood
  <1>1. CutoverInv => StartupTypeOK
    BY DEF CutoverInv
  <1>2. StartupTypeOK /\ ArmSingleUse /\ DenyRecordSurvives => ArmIsSpentForGood
    BY DEF ArmIsSpentForGood
  <1> QED
    BY CutoverInvariant, ArmIsSingleUse, DenyRecordIsDurable, <1>1, <1>2, PTL

-----------------------------------------------------------------------------
(***************************************************************************)
(* The state writer, for any peers, keys, reservations and channels, any     *)
(* queue capacity and any number of overlapping calls.  A command is in one  *)
(* place at a time: unsent in its caller's plan, queued, landed, or dropped; *)
(* its identity, caller and remaining plan, is never used twice.             *)
(***************************************************************************)

\* The entries of requests; one planned row: written for a peer from the row
\* read before.
Entry ==
    [do : {"ignore", "ban", "unban"}, p : Peer] \union [do : {"tag", "untag"}, p : Peer, tag : Tag]
      \union [do : {"set"}, p : Peer, in : SetInputs]
EditRow == [p : Peer, row : PolicyRow, n : Nat, base : PolicyRow, e : Entry]

\* What a standing ban promises of one edit.
KeepsBan(r) == Standing({r.base}) /\ ~AsksToLift(r.e) => Standing({r.row})

GoodRow == {r \in EditRow : ValidRow(r.row) /\ KeepsBan(r)}

\* The requests that are one command, and all of them.
OneCommand == {"delete", "setconf", "delconf", "hotadd", "hotremove", "release", "settle", "clear"}
SimpleRequest ==
    [do : {"delete", "hotadd", "hotremove"}, p : Peer] \union [do : {"setconf", "delconf"}, k : Key]
      \union [do : {"release", "settle"}, r : Rid] \union {[do |-> "clear"]}
Request ==
    SimpleRequest \union [do : {"edit", "batch"}, entries : Seq(Entry) \ {<<>>}]
      \union [do : {"none", "hotclear", "cleanup"}] \union [do : {"purge"}, ss : SUBSET Scid]

Command ==
    [op : {"write"}, rows : {R \in SUBSET GoodRow : R # {} /\ IsFiniteSet(R)}]
      \union {[op |-> rq.do, rq |-> rq] : rq \in SimpleRequest}
      \union [op : {"purge"}, ss : SUBSET Scid]
      \union [op : {"archive"}, s : Scid]

Places == {"idle", "read", "admit", "wait", "ack", "done", "answered"}

CallRecord ==
    [at : Places, rq : Request, left : Seq(Entry), rows : SUBSET GoodRow,
     plan : Seq(Command), id : (0 .. MaxCalls) \X Nat, ver : Nat, ack : Acks, reply : Acks,
     seen : SUBSET Scid]

ChanRecord == [tables : SUBSET Tables, closed : SUBSET {"row"}]

Item == [c : Caller, id : Caller \X Nat, cmd : Command]

\* Every table and record is well formed; a peer has one row at most.
StoreTyped ==
    /\ pol \in [Peer -> SUBSET PolicyRow] /\ \A p \in Peer : \A r, s \in pol[p] : r = s
    /\ conf \in [Key -> 0 .. MaxVersion] /\ hot \in SUBSET Peer
    /\ resv \in [Rid -> {"none", "active", "released", "spent"}]
    /\ chan \in [Scid -> ChanRecord]

CallsTyped ==
    /\ family \in Families /\ open \in SUBSET Scid /\ up \in BOOLEAN
    /\ queue \in Seq(Item) /\ Len(queue) <= QueueCap
    /\ call \in [Caller -> CallRecord]
    /\ landed \in SUBSET (Caller \X Nat) /\ woken \in SUBSET (Caller \X Nat)
    /\ told \in [Rid -> Nat] /\ rate \in [Peer -> Nat] /\ published \in 0 .. MaxVersion

\* Sent: the command left its caller and was not dropped.
Queued(id) == \E i \in 1 .. Len(queue) : queue[i].id = id
Sent(id) == id \in landed \/ Queued(id)

\* Where a caller stands determines what it may have sent.
PlaceOf(c, k) ==
    /\ k.at \in {"idle", "read"} => \A n \in Nat : ~Sent(<<c, n>>)
    /\ k.at = "admit" => k.plan # <<>> /\ \A n \in Nat : Sent(<<c, n>>) => n > Len(k.plan)
    /\ k.at \in {"wait", "ack"} =>
         /\ k.plan # <<>> /\ k.id = <<c, Len(k.plan)>>
         /\ \A n \in Nat : Sent(<<c, n>>) => n >= Len(k.plan)

Refusals == {"not_admitted", "denied", "already_terminal", "storage_failure", "unchanged"}

\* What a waiting caller will be told is what happened to its command.
Truthful(k) ==
    /\ k.at = "wait" =>
         /\ k.reply = "none" => k.id \notin landed
         /\ k.reply # "none" => ~Queued(k.id)
         /\ k.reply = "applied" => k.id \in landed
         /\ k.reply \in Refusals => k.id \notin landed
         /\ \A i \in 1 .. Len(queue) : queue[i].id = k.id => queue[i].cmd = Head(k.plan)
    /\ k.at = "ack" =>
         /\ k.ack = "applied" => k.id \in landed
         /\ k.ack \in Refusals => ~Sent(k.id)

\* A request with one command keeps it; a batch is one write of its rows.
Follows(k) ==
    /\ k.at \in {"admit", "wait", "ack"} =>
         /\ k.rq.do \in OneCommand => k.plan = <<[op |-> k.rq.do, rq |-> k.rq]>>
         /\ k.rq.do \in {"edit", "batch"} => k.plan = <<[op |-> "write", rows |-> k.rows]>>
    /\ k.at = "read" /\ k.rq.do \in {"edit", "batch"} => k.left # <<>>

\* The caller knows, or is about to, that its command was committed.
Heard(k) == (k.at = "wait" /\ k.reply = "applied") \/ (k.at = "ack" /\ k.ack = "applied")

\* The version a caller is about to publish is one the table had.
KnowsVersion(k) == k.rq.do = "setconf" /\ Heard(k) => k.ver <= MaxVersion

\* A call changes no more rows than a batch may have.
Counted(k) ==
    k.rq.do \in {"edit", "batch"} =>
      /\ IsFiniteSet(k.rows)
      /\ k.at = "read" => Cardinality(k.rows) + Len(k.left) <= BatchBound[family]
      /\ k.at \in {"admit", "wait", "ack"} => Cardinality(k.rows) <= BatchBound[family]

CallerInv(c, k) == PlaceOf(c, k) /\ Truthful(k) /\ Follows(k) /\ KnowsVersion(k) /\ Counted(k)

\* No command is queued twice or queued again after it landed.
QueueIsFresh ==
    \A i \in 1 .. Len(queue) :
      /\ queue[i].id[1] = queue[i].c /\ queue[i].id \notin landed
      /\ \A j \in 1 .. Len(queue) : queue[i].id = queue[j].id => i = j

\* The caller holds the win of the reservation: it is told, or will be.
Wins(k, r) == k.rq.do \in {"release", "settle"} /\ k.rq.r = r /\ Heard(k)

Ended(r) == resv[r] \in {"released", "spent"}

\* One winner of a reservation at most, and only once it has ended.
OneWinner ==
    \A r \in Rid :
      /\ told[r] <= 1
      /\ told[r] = 1 => Ended(r) /\ \A c \in Caller : ~Wins(call[c], r)
      /\ \A c \in Caller : Wins(call[c], r) => Ended(r)
      /\ \A c, d \in Caller : Wins(call[c], r) /\ Wins(call[d], r) => c = d

\* The callers that will count no change any more.
Finished == {c \in Caller : call[c].at \in {"done", "answered"}}

\* The caller passed the limit of the peer and has not been counted.
Passed(k, p) ==
    k.at \in {"admit", "wait", "ack"} /\ k.rq.do \in {"edit", "batch"} /\ p \in PeersOf(k.rows)

\* A call that passed the limit found the peer under it; those that finished
\* since raised it by a batch each.
RatesHold ==
    \A p \in Peer :
      \/ rate[p] <= ChangeLimit - 1 + Cardinality(Finished) * BatchBound[family]
      \/ rate[p] <= ChangeLimit /\ \A c \in Caller : ~Passed(call[c], p)

WriterInv ==
    /\ StoreTyped /\ CallsTyped /\ QueueIsFresh /\ \A c \in Caller : CallerInv(c, call[c])
    /\ VersionsDistinct /\ OneWinner /\ RatesHold
    /\ WakesAreCommitted /\ PoliciesAreValid /\ ArchiveIsWhole

-----------------------------------------------------------------------------
(* Lemmas about the operators.                                              *)

\* A nonempty set of natural numbers that is bounded has a greatest element.
LEMMA Maximum ==
    ASSUME NEW n \in Nat, NEW T \in SUBSET (0 .. n), T # {}
    PROVE  \E x \in T : \A y \in T : y <= x
  <1> DEFINE D == {m \in Nat : \E x \in T : x = n - m}
  <1>1. D \in SUBSET Nat /\ D # {}
    <2>1. PICK x \in T : TRUE
      OBVIOUS
    <2>2. n - x \in Nat /\ x = n - (n - x)
      OBVIOUS
    <2> QED
      BY <2>1, <2>2
  <1>2. PICK m \in D : \A k \in D : m <= k
    BY <1>1, Minimum
  <1>3. n - m \in T
    OBVIOUS
  <1>4. ASSUME NEW y \in T PROVE y <= n - m
    <2>1. n - y \in Nat /\ y = n - (n - y)
      OBVIOUS
    <2>2. m <= n - y
      BY <1>2, <2>1
    <2> QED
      BY <2>2
  <1> QED
    BY <1>3, <1>4

\* A finite set read as a sequence.
LEMMA SetAsSeq ==
    ASSUME NEW S, IsFiniteSet(S)
    PROVE  SetToSeq(S) \in Seq(S)
  <1>1. Cardinality(S) \in Nat /\ ExistsBijection(1 .. Cardinality(S), S)
    BY FS_CardinalityType
  <1>2. \E f \in [1 .. Cardinality(S) -> S] : IsInjective(f)
    BY <1>1 DEF ExistsBijection, Bijection, Injection, IsInjective
  <1>3. SetToSeq(S) \in [1 .. Cardinality(S) -> S]
    BY <1>2 DEF SetToSeq
  <1> QED
    BY <1>1, <1>3

\* The empty sequence and a sequence of one element.
LEMMA ShortSeqs ==
    ASSUME NEW S
    PROVE  /\ <<>> \in Seq(S)
           /\ \A x \in S : <<x>> \in Seq(S) /\ <<x>> # <<>> /\ Len(<<x>>) = 1
                            /\ Head(<<x>>) = x /\ Tail(<<x>>) = <<>>
  OBVIOUS

\* Monotonicity of a product, which the SMT solver does not find in context.
LEMMA TimesMonotone ==
    ASSUME NEW a \in Nat, NEW b \in Nat, NEW n \in Nat, a <= b
    PROVE  /\ a * n \in Nat /\ b * n \in Nat /\ a * n <= b * n
           /\ (a + 1) * n = a * n + n
  BY SMTT(30)

\* What an entry holds, by its operation.
LEMMA EntryFacts ==
    ASSUME NEW e \in Entry
    PROVE  /\ e.p \in Peer
           /\ e.do \in {"ignore", "ban", "unban", "tag", "untag", "set"}
           /\ e.do \in {"tag", "untag"} => e.tag \in Tag
           /\ e.do = "set" => e.in \in SetInput
  BY WriterAssumption DEF Entry

\* The edits of one peer are entries.
LEMMA EditsAreEntries ==
    ASSUME NEW p \in Peer
    PROVE  PolicyEdits(p) \subseteq Entry
  BY DEF PolicyEdits, Entry

LEMMA RequestCases ==
    ASSUME NEW rq \in Request
    PROVE  /\ rq.do \in OneCommand \union {"edit", "batch", "none", "hotclear", "cleanup", "purge"}
           /\ rq.do \in OneCommand => rq \in SimpleRequest
           /\ rq.do \in {"delete", "hotadd", "hotremove"} => rq.p \in Peer
           /\ rq.do \in {"setconf", "delconf"} => rq.k \in Key
           /\ rq.do \in {"release", "settle"} => rq.r \in Rid
           /\ rq.do \in {"edit", "batch"} => rq.entries \in Seq(Entry) /\ rq.entries # <<>>
           /\ rq.do = "purge" => rq.ss \in SUBSET Scid
  BY DEF Request, SimpleRequest, OneCommand

LEMMA CommandCases ==
    ASSUME NEW cmd \in Command
    PROVE  /\ cmd.op \in OneCommand \union {"write", "purge", "archive"}
           /\ cmd.op \in {"delete", "hotadd", "hotremove"} => cmd.rq.p \in Peer
           /\ cmd.op \in {"setconf", "delconf"} => cmd.rq.k \in Key
           /\ cmd.op \in {"release", "settle"} => cmd.rq.r \in Rid
           /\ cmd.op = "write" => cmd.rows \in SUBSET GoodRow /\ cmd.rows # {} /\ IsFiniteSet(cmd.rows)
           /\ cmd.op = "purge" => cmd.ss \in SUBSET Scid
           /\ cmd.op = "archive" => cmd.s \in Scid
  BY DEF Command, SimpleRequest, OneCommand

LEMMA DefaultFacts ==
    /\ Default \in PolicyRow /\ ValidRow(Default)
  <1>1. Default.strategy \in FeeStrategies /\ Default.mode \in RebalanceModes
    BY DEF Default, FeeStrategies, RebalanceModes
  <1>2. Default \in PolicyRow
    BY <1>1 DEF Default, PolicyRow
  <1> QED
    BY <1>2 DEF Default, ValidRow

\* The row a handler plans from is well formed and valid.
LEMMA ExistingFacts ==
    ASSUME StoreTyped, PoliciesAreValid, NEW p \in Peer
    PROVE  Existing(p) \in PolicyRow /\ ValidRow(Existing(p))
  <1>1. pol[p] \in SUBSET PolicyRow /\ \A r \in pol[p] : ValidRow(r)
    BY DEF StoreTyped, PoliciesAreValid
  <1> QED
    BY <1>1, DefaultFacts DEF Existing

\* A merged row is well formed where it passes the checks, and a ban stands in
\* it unless the input gives an expiry or tags without it.
LEMMA MergedFacts ==
    ASSUME NEW old \in PolicyRow, NEW in \in SetInput,
           Merged(old, in).strategy \in FeeStrategies, Merged(old, in).mode \in RebalanceModes
    PROVE  /\ Merged(old, in) \in PolicyRow
           /\ Standing({old}) /\ (\A h \in in.hours : h <= 0) /\ (\A t \in in.tags : "banned" \in t) =>
                Standing({Merged(old, in)})
  <1>1. ASSUME NEW f \in FieldInput, NEW S \in SUBSET Int PROVE Resolve(f, S) \in SUBSET Int
    BY DEF Resolve, FieldInput
  <1> DEFINE m == Merged(old, in)
  <1>2. old \in [strategy : FeeStrategies, mode : RebalanceModes, fee : SUBSET Int,
                 tags : SUBSET Tag, lo : SUBSET Int, hi : SUBSET Int, exp : {"none", "later", "past"}]
    BY DEF PolicyRow
  <1>3. m = [old EXCEPT !.strategy = m.strategy, !.mode = m.mode, !.tags = m.tags, !.fee = m.fee,
                        !.lo = m.lo, !.hi = m.hi, !.exp = m.exp]
    BY <1>2 DEF Merged
  <1>4. m.fee = Resolve(in.fee, old.fee) /\ m.lo = Resolve(in.lo, old.lo) /\ m.hi = Resolve(in.hi, old.hi)
    BY <1>2 DEF Merged
  <1>5. /\ m.exp = IF in.hours = {} THEN old.exp ELSE IF \E h \in in.hours : h <= 0 THEN "none" ELSE "later"
        /\ m.tags = IF in.tags = {} THEN old.tags ELSE UNION in.tags
    BY <1>2 DEF Merged
  <1>6. m.fee \in SUBSET Int /\ m.lo \in SUBSET Int /\ m.hi \in SUBSET Int
    BY <1>1, <1>2, <1>4 DEF SetInput
  <1>7. m.exp \in {"none", "later", "past"} /\ m.tags \in SUBSET Tag
    <2>1. in.tags \in SUBSET SUBSET Tag
      BY DEF SetInput
    <2> QED
      BY <1>2, <1>5, <2>1
  <1>8. m.strategy \in FeeStrategies /\ m.mode \in RebalanceModes
    OBVIOUS
  <1> HIDE DEF m
  <1>9. m \in PolicyRow
    BY <1>2, <1>3, <1>6, <1>7, <1>8 DEF PolicyRow
  <1>10. ASSUME Standing({old}), \A h \in in.hours : h <= 0, \A t \in in.tags : "banned" \in t
         PROVE  Standing({m})
    <2>1. "banned" \in old.tags /\ old.exp = "none"
      BY <1>10 DEF Standing
    <2>2. "banned" \in m.tags
      BY <1>5, <1>10, <2>1
    <2>3. m.exp = "none"
      BY <1>5, <1>10, <2>1
    <2> QED
      BY <2>2, <2>3 DEF Standing
  <1> QED
    BY <1>9, <1>10 DEF m

\* Validity looks at the fee, the multipliers and whether the strategy is static.
LEMMA ValidSame ==
    ASSUME NEW old, ValidRow(old), NEW r, r.fee = old.fee, r.lo = old.lo, r.hi = old.hi,
           r.strategy = "static" => old.strategy = "static"
    PROVE  ValidRow(r)
  BY DEF ValidRow

\* What the handlers plan from a valid row is valid, and keeps a standing ban
\* unless it asks to lift it.
LEMMA PlannedFacts ==
    ASSUME NEW e \in Entry, NEW old \in PolicyRow, ValidRow(old), NEW r \in Planned(e, old)
    PROVE  /\ r \in PolicyRow /\ ValidRow(r) /\ Planned(e, old) = {r}
           /\ Standing({old}) /\ ~AsksToLift(e) => Standing({r})
  <1> DEFINE Typed(x) ==
        x \in [strategy : FeeStrategies, mode : RebalanceModes, fee : SUBSET Int,
               tags : SUBSET Tag, lo : SUBSET Int, hi : SUBSET Int,
               exp : {"none", "later", "past"}]
  <1>0. \A x : Typed(x) <=> x \in PolicyRow
    BY DEF PolicyRow
  <1>1. Typed(old) /\ {"passive", "dynamic"} \subseteq FeeStrategies /\ {"disabled", "enabled"} \subseteq RebalanceModes
    BY <1>0 DEF FeeStrategies, RebalanceModes
  <1>2. CASE e.do = "ignore"
    <2>1. r = Ignored(old) /\ Planned(e, old) = {r}
      BY <1>2 DEF Planned
    <2>2. Typed(r) /\ r.fee = old.fee /\ r.lo = old.lo /\ r.hi = old.hi /\ r.strategy = "passive"
      BY <1>1, <2>1 DEF Ignored, Tag
    <2>3. r \in PolicyRow
      BY <1>0, <2>2
    <2> HIDE DEF Typed
    <2>4. ValidRow(r)
      BY <2>2, ValidSame
    <2> QED
      BY <1>2, <2>1, <2>3, <2>4 DEF AsksToLift
  <1>3. CASE e.do = "ban"
    <2>1. r = Banned(old) /\ Planned(e, old) = {r}
      BY <1>3 DEF Planned
    <2>2. Typed(r) /\ r.fee = old.fee /\ r.lo = old.lo /\ r.hi = old.hi /\ r.strategy = "passive"
          /\ "banned" \in r.tags /\ r.exp = "none"
      BY <1>1, <2>1 DEF Banned, Tag
    <2>3. r \in PolicyRow
      BY <1>0, <2>2
    <2> HIDE DEF Typed
    <2>4. ValidRow(r)
      BY <2>2, ValidSame
    <2> QED
      BY <1>3, <2>1, <2>2, <2>3, <2>4 DEF Standing
  <1>4. CASE e.do = "unban"
    <2>1. r = Unbanned(old) /\ Planned(e, old) = {r}
      BY <1>4 DEF Planned
    <2>2. Typed(r) /\ r.fee = old.fee /\ r.lo = old.lo /\ r.hi = old.hi /\ r.strategy = "dynamic"
      BY <1>1, <2>1 DEF Unbanned
    <2>3. r \in PolicyRow
      BY <1>0, <2>2
    <2> HIDE DEF Typed
    <2>4. ValidRow(r)
      BY <2>2, ValidSame
    <2> QED
      BY <1>4, <2>1, <2>3, <2>4 DEF AsksToLift
  <1>5. CASE e.do \in {"tag", "untag"}
    <2> DEFINE tags == IF e.do = "tag" THEN old.tags \union {e.tag} ELSE old.tags \ {e.tag}
    <2>1. r = [old EXCEPT !.tags = tags] /\ Planned(e, old) = {r}
      BY <1>5 DEF Planned, Tagged
    <2>2. tags \in SUBSET Tag
      BY <1>1, <1>5, EntryFacts
    <2>3. "banned" \in old.tags /\ ~AsksToLift(e) => "banned" \in tags
      BY <1>5 DEF AsksToLift
    <2> HIDE DEF tags
    <2>4. Typed(r) /\ r.fee = old.fee /\ r.lo = old.lo /\ r.hi = old.hi /\ r.strategy = old.strategy
          /\ r.tags = tags /\ r.exp = old.exp
      BY <1>1, <2>1, <2>2
    <2>5. r \in PolicyRow
      BY <1>0, <2>4
    <2> HIDE DEF Typed
    <2>6. ValidRow(r)
      BY <2>4, ValidSame
    <2>7. Standing({old}) /\ ~AsksToLift(e) => Standing({r})
      BY <2>3, <2>4 DEF Standing
    <2> QED
      BY <2>1, <2>5, <2>6, <2>7
  <1>6. CASE e.do = "set"
    <2>1. r \in MergePolicy(old, e.in) /\ Planned(e, old) = MergePolicy(old, e.in) /\ e.in \in SetInput
      BY <1>6, EntryFacts DEF Planned
    <2>2. /\ r = Merged(old, e.in) /\ MergePolicy(old, e.in) = {r} /\ ValidRow(r)
          /\ r.strategy \in FeeStrategies /\ r.mode \in RebalanceModes
      BY <2>1 DEF MergePolicy
    <2>3. e.in.hours \in SUBSET Int
      BY <2>1 DEF SetInput
    <2>4. ~AsksToLift(e) => (\A h \in e.in.hours : h <= 0) /\ \A t \in e.in.tags : "banned" \in t
      BY <1>6, <2>3 DEF AsksToLift
    <2>5. r \in PolicyRow /\ (Standing({old}) /\ ~AsksToLift(e) => Standing({r}))
      BY <2>1, <2>2, <2>4, MergedFacts
    <2> QED
      BY <2>1, <2>2, <2>5
  <1> QED
    BY <1>2, <1>3, <1>4, <1>5, <1>6, EntryFacts

\* What a caller asks for is a request of the model, no longer than one past
\* the bound.
LEMMA RequestFacts ==
    ASSUME family \in Families, NEW rq \in Requests
    PROVE  /\ rq \in Request /\ rq.do # "none"
           /\ BatchBound[family] \in Nat \ {0}
           /\ rq.do = "edit" => Len(rq.entries) = 1
  <1>1. BatchBound[family] \in Nat \ {0}
    BY WriterAssumption
  <1>2. CASE family = "policy"
    <2>1. CASE \E e \in Entry : rq = [do |-> "edit", entries |-> <<e>>]
      BY <1>1, <2>1 DEF Request, SimpleRequest
    <2>2. CASE \E p \in Peer : rq = [do |-> "delete", p |-> p]
      BY <1>1, <2>2 DEF Request, SimpleRequest
    <2>3. CASE \E i \in SetInputs, ps \in UNION {[1 .. n -> Peer] : n \in BatchBound[family] .. BatchBound[family] + 1} :
                 rq = [do |-> "batch", entries |-> [m \in 1 .. Len(ps) |-> [do |-> "set", p |-> ps[m], in |-> i]]]
      <3>1. PICK i \in SetInputs, n \in BatchBound[family] .. BatchBound[family] + 1 :
              \E ps \in [1 .. n -> Peer] :
                 rq = [do |-> "batch", entries |-> [m \in 1 .. Len(ps) |-> [do |-> "set", p |-> ps[m], in |-> i]]]
        BY <2>3
      <3> PICK ps \in [1 .. n -> Peer] :
                 rq = [do |-> "batch", entries |-> [m \in 1 .. Len(ps) |-> [do |-> "set", p |-> ps[m], in |-> i]]]
        BY <3>1
      <3>2. n \in Nat \ {0} /\ ps \in Seq(Peer) /\ Len(ps) = n
        BY <1>1
      <3> DEFINE es == [m \in 1 .. n |-> [do |-> "set", p |-> ps[m], in |-> i]]
      <3>3. \A p \in Peer : [do |-> "set", p |-> p, in |-> i] \in Entry
        BY DEF Entry
      <3>4. es \in [1 .. n -> Entry]
        BY <3>3
      <3> HIDE DEF es
      <3>5. es \in Seq(Entry) /\ es # <<>>
        BY <3>2, <3>4
      <3>6. rq = [do |-> "batch", entries |-> es]
        BY <3>2 DEF es
      <3> QED
        BY <1>1, <3>5, <3>6 DEF Request
    <2> QED
      <3>1. UNION {PolicyEdits(p) : p \in Peer} \subseteq Entry
        BY EditsAreEntries
      <3> QED
        BY <1>2, <2>1, <2>2, <2>3, <3>1 DEF Requests
  <1>3. CASE family = "config"
    BY <1>1, <1>3 DEF Requests, Request, SimpleRequest
  <1>4. CASE family = "hot"
    BY <1>1, <1>4 DEF Requests, Request, SimpleRequest
  <1>5. CASE family = "spend"
    BY <1>1, <1>5 DEF Requests, Request, SimpleRequest
  <1>6. CASE family \notin {"policy", "config", "hot", "spend"}
    BY <1>1, <1>6 DEF Requests, Request, SimpleRequest
  <1> QED
    BY <1>2, <1>3, <1>4, <1>5, <1>6

\* The next config version is past every version in the table.
LEMMA VersionFacts ==
    ASSUME StoreTyped
    PROVE  NextVersion \in Nat \ {0} /\ \A k \in Key : conf[k] < NextVersion
  <1> DEFINE T == {conf[k] : k \in Key}
  <1>1. MaxVersion \in Nat /\ T \in SUBSET (0 .. MaxVersion) /\ T # {}
    BY WriterAssumption DEF StoreTyped
  <1>2. PICK m \in T : \A y \in T : y <= m
    BY <1>1, Maximum
  <1>3. \E n \in 0 .. MaxVersion : (\E k \in Key : conf[k] = n) /\ \A k \in Key : conf[k] <= n
    BY <1>1, <1>2
  <1> DEFINE top == CHOOSE n \in 0 .. MaxVersion : (\E k \in Key : conf[k] = n) /\ \A k \in Key : conf[k] <= n
  <1>4. top \in 0 .. MaxVersion /\ \A k \in Key : conf[k] <= top
    BY <1>3
  <1>5. NextVersion = 1 + top
    BY DEF NextVersion
  <1> HIDE DEF top
  <1> QED
    BY <1>1, <1>4, <1>5 DEF StoreTyped

\* A batch leaves a peer with the row of one of its entries, or as it was.
LEMMA WrittenFacts ==
    ASSUME StoreTyped, NEW rows \in SUBSET GoodRow, NEW p \in Peer
    PROVE  /\ p \notin PeersOf(rows) => Written(rows)[p] = pol[p]
           /\ p \in PeersOf(rows) => \E r \in rows : r.p = p /\ Written(rows)[p] = {r.row}
  <1> DEFINE Mine == {r \in rows : r.p = p}
             Latest(r) == r.p = p /\ \A q \in rows : q.p = p => r.n <= q.n
  <1>1. \A r \in rows : r.n \in Nat
    BY DEF GoodRow, EditRow
  <1>2. ASSUME p \in PeersOf(rows) PROVE \E r \in rows : Latest(r)
    <2>1. {r.n : r \in Mine} \in SUBSET Nat /\ {r.n : r \in Mine} # {}
      BY <1>1, <1>2 DEF PeersOf
    <2>2. PICK m \in {r.n : r \in Mine} : \A k \in {r.n : r \in Mine} : m <= k
      BY <2>1, Minimum
    <2> QED
      BY <2>2
  <1>3. p \in PeersOf(rows) =>
          (CHOOSE r \in rows : Latest(r)) \in rows /\ Latest(CHOOSE r \in rows : Latest(r))
    BY <1>2
  <1>4. Written(rows)[p] = IF p \in PeersOf(rows) THEN {(CHOOSE r \in rows : Latest(r)).row} ELSE pol[p]
    BY DEF Written
  <1> QED
    BY <1>3, <1>4

-----------------------------------------------------------------------------
(* The initial states.                                                      *)

LEMMA DrainedFacts ==
    ASSUME landed = {}, queue = <<>>
    PROVE  \A x : ~Sent(x)
  BY DEF Sent, Queued

LEMMA IdleFacts ==
    /\ Idle \in CallRecord /\ Gone \in CallRecord /\ Gone.at = "answered" /\ Gone.rq.do = "none"
    /\ Idle.at = "idle" /\ Idle.rq.do = "none" /\ Idle.rows = {} /\ Gone.rows = {}
    /\ Done \in CallRecord /\ Done.at = "done" /\ Done.rq.do = "none" /\ Done.rows = {}
  <1>1. Idle.rq \in Request
    BY DEF Idle, Request
  <1>2. <<0, 0>> \in (0 .. MaxCalls) \X Nat
    BY WriterAssumption
  <1>3. <<>> \in Seq(Entry) /\ <<>> \in Seq(Command) /\ "none" \in Acks
        /\ "idle" \in Places /\ "answered" \in Places /\ "done" \in Places
    BY DEF Acks, Places
  <1>4. Idle \in CallRecord
    <2>1. /\ Idle.at \in Places /\ Idle.left \in Seq(Entry) /\ Idle.rows \in SUBSET GoodRow
          /\ Idle.plan \in Seq(Command) /\ Idle.id \in (0 .. MaxCalls) \X Nat
          /\ Idle.ver \in Nat /\ Idle.ack \in Acks /\ Idle.reply \in Acks /\ Idle.seen \in SUBSET Scid
      BY <1>2, <1>3 DEF Idle
    <2>2. Idle = [at |-> Idle.at, rq |-> Idle.rq, left |-> Idle.left, rows |-> Idle.rows,
                  plan |-> Idle.plan, id |-> Idle.id, ver |-> Idle.ver, ack |-> Idle.ack,
                  reply |-> Idle.reply, seen |-> Idle.seen]
      BY DEF Idle
    <2> QED
      BY <1>1, <2>1, <2>2 DEF CallRecord
  <1>5. Gone \in CallRecord /\ Gone.at = "answered" /\ Gone.rq = Idle.rq /\ Gone.rows = Idle.rows
    BY <1>3, <1>4 DEF Gone, CallRecord
  <1>6. Done \in CallRecord /\ Done.at = "done" /\ Done.rq = Idle.rq /\ Done.rows = Idle.rows
    BY <1>3, <1>4 DEF Done, CallRecord
  <1> QED
    BY <1>4, <1>5, <1>6 DEF Idle

LEMMA WriterInit_Inv == WriterInit => WriterInv
  <1> SUFFICES ASSUME WriterInit PROVE WriterInv
    OBVIOUS
  <1>0. \A p \in Peer : pol[p] = {} \/ \E r \in SeedRows : pol[p] = {r}
    BY DEF WriterInit
  <1>1. StoreTyped
    <2>1. pol \in [Peer -> SUBSET PolicyRow] /\ \A p \in Peer : \A r, s \in pol[p] : r = s
      <3>1. pol = [p \in Peer |-> pol[p]]
        BY DEF WriterInit
      <3>2. \A p \in Peer : pol[p] \in SUBSET PolicyRow /\ \A r, s \in pol[p] : r = s
        BY <1>0, WriterAssumption
      <3> QED
        BY <3>1, <3>2
    <2>2. conf \in [Key -> 0 .. MaxVersion]
      BY WriterAssumption DEF WriterInit
    <2>3. chan \in [Scid -> ChanRecord]
      BY DEF WriterInit, ChanRecord
    <2> QED
      BY <2>1, <2>2, <2>3 DEF WriterInit, StoreTyped
  <1>2. CallsTyped
    <2>1. call \in [Caller -> CallRecord]
      BY IdleFacts DEF WriterInit
    <2>2. rate \in [Peer -> Nat] /\ told \in [Rid -> Nat]
      BY WriterAssumption DEF WriterInit
    <2> QED
      BY <2>1, <2>2, WriterAssumption DEF WriterInit, CallsTyped
  <1>3. QueueIsFresh
    BY DEF WriterInit, QueueIsFresh
  <1>4. \A c \in Caller : call[c] = Idle
    BY DEF WriterInit
  <1>5. ASSUME NEW c \in Caller PROVE CallerInv(c, call[c])
    <2>1. \A x : ~Sent(x)
      BY DrainedFacts DEF WriterInit
    <2>2. PlaceOf(c, Idle)
      BY <2>1, IdleFacts DEF PlaceOf
    <2>3. Truthful(Idle) /\ Follows(Idle) /\ KnowsVersion(Idle) /\ Counted(Idle)
      BY IdleFacts DEF Truthful, Follows, KnowsVersion, Counted
    <2> QED
      BY <1>4, <2>2, <2>3 DEF CallerInv
  <1>6. OneWinner
    BY <1>4, IdleFacts DEF OneWinner, Wins, WriterInit
  <1>7. RatesHold
    <2>1. rate \in [Peer -> 0 .. ChangeLimit] /\ ChangeLimit \in Nat
      BY WriterAssumption DEF WriterInit
    <2> QED
      BY <1>4, <2>1, IdleFacts DEF RatesHold, Passed
  <1>8. WakesAreCommitted /\ ArchiveIsWhole /\ VersionsDistinct
    BY DEF WriterInit, WakesAreCommitted, ArchiveIsWhole, VersionsDistinct
  <1>9. PoliciesAreValid
    BY <1>0, WriterAssumption DEF PoliciesAreValid
  <1> QED
    BY <1>1, <1>2, <1>3, <1>5, <1>6, <1>7, <1>8, <1>9 DEF WriterInv

-----------------------------------------------------------------------------
(* Steps of one call that touch nothing else.                               *)

CallOnly(c, next) ==
    Goes(c, next)
      /\ UNCHANGED <<family, dbVars, open, queue, up, landed, woken, told, rate, published>>

\* Finished callers, their number, and the product the limit uses.
LEMMA FinishedFacts ==
    ASSUME WriterInv, NEW F \in SUBSET Caller, Finished \subseteq F
    PROVE  /\ IsFiniteSet(Finished) /\ Cardinality(Finished) \in Nat /\ Cardinality(F) \in Nat
           /\ Cardinality(F) <= MaxCalls
           /\ Cardinality(Finished) * BatchBound[family] \in Nat
           /\ Cardinality(F) * BatchBound[family] \in Nat
           /\ Cardinality(Finished) * BatchBound[family] <= Cardinality(F) * BatchBound[family]
           /\ \A c \in F : c \notin Finished =>
                Cardinality(Finished) * BatchBound[family] + BatchBound[family]
                  <= Cardinality(F) * BatchBound[family]
  <1>1. IsFiniteSet(Caller) /\ Cardinality(Caller) = MaxCalls
    BY FS_Interval, WriterAssumption DEF Caller
  <1>2. Finished \in SUBSET Caller
    BY DEF Finished
  <1>3. IsFiniteSet(Finished) /\ IsFiniteSet(F) /\ Cardinality(F) <= MaxCalls
    BY <1>1, <1>2, FS_Subset
  <1>4. Cardinality(Finished) \in Nat /\ Cardinality(F) \in Nat /\ Cardinality(Finished) <= Cardinality(F)
    BY <1>3, FS_Subset, FS_CardinalityType
  <1>5. BatchBound[family] \in Nat
    BY WriterAssumption DEF WriterInv, CallsTyped
  <1>6. ASSUME NEW c \in F, c \notin Finished
        PROVE  Cardinality(Finished) + 1 <= Cardinality(F)
    <2>1. Finished \union {c} \in SUBSET F
      BY <1>6
    <2>2. Cardinality(Finished \union {c}) = Cardinality(Finished) + 1
      BY <1>3, <1>6, FS_AddElement
    <2> QED
      BY <1>3, <2>1, <2>2, FS_Subset
  <1>7. Cardinality(Finished) * BatchBound[family] \in Nat /\ Cardinality(F) * BatchBound[family] \in Nat
        /\ Cardinality(Finished) * BatchBound[family] <= Cardinality(F) * BatchBound[family]
    BY <1>4, <1>5, TimesMonotone
  <1>8. ASSUME NEW c \in F, c \notin Finished
        PROVE  Cardinality(Finished) * BatchBound[family] + BatchBound[family]
                 <= Cardinality(F) * BatchBound[family]
    <2>1. (Cardinality(Finished) + 1) * BatchBound[family] <= Cardinality(F) * BatchBound[family]
      BY <1>4, <1>5, <1>6, <1>8, TimesMonotone
    <2>2. (Cardinality(Finished) + 1) * BatchBound[family]
            = Cardinality(Finished) * BatchBound[family] + BatchBound[family]
      BY <1>4, <1>5, TimesMonotone
    <2> QED
      BY <2>1, <2>2
  <1> QED
    BY <1>3, <1>4, <1>7, <1>8

\* A step of one call alone keeps the invariant when the call's new record is as
\* it should be, wins nothing new, and passes no limit that was reached.
LEMMA CallOnly_Inv ==
    ASSUME WriterInv, NEW c \in Caller, NEW next \in CallRecord, CallOnly(c, next),
           CallerInv(c, next), Heard(next) => Heard(call[c]) /\ next.rq = call[c].rq,
           call[c].at \in {"done", "answered"} => next.at \in {"done", "answered"},
           \A p \in Peer : Passed(next, p) => Passed(call[c], p) \/ RateLimitAllows(p)
    PROVE  WriterInv'
  <1>1. call \in [Caller -> CallRecord] /\ call' = [call EXCEPT ![c] = next]
        /\ UNCHANGED <<family, dbVars, open, queue, up, landed, woken, told, rate, published>>
    BY DEF WriterInv, CallsTyped, CallOnly, Goes
  <1>2. call' \in [Caller -> CallRecord] /\ \A d \in Caller : call'[d] = IF d = c THEN next ELSE call[d]
    BY <1>1
  <1>3. StoreTyped'
    BY <1>1 DEF WriterInv, StoreTyped, dbVars
  <1>4. CallsTyped'
    BY <1>1, <1>2 DEF WriterInv, CallsTyped
  <1>5. QueueIsFresh'
    BY <1>1 DEF WriterInv, QueueIsFresh
  <1>6. ASSUME NEW d \in Caller PROVE CallerInv(d, call[d])'
    <2>1. CallerInv(d, call'[d])
      BY <1>2 DEF WriterInv
    <2>2. UNCHANGED <<family, queue, landed>>
      BY <1>1
    <2> QED
      BY <2>1, <2>2 DEF CallerInv, PlaceOf, Truthful, Follows, KnowsVersion, Counted, Sent, Queued, Heard
  <1>7. OneWinner'
    <2>1. \A d \in Caller, r \in Rid : Wins(call'[d], r) => Wins(call[d], r)
      BY <1>2 DEF Wins
    <2>2. UNCHANGED <<resv, told>> /\ OneWinner
      BY <1>1 DEF WriterInv, dbVars
    <2> QED
      BY <2>1, <2>2 DEF OneWinner, Wins, Ended, Heard
  <1>8. RatesHold'
    <2>1. Finished \subseteq Finished' /\ Finished' \in SUBSET Caller
      BY <1>2 DEF Finished
    <2>2. /\ Cardinality(Finished) * BatchBound[family] \in Nat
          /\ Cardinality(Finished') * BatchBound[family] \in Nat
          /\ Cardinality(Finished) * BatchBound[family] <= Cardinality(Finished') * BatchBound[family]
      BY <2>1, FinishedFacts
    <2>3. rate \in [Peer -> Nat] /\ ChangeLimit \in Nat
      BY WriterAssumption DEF WriterInv, CallsTyped
    <2> SUFFICES ASSUME NEW p \in Peer
                 PROVE  \/ rate[p] <= ChangeLimit - 1 + Cardinality(Finished') * BatchBound[family]
                        \/ rate[p] <= ChangeLimit /\ \A d \in Caller : ~Passed(call'[d], p)
      BY <1>1 DEF RatesHold, Passed
    <2>4. CASE rate[p] <= ChangeLimit - 1 + Cardinality(Finished) * BatchBound[family]
      BY <2>2, <2>3, <2>4
    <2>5. CASE rate[p] <= ChangeLimit /\ \A d \in Caller : ~Passed(call[d], p)
      <3>1. CASE RateLimitAllows(p)
        BY <2>2, <2>3, <3>1 DEF RateLimitAllows
      <3>2. CASE ~RateLimitAllows(p)
        BY <1>2, <2>5, <3>2
      <3> QED
        BY <3>1, <3>2
    <2> QED
      BY <2>4, <2>5 DEF WriterInv, RatesHold
  <1>9. VersionsDistinct' /\ WakesAreCommitted' /\ PoliciesAreValid' /\ ArchiveIsWhole'
    BY <1>1 DEF WriterInv, VersionsDistinct, WakesAreCommitted, PoliciesAreValid, ArchiveIsWhole, dbVars
  <1> QED
    BY <1>3, <1>4, <1>5, <1>6, <1>7, <1>8, <1>9 DEF WriterInv

\* The record of a caller.
LEMMA CallerFacts ==
    ASSUME WriterInv, NEW c \in Caller
    PROVE  /\ call[c] \in CallRecord /\ CallerInv(c, call[c])
           /\ family \in Families /\ BatchBound[family] \in Nat \ {0}
  BY WriterAssumption DEF WriterInv, CallsTyped

LEMMA Answer_Inv == ASSUME WriterInv, NEW c \in Caller, Answer(c) PROVE WriterInv'
  <1>1. CallOnly(c, Gone) /\ Gone \in CallRecord /\ Gone.at = "answered" /\ Gone.rq.do = "none"
    BY IdleFacts DEF Answer, CallOnly
  <1>2. CallerInv(c, Gone) /\ ~Heard(Gone) /\ \A p \in Peer : ~Passed(Gone, p)
    BY <1>1 DEF CallerInv, PlaceOf, Truthful, Follows, KnowsVersion, Counted, Heard, Passed
  <1> QED
    BY <1>1, <1>2, CallOnly_Inv

LEMMA Begin_Inv ==
    ASSUME WriterInv, NEW c \in Caller, NEW rq \in Requests, Begin(c, rq)
    PROVE  WriterInv'
  <1>1. rq \in Request /\ rq.do # "none" /\ (rq.do = "edit" => Len(rq.entries) = 1)
    BY RequestFacts, CallerFacts
  <1>2. /\ rq.do \in OneCommand \union {"edit", "batch", "hotclear", "cleanup", "purge"}
        /\ rq.do \in OneCommand => rq \in SimpleRequest
        /\ rq.do \in {"edit", "batch"} => rq.entries \in Seq(Entry) /\ rq.entries # <<>>
        /\ rq.do = "purge" => rq.ss \in SUBSET Scid
    BY <1>1, RequestCases
  <1> DEFINE over == rq.do = "batch" /\ Len(rq.entries) > BatchBound[family]
             at == IF over THEN "done"
                   ELSE IF rq.do \in {"edit", "batch", "hotclear", "cleanup"} THEN "read" ELSE "admit"
             seen == IF rq.do = "cleanup" THEN open ELSE {}
             left == IF rq.do \in {"edit", "batch"} THEN rq.entries ELSE <<>>
             next == [Idle EXCEPT !.rq = rq, !.seen = seen, !.at = at, !.left = left, !.plan = Commands(rq)]
  <1>3. CallOnly(c, next)
    BY DEF Begin, CallOnly
  <1>4. /\ next.at = at /\ next.rq = rq /\ next.left = left /\ next.plan = Commands(rq)
        /\ next.ack = "none" /\ next.reply = "none" /\ next.rows = {}
    BY DEF Idle
  <1>5. /\ rq.do = "purge" => Commands(rq) = <<[op |-> "purge", ss |-> rq.ss]>>
        /\ rq.do \in OneCommand => Commands(rq) = <<[op |-> rq.do, rq |-> rq]>>
        /\ rq.do \in {"edit", "batch", "hotclear", "cleanup"} => Commands(rq) = <<>>
    BY <1>2 DEF Commands, OneCommand
  <1>6. Commands(rq) \in Seq(Command)
    <2>1. CASE rq.do = "purge"
      <3>1. [op |-> "purge", ss |-> rq.ss] \in Command
        BY <1>2, <2>1 DEF Command
      <3> QED
        BY <1>5, <2>1, <3>1, ShortSeqs
    <2>2. CASE rq.do \in OneCommand
      <3>1. [op |-> rq.do, rq |-> rq] \in Command
        BY <1>2, <2>2 DEF Command
      <3> QED
        BY <1>5, <2>2, <3>1, ShortSeqs
    <2>3. CASE rq.do \in {"edit", "batch", "hotclear", "cleanup"}
      BY <1>5, <2>3, ShortSeqs
    <2> QED
      BY <1>2, <2>1, <2>2, <2>3
  <1>7. left \in Seq(Entry) /\ seen \in SUBSET Scid /\ at \in Places
    BY <1>2 DEF WriterInv, CallsTyped, Places
  <1>8. next \in CallRecord
    BY <1>1, <1>6, <1>7, IdleFacts DEF CallRecord
  <1>9. call[c].at = "idle" /\ \A n \in Nat : ~Sent(<<c, n>>)
    BY CallerFacts DEF Begin, CallerInv, PlaceOf
  <1> HIDE DEF next
  <1>10. PlaceOf(c, next)
    <2>1. at = "admit" => rq.do \in OneCommand \union {"purge"}
      BY <1>2
    <2>2. at = "admit" => Commands(rq) # <<>>
      BY <1>5, <2>1
    <2>3. at \in {"done", "read", "admit"}
      OBVIOUS
    <2> HIDE DEF at
    <2> QED
      BY <1>4, <1>9, <2>2, <2>3 DEF PlaceOf
  <1>11. Truthful(next) /\ ~Heard(next)
    BY <1>4 DEF Truthful, Heard
  <1>12. Follows(next)
    <2>1. at = "admit" => rq.do \notin {"edit", "batch"}
      OBVIOUS
    <2>2. at \in {"done", "read", "admit"}
      OBVIOUS
    <2>3. at = "read" /\ rq.do \in {"edit", "batch"} => left # <<>>
      BY <1>2
    <2> HIDE DEF at, left
    <2> QED
      BY <1>4, <1>5, <2>1, <2>2, <2>3 DEF Follows
  <1>13. Counted(next)
    <2>1. IsFiniteSet({}) /\ Cardinality({}) = 0
      BY FS_EmptySet
    <2>2. BatchBound[family] \in Nat \ {0}
      BY CallerFacts
    <2>3. rq.do \in {"edit", "batch"} /\ at = "read" => Len(rq.entries) <= BatchBound[family]
      <3>1. CASE rq.do = "edit"
        <4>1. Len(rq.entries) = 1
          BY <1>1, <3>1
        <4>2. 1 <= BatchBound[family]
          BY <2>2
        <4> HIDE DEF at
        <4> QED
          BY <4>1, <4>2
      <3>2. CASE rq.do = "batch"
        <4>1. Len(rq.entries) \in Nat
          BY <1>2, <3>2
        <4>2. ~over => Len(rq.entries) <= BatchBound[family]
          BY <2>2, <3>2, <4>1
        <4> QED
          BY <4>2
      <3> QED
        BY <3>1, <3>2
    <2>4. rq.do \in {"edit", "batch"} => at \in {"read", "done"} /\ left = rq.entries
      OBVIOUS
    <2> HIDE DEF at, left
    <2>5. rq.do \in {"edit", "batch"} => Len(rq.entries) \in Nat
      BY <1>2
    <2> QED
      BY <1>4, <2>1, <2>2, <2>3, <2>4, <2>5 DEF Counted
  <1>14. \A p \in Peer : ~Passed(next, p)
    BY <1>4 DEF Passed, PeersOf
  <1>15. KnowsVersion(next)
    BY <1>11 DEF KnowsVersion
  <1> QED
    BY <1>3, <1>8, <1>9, <1>10, <1>11, <1>12, <1>13, <1>14, <1>15, CallOnly_Inv DEF CallerInv

\* The updates of a call's record.
LEMMA RecordUpdates ==
    ASSUME NEW k \in CallRecord, NEW a \in Places
    PROVE  /\ [k EXCEPT !.at = a] \in CallRecord /\ [k EXCEPT !.at = a].at = a
           /\ \A l \in Seq(Entry), R \in SUBSET GoodRow :
                [k EXCEPT !.left = l, !.rows = R] \in CallRecord
           /\ \A l \in Seq(Entry), R \in SUBSET GoodRow, s \in Seq(Command) :
                [k EXCEPT !.at = a, !.left = l, !.rows = R, !.plan = s] \in CallRecord
           /\ \A s \in Seq(Command) : [k EXCEPT !.plan = s, !.at = a] \in CallRecord
           /\ \A x \in Acks : [k EXCEPT !.at = a, !.ack = x] \in CallRecord
           /\ \A i \in (0 .. MaxCalls) \X Nat : [k EXCEPT !.at = a, !.id = i, !.reply = "none"] \in CallRecord
           /\ \A i \in (0 .. MaxCalls) \X Nat, x \in Acks : [k EXCEPT !.at = a, !.id = i, !.ack = x] \in CallRecord
           /\ \A x \in Acks, v \in Nat : [k EXCEPT !.reply = x, !.ver = v] \in CallRecord
  <1>1. "none" \in Acks
    BY DEF Acks
  <1> QED
    BY <1>1 DEF CallRecord

\* A handler that answers what it has: nothing is claimed of it.
LEMMA DoneFacts ==
    ASSUME NEW c, NEW k, k.at = "done", Counted(k) \/ IsFiniteSet(k.rows)
    PROVE  /\ CallerInv(c, k) /\ ~Heard(k)
           /\ \A p : ~Passed(k, p)
  BY DEF CallerInv, PlaceOf, Truthful, Follows, KnowsVersion, Counted, Heard, Passed

LEMMA Receipt_Inv ==
    ASSUME WriterInv, NEW c \in Caller, Timeout(c) \/ Replied(c)
    PROVE  WriterInv'
  <1> DEFINE k == call[c]
  <1>1. k \in CallRecord /\ CallerInv(c, k) /\ k.at = "wait"
    BY CallerFacts DEF Timeout, Replied
  <1>2. PICK ack \in Acks : /\ CallOnly(c, [k EXCEPT !.at = "ack", !.ack = ack])
                            /\ (k.reply = "none" /\ ack = "outcome_unknown") \/ (k.reply # "none" /\ ack = k.reply)
    BY <1>1 DEF Timeout, Replied, CallOnly, Acks, CallRecord
  <1> DEFINE next == [k EXCEPT !.at = "ack", !.ack = ack]
  <1>3. next \in CallRecord
    BY <1>1, RecordUpdates DEF Places
  <1>4. /\ next.at = "ack" /\ next.ack = ack /\ next.plan = k.plan /\ next.id = k.id
        /\ next.rows = k.rows /\ next.rq = k.rq /\ next.ver = k.ver
    BY <1>1 DEF CallRecord
  <1> HIDE DEF next, k
  <1>5. PlaceOf(c, next)
    BY <1>1, <1>4 DEF CallerInv, PlaceOf
  <1>6. ack = "applied" => k.id \in landed
    BY <1>1, <1>2 DEF CallerInv, Truthful
  <1>7. ack \in Refusals => ~Sent(k.id)
    BY <1>1, <1>2 DEF CallerInv, Truthful, Sent, Refusals
  <1>8. Truthful(next)
    BY <1>4, <1>6, <1>7 DEF Truthful
  <1>9. Heard(next) => Heard(k)
    BY <1>1, <1>2, <1>4 DEF Heard
  <1>10. Follows(next) /\ KnowsVersion(next) /\ Counted(next)
    BY <1>1, <1>4, <1>9 DEF CallerInv, Follows, KnowsVersion, Counted
  <1>11. \A p \in Peer : Passed(next, p) => Passed(k, p)
    BY <1>1, <1>4 DEF Passed
  <1>12. CallOnly(c, next)
    BY <1>2 DEF next
  <1> QED
    BY <1>1, <1>3, <1>4, <1>5, <1>8, <1>9, <1>10, <1>11, <1>12, CallOnly_Inv DEF CallerInv, k

\* The rows read are a set of finitely many; the plan names each.
LEMMA ReadRowsPlan ==
    ASSUME WriterInv, NEW seen
    PROVE  /\ SetToSeq({[op |-> "hotremove", rq |-> [do |-> "hotremove", p |-> p]] : p \in hot}) \in Seq(Command)
           /\ SetToSeq({[op |-> "archive", s |-> s] :
                          s \in {s \in Scid \ seen : "states" \in chan[s].tables}}) \in Seq(Command)
  <1>1. ASSUME NEW S, IsFiniteSet(S), NEW f \in [S -> Command]
        PROVE  SetToSeq({f[x] : x \in S}) \in Seq(Command)
    <2> DEFINE T == {f[x] : x \in S}
    <2>1. f \in Surjection(S, T)
      BY DEF Surjection
    <2>2. IsFiniteSet(T) /\ T \in SUBSET Command
      BY <1>1, <2>1, FS_Surjection
    <2> HIDE DEF T
    <2>3. SetToSeq(T) \in Seq(T)
      BY <2>2, SetAsSeq
    <2>4. SetToSeq(T) \in Seq(Command)
      BY <2>2, <2>3
    <2> QED
      BY <2>4 DEF T
  <1>2. IsFiniteSet(hot) /\ hot \in SUBSET Peer
    BY WriterAssumption, FS_Subset DEF WriterInv, StoreTyped
  <1> DEFINE left == {s \in Scid \ seen : "states" \in chan[s].tables}
             f == [p \in hot |-> [op |-> "hotremove", rq |-> [do |-> "hotremove", p |-> p]]]
             g == [s \in left |-> [op |-> "archive", s |-> s]]
  <1>3. IsFiniteSet(left) /\ left \in SUBSET Scid
    <2>1. left \in SUBSET Scid
      OBVIOUS
    <2> HIDE DEF left
    <2> QED
      BY <2>1, WriterAssumption, FS_Subset
  <1>4. \A p \in hot : f[p] \in Command
    <2>1. ASSUME NEW p \in Peer PROVE [op |-> "hotremove", rq |-> [do |-> "hotremove", p |-> p]] \in Command
      <3> DEFINE rq == [do |-> "hotremove", p |-> p]
      <3>1. rq \in SimpleRequest /\ rq.do = "hotremove"
        BY DEF SimpleRequest
      <3> HIDE DEF rq
      <3>2. [op |-> rq.do, rq |-> rq] \in Command
        BY <3>1 DEF Command
      <3> QED
        BY <3>1, <3>2 DEF rq
    <2> QED
      BY <1>2, <2>1
  <1>5. \A s \in left : g[s] \in Command
    <2>1. ASSUME NEW s \in Scid PROVE [op |-> "archive", s |-> s] \in Command
      BY DEF Command
    <2> QED
      BY <1>3, <2>1
  <1>6. SetToSeq({f[p] : p \in hot}) \in Seq(Command)
    <2>1. f \in [hot -> Command]
      BY <1>4
    <2> HIDE DEF f
    <2> QED
      BY <1>1, <1>2, <2>1
  <1>7. SetToSeq({g[s] : s \in left}) \in Seq(Command)
    <2>1. g \in [left -> Command]
      BY <1>5
    <2> HIDE DEF g, left
    <2> QED
      BY <1>1, <1>3, <2>1
  <1>8. {f[p] : p \in hot} = {[op |-> "hotremove", rq |-> [do |-> "hotremove", p |-> p]] : p \in hot}
    OBVIOUS
  <1>9. {g[s] : s \in left} = {[op |-> "archive", s |-> s] : s \in left}
    OBVIOUS
  <1> HIDE DEF f, g
  <1> QED
    BY <1>6, <1>7, <1>8, <1>9

\* A handler may answer early.
LEMMA GivesUp ==
    ASSUME WriterInv, NEW c \in Caller, call[c].at = "read", CallOnly(c, Done)
    PROVE  WriterInv'
  <1>1. Counted(Done)
    BY IdleFacts DEF Counted
  <1>2. CallerInv(c, Done) /\ ~Heard(Done) /\ \A p : ~Passed(Done, p)
    BY <1>1, IdleFacts, DoneFacts
  <1>3. Done \in CallRecord /\ Done.at = "done"
    BY IdleFacts
  <1> QED
    BY <1>2, <1>3, CallOnly_Inv

LEMMA ReadRows_Inv ==
    ASSUME WriterInv, NEW c \in Caller, NEW ok \in BOOLEAN, ReadRows(c, ok)
    PROVE  WriterInv'
  <1> DEFINE k == call[c]
  <1>1. k \in CallRecord /\ CallerInv(c, k) /\ k.at = "read" /\ k.rq.do \in {"hotclear", "cleanup"}
    BY CallerFacts DEF ReadRows
  <1> DEFINE plan == IF k.rq.do = "hotclear"
                THEN SetToSeq({[op |-> "hotremove", rq |-> [do |-> "hotremove", p |-> p]] : p \in hot})
                ELSE SetToSeq({[op |-> "archive", s |-> s] :
                                 s \in {s \in Scid \ k.seen : "states" \in chan[s].tables}})
             placed == [k EXCEPT !.plan = plan, !.at = "admit"]
  <1>2. plan \in Seq(Command)
    BY ReadRowsPlan
  <1>3. CallOnly(c, IF ok /\ plan # <<>> THEN placed ELSE Done)
    BY DEF ReadRows, CallOnly
  <1> HIDE DEF plan
  <1>4. CASE ok /\ plan # <<>>
    <2>1. placed \in CallRecord
      BY <1>1, <1>2, RecordUpdates DEF Places
    <2>2. placed.at = "admit" /\ placed.plan = plan /\ placed.rq = k.rq /\ placed.rows = k.rows
      BY <1>1 DEF CallRecord
    <2>3. CallOnly(c, placed)
      BY <1>3, <1>4
    <2> HIDE DEF placed, k
    <2>4. PlaceOf(c, placed) /\ Truthful(placed) /\ ~Heard(placed) /\ Counted(placed)
      BY <1>1, <1>4, <2>2 DEF CallerInv, PlaceOf, Truthful, Heard, Counted
    <2>5. Follows(placed) /\ KnowsVersion(placed)
      BY <1>1, <2>2 DEF Follows, KnowsVersion, OneCommand
    <2>6. \A p \in Peer : ~Passed(placed, p)
      BY <1>1, <2>2 DEF Passed
    <2> QED
      BY <1>1, <2>1, <2>3, <2>4, <2>5, <2>6, CallOnly_Inv DEF CallerInv, k
  <1>5. CASE ~ (ok /\ plan # <<>>)
    BY <1>1, <1>3, <1>5, GivesUp DEF k
  <1> QED
    BY <1>4, <1>5

\* One more row of a batch.
LEMMA OneMore ==
    ASSUME NEW R, IsFiniteSet(R), NEW g
    PROVE  /\ IsFiniteSet(R \union {g}) /\ Cardinality(R \union {g}) \in Nat
           /\ Cardinality(R) \in Nat /\ Cardinality(R \union {g}) <= Cardinality(R) + 1
  <1>1. Cardinality(R) \in Nat
    BY FS_CardinalityType
  <1> QED
    BY <1>1, FS_AddElement

LEMMA ReadPolicy_Inv ==
    ASSUME WriterInv, NEW c \in Caller, NEW ok \in BOOLEAN, ReadPolicy(c, ok)
    PROVE  WriterInv'
  <1> DEFINE k == call[c]
             e == Head(k.left)
             old == Existing(e.p)
             new == Planned(e, old)
             fresh == {[p |-> e.p, row |-> r, n |-> Len(k.left), base |-> old, e |-> e] : r \in new}
             rows == k.rows \union fresh
             gives == ~ok \/ new = {} \/ NothingToDo(e, old)
             full == \E p \in PeersOf(rows) : ~RateLimitAllows(p)
             more == Len(k.left) > 1
             rest == Tail(k.left)
             next == IF gives THEN Done
                     ELSE IF more THEN [k EXCEPT !.left = rest, !.rows = rows]
                     ELSE IF full THEN Done
                     ELSE [k EXCEPT !.at = "admit", !.left = <<>>, !.rows = rows,
                                    !.plan = <<[op |-> "write", rows |-> rows]>>]
  <1>1. k \in CallRecord /\ CallerInv(c, k) /\ k.at = "read" /\ k.rq.do \in {"edit", "batch"}
    BY CallerFacts DEF ReadPolicy
  <1>2. CallOnly(c, next)
    BY DEF ReadPolicy, CallOnly
  <1>3. k.left \in Seq(Entry) /\ k.left # <<>> /\ k.rows \in SUBSET GoodRow /\ IsFiniteSet(k.rows)
        /\ Cardinality(k.rows) + Len(k.left) <= BatchBound[family] /\ BatchBound[family] \in Nat
    BY <1>1, CallerFacts DEF CallRecord, CallerInv, Follows, Counted
  <1>4. e \in Entry /\ e.p \in Peer /\ Len(k.left) \in Nat \ {0}
        /\ rest \in Seq(Entry) /\ Len(rest) = Len(k.left) - 1
    BY <1>3, EntryFacts
  <1> HIDE DEF rest
  <1>5. old \in PolicyRow /\ ValidRow(old)
    BY <1>4, ExistingFacts DEF WriterInv
  <1> HIDE DEF old, k
  <1>6. /\ ~ (new = {}) => \E r : new = {r}
        /\ \A r \in new : r \in PolicyRow /\ ValidRow(r)
             /\ (Standing({old}) /\ ~AsksToLift(e) => Standing({r}))
    BY <1>4, <1>5, PlannedFacts
  <1> HIDE DEF new, e
  <1>7. fresh \in SUBSET GoodRow
    <2> SUFFICES ASSUME NEW r \in new
                 PROVE  [p |-> e.p, row |-> r, n |-> Len(k.left), base |-> old, e |-> e] \in GoodRow
      OBVIOUS
    <2> DEFINE g == [p |-> e.p, row |-> r, n |-> Len(k.left), base |-> old, e |-> e]
    <2>1. g \in EditRow
      BY <1>4, <1>5, <1>6 DEF EditRow
    <2>2. g.row = r /\ g.base = old /\ g.e = e
      OBVIOUS
    <2> HIDE DEF g
    <2>3. ValidRow(g.row) /\ KeepsBan(g)
      BY <1>6, <2>2 DEF KeepsBan
    <2> QED
      BY <2>1, <2>3 DEF GoodRow, g
  <1>8. new # {} => \E g : fresh = {g}
    <2> SUFFICES ASSUME new # {} PROVE \E g : fresh = {g}
      OBVIOUS
    <2>1. PICK r : new = {r}
      BY <1>6
    <2>2. fresh = {[p |-> e.p, row |-> r, n |-> Len(k.left), base |-> old, e |-> e]}
      BY <2>1
    <2> QED
      BY <2>2
  <1> HIDE DEF fresh
  <1>9. new # {} => /\ rows \in SUBSET GoodRow /\ IsFiniteSet(rows) /\ rows # {}
                    /\ Cardinality(rows) \in Nat /\ Cardinality(rows) <= Cardinality(k.rows) + 1
    <2> SUFFICES ASSUME new # {} PROVE /\ rows \in SUBSET GoodRow /\ IsFiniteSet(rows) /\ rows # {}
                    /\ Cardinality(rows) \in Nat /\ Cardinality(rows) <= Cardinality(k.rows) + 1
      OBVIOUS
    <2>1. PICK g : fresh = {g}
      BY <1>8
    <2>2. rows = k.rows \union {g}
      BY <2>1
    <2> HIDE DEF rows
    <2>3. IsFiniteSet(rows) /\ Cardinality(rows) \in Nat /\ Cardinality(rows) <= Cardinality(k.rows) + 1
      BY <1>3, <2>2, OneMore
    <2> QED
      BY <1>3, <1>7, <2>1, <2>2, <2>3
  <1> HIDE DEF more
  <1>10. CASE gives \/ (~more /\ full)
    <2>1. next = Done
      BY <1>10
    <2> QED
      BY <1>1, <1>2, <2>1, GivesUp DEF k
  <1>11. CASE ~gives /\ more
    <2>1. next = [k EXCEPT !.left = rest, !.rows = rows] /\ new # {}
      BY <1>11
    <2> HIDE DEF next, rows
    <2>2. /\ next \in CallRecord /\ next.at = "read" /\ next.rows = rows /\ next.left = rest
          /\ next.rq = k.rq
      <3>1. rows \in SUBSET GoodRow
        BY <1>9, <2>1
      <3> QED
        BY <1>1, <1>4, <2>1, <3>1 DEF CallRecord
    <2>3. PlaceOf(c, next) /\ Truthful(next) /\ KnowsVersion(next) /\ ~Heard(next)
      BY <1>1, <2>2 DEF CallerInv, PlaceOf, Truthful, KnowsVersion, Heard
    <2>4. rest # <<>>
      BY <1>4, <1>11, ShortSeqs DEF more
    <2>5. Follows(next)
      BY <2>2, <2>4 DEF Follows
    <2>6. Cardinality(rows) + Len(rest) <= BatchBound[family]
      BY <1>3, <1>4, <1>9, <2>1, FS_CardinalityType
    <2>7. Counted(next)
      BY <1>9, <2>1, <2>2, <2>6 DEF Counted
    <2>8. \A p \in Peer : ~Passed(next, p)
      BY <2>2 DEF Passed
    <2> QED
      BY <1>1, <1>2, <2>2, <2>3, <2>5, <2>7, <2>8, CallOnly_Inv DEF CallerInv, k
  <1>12. CASE ~gives /\ ~more /\ ~full
    <2> DEFINE none == <<>>
               plan == <<[op |-> "write", rows |-> rows]>>
    <2>1. next = [k EXCEPT !.at = "admit", !.left = none, !.rows = rows, !.plan = plan] /\ new # {}
      BY <1>12
    <2>5. \A p \in PeersOf(rows) : RateLimitAllows(p)
      BY <1>12
    <2>6. plan = <<[op |-> "write", rows |-> rows]>>
      OBVIOUS
    <2> HIDE DEF next, rows
    <2>2. [op |-> "write", rows |-> rows] \in Command
      BY <1>9, <2>1 DEF Command
    <2>3. plan \in Seq(Command) /\ plan # <<>> /\ none \in Seq(Entry)
      BY <2>2, ShortSeqs
    <2>4. /\ next \in CallRecord /\ next.at = "admit" /\ next.rows = rows /\ next.plan = plan
          /\ next.rq = k.rq
      <3>1. rows \in SUBSET GoodRow
        BY <1>9, <2>1
      <3> QED
        BY <1>1, <2>1, <2>3, <3>1 DEF CallRecord, Places
    <2> HIDE DEF plan, none
    <2>7. PlaceOf(c, next) /\ Truthful(next) /\ KnowsVersion(next) /\ ~Heard(next)
      BY <1>1, <2>3, <2>4 DEF CallerInv, PlaceOf, Truthful, KnowsVersion, Heard
    <2>8. Follows(next)
      BY <1>1, <2>4, <2>6 DEF Follows, OneCommand
    <2>9. Cardinality(rows) <= BatchBound[family]
      BY <1>3, <1>4, <1>9, <2>1, FS_CardinalityType
    <2>10. Counted(next)
      BY <1>9, <2>1, <2>4, <2>9 DEF Counted
    <2>11. \A p \in Peer : Passed(next, p) => RateLimitAllows(p)
      BY <2>4, <2>5 DEF Passed
    <2> QED
      BY <1>1, <1>2, <2>4, <2>7, <2>8, <2>10, <2>11, CallOnly_Inv DEF CallerInv, k
  <1> QED
    BY <1>10, <1>11, <1>12

-----------------------------------------------------------------------------
(* Steps that touch the queue, the tables or the history.                   *)

\* Nobody wins anew and nothing ends or is told: the winners are as they were.
LEMMA WinnersStay ==
    ASSUME OneWinner, UNCHANGED <<resv, told>>,
           \A d \in Caller, r \in Rid : Wins(call'[d], r) => Wins(call[d], r)
    PROVE  OneWinner'
  BY DEF OneWinner, Wins, Ended, Heard

\* No rate grows, nobody passes a limit anew, and who finished stays finished.
LEMMA RatesStay ==
    ASSUME WriterInv, UNCHANGED family, rate' \in [Peer -> Nat], \A p \in Peer : rate'[p] <= rate[p],
           \A d \in Caller : call[d].at \in {"done", "answered"} => call'[d].at \in {"done", "answered"},
           \A d \in Caller, p \in Peer : Passed(call'[d], p) => Passed(call[d], p)
    PROVE  RatesHold'
  <1>1. Finished \subseteq Finished' /\ Finished' \in SUBSET Caller
    BY DEF Finished
  <1>2. /\ Cardinality(Finished) * BatchBound[family] \in Nat
        /\ Cardinality(Finished') * BatchBound[family] \in Nat
        /\ Cardinality(Finished) * BatchBound[family] <= Cardinality(Finished') * BatchBound[family]
    BY <1>1, FinishedFacts
  <1>3. rate \in [Peer -> Nat] /\ ChangeLimit \in Nat
    BY WriterAssumption DEF WriterInv, CallsTyped
  <1> SUFFICES ASSUME NEW p \in Peer
               PROVE  \/ rate'[p] <= ChangeLimit - 1 + Cardinality(Finished') * BatchBound[family]
                      \/ rate'[p] <= ChangeLimit /\ \A d \in Caller : ~Passed(call'[d], p)
    BY DEF RatesHold, Passed
  <1>4. rate'[p] \in Nat /\ rate[p] \in Nat /\ rate'[p] <= rate[p]
    BY <1>3
  <1>5. CASE rate[p] <= ChangeLimit - 1 + Cardinality(Finished) * BatchBound[family]
    BY <1>2, <1>3, <1>4, <1>5
  <1>6. CASE rate[p] <= ChangeLimit /\ \A d \in Caller : ~Passed(call[d], p)
    BY <1>3, <1>4, <1>6
  <1> QED
    BY <1>5, <1>6 DEF WriterInv, RatesHold

\* What is queued after an append and after the head is taken.
LEMMA AppendFacts ==
    ASSUME queue \in Seq(Item), NEW x \in Item, queue' = Append(queue, x)
    PROVE  /\ queue' \in Seq(Item) /\ Len(queue) \in Nat /\ Len(queue') = Len(queue) + 1
           /\ \A i \in 1 .. Len(queue) : queue'[i] = queue[i]
           /\ queue'[Len(queue) + 1] = x
           /\ \A id : Queued(id)' <=> Queued(id) \/ id = x.id
  <1>1. /\ queue' \in Seq(Item) /\ Len(queue) \in Nat /\ Len(queue') = Len(queue) + 1
        /\ \A i \in 1 .. Len(queue) : queue'[i] = queue[i]
        /\ queue'[Len(queue) + 1] = x
    OBVIOUS
  <1>2. ASSUME NEW id PROVE (\E i \in 1 .. Len(queue') : queue'[i].id = id) <=> Queued(id) \/ id = x.id
    <2>1. \A i \in 1 .. Len(queue') : i \in 1 .. Len(queue) \/ i = Len(queue) + 1
      BY <1>1
    <2>2. \A i \in 1 .. Len(queue) : i \in 1 .. Len(queue')
      BY <1>1
    <2>3. Len(queue) + 1 \in 1 .. Len(queue')
      BY <1>1
    <2>4. (\E i \in 1 .. Len(queue') : queue'[i].id = id) => Queued(id) \/ id = x.id
      BY <1>1, <2>1 DEF Queued
    <2>5. Queued(id) => \E i \in 1 .. Len(queue') : queue'[i].id = id
      BY <1>1, <2>2 DEF Queued
    <2>6. id = x.id => \E i \in 1 .. Len(queue') : queue'[i].id = id
      BY <1>1, <2>3
    <2> QED
      BY <2>4, <2>5, <2>6
  <1> QED
    BY <1>1, <1>2 DEF Queued

LEMMA TailFacts ==
    ASSUME queue \in Seq(Item), queue # <<>>, QueueIsFresh, queue' = Tail(queue)
    PROVE  /\ queue' \in Seq(Item) /\ Len(queue) \in Nat /\ Len(queue') = Len(queue) - 1
           /\ \A i \in 1 .. Len(queue') : queue'[i] = queue[i + 1] /\ i + 1 \in 1 .. Len(queue)
           /\ Head(queue) \in Item /\ Queued(Head(queue).id)
           /\ \A i \in 1 .. Len(queue') : queue'[i].id # Head(queue).id
           /\ \A id : Queued(id)' <=> Queued(id) /\ id # Head(queue).id
  <1>1. /\ queue' \in Seq(Item) /\ Len(queue) \in Nat /\ Len(queue') = Len(queue) - 1 /\ Len(queue) > 0
        /\ \A i \in 1 .. Len(queue') : queue'[i] = queue[i + 1] /\ i + 1 \in 1 .. Len(queue)
        /\ Head(queue) \in Item /\ Head(queue) = queue[1]
    OBVIOUS
  <1>2. 1 \in 1 .. Len(queue)
    BY <1>1
  <1>3. Queued(Head(queue).id)
    BY <1>1, <1>2 DEF Queued
  <1>4. \A i \in 1 .. Len(queue') : queue'[i].id # Head(queue).id
    BY <1>1, <1>2 DEF QueueIsFresh
  <1>5. ASSUME NEW id
        PROVE  (\E i \in 1 .. Len(queue') : queue'[i].id = id) <=> Queued(id) /\ id # Head(queue).id
    <2>1. (\E i \in 1 .. Len(queue') : queue'[i].id = id) => Queued(id) /\ id # Head(queue).id
      BY <1>1, <1>4 DEF Queued
    <2>2. ASSUME Queued(id), id # Head(queue).id PROVE \E i \in 1 .. Len(queue') : queue'[i].id = id
      <3>1. PICK j \in 1 .. Len(queue) : queue[j].id = id
        BY <2>2 DEF Queued
      <3>2. j # 1
        BY <1>1, <2>2, <3>1
      <3>3. j - 1 \in 1 .. Len(queue') /\ (j - 1) + 1 = j
        BY <1>1, <3>1, <3>2
      <3>4. queue'[j - 1] = queue[j]
        BY <1>1, <3>3
      <3> QED
        BY <3>1, <3>3, <3>4
    <2> QED
      BY <2>1, <2>2
  <1> QED
    BY <1>1, <1>3, <1>4, <1>5 DEF Queued

LEMMA Admit_Inv ==
    ASSUME WriterInv, NEW c \in Caller, Admit(c)
    PROVE  WriterInv'
  <1> DEFINE k == call[c]
             id == <<c, Len(k.plan)>>
  <1>1. k \in CallRecord /\ CallerInv(c, k) /\ k.at = "admit"
    BY CallerFacts DEF Admit
  <1>2. /\ k.plan \in Seq(Command) /\ k.plan # <<>> /\ Head(k.plan) \in Command /\ Len(k.plan) \in Nat
        /\ \A n \in Nat : Sent(<<c, n>>) => n > Len(k.plan)
    BY <1>1 DEF CallRecord, CallerInv, PlaceOf
  <1>3. id \in Caller \X Nat /\ id \in (0 .. MaxCalls) \X Nat /\ ~Sent(id)
    <2>1. ~ (Len(k.plan) > Len(k.plan)) /\ c \in 0 .. MaxCalls
      BY <1>2 DEF Caller
    <2> HIDE DEF k
    <2>2. ~Sent(id)
      BY <1>2, <2>1
    <2> QED
      BY <1>2, <2>1, <2>2
  <1>4. CASE ~ (up /\ Len(queue) < QueueCap)
    <2> DEFINE next == [k EXCEPT !.at = "ack", !.id = id, !.ack = "not_admitted"]
    <2>1. CallOnly(c, next)
      BY <1>4 DEF Admit, CallOnly
    <2> HIDE DEF k
    <2>2. /\ next \in CallRecord /\ next.at = "ack" /\ next.id = id /\ next.ack = "not_admitted"
          /\ next.plan = k.plan /\ next.rq = k.rq /\ next.rows = k.rows
      BY <1>1, <1>3 DEF CallRecord, Places, Acks
    <2>3. id = <<c, Len(k.plan)>>
      OBVIOUS
    <2> HIDE DEF next, id
    <2>4. PlaceOf(c, next)
      BY <1>2, <2>2, <2>3 DEF PlaceOf
    <2>5. Truthful(next) /\ ~Heard(next) /\ KnowsVersion(next)
      BY <1>3, <2>2 DEF Truthful, Heard, KnowsVersion
    <2>6. Follows(next) /\ Counted(next)
      BY <1>1, <2>2 DEF CallerInv, Follows, Counted
    <2>7. \A p \in Peer : Passed(next, p) => Passed(k, p)
      BY <1>1, <2>2 DEF Passed
    <2> QED
      BY <1>1, <2>1, <2>2, <2>4, <2>5, <2>6, <2>7, CallOnly_Inv DEF CallerInv, k
  <1>5. CASE up /\ Len(queue) < QueueCap
    <2> DEFINE next == [k EXCEPT !.at = "wait", !.id = id, !.reply = "none"]
               x == [c |-> c, id |-> id, cmd |-> Head(k.plan)]
    <2>1. /\ call' = [call EXCEPT ![c] = next] /\ queue' = Append(queue, x)
          /\ UNCHANGED <<family, dbVars, open, up, landed, woken, told, rate, published>>
      BY <1>5 DEF Admit, Goes
    <2>2. x \in Item /\ x.id = id /\ x.c = c /\ x.cmd = Head(k.plan)
      BY <1>2, <1>3 DEF Item
    <2> HIDE DEF k
    <2>3. /\ next \in CallRecord /\ next.at = "wait" /\ next.id = id /\ next.reply = "none"
          /\ next.plan = k.plan /\ next.rq = k.rq /\ next.rows = k.rows
      BY <1>1, <1>3 DEF CallRecord, Places, Acks
    <2>4. id = <<c, Len(k.plan)>> /\ id[1] = c
      OBVIOUS
    <2> HIDE DEF next, id, x
    <2>5. call \in [Caller -> CallRecord] /\ call' \in [Caller -> CallRecord]
          /\ call'[c] = next /\ \A d \in Caller : d # c => call'[d] = call[d]
      BY <2>1, <2>3 DEF WriterInv, CallsTyped
    <2>6. queue \in Seq(Item) /\ Len(queue) <= QueueCap /\ QueueCap \in Nat
      BY WriterAssumption DEF WriterInv, CallsTyped
    <2>7. /\ queue' \in Seq(Item) /\ Len(queue) \in Nat /\ Len(queue') = Len(queue) + 1
          /\ \A i \in 1 .. Len(queue) : queue'[i] = queue[i]
          /\ queue'[Len(queue) + 1] = x
          /\ \A y : Queued(y)' <=> Queued(y) \/ y = id
      BY <2>1, <2>2, <2>6, AppendFacts
    <2>8. \A i \in 1 .. Len(queue') : i \in 1 .. Len(queue) \/ i = Len(queue) + 1
      BY <2>7
    <2>9. CallsTyped'
      BY <1>5, <2>1, <2>5, <2>6, <2>7 DEF WriterInv, CallsTyped
    <2>10. \A y : Sent(y)' <=> Sent(y) \/ y = id
      BY <2>1, <2>7 DEF Sent
    <2>11. ~Queued(id) /\ id \notin landed
      BY <1>3 DEF Sent
    <2>12. QueueIsFresh'
      <3>1. \A i \in 1 .. Len(queue) : queue[i].id # id
        BY <2>11 DEF Queued
      <3> QED
        <4>1. ASSUME NEW i \in 1 .. Len(queue')
              PROVE  queue'[i].id[1] = queue'[i].c /\ queue'[i].id \notin landed'
          <5>1. CASE i \in 1 .. Len(queue)
            BY <2>1, <2>7, <5>1 DEF WriterInv, QueueIsFresh
          <5>2. CASE i = Len(queue) + 1
            BY <2>1, <2>2, <2>4, <2>7, <2>11, <5>2
          <5> QED
            BY <2>8, <5>1, <5>2
        <4>2. ASSUME NEW i \in 1 .. Len(queue'), NEW j \in 1 .. Len(queue'), queue'[i].id = queue'[j].id
              PROVE  i = j
          <5>1. CASE i \in 1 .. Len(queue) /\ j \in 1 .. Len(queue)
            BY <2>7, <4>2, <5>1 DEF WriterInv, QueueIsFresh
          <5>2. CASE i = Len(queue) + 1 /\ j \in 1 .. Len(queue)
            BY <2>2, <2>7, <3>1, <4>2, <5>2
          <5>3. CASE i \in 1 .. Len(queue) /\ j = Len(queue) + 1
            BY <2>2, <2>7, <3>1, <4>2, <5>3
          <5> QED
            BY <2>8, <5>1, <5>2, <5>3
        <4> QED
          BY <4>1, <4>2 DEF QueueIsFresh
    <2>13. ASSUME NEW d \in Caller PROVE CallerInv(d, call[d])'
      <3>1. CASE d = c
        <4>1. call'[d] = next
          BY <2>5, <3>1
        <4>2. PlaceOf(d, call[d])'
          <5>1. \A n \in Nat : Sent(<<c, n>>)' => n >= Len(k.plan)
            <6>1. \A n \in Nat : <<c, n>> = id => n = Len(k.plan)
              BY <2>4
            <6> QED
              BY <1>2, <2>10, <6>1
          <5> QED
            BY <1>2, <2>3, <2>4, <3>1, <4>1, <5>1 DEF PlaceOf
        <4>3. \A i \in 1 .. Len(queue') : queue'[i].id = id => queue'[i].cmd = Head(k.plan)
          <5>1. \A i \in 1 .. Len(queue) : queue[i].id # id
            BY <2>11 DEF Queued
          <5> QED
            BY <2>2, <2>7, <2>8, <5>1
        <4>4. Truthful(call[d])'
          BY <2>1, <2>3, <2>11, <4>1, <4>3 DEF Truthful, Refusals
        <4>5. Follows(next) /\ KnowsVersion(next) /\ Counted(next)
          BY <1>1, <2>3 DEF CallerInv, Follows, KnowsVersion, Counted, Heard
        <4>6. (Follows(call[d]) /\ KnowsVersion(call[d]) /\ Counted(call[d]))'
          BY <2>1, <4>1, <4>5 DEF Follows, KnowsVersion, Counted, Heard
        <4> QED
          BY <4>2, <4>4, <4>6 DEF CallerInv
      <3>2. CASE d # c
        <4> PICK kd \in CallRecord : call[d] = kd /\ call'[d] = kd /\ CallerInv(d, kd)
          BY <2>5, <3>2, CallerFacts
        <4>1. \A n : <<d, n>> # id
          BY <2>4, <3>2
        <4>2. \A n \in Nat : Sent(<<d, n>>)' <=> Sent(<<d, n>>)
          BY <2>10, <4>1
        <4>3. PlaceOf(d, kd)'
          BY <4>2 DEF CallerInv, PlaceOf
        <4>4. kd.at \in {"wait", "ack"} => kd.id # id
          BY <4>1 DEF CallerInv, PlaceOf
        <4>5. kd.at \in {"wait", "ack"} =>
                (Queued(kd.id)' <=> Queued(kd.id)) /\ (Sent(kd.id)' <=> Sent(kd.id))
          BY <2>7, <2>10, <4>4
        <4>6. kd.at = "wait" =>
                \A i \in 1 .. Len(queue') : queue'[i].id = kd.id => queue'[i].cmd = Head(kd.plan)
          BY <2>2, <2>7, <2>8, <4>4 DEF CallerInv, Truthful
        <4>7. Truthful(kd)'
          BY <2>1, <4>5, <4>6 DEF CallerInv, Truthful
        <4>8. (Follows(kd) /\ KnowsVersion(kd) /\ Counted(kd))'
          BY <2>1 DEF CallerInv, Follows, KnowsVersion, Counted, Heard
        <4>9. CallerInv(d, kd)'
          BY <4>3, <4>7, <4>8 DEF CallerInv
        <4> QED
          BY <4>9 DEF CallerInv, PlaceOf, Truthful, Follows, KnowsVersion, Counted, Heard, Sent, Queued
      <3> QED
        BY <3>1, <3>2
    <2>14. StoreTyped' /\ VersionsDistinct' /\ WakesAreCommitted' /\ PoliciesAreValid' /\ ArchiveIsWhole'
      BY <2>1 DEF WriterInv, StoreTyped, VersionsDistinct, WakesAreCommitted, PoliciesAreValid, ArchiveIsWhole, dbVars
    <2>15. OneWinner'
      <3>1. \A d \in Caller, r \in Rid : Wins(call'[d], r) => Wins(call[d], r)
        BY <2>3, <2>5 DEF Wins, Heard
      <3> QED
        BY <2>1, <3>1, WinnersStay DEF WriterInv, dbVars
    <2>16. RatesHold'
      <3>1. k.at = "admit" /\ k = call[c]
        BY <1>1 DEF k
      <3>2. \A d \in Caller, p \in Peer : Passed(call'[d], p) => Passed(call[d], p)
        BY <2>3, <2>5, <3>1 DEF Passed
      <3>3. \A d \in Caller : call[d].at \in {"done", "answered"} => call'[d].at \in {"done", "answered"}
        BY <2>5, <3>1
      <3>4. rate' = rate /\ rate \in [Peer -> Nat] /\ family' = family
        BY <2>1 DEF WriterInv, CallsTyped
      <3>5. rate' \in [Peer -> Nat] /\ \A p \in Peer : rate'[p] <= rate[p]
        BY <3>4
      <3> QED
        BY <3>2, <3>3, <3>4, <3>5, RatesStay
    <2> QED
      BY <2>9, <2>12, <2>13, <2>14, <2>15, <2>16 DEF WriterInv
  <1> QED
    BY <1>4, <1>5

-----------------------------------------------------------------------------
(* The actor's commands.                                                    *)

\* What a command leaves of the policies.
LEMMA PolicyEffect ==
    ASSUME StoreTyped, PoliciesAreValid, NEW cmd \in Command, Effect(cmd)
    PROVE  /\ pol' \in [Peer -> SUBSET PolicyRow] /\ \A p \in Peer : \A r, s \in pol'[p] : r = s
           /\ PoliciesAreValid'
  <1>1. /\ pol \in [Peer -> SUBSET PolicyRow] /\ \A p \in Peer : \A r, s \in pol[p] : r = s
        /\ \A p \in Peer : \A r \in pol[p] : ValidRow(r)
    BY DEF StoreTyped, PoliciesAreValid
  <1>2. CASE cmd.op = "write"
    <2>1. pol' = Written(cmd.rows) /\ cmd.rows \in SUBSET GoodRow
      BY <1>2, CommandCases DEF Effect
    <2>2. ASSUME NEW p \in Peer
          PROVE  /\ pol'[p] \in SUBSET PolicyRow /\ \A r, s \in pol'[p] : r = s
                 /\ \A r \in pol'[p] : ValidRow(r)
      <3>1. CASE p \notin PeersOf(cmd.rows)
        BY <1>1, <2>1, <3>1, WrittenFacts
      <3>2. CASE p \in PeersOf(cmd.rows)
        <4>1. PICK r \in cmd.rows : pol'[p] = {r.row}
          BY <2>1, <3>2, WrittenFacts
        <4>2. r.row \in PolicyRow /\ ValidRow(r.row)
          BY <2>1 DEF GoodRow, EditRow
        <4> QED
          BY <4>1, <4>2
      <3> QED
        BY <3>1, <3>2
    <2>3. pol' = [p \in Peer |-> pol'[p]]
      BY <2>1 DEF Written
    <2> QED
      BY <2>2, <2>3 DEF PoliciesAreValid
  <1>3. CASE cmd.op = "delete"
    <2>1. pol' = [pol EXCEPT ![cmd.rq.p] = {}] /\ cmd.rq.p \in Peer
      BY <1>3, CommandCases DEF Effect
    <2>2. \A p \in Peer : pol'[p] = {} \/ pol'[p] = pol[p]
      BY <1>1, <2>1
    <2>3. pol' \in [Peer -> SUBSET PolicyRow]
      BY <1>1, <2>1
    <2> QED
      BY <1>1, <2>2, <2>3 DEF PoliciesAreValid
  <1>4. CASE cmd.op \notin {"write", "delete"}
    <2>1. pol' = pol
      BY <1>4, CommandCases DEF Effect, OneCommand
    <2> QED
      BY <1>1, <2>1 DEF PoliciesAreValid
  <1> QED
    BY <1>2, <1>3, <1>4

\* What a command leaves of the config overrides.
LEMMA ConfigEffect ==
    ASSUME StoreTyped, VersionsDistinct, NEW cmd \in Command, Effect(cmd),
           cmd.op = "setconf" => NextVersion <= MaxVersion
    PROVE  conf' \in [Key -> 0 .. MaxVersion] /\ VersionsDistinct'
  <1>1. conf \in [Key -> 0 .. MaxVersion] /\ MaxVersion \in Nat
    BY WriterAssumption DEF StoreTyped
  <1>2. CASE cmd.op = "setconf"
    <2>1. cmd.rq.k \in Key /\ conf' = [conf EXCEPT ![cmd.rq.k] = NextVersion]
      BY <1>2, CommandCases DEF Effect, VersionFor
    <2>2. NextVersion \in 1 .. MaxVersion /\ \A k \in Key : conf[k] < NextVersion
      BY <1>1, <1>2, VersionFacts
    <2> QED
      BY <1>1, <2>1, <2>2 DEF VersionsDistinct
  <1>3. CASE cmd.op = "delconf"
    <2>1. cmd.rq.k \in Key /\ conf' = [conf EXCEPT ![cmd.rq.k] = 0]
      BY <1>3, CommandCases DEF Effect
    <2> QED
      BY <1>1, <2>1 DEF VersionsDistinct
  <1>4. CASE cmd.op \notin {"setconf", "delconf"}
    <2>1. conf' = conf
      BY <1>4, CommandCases DEF Effect, OneCommand
    <2> QED
      BY <1>1, <2>1 DEF VersionsDistinct
  <1> QED
    BY <1>2, <1>3, <1>4

\* What a command leaves of the reservations: one that ended stays as it ended.
LEMMA ReservationEffect ==
    ASSUME StoreTyped, NEW cmd \in Command, Effect(cmd)
    PROVE  /\ resv' \in [Rid -> {"none", "active", "released", "spent"}]
           /\ \A r \in Rid : Ended(r) => resv'[r] = resv[r]
           /\ cmd.op \in {"release", "settle"} /\ ReplyTo(cmd) = "applied" =>
                ~Ended(cmd.rq.r) /\ resv'[cmd.rq.r] \in {"released", "spent"}
  <1>1. resv \in [Rid -> {"none", "active", "released", "spent"}]
    BY DEF StoreTyped
  <1>2. CASE cmd.op \in {"release", "settle"}
    <2>1. /\ cmd.rq.r \in Rid
          /\ resv' = IF resv[cmd.rq.r] = "active"
                       THEN [resv EXCEPT ![cmd.rq.r] = IF cmd.op = "settle" THEN "spent" ELSE "released"]
                       ELSE resv
      BY <1>2, CommandCases DEF Effect, Transition
    <2>2. ReplyTo(cmd) = "applied" => resv[cmd.rq.r] = "active"
      BY <1>2 DEF ReplyTo
    <2> QED
      BY <1>1, <2>1, <2>2 DEF Ended
  <1>3. CASE cmd.op = "clear"
    <2>1. resv' = [r \in Rid |-> IF r \in Legacy /\ resv[r] = "active" THEN "released" ELSE resv[r]]
      BY <1>3 DEF Effect
    <2> QED
      BY <1>1, <1>3, <2>1 DEF Ended
  <1>4. CASE cmd.op \notin {"release", "settle", "clear"}
    <2>1. resv' = resv
      BY <1>4, CommandCases DEF Effect, OneCommand
    <2> QED
      BY <1>1, <1>4, <2>1
  <1> QED
    BY <1>2, <1>3, <1>4

\* What a command leaves of the channels and the hot list.
LEMMA ChannelEffect ==
    ASSUME StoreTyped, ArchiveIsWhole, NEW cmd \in Command, Effect(cmd)
    PROVE  chan' \in [Scid -> ChanRecord] /\ hot' \in SUBSET Peer /\ ArchiveIsWhole'
  <1>1. chan \in [Scid -> [tables : SUBSET Tables, closed : SUBSET {"row"}]] /\ hot \in SUBSET Peer
        /\ \A s \in Scid : chan[s].closed # {} => chan[s].tables = {}
    BY DEF StoreTyped, ChanRecord, ArchiveIsWhole
  <1>2. hot' \in SUBSET Peer
    BY <1>1, CommandCases DEF Effect, OneCommand
  <1>3. ASSUME NEW S
        PROVE  /\ Purged(S) \in [Scid -> ChanRecord]
               /\ \A s \in Scid : Purged(S)[s].closed # {} => Purged(S)[s].tables = {}
               /\ \A s \in S \cap Scid : Purged(S)[s].tables = {}
    BY <1>1 DEF Purged, ChanRecord
  <1>4. CASE cmd.op = "purge"
    <2>1. chan' = Purged(cmd.ss)
      BY <1>4 DEF Effect
    <2> QED
      BY <1>2, <1>3, <2>1 DEF ArchiveIsWhole
  <1>5. CASE cmd.op = "archive"
    <2>1. chan' = [Purged({cmd.s}) EXCEPT ![cmd.s].closed = {"row"}] /\ cmd.s \in Scid
      BY <1>5, CommandCases DEF Effect, Archived
    <2>2. Purged({cmd.s}) \in [Scid -> [tables : SUBSET Tables, closed : SUBSET {"row"}]]
      BY <1>3 DEF ChanRecord
    <2>3. chan' \in [Scid -> ChanRecord]
      BY <2>1, <2>2 DEF ChanRecord
    <2>4. ASSUME NEW s \in Scid, chan'[s].closed # {} PROVE chan'[s].tables = {}
      BY <1>3, <2>1, <2>2, <2>4
    <2> QED
      BY <1>2, <2>3, <2>4 DEF ArchiveIsWhole
  <1>6. CASE cmd.op \notin {"purge", "archive"}
    <2>1. chan' = chan
      BY <1>6, CommandCases DEF Effect, OneCommand
    <2> QED
      BY <1>1, <1>2, <2>1 DEF ArchiveIsWhole, ChanRecord
  <1> QED
    BY <1>4, <1>5, <1>6

LEMMA ReplyFacts ==
    ASSUME NEW cmd
    PROVE  ReplyTo(cmd) \in {"applied", "unchanged", "denied", "already_terminal"}
  BY DEF ReplyTo

LEMMA Execute_Inv ==
    ASSUME WriterInv, NEW ok \in BOOLEAN, Execute(ok)
    PROVE  WriterInv'
  <1> PICK h : h = Head(queue)
    OBVIOUS
  <1> DEFINE fits == ok /\ ~OverBound(h.cmd)
             reply == IF ~ok THEN "storage_failure" ELSE IF OverBound(h.cmd) THEN "denied" ELSE ReplyTo(h.cmd)
             heeded == call[h.c].at = "wait" /\ call[h.c].id = h.id
             next == [call[h.c] EXCEPT !.reply = reply, !.ver = NextVersion]
  <1>1. /\ queue # <<>> /\ (h.cmd.op = "setconf" => NextVersion <= MaxVersion)
        /\ queue' = Tail(queue)
        /\ IF fits THEN Effect(h.cmd) ELSE UNCHANGED dbVars
        /\ landed' = IF fits /\ reply = "applied" THEN landed \union {h.id} ELSE landed
        /\ call' = IF heeded THEN [call EXCEPT ![h.c] = next] ELSE call
        /\ UNCHANGED <<family, open, up, woken, told, rate, published>>
    BY DEF Execute, Goes
  <1>2. queue \in Seq(Item) /\ QueueIsFresh /\ Len(queue) <= QueueCap /\ QueueCap \in Nat
    BY WriterAssumption DEF WriterInv, CallsTyped
  <1>3. /\ queue' \in Seq(Item) /\ Len(queue) \in Nat /\ Len(queue') = Len(queue) - 1
        /\ \A i \in 1 .. Len(queue') : queue'[i] = queue[i + 1] /\ i + 1 \in 1 .. Len(queue)
        /\ h \in Item /\ Queued(h.id)
        /\ \A i \in 1 .. Len(queue') : queue'[i].id # h.id
        /\ \A y : Queued(y)' <=> Queued(y) /\ y # h.id
    BY <1>1, <1>2, TailFacts
  <1>4. /\ h.c \in Caller /\ h.id \in Caller \X Nat /\ h.cmd \in Command /\ h.id[1] = h.c
        /\ h.id \notin landed
    BY <1>2, <1>3 DEF QueueIsFresh, Queued, Item
  <1>5. reply \in Acks \ {"none", "outcome_unknown", "not_admitted"}
        /\ (reply # "applied" => reply \in Refusals)
        /\ (reply = "applied" => fits /\ ReplyTo(h.cmd) = "applied")
    BY ReplyFacts DEF Acks, Refusals
  <1> HIDE DEF fits, reply
  <1>6. StoreTyped' /\ PoliciesAreValid' /\ ArchiveIsWhole' /\ VersionsDistinct'
        /\ \A r \in Rid : Ended(r) => resv'[r] = resv[r]
    <2>1. CASE fits
      BY <1>1, <1>4, <2>1, PolicyEffect, ConfigEffect, ReservationEffect, ChannelEffect DEF WriterInv, StoreTyped
    <2>2. CASE ~fits
      BY <1>1, <2>2 DEF WriterInv, StoreTyped, PoliciesAreValid, ArchiveIsWhole, VersionsDistinct, dbVars
    <2> QED
      BY <2>1, <2>2
  <1>7. call[h.c] \in CallRecord /\ CallerInv(h.c, call[h.c]) /\ call \in [Caller -> CallRecord]
    BY <1>4, CallerFacts DEF WriterInv, CallsTyped
  <1>8. NextVersion \in Nat
    BY VersionFacts DEF WriterInv
  <1>9. next \in CallRecord /\ next.at = call[h.c].at /\ next.reply = reply /\ next.ver = NextVersion
        /\ next.id = call[h.c].id /\ next.plan = call[h.c].plan /\ next.rq = call[h.c].rq
        /\ next.rows = call[h.c].rows /\ next.left = call[h.c].left /\ next.ack = call[h.c].ack
    BY <1>5, <1>7, <1>8 DEF CallRecord
  <1> HIDE DEF next
  <1>10. call' \in [Caller -> CallRecord] /\ \A d \in Caller : call'[d] = IF heeded /\ d = h.c THEN next ELSE call[d]
    BY <1>1, <1>4, <1>7, <1>9
  <1>11. CallsTyped'
    <2>1. landed' \in SUBSET (Caller \X Nat)
      BY <1>1, <1>4 DEF WriterInv, CallsTyped
    <2> HIDE DEF heeded
    <2> QED
      BY <1>1, <1>2, <1>3, <1>10, <2>1 DEF WriterInv, CallsTyped
  <1>12. landed \subseteq landed' /\ landed' \subseteq landed \union {h.id}
         /\ (h.id \in landed' <=> reply = "applied")
    BY <1>1, <1>4, <1>5
  <1>13. QueueIsFresh'
    <2>1. ASSUME NEW i \in 1 .. Len(queue')
          PROVE  queue'[i].id[1] = queue'[i].c /\ queue'[i].id \notin landed'
      BY <1>2, <1>3, <1>12 DEF QueueIsFresh
    <2>2. ASSUME NEW i \in 1 .. Len(queue'), NEW j \in 1 .. Len(queue'), queue'[i].id = queue'[j].id
          PROVE  i = j
      <3>1. i + 1 = j + 1
        BY <1>2, <1>3, <2>2 DEF QueueIsFresh
      <3> QED
        BY <1>3, <3>1
    <2> QED
      BY <2>1, <2>2 DEF QueueIsFresh
  <1>14. \A y : Sent(y)' => Sent(y)
    BY <1>3, <1>12 DEF Sent
  <1>15. heeded => /\ call[h.c].reply = "none" /\ h.cmd = Head(call[h.c].plan)
                   /\ call[h.c].rq.do \in OneCommand => h.cmd = [op |-> call[h.c].rq.do, rq |-> call[h.c].rq]
    <2> SUFFICES ASSUME heeded
                 PROVE  /\ call[h.c].reply = "none" /\ h.cmd = Head(call[h.c].plan)
                        /\ call[h.c].rq.do \in OneCommand =>
                             h.cmd = [op |-> call[h.c].rq.do, rq |-> call[h.c].rq]
      OBVIOUS
    <2>1. PICK i \in 1 .. Len(queue) : queue[i].id = h.id /\ queue[i] = h
      BY <1>1, <1>2
    <2>2. call[h.c].reply = "none" /\ h.cmd = Head(call[h.c].plan)
      BY <1>3, <1>7, <2>1 DEF CallerInv, Truthful
    <2>3. call[h.c].rq.do \in OneCommand => call[h.c].plan = <<[op |-> call[h.c].rq.do, rq |-> call[h.c].rq]>>
      BY <1>7 DEF CallerInv, Follows
    <2>4. call[h.c].rq.do \in OneCommand => Head(call[h.c].plan) = [op |-> call[h.c].rq.do, rq |-> call[h.c].rq]
      BY <2>3
    <2> QED
      BY <2>2, <2>4
  <1>16. ASSUME NEW d \in Caller PROVE CallerInv(d, call[d])'
    <2>1. CASE heeded /\ d = h.c
      <3> PICK kd \in CallRecord : call'[d] = kd /\ kd = next
        BY <1>9, <1>10, <2>1
      <3> PICK k \in CallRecord : call[h.c] = k
        BY <1>7
      <3>1. PlaceOf(d, k) /\ Truthful(k) /\ Follows(k) /\ Counted(k) /\ k.at = "wait" /\ k.id = h.id
        BY <1>7, <2>1 DEF CallerInv
      <3>2. kd.at = "wait" /\ kd.id = h.id /\ kd.plan = k.plan /\ kd.rq = k.rq /\ kd.rows = k.rows
            /\ kd.reply = reply /\ kd.ver = NextVersion
        BY <1>9, <3>1
      <3>3. PlaceOf(d, kd)'
        BY <1>14, <3>1, <3>2 DEF PlaceOf
      <3>4. Truthful(kd)'
        <4>1. ~Queued(h.id)' /\ (reply = "applied" => h.id \in landed')
              /\ (reply \in Refusals => h.id \notin landed') /\ reply # "none"
          <5>1. "applied" \notin Refusals
            BY DEF Refusals
          <5>2. ~Queued(h.id)'
            BY <1>3
          <5> QED
            BY <1>5, <1>12, <5>1, <5>2
        <4> QED
          BY <1>3, <3>2, <4>1 DEF Truthful
      <3>5. Follows(kd)' /\ Counted(kd)'
        BY <1>1, <3>1, <3>2 DEF Follows, Counted
      <3>6. KnowsVersion(kd)'
        <4>1. kd.rq.do = "setconf" => h.cmd.op = "setconf"
          BY <1>15, <2>1, <3>2 DEF OneCommand
        <4> QED
          BY <1>1, <3>2, <4>1 DEF KnowsVersion
      <3>7. CallerInv(d, kd)'
        BY <3>3, <3>4, <3>5, <3>6 DEF CallerInv
      <3> QED
        BY <3>7 DEF CallerInv, PlaceOf, Truthful, Follows, KnowsVersion, Counted, Heard, Sent, Queued
    <2>2. CASE ~ (heeded /\ d = h.c)
      <3> PICK kd \in CallRecord : call[d] = kd /\ call'[d] = kd /\ CallerInv(d, kd)
        BY <1>10, <2>2, CallerFacts
      <3>1. PlaceOf(d, kd)'
        BY <1>14 DEF CallerInv, PlaceOf
      <3>2. kd.at = "wait" => kd.id # h.id
        <4> SUFFICES ASSUME kd.at = "wait", kd.id = h.id PROVE FALSE
          OBVIOUS
        <4>1. h.id = <<d, Len(kd.plan)>>
          BY DEF CallerInv, PlaceOf
        <4>2. d = h.c
          BY <1>4, <4>1
        <4> QED
          BY <2>2, <4>2
      <3>3. kd.at = "wait" => (Queued(kd.id)' <=> Queued(kd.id)) /\ (kd.id \in landed' <=> kd.id \in landed)
        BY <1>3, <1>12, <3>2
      <3>4. kd.at = "wait" =>
              \A i \in 1 .. Len(queue') : queue'[i].id = kd.id => queue'[i].cmd = Head(kd.plan)
        BY <1>3 DEF CallerInv, Truthful
      <3>5. Truthful(kd)'
        BY <1>12, <1>14, <3>3, <3>4 DEF CallerInv, Truthful
      <3>6. (Follows(kd) /\ KnowsVersion(kd) /\ Counted(kd))'
        BY <1>1 DEF CallerInv, Follows, KnowsVersion, Counted, Heard
      <3>7. CallerInv(d, kd)'
        BY <3>1, <3>5, <3>6 DEF CallerInv
      <3> QED
        BY <3>7 DEF CallerInv, PlaceOf, Truthful, Follows, KnowsVersion, Counted, Heard, Sent, Queued
    <2> QED
      BY <2>1, <2>2
  <1>17. OneWinner'
    <2> DEFINE wins == heeded /\ reply = "applied" /\ call[h.c].rq.do \in {"release", "settle"}
    <2>1. \A d \in Caller, r \in Rid :
            Wins(call'[d], r) <=> Wins(call[d], r) \/ (wins /\ d = h.c /\ call[h.c].rq.r = r)
      BY <1>9, <1>10, <1>15 DEF Wins, Heard
    <2>2. wins => /\ call[h.c].rq.r \in Rid /\ ~Ended(call[h.c].rq.r)
                  /\ resv'[call[h.c].rq.r] \in {"released", "spent"}
      <3> SUFFICES ASSUME wins
                   PROVE  /\ call[h.c].rq.r \in Rid /\ ~Ended(call[h.c].rq.r)
                          /\ resv'[call[h.c].rq.r] \in {"released", "spent"}
        OBVIOUS
      <3>1. h.cmd = [op |-> call[h.c].rq.do, rq |-> call[h.c].rq]
        BY <1>15 DEF OneCommand
      <3>2. h.cmd.op \in {"release", "settle"} /\ h.cmd.rq = call[h.c].rq
        BY <3>1
      <3>3. Effect(h.cmd) /\ ReplyTo(h.cmd) = "applied"
        BY <1>1, <1>5
      <3> QED
        BY <1>4, <3>2, <3>3, CommandCases, ReservationEffect DEF WriterInv
    <2>3. \A r \in Rid : Ended(r) => Ended(r)'
      BY <1>6 DEF Ended
    <2> HIDE DEF wins
    <2> SUFFICES ASSUME NEW r \in Rid
                 PROVE  /\ told[r] <= 1
                        /\ told[r] = 1 => Ended(r)' /\ \A d \in Caller : ~Wins(call'[d], r)
                        /\ \A d \in Caller : Wins(call'[d], r) => Ended(r)'
                        /\ \A d, e \in Caller : Wins(call'[d], r) /\ Wins(call'[e], r) => d = e
      BY <1>1 DEF OneWinner, Wins, Heard
    <2>4. /\ told[r] <= 1
          /\ told[r] = 1 => Ended(r) /\ \A d \in Caller : ~Wins(call[d], r)
          /\ \A d \in Caller : Wins(call[d], r) => Ended(r)
          /\ \A d, e \in Caller : Wins(call[d], r) /\ Wins(call[e], r) => d = e
      BY DEF WriterInv, OneWinner
    <2>5. CASE wins /\ call[h.c].rq.r = r
      <3>1. ~Ended(r) /\ Ended(r)'
        BY <2>2, <2>5 DEF Ended
      <3> QED
        BY <2>1, <2>4, <3>1
    <2>6. CASE ~ (wins /\ call[h.c].rq.r = r)
      <3>1. \A d \in Caller : Wins(call'[d], r) => Wins(call[d], r)
        BY <2>1, <2>6
      <3> QED
        BY <2>3, <2>4, <3>1
    <2> QED
      BY <2>5, <2>6
  <1>18. RatesHold'
    <2>1. \A d \in Caller : /\ call'[d].at = call[d].at /\ call'[d].rq = call[d].rq
                            /\ call'[d].rows = call[d].rows
      BY <1>9, <1>10
    <2>2. rate' \in [Peer -> Nat] /\ \A p \in Peer : rate'[p] <= rate[p]
      BY <1>1 DEF WriterInv, CallsTyped
    <2>3. \A d \in Caller, p \in Peer : Passed(call'[d], p) => Passed(call[d], p)
      BY <2>1 DEF Passed
    <2> QED
      BY <1>1, <2>1, <2>2, <2>3, RatesStay
  <1>19. WakesAreCommitted'
    BY <1>1, <1>12 DEF WriterInv, WakesAreCommitted
  <1> QED
    BY <1>6, <1>11, <1>13, <1>16, <1>17, <1>18, <1>19 DEF WriterInv

LEMMA AfterAck_Inv ==
    ASSUME WriterInv, NEW c \in Caller, AfterAck(c)
    PROVE  WriterInv'
  <1> PICK k \in CallRecord : k = call[c] /\ CallerInv(c, k) /\ k.at = "ack"
    BY CallerFacts DEF AfterAck
  <1> DEFINE stop == Len(k.plan) = 1 \/ (k.rq.do = "hotclear" /\ k.ack \notin {"applied", "unchanged"})
             at == IF stop THEN "done" ELSE "admit"
             next == IF stop THEN Done ELSE [k EXCEPT !.plan = Tail(k.plan), !.at = "admit"]
             counts == k.rq.do \in {"edit", "batch"} /\ k.ack = "applied"
             ends == k.rq.do \in {"release", "settle"} /\ k.ack = "applied"
             Mine(p) == {r \in k.rows : r.p = p}
  <1>1. /\ woken' = IF Wakes(k) THEN woken \union {k.id} ELSE woken
        /\ rate' = IF counts THEN [p \in Peer |-> rate[p] + Cardinality(Mine(p))] ELSE rate
        /\ told' = IF ends THEN [told EXCEPT ![k.rq.r] = @ + 1] ELSE told
        /\ published' = IF k.rq.do = "setconf" /\ k.ack = "applied" THEN k.ver ELSE published
        /\ call' = [call EXCEPT ![c] = next]
        /\ UNCHANGED <<family, dbVars, open, queue, up, landed>>
    BY DEF AfterAck, Goes
  <1>2. /\ PlaceOf(c, k) /\ Truthful(k) /\ Follows(k) /\ KnowsVersion(k) /\ Counted(k)
        /\ family \in Families /\ BatchBound[family] \in Nat \ {0}
    BY CallerFacts DEF CallerInv
  <1>3. /\ k.plan \in Seq(Command) /\ k.plan # <<>> /\ Len(k.plan) \in Nat \ {0}
        /\ Tail(k.plan) \in Seq(Command) /\ Len(Tail(k.plan)) = Len(k.plan) - 1
        /\ k.id = <<c, Len(k.plan)>> /\ k.id \in Caller \X Nat /\ k.rows \in SUBSET GoodRow
    <2>1. k.plan \in Seq(Command) /\ k.plan # <<>> /\ k.id = <<c, Len(k.plan)>> /\ k.rows \in SUBSET GoodRow
      BY <1>2 DEF CallRecord, PlaceOf
    <2> QED
      BY <2>1
  <1>4. at \in {"done", "admit"} /\ (Len(k.plan) = 1 => at = "done") /\ at \in Places
    BY DEF Places
  <1>5. /\ next \in CallRecord /\ next.at = at
        /\ at = "admit" => next.plan = Tail(k.plan) /\ next.rq = k.rq /\ next.rows = k.rows
        /\ at = "done" => next.rows = {} /\ next.rq.do = "none"
    <2>1. CASE stop
      BY <2>1, IdleFacts
    <2>2. CASE ~stop
      BY <1>3, <2>2 DEF CallRecord, Places
    <2> QED
      BY <2>1, <2>2
  <1> HIDE DEF next, stop, at, counts, ends, Mine
  <1>6. call \in [Caller -> CallRecord] /\ call' \in [Caller -> CallRecord]
        /\ call'[c] = next /\ \A d \in Caller : d # c => call'[d] = call[d]
    BY <1>1, <1>5 DEF WriterInv, CallsTyped
  <1>7. k.rq.do \in OneCommand \union {"edit", "batch"} => at = "done"
    <2>1. k.rq.do \in OneCommand \union {"edit", "batch"} => Len(k.plan) = 1
      BY <1>2 DEF Follows
    <2> QED
      BY <1>4, <2>1
  <1>8. StoreTyped' /\ VersionsDistinct' /\ PoliciesAreValid' /\ ArchiveIsWhole' /\ QueueIsFresh'
    BY <1>1 DEF WriterInv, StoreTyped, VersionsDistinct, PoliciesAreValid, ArchiveIsWhole, QueueIsFresh, dbVars
  <1>9. WakesAreCommitted'
    <2>1. Wakes(k) => k.id \in landed
      BY <1>2 DEF Wakes, WakeAcks, Truthful
    <2> QED
      BY <1>1, <2>1 DEF WriterInv, WakesAreCommitted
  <1>10. ends => k.rq.r \in Rid /\ Wins(k, k.rq.r)
    <2>1. k.rq \in Request
      BY DEF CallRecord
    <2> QED
      BY <2>1, RequestCases DEF ends, Wins, Heard
  <1>11. \A p \in Peer : counts => Cardinality(Mine(p)) \in Nat /\ Cardinality(Mine(p)) <= BatchBound[family]
                                   /\ (p \notin PeersOf(k.rows) => Cardinality(Mine(p)) = 0)
    <2> SUFFICES ASSUME NEW p \in Peer, counts
                 PROVE  Cardinality(Mine(p)) \in Nat /\ Cardinality(Mine(p)) <= BatchBound[family]
                        /\ (p \notin PeersOf(k.rows) => Cardinality(Mine(p)) = 0)
      OBVIOUS
    <2>1. IsFiniteSet(k.rows) /\ Cardinality(k.rows) <= BatchBound[family]
      BY <1>2 DEF counts, Counted
    <2>2. Mine(p) \in SUBSET k.rows
      BY DEF Mine
    <2>3. IsFiniteSet(Mine(p)) /\ Cardinality(Mine(p)) <= Cardinality(k.rows)
      BY <2>1, <2>2, FS_Subset
    <2>4. Cardinality(Mine(p)) \in Nat /\ Cardinality(k.rows) \in Nat
      BY <2>1, <2>3, FS_CardinalityType
    <2>5. p \notin PeersOf(k.rows) => Mine(p) = {}
      BY DEF PeersOf, Mine
    <2> QED
      BY <1>2, <2>1, <2>3, <2>4, <2>5, FS_EmptySet
  <1>12. CallsTyped'
    <2>1. woken' \in SUBSET (Caller \X Nat)
      BY <1>1, <1>3 DEF WriterInv, CallsTyped
    <2>2. told' \in [Rid -> Nat]
      BY <1>1, <1>10 DEF WriterInv, CallsTyped
    <2>3. rate' \in [Peer -> Nat]
      BY <1>1, <1>11 DEF WriterInv, CallsTyped
    <2>4. published' \in 0 .. MaxVersion
      <3>1. k.rq.do = "setconf" /\ k.ack = "applied" => k.ver \in 0 .. MaxVersion
        BY <1>2, WriterAssumption DEF KnowsVersion, Heard, CallRecord
      <3> QED
        BY <1>1, <3>1 DEF WriterInv, CallsTyped
    <2> QED
      BY <1>1, <1>6, <2>1, <2>2, <2>3, <2>4 DEF WriterInv, CallsTyped
  <1>13. ASSUME NEW d \in Caller PROVE CallerInv(d, call[d])'
    <2>1. CASE d = c
      <3> PICK kd \in CallRecord : kd = call'[d] /\ kd = next
        BY <1>5, <1>6, <2>1
      <3>1. PlaceOf(d, kd)
        <4>1. \A n \in Nat : Sent(<<c, n>>) => n >= Len(k.plan)
          BY <1>2 DEF PlaceOf
        <4>2. at = "admit" => Tail(k.plan) # <<>>
          <5> DEFINE rest == Tail(k.plan)
          <5>1. rest \in Seq(Command) /\ Len(rest) = Len(k.plan) - 1 /\ Len(k.plan) \in Nat
            BY <1>3
          <5> HIDE DEF rest
          <5>2. at = "admit" => rest # <<>>
            <6> SUFFICES ASSUME at = "admit", rest = <<>> PROVE FALSE
              OBVIOUS
            <6>1. Len(rest) = 0
              OBVIOUS
            <6>2. Len(k.plan) = 1
              BY <5>1, <6>1
            <6> QED
              BY <1>4, <6>2
          <5> QED
            BY <5>2 DEF rest
        <4>3. \A n \in Nat : n >= Len(k.plan) => n > Len(Tail(k.plan))
          BY <1>3
        <4> QED
          BY <1>4, <1>5, <2>1, <4>1, <4>2, <4>3 DEF PlaceOf
      <3>2. Truthful(kd) /\ KnowsVersion(kd)
        BY <1>4, <1>5 DEF Truthful, KnowsVersion, Heard
      <3>3. Follows(kd) /\ Counted(kd)
        BY <1>2, <1>4, <1>5, <1>7 DEF Follows, Counted
      <3>4. CallerInv(d, kd)'
        BY <1>1, <3>1, <3>2, <3>3
           DEF CallerInv, PlaceOf, Truthful, Follows, KnowsVersion, Counted, Heard, Sent, Queued
      <3> QED
        BY <3>4 DEF CallerInv, PlaceOf, Truthful, Follows, KnowsVersion, Counted, Heard, Sent, Queued
    <2>2. CASE d # c
      <3>1. CallerInv(d, call[d]) /\ call'[d] = call[d] /\ UNCHANGED <<family, queue, landed>>
        BY <1>1, <1>6, <2>2, CallerFacts
      <3> QED
        BY <3>1 DEF CallerInv, PlaceOf, Truthful, Follows, KnowsVersion, Counted, Heard, Sent, Queued
    <2> QED
      BY <2>1, <2>2
  <1>14. OneWinner'
    <2>1. \A d \in Caller, r \in Rid : Wins(call'[d], r) <=> Wins(call[d], r) /\ d # c
      BY <1>4, <1>5, <1>6 DEF Wins, Heard
    <2>2. \A r \in Rid : told'[r] = IF ends /\ k.rq.r = r THEN told[r] + 1 ELSE told[r]
      BY <1>1, <1>10 DEF WriterInv, CallsTyped
    <2> SUFFICES ASSUME NEW r \in Rid
                 PROVE  /\ told'[r] <= 1
                        /\ told'[r] = 1 => Ended(r) /\ \A d \in Caller : ~Wins(call'[d], r)
                        /\ \A d \in Caller : Wins(call'[d], r) => Ended(r)
                        /\ \A d, e \in Caller : Wins(call'[d], r) /\ Wins(call'[e], r) => d = e
      BY <1>1 DEF OneWinner, Wins, Heard, Ended, dbVars
    <2>3. /\ told[r] <= 1 /\ told[r] \in Nat
          /\ told[r] = 1 => Ended(r) /\ \A d \in Caller : ~Wins(call[d], r)
          /\ \A d \in Caller : Wins(call[d], r) => Ended(r)
          /\ \A d, e \in Caller : Wins(call[d], r) /\ Wins(call[e], r) => d = e
      BY DEF WriterInv, OneWinner, CallsTyped
    <2>4. CASE ends /\ k.rq.r = r
      <3>1. Wins(call[c], r)
        BY <1>10, <2>4
      <3>2. told[r] = 0 /\ Ended(r) /\ \A d \in Caller : Wins(call[d], r) => d = c
        BY <2>3, <3>1
      <3> QED
        BY <2>1, <2>2, <2>4, <3>2
    <2>5. CASE ~ (ends /\ k.rq.r = r)
      BY <2>1, <2>2, <2>3, <2>5
    <2> QED
      BY <2>4, <2>5
  <1>15. RatesHold'
    <2>1. CASE ~counts
      <3>1. rate' \in [Peer -> Nat] /\ \A p \in Peer : rate'[p] <= rate[p]
        BY <1>1, <2>1 DEF WriterInv, CallsTyped
      <3>2. \A d \in Caller : call[d].at \in {"done", "answered"} => call'[d].at \in {"done", "answered"}
        BY <1>6
      <3>3. \A d \in Caller, p \in Peer : Passed(call'[d], p) => Passed(call[d], p)
        BY <1>4, <1>5, <1>6 DEF Passed
      <3> QED
        BY <1>1, <3>1, <3>2, <3>3, RatesStay
    <2>2. CASE counts
      <3>1. at = "done" /\ k.rq.do \in {"edit", "batch"}
        BY <1>7, <2>2 DEF counts
      <3>2. Finished \subseteq Finished' /\ Finished' \in SUBSET Caller /\ c \in Finished' /\ c \notin Finished
        BY <1>5, <1>6, <3>1 DEF Finished
      <3>3. /\ Cardinality(Finished) * BatchBound[family] \in Nat
            /\ Cardinality(Finished') * BatchBound[family] \in Nat
            /\ Cardinality(Finished) * BatchBound[family] + BatchBound[family]
                 <= Cardinality(Finished') * BatchBound[family]
        BY <3>2, FinishedFacts
      <3>4. rate \in [Peer -> Nat] /\ ChangeLimit \in Nat
        BY WriterAssumption DEF WriterInv, CallsTyped
      <3> SUFFICES ASSUME NEW p \in Peer
                   PROVE  \/ rate'[p] <= ChangeLimit - 1 + Cardinality(Finished') * BatchBound[family]
                          \/ rate'[p] <= ChangeLimit /\ \A d \in Caller : ~Passed(call'[d], p)
        BY <1>1 DEF RatesHold, Passed
      <3>5. rate'[p] = rate[p] + Cardinality(Mine(p)) /\ rate[p] \in Nat /\ Cardinality(Mine(p)) \in Nat
            /\ Cardinality(Mine(p)) <= BatchBound[family]
            /\ (p \notin PeersOf(k.rows) => Cardinality(Mine(p)) = 0)
        BY <1>1, <1>11, <2>2, <3>4
      <3>6. CASE rate[p] <= ChangeLimit - 1 + Cardinality(Finished) * BatchBound[family]
        BY <1>2, <3>3, <3>4, <3>5, <3>6
      <3>7. CASE rate[p] <= ChangeLimit /\ \A d \in Caller : ~Passed(call[d], p)
        <4>1. p \notin PeersOf(k.rows)
          BY <3>1, <3>7 DEF Passed
        <4>2. rate'[p] = rate[p]
          BY <3>5, <4>1
        <4>3. \A d \in Caller : ~Passed(call'[d], p)
          BY <1>5, <1>6, <3>1, <3>7 DEF Passed
        <4> QED
          BY <3>7, <4>2, <4>3
      <3> QED
        BY <3>6, <3>7 DEF WriterInv, RatesHold
    <2> QED
      BY <2>1, <2>2
  <1> QED
    BY <1>8, <1>9, <1>12, <1>13, <1>14, <1>15 DEF WriterInv

\* Steps outside the calls and the queue keep what callers rely on.
LEMMA QuietFacts ==
    ASSUME WriterInv, UNCHANGED <<family, open, queue, up, call, landed, woken, told, published>>,
           rate' \in [Peer -> Nat], \A p \in Peer : rate'[p] <= rate[p]
    PROVE  /\ CallsTyped' /\ QueueIsFresh' /\ RatesHold' /\ WakesAreCommitted'
           /\ \A d \in Caller : CallerInv(d, call[d])'
  <1>1. CallsTyped'
    BY DEF WriterInv, CallsTyped
  <1>2. QueueIsFresh' /\ WakesAreCommitted'
    BY DEF WriterInv, QueueIsFresh, WakesAreCommitted
  <1>3. ASSUME NEW d \in Caller PROVE CallerInv(d, call[d])'
    <2>1. CallerInv(d, call[d])
      BY CallerFacts
    <2> QED
      BY <2>1 DEF CallerInv, PlaceOf, Truthful, Follows, KnowsVersion, Counted, Heard, Sent, Queued
  <1>4. RatesHold'
    <2>1. \A d \in Caller, p \in Peer : Passed(call'[d], p) => Passed(call[d], p)
      OBVIOUS
    <2> QED
      BY <2>1, RatesStay
  <1> QED
    BY <1>1, <1>2, <1>3, <1>4

LEMMA Forget_Inv ==
    ASSUME WriterInv, NEW p \in Peer, Forget(p)
    PROVE  WriterInv'
  <1>1. rate \in [Peer -> Nat] /\ rate' = [rate EXCEPT ![p] = @ - 1] /\ rate[p] > 0
        /\ UNCHANGED <<family, dbVars, open, queue, up, call, landed, woken, told, published>>
    BY DEF Forget, WriterInv, CallsTyped
  <1>2. rate' \in [Peer -> Nat] /\ \A q \in Peer : rate'[q] <= rate[q]
    BY <1>1
  <1>3. CallsTyped' /\ QueueIsFresh' /\ RatesHold' /\ WakesAreCommitted'
        /\ \A d \in Caller : CallerInv(d, call[d])'
    BY <1>1, <1>2, QuietFacts
  <1>4. StoreTyped' /\ VersionsDistinct' /\ PoliciesAreValid' /\ ArchiveIsWhole'
    BY <1>1 DEF WriterInv, StoreTyped, VersionsDistinct, PoliciesAreValid, ArchiveIsWhole, dbVars
  <1>5. OneWinner'
    BY <1>1, WinnersStay DEF WriterInv, dbVars
  <1> QED
    BY <1>3, <1>4, <1>5 DEF WriterInv

LEMMA PolicyExpires_Inv ==
    ASSUME WriterInv, NEW p \in Peer, PolicyExpires(p)
    PROVE  WriterInv'
  <1>1. PICK r \in pol[p] : /\ pol' = [pol EXCEPT ![p] = {[r EXCEPT !.exp = "past"]}]
                            /\ UNCHANGED <<family, conf, hot, resv, chan, open, queue, up, call, landed,
                                           woken, told, rate, published>>
    BY DEF PolicyExpires
  <1>2. rate' \in [Peer -> Nat] /\ \A q \in Peer : rate'[q] <= rate[q]
    BY <1>1 DEF WriterInv, CallsTyped
  <1>3. CallsTyped' /\ QueueIsFresh' /\ RatesHold' /\ WakesAreCommitted'
        /\ \A d \in Caller : CallerInv(d, call[d])'
    BY <1>1, <1>2, QuietFacts
  <1>4. pol \in [Peer -> SUBSET PolicyRow] /\ r \in PolicyRow /\ ValidRow(r)
        /\ (\A q \in Peer : \A s, t \in pol[q] : s = t) /\ \A q \in Peer : \A s \in pol[q] : ValidRow(s)
    BY DEF WriterInv, StoreTyped, PoliciesAreValid
  <1> DEFINE x == [r EXCEPT !.exp = "past"]
  <1>5. x \in PolicyRow /\ x.fee = r.fee /\ x.lo = r.lo /\ x.hi = r.hi /\ x.strategy = r.strategy
    BY <1>4 DEF PolicyRow
  <1>6. pol' = [pol EXCEPT ![p] = {x}]
    BY <1>1
  <1> HIDE DEF x
  <1>7. ValidRow(x)
    BY <1>4, <1>5, ValidSame
  <1>8. pol' \in [Peer -> SUBSET PolicyRow] /\ (\A q \in Peer : \A s, t \in pol'[q] : s = t)
        /\ PoliciesAreValid'
    BY <1>4, <1>5, <1>6, <1>7 DEF PoliciesAreValid
  <1>9. StoreTyped' /\ VersionsDistinct' /\ ArchiveIsWhole'
    BY <1>1, <1>8 DEF WriterInv, StoreTyped, VersionsDistinct, ArchiveIsWhole
  <1>10. OneWinner'
    BY <1>1, WinnersStay DEF WriterInv
  <1> QED
    BY <1>3, <1>8, <1>9, <1>10 DEF WriterInv

LEMMA Close_Inv ==
    ASSUME WriterInv, NEW s \in Scid, Close(s)
    PROVE  WriterInv'
  <1>1. open' = open \ {s} /\ UNCHANGED <<family, dbVars, queue, up, call, landed, woken, told, rate, published>>
    BY DEF Close
  <1>2. CallsTyped'
    BY <1>1 DEF WriterInv, CallsTyped
  <1>3. QueueIsFresh' /\ WakesAreCommitted'
    BY <1>1 DEF WriterInv, QueueIsFresh, WakesAreCommitted
  <1>4. ASSUME NEW d \in Caller PROVE CallerInv(d, call[d])'
    <2>1. CallerInv(d, call[d])
      BY CallerFacts
    <2> QED
      BY <1>1, <2>1 DEF CallerInv, PlaceOf, Truthful, Follows, KnowsVersion, Counted, Heard, Sent, Queued
  <1>5. RatesHold'
    <2>1. rate' \in [Peer -> Nat] /\ \A q \in Peer : rate'[q] <= rate[q]
      BY <1>1 DEF WriterInv, CallsTyped
    <2>2. \A d \in Caller, p \in Peer : Passed(call'[d], p) => Passed(call[d], p)
      BY <1>1
    <2> QED
      BY <1>1, <2>1, <2>2, RatesStay
  <1>6. StoreTyped' /\ VersionsDistinct' /\ PoliciesAreValid' /\ ArchiveIsWhole'
    BY <1>1 DEF WriterInv, StoreTyped, VersionsDistinct, PoliciesAreValid, ArchiveIsWhole, dbVars
  <1>7. OneWinner'
    BY <1>1, WinnersStay DEF WriterInv, dbVars
  <1> QED
    BY <1>2, <1>3, <1>4, <1>5, <1>6, <1>7 DEF WriterInv

LEMMA EmptyQueue ==
    ASSUME queue' = <<>>
    PROVE  queue' \in Seq(Item) /\ Len(queue') = 0 /\ (\A y : ~Queued(y)') /\ QueueIsFresh'
  BY DEF Queued, QueueIsFresh

LEMMA ActorDies_Inv ==
    ASSUME WriterInv, ActorDies
    PROVE  WriterInv'
  <1>1. up' = FALSE /\ queue' = <<>>
        /\ UNCHANGED <<family, dbVars, open, call, landed, woken, told, rate, published>>
    BY DEF ActorDies
  <1>2. queue' \in Seq(Item) /\ Len(queue') = 0 /\ (\A y : ~Queued(y)') /\ QueueIsFresh'
    BY <1>1, EmptyQueue
  <1>3. CallsTyped' /\ WakesAreCommitted'
    <2>1. Len(queue') <= QueueCap
      BY <1>2, WriterAssumption
    <2>2. up' \in BOOLEAN
      BY <1>1
    <2> QED
      BY <1>1, <1>2, <2>1, <2>2 DEF WriterInv, CallsTyped, WakesAreCommitted
  <1>4. \A y : Sent(y)' => Sent(y)
    BY <1>1, <1>2 DEF Sent
  <1>5. ASSUME NEW d \in Caller PROVE CallerInv(d, call[d])'
    <2> PICK kd : kd = call[d] /\ kd = call'[d] /\ CallerInv(d, kd)
      BY <1>1, CallerFacts
    <2>1. PlaceOf(d, kd)'
      BY <1>4 DEF CallerInv, PlaceOf
    <2>2. Truthful(kd)'
      BY <1>1, <1>2, <1>4 DEF CallerInv, Truthful
    <2>3. (Follows(kd) /\ KnowsVersion(kd) /\ Counted(kd))'
      BY <1>1 DEF CallerInv, Follows, KnowsVersion, Counted, Heard
    <2>4. CallerInv(d, kd)'
      BY <2>1, <2>2, <2>3 DEF CallerInv
    <2> QED
      BY <2>4 DEF CallerInv, PlaceOf, Truthful, Follows, KnowsVersion, Counted, Heard, Sent, Queued
  <1>6. RatesHold'
    <2>1. rate' \in [Peer -> Nat] /\ \A q \in Peer : rate'[q] <= rate[q]
      BY <1>1 DEF WriterInv, CallsTyped
    <2>2. \A d \in Caller, p \in Peer : Passed(call'[d], p) => Passed(call[d], p)
      BY <1>1
    <2> QED
      BY <1>1, <2>1, <2>2, RatesStay
  <1>7. StoreTyped' /\ VersionsDistinct' /\ PoliciesAreValid' /\ ArchiveIsWhole'
    BY <1>1 DEF WriterInv, StoreTyped, VersionsDistinct, PoliciesAreValid, ArchiveIsWhole, dbVars
  <1>8. OneWinner'
    BY <1>1, WinnersStay DEF WriterInv, dbVars
  <1> QED
    BY <1>2, <1>3, <1>5, <1>6, <1>7, <1>8 DEF WriterInv

LEMMA Crash_Inv ==
    ASSUME WriterInv, Crash
    PROVE  WriterInv'
  <1>1. up' = TRUE /\ queue' = <<>> /\ call' = [c \in Caller |-> IF call[c].at = "idle" THEN Idle ELSE Gone]
        /\ rate' = [p \in Peer |-> 0] /\ published' = 0
        /\ UNCHANGED <<family, dbVars, open, landed, woken, told>>
    BY DEF Crash
  <1>2. queue' \in Seq(Item) /\ Len(queue') = 0 /\ (\A y : ~Queued(y)') /\ QueueIsFresh'
    BY <1>1, EmptyQueue
  <1>3. call' \in [Caller -> CallRecord]
    BY <1>1, IdleFacts
  <1>4. rate' \in [Peer -> Nat] /\ \A p \in Peer : rate'[p] = 0
    BY <1>1
  <1>5. CallsTyped' /\ WakesAreCommitted'
    BY <1>1, <1>2, <1>3, <1>4, WriterAssumption DEF WriterInv, CallsTyped, WakesAreCommitted
  <1>6. \A y : Sent(y)' => Sent(y)
    BY <1>1, <1>2 DEF Sent
  <1>7. ASSUME NEW d \in Caller PROVE CallerInv(d, call[d])'
    <2> PICK kd : kd = call'[d] /\ kd \in {Idle, Gone} /\ (kd = Idle => call[d].at = "idle")
      BY <1>1, IdleFacts
    <2>1. kd.at = "idle" => \A n \in Nat : ~Sent(<<d, n>>)
      BY CallerFacts, IdleFacts DEF CallerInv, PlaceOf
    <2>2. kd.at \in {"idle", "answered"} /\ kd.rq.do = "none"
      BY IdleFacts
    <2>3. PlaceOf(d, kd)'
      BY <1>6, <2>1, <2>2 DEF PlaceOf
    <2>4. (Truthful(kd) /\ Follows(kd) /\ KnowsVersion(kd) /\ Counted(kd))'
      BY <2>2 DEF Truthful, Follows, KnowsVersion, Counted, Heard
    <2>5. CallerInv(d, kd)'
      BY <2>3, <2>4 DEF CallerInv
    <2> QED
      BY <2>5 DEF CallerInv, PlaceOf, Truthful, Follows, KnowsVersion, Counted, Heard, Sent, Queued
  <1>8. \A d \in Caller : call'[d].rq.do = "none"
    BY <1>1, IdleFacts
  <1>9. RatesHold'
    BY <1>4, <1>8, WriterAssumption DEF RatesHold, Passed
  <1>10. StoreTyped' /\ VersionsDistinct' /\ PoliciesAreValid' /\ ArchiveIsWhole'
    BY <1>1 DEF WriterInv, StoreTyped, VersionsDistinct, PoliciesAreValid, ArchiveIsWhole, dbVars
  <1>11. OneWinner'
    <2>1. \A d \in Caller, r \in Rid : Wins(call'[d], r) => Wins(call[d], r)
      BY <1>8 DEF Wins
    <2> QED
      BY <1>1, <2>1, WinnersStay DEF WriterInv, dbVars
  <1> QED
    BY <1>2, <1>5, <1>7, <1>9, <1>10, <1>11 DEF WriterInv

LEMMA WriterStutter_Inv == ASSUME WriterInv, UNCHANGED stateVars PROVE WriterInv'
  <1>1. /\ UNCHANGED <<family, pol, conf, hot, resv, chan, open, queue, up, call>>
        /\ UNCHANGED <<landed, woken, told, rate, published>>
    BY DEF stateVars
  <1>2. CallsTyped' /\ QueueIsFresh' /\ RatesHold' /\ WakesAreCommitted'
        /\ \A d \in Caller : CallerInv(d, call[d])'
    <2>1. rate' \in [Peer -> Nat] /\ \A q \in Peer : rate'[q] <= rate[q]
      BY <1>1 DEF WriterInv, CallsTyped
    <2> QED
      BY <1>1, <2>1, QuietFacts
  <1>3. StoreTyped' /\ VersionsDistinct' /\ PoliciesAreValid' /\ ArchiveIsWhole'
    BY <1>1 DEF WriterInv, StoreTyped, VersionsDistinct, PoliciesAreValid, ArchiveIsWhole
  <1>4. OneWinner'
    BY <1>1, WinnersStay DEF WriterInv
  <1> QED
    BY <1>2, <1>3, <1>4 DEF WriterInv

LEMMA WriterNext_Inv == WriterInv /\ [WriterNext]_stateVars => WriterInv'
  <1> SUFFICES ASSUME WriterInv, [WriterNext]_stateVars PROVE WriterInv'
    OBVIOUS
  <1>1. ASSUME NEW c \in Caller, CallStep(c) PROVE WriterInv'
    BY <1>1, Admit_Inv, Receipt_Inv, AfterAck_Inv, Answer_Inv, ReadPolicy_Inv, ReadRows_Inv DEF CallStep
  <1>2. ASSUME NEW c \in Caller, NEW rq \in Requests, Begin(c, rq) PROVE WriterInv'
    BY <1>2, Begin_Inv
  <1>3. ASSUME NEW ok \in BOOLEAN, Execute(ok) PROVE WriterInv'
    BY <1>3, Execute_Inv
  <1>4. ASSUME NEW p \in Peer, Forget(p) \/ PolicyExpires(p) PROVE WriterInv'
    BY <1>4, Forget_Inv, PolicyExpires_Inv
  <1>5. ASSUME NEW s \in Scid, Close(s) PROVE WriterInv'
    BY <1>5, Close_Inv
  <1>6. CASE Crash \/ ActorDies
    BY <1>6, Crash_Inv, ActorDies_Inv
  <1>7. CASE UNCHANGED stateVars
    BY <1>7, WriterStutter_Inv
  <1> QED
    BY <1>1, <1>2, <1>3, <1>4, <1>5, <1>6, <1>7 DEF WriterNext

\* The inductive invariant of the state writer (state_writer.rs and the
\* mutating RPCs): where each command is, and what its caller may be told.
THEOREM WriterInvariant == WriterSpec => []WriterInv
  <1>1. WriterInit => WriterInv
    BY WriterInit_Inv
  <1>2. WriterInv /\ [WriterNext]_stateVars => WriterInv'
    BY WriterNext_Inv
  <1> QED
    BY <1>1, <1>2, PTL DEF WriterSpec

\* What the invariant says of the answers.
LEMMA WriterInv_Honest == WriterInv => WritesAreHonest
  <1> SUFFICES ASSUME WriterInv PROVE WritesAreHonest
    OBVIOUS
  <1>1. WriterTypeOK
    <2>1. \A p \in Peer : Cardinality(pol[p]) <= 1
      <3> SUFFICES ASSUME NEW p \in Peer PROVE Cardinality(pol[p]) <= 1
        OBVIOUS
      <3>1. CASE pol[p] = {}
        BY <3>1, FS_EmptySet
      <3>2. CASE pol[p] # {}
        <4>1. PICK r \in pol[p] : \A s \in pol[p] : s = r
          BY <3>2 DEF WriterInv, StoreTyped
        <4>2. pol[p] = {r}
          BY <4>1
        <4> QED
          BY <4>2, FS_Singleton
      <3> QED
        BY <3>1, <3>2
    <2>2. \A s \in Scid : chan[s].tables \subseteq Tables /\ chan[s].closed \subseteq {"row"}
      BY DEF WriterInv, StoreTyped, ChanRecord
    <2>3. \A c \in Caller : call[c].ack \in Acks
      BY CallerFacts DEF CallRecord
    <2> QED
      BY <2>1, <2>2, <2>3 DEF WriterInv, StoreTyped, CallsTyped, WriterTypeOK
  <1>2. AckIsHonest
    <2> SUFFICES ASSUME NEW c \in Caller, call[c].at = "ack"
                 PROVE  /\ call[c].ack = "applied" => call[c].id \in landed
                        /\ call[c].ack \in Refusals =>
                             call[c].id \notin landed /\ \A i \in 1 .. Len(queue) : queue[i].id # call[c].id
      BY DEF AckIsHonest, Refusals
    <2> QED
      BY CallerFacts DEF CallerInv, Truthful, Sent, Queued
  <1>3. RateBounded
    <2>1. IsFiniteSet(Caller) /\ Cardinality(Caller) = MaxCalls
      BY FS_Interval, WriterAssumption DEF Caller
    <2>2. Finished \in SUBSET Caller
      BY DEF Finished
    <2>3. Cardinality(Finished) \in Nat /\ Cardinality(Finished) <= MaxCalls
      BY <2>1, <2>2, FS_Subset, FS_CardinalityType
    <2>4. BatchBound[family] \in Nat \ {0} /\ MaxCalls \in Nat \ {0} /\ ChangeLimit \in Nat \ {0}
      BY WriterAssumption DEF WriterInv, CallsTyped
    <2>5. /\ Cardinality(Finished) * BatchBound[family] <= MaxCalls * BatchBound[family]
          /\ Cardinality(Finished) * BatchBound[family] \in Nat /\ MaxCalls * BatchBound[family] \in Nat
      BY <2>3, <2>4, TimesMonotone
    <2>6. 1 <= MaxCalls * BatchBound[family]
      <3>1. 1 * BatchBound[family] <= MaxCalls * BatchBound[family]
        BY <2>4, TimesMonotone
      <3> QED
        BY <2>4, <3>1
    <2> SUFFICES ASSUME NEW p \in Peer
                 PROVE  rate[p] <= ChangeLimit - 1 + MaxCalls * BatchBound[family]
      BY <2>1 DEF RateBounded
    <2>7. rate[p] \in Nat
      BY DEF WriterInv, CallsTyped
    <2>8. CASE rate[p] <= ChangeLimit - 1 + Cardinality(Finished) * BatchBound[family]
      BY <2>4, <2>5, <2>7, <2>8
    <2>9. CASE rate[p] <= ChangeLimit
      BY <2>4, <2>5, <2>6, <2>7, <2>9
    <2> QED
      BY <2>8, <2>9 DEF WriterInv, RatesHold
  <1> QED
    BY <1>1, <1>2, <1>3 DEF WriterInv, WritesAreHonest

\* An acknowledgement is true, a wake follows a commit, policies are valid,
\* rates bounded, versions distinct and an archived channel gone everywhere
\* (apply_policy_batch, wake_after_commit, merge_policy, set_config_override,
\* archive_closed_channel).
THEOREM WriterIsHonest == WriterSpec => []WritesAreHonest
  BY WriterInvariant, WriterInv_Honest, PTL

\* A step that takes a ban away is one that was asked to, or that planned its
\* write before the ban.
LEMMA BanStep ==
    ASSUME WriterInv, [WriterNext]_stateVars, NEW p \in Peer, Standing(pol[p]), ~Standing(pol'[p])
    PROVE  LET cmd == Head(queue).cmd
           IN \/ cmd.op = "delete"
              \/ \E r \in cmd.rows : r.p = p /\ (AsksToLift(r.e) \/ ~Standing({r.base}))
  <1> PICK cmd : cmd = Head(queue).cmd
    OBVIOUS
  <1>1. pol' # pol
    OBVIOUS
  <1>2. CASE \E ok \in BOOLEAN : Execute(ok)
    <2>1. Effect(cmd) /\ queue # <<>>
      BY <1>1, <1>2 DEF Execute, dbVars
    <2>2. cmd \in Command
      <3>1. Head(queue) \in Item
        BY <2>1 DEF WriterInv, CallsTyped
      <3> QED
        BY <3>1 DEF Item
    <2>3. CASE cmd.op = "write"
      <3>1. pol' = Written(cmd.rows) /\ cmd.rows \in SUBSET GoodRow
        BY <2>1, <2>2, <2>3, CommandCases DEF Effect
      <3>2. p \in PeersOf(cmd.rows)
        BY <3>1, WrittenFacts DEF WriterInv
      <3>3. PICK r \in cmd.rows : r.p = p /\ pol'[p] = {r.row}
        BY <3>1, <3>2, WrittenFacts DEF WriterInv
      <3>4. ~Standing({r.row})
        BY <3>3
      <3>5. KeepsBan(r)
        BY <3>1 DEF GoodRow
      <3> QED
        BY <3>3, <3>4, <3>5 DEF KeepsBan
    <2>4. CASE cmd.op \notin {"write", "delete"}
      BY <1>1, <2>1, <2>2, <2>4, CommandCases DEF Effect, OneCommand
    <2> QED
      BY <2>3, <2>4
  <1>3. CASE \E q \in Peer : PolicyExpires(q)
    <2>1. PICK q \in Peer : PolicyExpires(q)
      BY <1>3
    <2>2. PICK r \in pol[q] : r.exp = "later" /\ pol' = [pol EXCEPT ![q] = {[r EXCEPT !.exp = "past"]}]
      BY <2>1 DEF PolicyExpires
    <2>3. pol \in [Peer -> SUBSET PolicyRow] /\ r \in PolicyRow /\ \A s \in pol[q] : s = r
      BY DEF WriterInv, StoreTyped
    <2>4. CASE q # p
      BY <2>2, <2>3, <2>4
    <2>5. CASE q = p
      BY <2>2, <2>3, <2>5 DEF Standing
    <2> QED
      BY <2>4, <2>5
  <1>4. CASE ~ (\E ok \in BOOLEAN : Execute(ok)) /\ ~ \E q \in Peer : PolicyExpires(q)
    <2>1. pol' = pol
      BY <1>4 DEF WriterNext, CallStep, Admit, Timeout, Replied, AfterAck, Answer, ReadPolicy, ReadRows,
                  Begin, Forget, Close, Crash, ActorDies, dbVars, stateVars
    <2> QED
      BY <1>1, <2>1
  <1> QED
    BY <1>2, <1>3, <1>4

\* No handler drops a standing ban by the way: it ends with its row, by a request
\* that asks for it (unban, ignore, the tag taken away, an expiry, a list of tags
\* without it), or by a write planned from a row read before the ban stood.
THEOREM BansHold == WriterSpec => BanHolds
  <1>1. WriterInv /\ [WriterNext]_stateVars =>
          [\A p \in Peer : Standing(pol[p]) /\ ~Standing(pol'[p]) =>
             LET cmd == Head(queue).cmd
             IN \/ cmd.op = "delete"
                \/ \E r \in cmd.rows : r.p = p /\ (AsksToLift(r.e) \/ ~Standing({r.base}))]_stateVars
    BY BanStep
  <1> QED
    BY <1>1, WriterInvariant, PTL DEF WriterSpec, BanHolds

LEMMA EndStep ==
    ASSUME WriterInv, [WriterNext]_stateVars, NEW r \in Rid
    PROVE  (resv[r] \in {"released", "spent"} => resv'[r] = resv[r]) /\ told'[r] <= 1
  <1>1. told'[r] <= 1
    BY WriterNext_Inv DEF WriterInv, OneWinner
  <1>2. CASE \E ok \in BOOLEAN : Execute(ok)
    <2>1. Effect(Head(queue).cmd) \/ UNCHANGED dbVars
      BY <1>2 DEF Execute
    <2>2. Head(queue).cmd \in Command
      <3>1. Head(queue) \in Item
        BY <1>2 DEF Execute, WriterInv, CallsTyped
      <3> QED
        BY <3>1 DEF Item
    <2>3. CASE UNCHANGED dbVars
      BY <1>1, <2>3 DEF dbVars
    <2>4. CASE Effect(Head(queue).cmd)
      BY <1>1, <2>2, <2>4, ReservationEffect DEF WriterInv, Ended
    <2> QED
      BY <2>1, <2>3, <2>4
  <1>3. CASE ~ \E ok \in BOOLEAN : Execute(ok)
    <2>1. resv' = resv
      BY <1>3 DEF WriterNext, CallStep, Admit, Timeout, Replied, AfterAck, Answer, ReadPolicy, ReadRows,
                  Begin, Forget, PolicyExpires, Close, Crash, ActorDies, dbVars, stateVars
    <2> QED
      BY <1>1, <2>1
  <1> QED
    BY <1>2, <1>3

\* A reservation ends once, and at most one caller is told that it ended it,
\* whoever retries after an unknown outcome.
THEOREM ReservationsEndOnce == WriterSpec => EndsOnce
  <1>1. WriterInv /\ [WriterNext]_stateVars =>
          [\A r \in Rid : /\ resv[r] \in {"released", "spent"} => resv'[r] = resv[r]
                          /\ told'[r] <= 1]_stateVars
    BY EndStep
  <1> QED
    BY <1>1, WriterInvariant, PTL DEF WriterSpec, EndsOnce
=============================================================================
