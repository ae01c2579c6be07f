-------------------------- MODULE FeeAuthorization --------------------------
(***************************************************************************)
(* How one live batch is authorized: the two-fetch bracket around Python's   *)
(* fee-authority status (crates/revops/src/python_authority.rs), the store   *)
(* reads and gates of LiveBatchAuthorization::authorize, and the dispatch    *)
(* freshness check of broadcast_batch (crates/revops/src/fee_execution.rs).  *)
(*                                                                         *)
(* Python is another process: its authority may change between any two      *)
(* steps, and it may restart, which resets its generation counter.  Every    *)
(* fetch and every store read is an await, so time passes and the store      *)
(* changes between the checks.                                               *)
(***************************************************************************)
EXTENDS Integers

CONSTANTS
    MaxTime,            \* bound: last second of the modelled wall clock
    MaxEpoch,           \* bound: Python generation and state generation
    MaxAge,             \* max_age_seconds of a status observation
    RpcTimeout,         \* budget of one status fetch
    BracketLifetime,    \* OPEN_BRACKET_MAX_LIFETIME (30 s)
    DispatchFreshness   \* AUTHORIZATION_DISPATCH_FRESHNESS (30 s)

ASSUME BoundsAssumption ==
    /\ MaxTime \in Nat /\ MaxEpoch \in Nat \ {0}
    /\ MaxAge \in Nat /\ RpcTimeout \in Nat
    /\ BracketLifetime \in Nat /\ DispatchFreshness \in Nat

VARIABLES
    clock,            \* wall clock, in seconds
    enabled, generation, transitioned_at,   \* Python's FeeAuthorityGate
    stateGen,         \* rust_fee_state_generation
    quarantine,       \* an active rust_execution_quarantine row exists
    pc,               \* where the authorizing task is
    now,              \* the `now` argument, sampled when the call was made
    sent,             \* when the fetch in flight was sent
    status,           \* Python's answer in flight (a set of at most one)
    first,            \* OpenBracket.first
    opened_at,        \* OpenBracket.opened_at
    candidate,        \* candidate_state_generation, then the bound generation
    minted_at,        \* LiveBatchAuthorization.minted_at
    onSince,          \* history: when Python was last switched on
    interrupted,      \* history: Python was on at some time since fetch #1
    offThroughout,    \* history: ~interrupted when fetch #2 was answered
    openGen           \* history: stateGen when the bracket opened

py   == <<enabled, generation, transitioned_at, onSince>>
env  == <<clock, stateGen, quarantine>>
task == <<pc, now, sent, status, first, opened_at, candidate, minted_at>>
hist == <<interrupted, offThroughout, openGen>>
vars == <<py, env, task, hist>>

Time   == 0..MaxTime
Epoch  == 0..MaxEpoch
Status == [enabled : BOOLEAN, generation : Epoch, transitioned_at : Time,
           observed_at : Time]
NoReading == [enabled |-> FALSE, generation |-> 0, transitioned_at |-> 0,
              observed_at |-> 0]
PCs    == {"idle", "opening", "open", "q_read", "gen_read", "gates", "closing",
           "minted", "dispatched"}

TypeOK ==
    /\ clock \in Time /\ stateGen \in Epoch /\ quarantine \in BOOLEAN
    /\ enabled \in BOOLEAN /\ generation \in Epoch /\ transitioned_at \in Time
    /\ pc \in PCs
    /\ now \in Time /\ sent \in Time /\ status \subseteq Status
    /\ first \in Status /\ opened_at \in Time /\ candidate \in Epoch
    /\ minted_at \in Time
    /\ onSince \in Time /\ interrupted \in BOOLEAN /\ offThroughout \in BOOLEAN
    /\ openGen \in Epoch

Init ==
    /\ clock = 0 /\ stateGen = 0 /\ quarantine = FALSE
    /\ enabled = TRUE /\ generation = 0 /\ transitioned_at = 0
    /\ pc = "idle" /\ now = 0 /\ sent = 0 /\ status = {}
    /\ first = NoReading
    /\ opened_at = 0 /\ candidate = 0 /\ minted_at = 0
    /\ onSince = 0 /\ interrupted = TRUE /\ offThroughout = FALSE /\ openGen = 0

-----------------------------------------------------------------------------
(* The environment *)

Tick ==
    /\ clock < MaxTime
    /\ clock' = clock + 1
    /\ UNCHANGED <<stateGen, quarantine, py, task, hist>>

\* The operator flips the switch: one generation per actual transition.
SetAuthority ==
    /\ generation < MaxEpoch
    /\ enabled' = ~enabled
    /\ generation' = generation + 1
    /\ transitioned_at' = clock
    /\ onSince' = IF enabled' THEN clock ELSE onSince
    /\ interrupted' = (interrupted \/ enabled')
    /\ UNCHANGED <<env, task, offThroughout, openGen>>

\* Python restarts: its gate is built enabled at generation 0, then the startup
\* option is applied.  A restart takes at least a second.
PythonRestart ==
    /\ clock > transitioned_at
    /\ enabled' \in BOOLEAN
    /\ generation' = IF enabled' THEN 0 ELSE 1
    /\ transitioned_at' = clock
    /\ onSince' = clock
    /\ interrupted' = TRUE
    /\ UNCHANGED <<env, task, offThroughout, openGen>>

\* A fee cycle commits (commit_fee_cycle bumps the generation).
CycleCommits ==
    /\ stateGen < MaxEpoch
    /\ stateGen' = stateGen + 1
    /\ UNCHANGED <<clock, quarantine, py, task, hist>>

\* Another batch quarantines, or the operator clears.
QuarantineChanges ==
    /\ quarantine' = ~quarantine
    /\ UNCHANGED <<clock, stateGen, py, task, hist>>

\* Python answers the fetch in flight with its current status.
PythonAnswers ==
    /\ pc \in {"opening", "closing"}
    /\ status = {}
    /\ status' = {[enabled |-> enabled, generation |-> generation,
                   transitioned_at |-> transitioned_at, observed_at |-> clock]}
    /\ IF pc = "opening"
       THEN interrupted' = enabled /\ UNCHANGED offThroughout
       ELSE offThroughout' = ~interrupted /\ UNCHANGED interrupted
    /\ UNCHANGED <<env, py, pc, now, sent, first, opened_at, candidate,
                   minted_at, openGen>>

-----------------------------------------------------------------------------
(* python_authority.rs *)

\* Disabled, and observed at most MaxAge before `now` and not after it.
validate_status(s) ==
    /\ ~s.enabled
    /\ now - s.observed_at \in 0..MaxAge

\* Mutant: only the generation identifies an epoch.
validate_stable_generation(s) ==
    /\ first.generation = s.generation
    /\ s.observed_at > first.observed_at

\* The second reading shows the first one's epoch, and is really later.
validate_stable_epoch(s) ==
    /\ first.generation = s.generation
    /\ first.transitioned_at = s.transitioned_at
    /\ s.observed_at > first.observed_at

\* The task ends: bracket, readings and authorization are consumed or dropped.
Deny ==
    /\ pc' = "idle" /\ now' = 0 /\ sent' = 0 /\ status' = {} /\ first' = NoReading
    /\ opened_at' = 0 /\ candidate' = 0 /\ minted_at' = 0

\* open_bracket: fetch #1 goes out.
OpenBracket ==
    /\ pc = "idle"
    /\ pc' = "opening"
    /\ now' = clock
    /\ sent' = clock
    /\ status' = {}
    /\ UNCHANGED <<env, py, first, opened_at, candidate, minted_at, hist>>

\* call_with_timeout: an answer within the budget, validated.
Fetched(s) ==
    /\ s \in status
    /\ clock - sent <= RpcTimeout
    /\ validate_status(s)

Opened ==
    /\ pc = "opening"
    /\ \E s \in status : Fetched(s) /\ first' = s
    /\ pc' = "open"
    /\ opened_at' = clock
    /\ openGen' = stateGen
    /\ UNCHANGED <<env, py, now, sent, status, candidate, minted_at,
                   interrupted, offThroughout>>

\* Transport error, timeout, unknown method, malformed or invalid status.
FetchDenied ==
    /\ pc \in {"opening", "closing"}
    /\ Deny
    /\ UNCHANGED <<env, py, hist>>

-----------------------------------------------------------------------------
(* LiveBatchAuthorization::authorize *)

\* The candidate was decided against some earlier (or the current) generation.
Authorize ==
    /\ pc = "open"
    /\ pc' = "q_read"
    /\ now' = clock
    /\ candidate' \in 0..stateGen
    /\ UNCHANGED <<env, py, sent, status, first, opened_at, minted_at, hist>>

QuarantineRead ==
    /\ pc = "q_read"
    /\ ~quarantine
    /\ pc' = "gen_read"
    /\ UNCHANGED <<env, py, now, sent, status, first, opened_at, candidate,
                   minted_at, hist>>

GenerationRead ==
    /\ pc = "gen_read"
    /\ candidate = stateGen
    /\ pc' = "gates"
    /\ UNCHANGED <<env, py, now, sent, status, first, opened_at, candidate,
                   minted_at, hist>>

\* A quarantine, a stale generation, a failed read, the governor, or no ledger
\* reservation.
AuthorizeDenied ==
    /\ pc \in {"q_read", "gen_read", "gates"}
    /\ Deny
    /\ UNCHANGED <<env, py, hist>>

\* close: a stale bracket is refused before fetch #2.
CloseRefused ==
    /\ pc = "gates"
    /\ \/ clock - opened_at > BracketLifetime
       \/ now - first.observed_at \notin 0..MaxAge
    /\ Deny
    /\ UNCHANGED <<env, py, hist>>

CloseBracket ==
    /\ pc = "gates"
    /\ clock - opened_at <= BracketLifetime
    /\ now - first.observed_at \in 0..MaxAge
    /\ pc' = "closing"
    /\ sent' = clock
    /\ status' = {}
    /\ UNCHANGED <<env, py, now, first, opened_at, candidate, minted_at, hist>>

\* Fetch #2 closes the bracket and the authorization exists.
Mint ==
    /\ pc = "closing"
    /\ \E s \in status : Fetched(s) /\ validate_stable_epoch(s)
    /\ pc' = "minted"
    /\ minted_at' = clock
    /\ UNCHANGED <<env, py, now, sent, status, first, opened_at, candidate, hist>>

-----------------------------------------------------------------------------
(* broadcast_batch, entry *)

\* Mutant: a parked authorization never goes stale.
DispatchParked ==
    /\ pc = "minted"
    /\ pc' = "dispatched"
    /\ UNCHANGED <<env, py, now, sent, status, first, opened_at, candidate,
                   minted_at, hist>>

Dispatch ==
    /\ pc = "minted"
    /\ clock - minted_at <= DispatchFreshness
    /\ pc' = "dispatched"
    /\ UNCHANGED <<env, py, now, sent, status, first, opened_at, candidate,
                   minted_at, hist>>

\* AuthorizationStale (or the task drops it); a dispatched batch returns.
Retire ==
    /\ pc \in {"minted", "dispatched"}
    /\ Deny
    /\ UNCHANGED <<env, py, hist>>

-----------------------------------------------------------------------------

Environment == Tick \/ SetAuthority \/ PythonRestart \/ CycleCommits
               \/ QuarantineChanges \/ PythonAnswers

Next ==
    \/ Environment
    \/ OpenBracket \/ Opened \/ FetchDenied
    \/ Authorize \/ QuarantineRead \/ GenerationRead \/ AuthorizeDenied
    \/ CloseRefused \/ CloseBracket \/ Mint
    \/ Dispatch \/ Retire

Spec == Init /\ [][Next]_vars

-----------------------------------------------------------------------------
(* Properties *)

\* Two readings of one epoch prove the interval between them: an authorization
\* exists only if Python's authority was off from fetch #1 to fetch #2, whatever
\* switches and restarts happened around them.
OffThroughoutBracket == pc \in {"minted", "dispatched"} => offThroughout

\* The window in which Python can have been switched back on behind a dispatched
\* authorization is capped by the fetch budget and the dispatch deadline.
DualAuthorityBounded ==
    [][pc = "minted" /\ pc' = "dispatched" /\ enabled
         => clock - onSince <= RpcTimeout + DispatchFreshness]_vars

\* The generation an authorization is bound to was current at some time after the
\* bracket opened.
GenerationIsRecent ==
    pc \in {"minted", "dispatched"} => candidate >= openGen /\ candidate <= stateGen

\* What an authorization that was minted or dispatched proves
\* (live_fee_batch_authorization): Python was off from the first fetch to the
\* second, and the generation it names is one of that window.
AuthorizationIsProven == TypeOK /\ OffThroughoutBracket /\ GenerationIsRecent
=============================================================================
