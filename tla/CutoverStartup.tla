--------------------------- MODULE CutoverStartup ---------------------------
(***************************************************************************)
(* How a starting process resolves its operating mode and, for live mode,   *)
(* burns a one-time cutover arm (crates/revops/src/main.rs,                  *)
(* resolve_startup_mode_kernel; cutover_arm.rs; fee_mode.rs).                *)
(*                                                                         *)
(* An arm is a file that carries a nonce.  Consuming it leaves two durable   *)
(* deny records: a row of rust_consumed_arm_nonces in the observer database  *)
(* and the file renamed (NOREPLACE) into the consumed directory.  Processes  *)
(* may overlap and die at any step; the operator may place an arm file again *)
(* (a copy, a restore); one of the two records may be lost or rolled back.   *)
(***************************************************************************)
EXTENDS Naturals, FiniteSets

CONSTANTS
    Procs,     \* processes that may start, concurrently or one after another
    Nonces     \* nonces of the arms the operator mints

Modes == {"passive", "shadow", "live", "invalid"}   \* what the four flags select

VARIABLES
    armFile,     \* nonce of the file at the arm path (a set of at most one)
    expired,     \* nonces whose arm is past expires_at
    dir,         \* the consumed directory
    ledger,      \* rust_consumed_arm_nonces
    store,       \* seed binding of the fee state: "virgin", "bound", "invalid"
    stage,       \* progress of each process through startup
    mode,        \* its resolved flags
    binding,     \* the seed binding it read at startup
    nonce,       \* nonce of its validated arm (a set of at most one)
    sessions,    \* history: live sessions granted per nonce
    ledgerLost, dirLost   \* history: this deny record was lost or rolled back

proc == <<stage, mode, binding, nonce>>
disk == <<armFile, expired, dir, ledger, store>>
lost == <<ledgerLost, dirLost>>
startupVars == <<armFile, expired, dir, ledger, store, stage, mode, binding,
                 nonce, sessions, ledgerLost, dirLost>>

Stages == {"down", "started", "validated", "burned", "renamed", "resolve",
           "live", "observer"}
Bindings == {"virgin", "bound", "invalid"}

StartupTypeOK ==
    /\ armFile \subseteq Nonces /\ expired \subseteq Nonces
    /\ dir \subseteq Nonces /\ ledger \subseteq Nonces
    /\ store \in Bindings
    /\ stage \in [Procs -> Stages]
    /\ mode \in [Procs -> Modes]
    /\ binding \in [Procs -> Bindings]
    /\ nonce \in [Procs -> SUBSET Nonces]
    /\ sessions \in [Nonces -> Nat]
    /\ ledgerLost \in BOOLEAN /\ dirLost \in BOOLEAN

StartupInit ==
    /\ armFile = {} /\ expired = {} /\ dir = {} /\ ledger = {}
    /\ store = "virgin"
    /\ stage = [p \in Procs |-> "down"]
    /\ mode = [p \in Procs |-> "passive"]
    /\ binding = [p \in Procs |-> "virgin"]
    /\ nonce = [p \in Procs |-> {}]
    /\ sessions = [n \in Nonces |-> 0]
    /\ ledgerLost = FALSE /\ dirLost = FALSE

-----------------------------------------------------------------------------
(* The operator, the disk and the power supply *)

\* An arm file appears at the configured path: freshly minted, or a copy of one
\* that was presented before.
PlaceArm(n) ==
    /\ armFile = {}
    /\ armFile' = {n}
    /\ UNCHANGED <<expired, dir, ledger, store, proc, sessions, lost>>

Expire(n) ==
    /\ expired' = expired \cup {n}
    /\ UNCHANGED <<armFile, dir, ledger, store, proc, sessions, lost>>

\* The observer database is replaced by a fresh one or restored from a backup.
\* Losing both records at once is outside the design's stated boundary.
LoseLedger ==
    /\ ~dirLost
    /\ ledgerLost' = TRUE
    /\ ledger' \in SUBSET ledger
    /\ store' \in {store, "virgin"}
    /\ UNCHANGED <<armFile, expired, dir, proc, sessions, dirLost>>

\* The consumed directory is wiped, repointed or restored.
LoseDir ==
    /\ ~ledgerLost
    /\ dirLost' = TRUE
    /\ dir' \in SUBSET dir
    /\ UNCHANGED <<armFile, expired, ledger, store, proc, sessions, ledgerLost>>

\* The process ends: denied (the plugin disables itself), killed, or stopped.
Down(p) ==
    /\ stage' = [stage EXCEPT ![p] = "down"]
    /\ mode' = [mode EXCEPT ![p] = "passive"]
    /\ binding' = [binding EXCEPT ![p] = "virgin"]
    /\ nonce' = [nonce EXCEPT ![p] = {}]

Exit(p) ==
    /\ stage[p] # "down"
    /\ Down(p)
    /\ UNCHANGED <<disk, sessions, lost>>

\* The machine loses power: a rename that was not followed by the directory
\* fsync may be undone.
PowerLoss ==
    /\ \E undone \in SUBSET {p \in Procs : stage[p] = "renamed"} :
          dir' = dir \ UNION {nonce[p] : p \in undone}
    /\ stage' = [p \in Procs |-> "down"]
    /\ mode' = [p \in Procs |-> "passive"]
    /\ binding' = [p \in Procs |-> "virgin"]
    /\ nonce' = [p \in Procs |-> {}]
    /\ UNCHANGED <<armFile, expired, ledger, store, sessions, lost>>

-----------------------------------------------------------------------------
(* resolve_startup_mode_kernel *)

\* Startup reads the flags and the store's seed binding.  Shadow and live mode
\* need the store; without one the process never gets as far as the arm.
Start(p) ==
    /\ stage[p] = "down"
    /\ \E m \in Modes : mode' = [mode EXCEPT ![p] = m]
    /\ binding' = [binding EXCEPT ![p] = store]
    /\ stage' = [stage EXCEPT ![p] = "started"]
    /\ UNCHANGED <<disk, nonce, sessions, lost>>

\* No arm path is configured.
NoArm(p) ==
    /\ stage[p] = "started"
    /\ stage' = [stage EXCEPT ![p] = "resolve"]
    /\ UNCHANGED <<disk, mode, binding, nonce, sessions, lost>>

\* validate: the file exists and its fields, owner and validity window hold.
\* Any refusal is the process's Exit.
Validate(p) ==
    /\ stage[p] = "started"
    /\ \E n \in armFile \ expired : nonce' = [nonce EXCEPT ![p] = {n}]
    /\ stage' = [stage EXCEPT ![p] = "validated"]
    /\ UNCHANGED <<disk, mode, binding, sessions, lost>>

\* Mutant: a nonce that is already in the ledger is burned again.
BurnAgain(p) ==
    /\ stage[p] = "validated"
    /\ ledger' = ledger \cup nonce[p]
    /\ stage' = [stage EXCEPT ![p] = "burned"]
    /\ UNCHANGED <<armFile, expired, dir, store, mode, binding, nonce, sessions, lost>>

\* insert_consumed_arm_nonce, INSERT OR IGNORE: durable before any rename; a
\* nonce that is already there is ReusedNonce.
Burn(p) ==
    /\ stage[p] = "validated"
    /\ nonce[p] \cap ledger = {}
    /\ ledger' = ledger \cup nonce[p]
    /\ stage' = [stage EXCEPT ![p] = "burned"]
    /\ UNCHANGED <<armFile, expired, dir, store, mode, binding, nonce, sessions, lost>>

\* consume, renameat2 with RENAME_NOREPLACE: whatever file is at the arm path
\* moves to consumed/<nonce>.
Rename(p) ==
    /\ stage[p] = "burned"
    /\ armFile # {}
    /\ nonce[p] \cap dir = {}
    /\ armFile' = {}
    /\ dir' = dir \cup nonce[p]
    /\ stage' = [stage EXCEPT ![p] = "renamed"]
    /\ UNCHANGED <<expired, ledger, store, mode, binding, nonce, sessions, lost>>

\* consume: fsync of the consumed directory.
Fsync(p) ==
    /\ stage[p] = "renamed"
    /\ stage' = [stage EXCEPT ![p] = "resolve"]
    /\ UNCHANGED <<disk, mode, binding, nonce, sessions, lost>>

\* validate_fee_mode, the live row of the matrix: an arm, and a store whose seed
\* binding is verified.
GoLive(p) ==
    /\ stage[p] = "resolve"
    /\ mode[p] = "live"
    /\ nonce[p] # {}
    /\ binding[p] = "bound"
    /\ stage' = [stage EXCEPT ![p] = "live"]
    /\ sessions' = [n \in Nonces |-> IF n \in nonce[p] THEN sessions[n] + 1
                                                      ELSE sessions[n]]
    /\ UNCHANGED <<disk, mode, binding, nonce, lost>>

\* The two observer rows: an arm is refused; shadow also refuses an unverified
\* seed binding.
GoObserver(p) ==
    /\ stage[p] = "resolve"
    /\ nonce[p] = {}
    /\ \/ mode[p] = "passive"
       \/ mode[p] = "shadow" /\ binding[p] \in {"virgin", "bound"}
    /\ stage' = [stage EXCEPT ![p] = "observer"]
    /\ UNCHANGED <<disk, mode, binding, nonce, sessions, lost>>

\* The first commit of a stateful shadow binds its seed, or (an out-of-cycle
\* commit) leaves a store without provenance.
FirstCommit(p) ==
    /\ stage[p] = "observer"
    /\ mode[p] = "shadow"
    /\ store = "virgin"
    /\ store' \in {"bound", "invalid"}
    /\ UNCHANGED <<armFile, expired, dir, ledger, proc, sessions, lost>>

-----------------------------------------------------------------------------

ProcStep(p) ==
    \/ Start(p) \/ NoArm(p) \/ Validate(p) \/ Burn(p) \/ Rename(p) \/ Fsync(p)
    \/ GoLive(p) \/ GoObserver(p) \/ FirstCommit(p) \/ Exit(p)

StartupNext ==
    \/ \E n \in Nonces : PlaceArm(n) \/ Expire(n)
    \/ LoseLedger \/ LoseDir \/ PowerLoss
    \/ \E p \in Procs : ProcStep(p)

StartupSpec == StartupInit /\ [][StartupNext]_startupVars

-----------------------------------------------------------------------------
(* Properties *)

\* A nonce grants at most one live session ever, across restarts, overlapping
\* processes, replayed arm files, crashes between the two records and the loss
\* of either of them.
ArmSingleUse == \A n \in Nonces : sessions[n] <= 1

\* After a session was granted, a durable deny record for its nonce survives the
\* loss of either store.
DenyRecordSurvives ==
    \A n \in Nonces : sessions[n] > 0 => n \in ledger \/ n \in dir

\* An arm is consumed once and for all (consume_arm and its two deny records).
ArmIsSpentForGood == StartupTypeOK /\ ArmSingleUse /\ DenyRecordSurvives
=============================================================================
