---------------------------- MODULE ExecutionGate ----------------------------
(***************************************************************************)
(* What the live fee path promises, with no process, queue or database in   *)
(* sight: mutations go out one at a time, each at most once, and nothing is *)
(* sent while the outcome of an earlier one is open.  An outcome closes     *)
(* because it was recorded or because the operator settled it.              *)
(***************************************************************************)
CONSTANT Requests
VARIABLES open,   \* requests admitted for sending whose outcome is not settled
          sent    \* requests handed to the socket

gateVars == <<open, sent>>

GateInit == open = {} /\ sent = {}

\* A request is admitted: only when no outcome is open.
Admit(r) ==
    /\ open = {}
    /\ r \notin sent
    /\ open' = {r}
    /\ UNCHANGED sent

\* It is handed to the socket, for the first and last time.
Send(r) ==
    /\ open = {r}
    /\ r \notin sent
    /\ sent' = sent \cup {r}
    /\ UNCHANGED open

\* Its outcome is recorded, or the operator settles it.
Settle ==
    /\ open # {}
    /\ open' = {}
    /\ UNCHANGED sent

GateNext == Settle \/ \E r \in Requests : Admit(r) \/ Send(r)

GateSpec == GateInit /\ [][GateNext]_gateVars
=============================================================================
