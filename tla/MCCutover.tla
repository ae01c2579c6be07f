------------------------------ MODULE MCCutover ------------------------------
(***************************************************************************)
(* Model checking of the two halves of a cutover: the authorization of one  *)
(* live batch against Python's authority gate, and the arm that lets a      *)
(* process start live at all.  They share no state in the code, so a        *)
(* behaviour plays one of them and the other rests in its initial state.    *)
(***************************************************************************)
EXTENDS FeeAuthorization, CutoverStartup, TLC
CONSTANTS p1, p2, n1, n2

Symmetry == Permutations(Procs) \cup Permutations(Nonces)

VARIABLE half

MCInit == Init /\ StartupInit /\ half \in {"authorization", "startup"}
MCNext ==
    /\ UNCHANGED half
    /\ \/ half = "authorization" /\ Next /\ UNCHANGED startupVars
       \/ half = "startup" /\ StartupNext /\ UNCHANGED vars
MCSpec == MCInit /\ [][MCNext]_<<vars, startupVars, half>>
=============================================================================
