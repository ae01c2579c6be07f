--------------------------- MODULE MCFeeBroadcast ---------------------------
(* Model checking FeeBroadcast: one caller, and two concurrent callers.      *)
EXTENDS FeeBroadcast, TLC
CONSTANTS c1, c2, r1, r2, r3

\* Every slice of at most two request_ids, repetitions included: a slice of two
\* reaches "continue after a success", a repetition the UNIQUE constraint.
MCBatches == UNION {[1..n -> Requests] : n \in 0..2}

\* For two callers: every pair of different requests.
MCPairs == {b \in [1..2 -> Requests] : b[1] # b[2]}

Symmetry == Permutations(Callers) \cup Permutations(Requests)
=============================================================================
