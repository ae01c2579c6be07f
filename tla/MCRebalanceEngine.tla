-------------------------- MODULE MCRebalanceEngine --------------------------
(* Model checking RebalanceEngine: the planner and the callers contend for     *)
(* one destination; the second source is the diagnostic's fallback.            *)
EXTENDS RebalanceEngine
OnePair == {<<"s1", "d1">>}
=============================================================================
