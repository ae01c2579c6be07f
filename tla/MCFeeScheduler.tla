--------------------------- MODULE MCFeeScheduler ---------------------------
(* Model checking FeeScheduler on two channels.                              *)
EXTENDS FeeScheduler, TLC
CONSTANTS c1, c2, o1, o2, n1, n2

MCChannelOf == [e \in Events |-> IF e \in {o1, n1} THEN c1 ELSE c2]
=============================================================================
