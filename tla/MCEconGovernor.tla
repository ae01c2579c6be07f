--------------------------- MODULE MCEconGovernor ---------------------------
EXTENDS EconGovernor

MCTypeOf == [i \in Intent |-> CASE i = "reb" -> "REBALANCE"
                                [] i = "close" -> "CLOSE_CHANNEL"]
MCTargetOf == [i \in Intent |-> "chan"]
MCRidOf == [i \in Intent |-> "gov"]
\* Legacy rows drain in the direct runs only, which are the smaller ones.
MCInit == GovernedInit /\ (route = "governed" => \A l \in LegacyRid : legacy[l] = NoRow)
MCSpec == MCInit /\ [][GovernedNext]_vars /\ GovernedFairness
MCCostOf == [i \in Intent |-> IF i = "reb" THEN 1 ELSE 0]
=============================================================================
