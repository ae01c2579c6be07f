---------------------------- MODULE MCFeeDecision ----------------------------
(***************************************************************************)
(* The fee decision for TLC: the long run of one channel with its twin      *)
(* records, and a channel under a steady target with the real numbers.      *)
(***************************************************************************)
EXTENDS FeeDecision, FeeConvergence

VARIABLE part   \* which of the two this behaviour is about

allVars == <<decisionVars, steadyVars, part>>

Behaviours ==
    { {"congestion", "refusal"}, {"change", "refusal"}, {"hand", "refusal"}, {"exploration"},
      {"policy", "refusal"}, {"vegas"},
      {"steady"}, {"steady", "refusal", "policy"} }

SteadyRests == fee = 0 /\ pending = 0 /\ setting = [goal |-> 0, std |-> 0, prof |-> "active", woke |-> FALSE]
ChannelRests == DecisionInit /\ chain = 0 /\ hist.env = {"vegas"}

MCInit ==
    \/ part = "channel" /\ DecisionInit /\ SteadyRests
    \/ part = "steady" /\ SteadyInit /\ ChannelRests

ChannelMoves == part = "channel" /\ UNCHANGED <<steadyVars, part>>
SteadyMoves == part = "steady" /\ UNCHANGED <<decisionVars, part>>

MCNext ==
    \/ ChannelMoves /\ DecisionNext
    \/ SteadyMoves /\ SteadyNext

MCSpec ==
    /\ MCInit /\ [][MCNext]_allVars
    /\ WF_allVars(ChannelMoves /\ CycleWhileAsleep)
    /\ WF_allVars(ChannelMoves /\ Tick)
    /\ WF_allVars(SteadyMoves /\ SteadyCycle)

\* How fees may move: an episode is bounded, a refresh rare, a step goes toward
\* the target.
MovesAreMeasured == EpisodeBounded /\ RefreshIsRare /\ StepsTowardTarget

\* A sleeping channel is evaluated again, and a steady target is reached.
FeesMoveOn == SleepEnds /\ SteadyTargetIsReached
==============================================================================
