------------------------------- MODULE Runtime -------------------------------
(***************************************************************************)
(* The process around the owners: one observer loop, the lifecycle kernel, *)
(* notification intake with hydration, the retention sweep, the analytics  *)
(* passes and the startup snapshot.  They share no state, so they are      *)
(* put side by side: `part' names the one that moves.                      *)
(***************************************************************************)
EXTENDS LoopRuntime, Lifecycle, Intake, Retention, FlowPass

VARIABLE part

runtimeVars == <<part, loopVars, lifeVars, intakeVars, retVars, flowVars>>

RuntimeInit ==
  /\ part \in {"loop", "life", "intake", "retention", "flow", "peers"}
  /\ LoopInit /\ LifeInit /\ IntakeInit /\ RetInit /\ FlowInit
  /\ part # "flow" => conf.option = Unset
  /\ part \notin {"flow", "peers"} => \A s \in Scid : chan[s] = "gone"

LoopMoves == part = "loop" /\ UNCHANGED <<part, lifeVars, intakeVars, retVars, flowVars>>
LifeMoves == part = "life" /\ UNCHANGED <<part, loopVars, intakeVars, retVars, flowVars>>
IntakeMoves == part = "intake" /\ UNCHANGED <<part, loopVars, lifeVars, retVars, flowVars>>
RetMoves == part = "retention" /\ UNCHANGED <<part, loopVars, lifeVars, intakeVars, flowVars>>
FlowMoves == part = "flow" /\ UNCHANGED <<part, loopVars, lifeVars, intakeVars, retVars>>
PeersMove == part = "peers" /\ UNCHANGED <<part, loopVars, lifeVars, intakeVars, retVars>>

RuntimeNext ==
  \/ LoopMoves /\ LoopNext
  \/ LifeMoves /\ LifeNext
  \/ IntakeMoves /\ IntakeNext
  \/ RetMoves /\ RetNext
  \/ FlowMoves /\ FlowNext
  \/ PeersMove /\ PeersNext

\* Each part's own fairness: LoopFairness, LifeFairness, RetFairness and
\* FlowFairness.
RuntimeSpec ==
  /\ RuntimeInit /\ [][RuntimeNext]_runtimeVars
  /\ WF_runtimeVars(LoopMoves /\ OwnerStep)
  /\ \A q \in Requester : WF_runtimeVars(LoopMoves /\ RequesterStep(q))
  /\ WF_runtimeVars(LifeMoves /\ ShutdownReturns)
  /\ WF_runtimeVars(RetMoves /\ ScheduleSweep(TRUE))
  /\ WF_runtimeVars(RetMoves /\ (SweepBatch \/ SweepEnds))
  /\ WF_runtimeVars(RetMoves /\ SweepResult) /\ WF_runtimeVars(RetMoves /\ Tick)
  /\ WF_runtimeVars(FlowMoves /\ PassStep) /\ WF_runtimeVars(FlowMoves /\ CadenceSleeps)

\* What no step of the process does: begin a pass after the suspension is
\* durable, backfill without its overlap, sweep a row that has not expired,
\* drop the filter of a channel that is still there.  The sweep's counters and
\* cursor stay in their ranges.
StepsAreCareful ==
  /\ NoPassAfterMarker /\ BackfillOverlaps /\ SweepTakesOnlyExpired /\ FiltersOutliveStates
  /\ []RetTypeOK

\* What eventually happens: requests leave the queue, shutdown returns, every
\* table is swept or its loss is seen, and the cadence goes on.
NothingWedges ==
  RequestsLeaveQueue /\ ShutdownBounded /\ EveryTableIsSwept /\ LostSweepIsSeen /\ CadenceReturns
=============================================================================
