---------------------------- MODULE FeeConvergence ----------------------------
(***************************************************************************)
(* One channel under a steady target (revops-fees/cycle.rs, the end of     *)
(* adjust_channel_fee): every cycle blends the fee toward the bounded      *)
(* target, damps the step, and then two gates may suppress it, the minimum *)
(* change and the gossip band.  What they suppress is remembered as the    *)
(* pending target, from which the next cycle blends; without it a channel  *)
(* whose blended step is smaller than a gate would never move.  The fee on *)
(* the channel is the code's own: nobody changes it by hand.               *)
(***************************************************************************)
EXTENDS FeeRails

CONSTANTS StartFees,   \* the fee on the channel at the start
          Goals,       \* the bounded targets
          Deviations,  \* posterior deviations that select a blend ratio
          LowFloor, HighCeiling

\* Fees, bounds and deviations are not negative.
ASSUME SteadyAssumption ==
    /\ StartFees \subseteq Nat /\ Goals \subseteq Nat /\ Deviations \subseteq Nat
    /\ LowFloor \in Nat /\ HighCeiling \in Nat

VARIABLES fee,      \* on the channel, and the last broadcast
          pending,  \* pending_target_ppm
          setting   \* [goal, std, prof, woke]: what stays as it is

steadyVars == <<fee, pending, setting>>

SteadyInit ==
    /\ fee \in StartFees
    /\ pending = 0
    /\ setting \in [goal : Goals, std : Deviations, prof : {"active", "conservative"}, woke : BOOLEAN]

\* Mutant: the pending target is dropped with the cycle that recorded it.
Forgotten(new) == 0

\* What a gate leaves for the next cycle.
Remembered(new) == IF new # fee THEN new ELSE 0

Anchor == BlendAnchor(pending, fee, setting.goal, fee, LowFloor, HighCeiling)

Blended(anchor) ==
    blend_fee_target(anchor, setting.goal, setting.woke, setting.std, setting.prof)

Damped(target) == apply_damped_fee_target(fee, target, setting.woke, setting.prof)

SuppressedByAGate(new) == AbsOf(new - fee) < MinChange(fee) \/ InGossipBand(new, fee)

\* One cycle; only the first after a wake uses the wake ratios.
SteadyCycle ==
    \E anchor \in {Anchor} : \E target \in {Blended(anchor)} : \E new \in {Damped(target)} :
        /\ IF SuppressedByAGate(new)
           THEN pending' = Remembered(new) /\ UNCHANGED fee
           ELSE fee' = new /\ pending' = 0
        /\ setting' = [setting EXCEPT !.woke = FALSE]

SteadyNext == SteadyCycle

-----------------------------------------------------------------------------
Near == \E g \in {setting.goal} : AbsOf(g - fee) * 100 <= fee * 5

(* The fee reaches the target as nearly as the gossip band asks, and stays:  *)
(* no combination of blend ratio, step cap and gates starves it.            *)
SteadyTargetIsReached == <>[]Near

(* A cycle brings the fee strictly nearer to a steady target, never past it, *)
(* and by no more than the step cap: a pending target kept from earlier      *)
(* cycles cannot make a step jump.                                          *)
StepsTowardTarget ==
    [][fee' # fee =>
          /\ AbsOf(setting.goal - fee') < AbsOf(setting.goal - fee)
          /\ (setting.goal - fee') * (setting.goal - fee) >= 0
          /\ AbsOf(fee' - fee) <= fee_step_cap(fee, setting.woke, setting.prof)]_steadyVars
===============================================================================
