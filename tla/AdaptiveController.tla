-------------------------- MODULE AdaptiveController -------------------------
(***************************************************************************)
(* opc_bridge/adaptive.py: the loop that moves the allocation one step     *)
(* when the measured share of core work stays away from it.  The state it  *)
(* keeps between ticks is the drift timer, in table meta.  measure is what *)
(* the run list yields: a share, or too few runs to say.                   *)
(***************************************************************************)
EXTENDS Integers

CONSTANTS
    Shares,      \* measured core shares, percent
    Thin,        \* insufficient samples
    Unset,       \* no drift_since, no drift_direction, no operator row
    Points,      \* adaptive_drift_points
    Step,        \* round(100 / slot_budget)
    Hold,        \* adaptive_hold_seconds, in ticks of the clock
    Start,       \* the core share the bridge starts with
    Choices,     \* core shares the operator may set
    MaxFailedApplies \* bound on allocations that fail half-way

ASSUME DriftAssumption == Hold \in Nat /\ Start \in 1..99 /\ Unset \notin Int

VARIABLES
    core,       \* the allocation in force without an operator row
    reading,    \* what measure returns for the present run list
    operator,   \* core share of the operator's row, or Unset
    since,      \* time since drift_since, up to Hold, or Unset
    direction,  \* drift_direction
    streak,     \* history: how long every tick has found this drift, up to Hold
    adjusted,   \* history: the streak behind the last adjustment
    failedApplies

driftVars == <<core, reading, operator, since, direction, streak, adjusted, failedApplies>>

Directions == {"core>measured", "core<measured"}

DriftInit ==
    /\ core = Start
    /\ reading \in Shares \cup {Thin}
    /\ operator = Unset
    /\ since = Unset
    /\ direction = Unset
    /\ streak = Unset
    /\ adjusted = Unset
    /\ failedApplies = 0

\* decide: one step, or nothing within tolerance or at a lock.
Gap(share) == share - core
Target(share) == IF Gap(share) > 0 THEN core - Step ELSE core + Step
Drifts(share) ==
    /\ Gap(share) > Points \/ Gap(share) < -Points
    /\ Target(share) \in 1..99

Direction(share) == IF share < core THEN "core>measured" ELSE "core<measured"

\* An operator's allocation row: the tick only forgets the timer.
TickSkipped ==
    /\ operator # Unset
    /\ since' = Unset
    /\ direction' = Unset
    /\ streak' = Unset
    /\ UNCHANGED <<core, reading, operator, adjusted, failedApplies>>

\* Too little evidence, or no drift: drift_since goes, drift_direction stays.
TickQuiet_BUG ==
    /\ operator = Unset
    /\ IF reading = Thin THEN TRUE ELSE ~Drifts(reading)
    /\ streak' = Unset
    /\ UNCHANGED <<core, reading, operator, since, direction, adjusted, failedApplies>>

TickQuiet ==
    /\ operator = Unset
    /\ IF reading = Thin THEN TRUE ELSE ~Drifts(reading)
    /\ since' = Unset
    /\ streak' = Unset
    /\ UNCHANGED <<core, reading, operator, direction, adjusted, failedApplies>>

TickTurn ==
    /\ operator = Unset
    /\ reading # Thin
    /\ Drifts(reading)
    /\ direction # Direction(reading)
    /\ direction' = Direction(reading)
    /\ since' = 0
    /\ streak' = 0
    /\ UNCHANGED <<core, reading, operator, adjusted, failedApplies>>

\* Every tick that finds the drift starts its timer again.
TickHold_BUG ==
    /\ operator = Unset
    /\ reading # Thin
    /\ Drifts(reading)
    /\ direction = Direction(reading)
    /\ IF since = Unset THEN Hold > 0 ELSE since < Hold
    /\ since' = IF since = Unset THEN Unset ELSE 0
    /\ streak' = IF streak = Unset THEN 0 ELSE streak
    /\ UNCHANGED <<core, reading, operator, direction, adjusted, failedApplies>>

\* With drift_direction kept and drift_since gone, the hold is measured from
\* this tick itself and nothing is written: the timer does not run.
TickHold ==
    /\ operator = Unset
    /\ reading # Thin
    /\ Drifts(reading)
    /\ direction = Direction(reading)
    /\ IF since = Unset THEN Hold > 0 ELSE since < Hold
    /\ streak' = IF streak = Unset THEN 0 ELSE streak
    /\ UNCHANGED <<core, reading, operator, since, direction, adjusted, failedApplies>>

\* The hold is over: apply_allocation is called with the new split.
HoldOver ==
    /\ operator = Unset
    /\ reading # Thin
    /\ Drifts(reading)
    /\ direction = Direction(reading)
    /\ IF since = Unset THEN Hold = 0 ELSE since >= Hold
    /\ adjusted' = streak
    /\ UNCHANGED reading

\* The timer is dropped, also when apply_allocation finds an operator's row
\* written meanwhile and leaves the split alone.
TickAdjust ==
    /\ HoldOver
    /\ \/ core' = Target(reading) /\ UNCHANGED operator
       \/ operator' \in Choices /\ UNCHANGED core
    /\ since' = Unset
    /\ direction' = Unset
    /\ streak' = Unset
    /\ UNCHANGED failedApplies

\* apply_allocation raises, before or after it wrote the split: the pass ends
\* and the timer runs on.
TickApplyFails ==
    /\ failedApplies < MaxFailedApplies
    /\ HoldOver
    /\ failedApplies' = failedApplies + 1
    /\ core' \in {core, Target(reading)}
    /\ UNCHANGED <<operator, since, direction, streak>>

DriftClock ==
    /\ (since # Unset /\ since < Hold) \/ (streak # Unset /\ streak < Hold)
    /\ since' = IF since = Unset \/ since = Hold THEN since ELSE since + 1
    /\ streak' = IF streak = Unset \/ streak = Hold THEN streak ELSE streak + 1
    /\ UNCHANGED <<core, reading, operator, direction, adjusted, failedApplies>>

\* The operator sets an allocation, or revokes the row.
OperatorSets(choice) ==
    /\ operator' = choice
    /\ UNCHANGED <<core, reading, since, direction, streak, adjusted, failedApplies>>

\* Runs finish and leave the window.
NewReading ==
    /\ reading' \in Shares \cup {Thin}
    /\ UNCHANGED <<core, operator, since, direction, streak, adjusted, failedApplies>>

DriftTick ==
    \/ TickSkipped \/ TickQuiet \/ TickTurn \/ TickHold
    \/ TickAdjust \/ TickApplyFails

DriftNext ==
    \/ DriftTick \/ DriftClock \/ NewReading
    \/ \E choice \in Choices \cup {Unset} : OperatorSets(choice)

DriftFairness ==
    /\ WF_driftVars(DriftClock)
    /\ WF_driftVars(DriftTick)

DriftSpec == DriftInit /\ [][DriftNext]_driftVars /\ DriftFairness

----------------------------------------------------------------------------

\* The loop never moves the allocation on noise: behind every adjustment the
\* same drift was found by every tick for hold_seconds, and no adjustment
\* takes a share to zero ("Drift, not noise", "Never a lock").
DriftHeld == adjusted \in {Unset, Hold} /\ core \in 1..99

\* A timer that runs does not run for ever: a drift in one direction that no
\* tick fails to find ends in an adjustment.
TimerEnds == \A d \in Directions : []<>~(since # Unset /\ direction = d)

\* A drift that stays is acted on: the measured split is not off by more than
\* drift_points, in one direction, for good (design section 12: "When the
\* measured split is more than OPC_ADAPTIVE_DRIFT_POINTS (15) away from the
\* intended one for OPC_ADAPTIVE_HOLD_SECONDS (1800), the controller moves").
Off(d) ==
    /\ operator = Unset
    /\ IF reading = Thin THEN FALSE ELSE Drifts(reading) /\ Direction(reading) = d

DriftActedOn == \A d \in Directions : []<>~Off(d)
=============================================================================
