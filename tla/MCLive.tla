------------------------------- MODULE MCLive -------------------------------
(***************************************************************************)
(* One run of the two parts whose timers must end: the recovery of the     *)
(* memory gateway and the drift timer of the adaptive loop.  They share no *)
(* state; `part` says which one moves.                                     *)
(***************************************************************************)
EXTENDS MCMemory, AdaptiveController

VARIABLE part

MCInit ==
    /\ part \in {"gateway", "drift"}
    /\ Init /\ DriftInit
    /\ part = "drift" => foreign = {} /\ command
    /\ part = "gateway" => reading = Thin

MCNext ==
    /\ UNCHANGED part
    /\ \/ part = "gateway" /\ Next /\ UNCHANGED driftVars
       \/ part = "drift" /\ DriftNext /\ UNCHANGED vars

\* The fairness of a part that does not move asks nothing: none of its fair
\* actions is possible where it starts.
DriftFair ==
    /\ WF_driftVars(part = "drift" /\ DriftClock)
    /\ WF_driftVars(part = "drift" /\ DriftTick)

MCSpec == MCInit /\ [][MCNext]_<<vars, driftVars, part>> /\ Fairness /\ DriftFair
=============================================================================
