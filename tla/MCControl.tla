----------------------------- MODULE MCControl -----------------------------
(* Small instances of Control for TLC.  Both agents work for the lab track; *)
(* the agents of a track that is never locked are left out.                *)
EXTENDS Control, TLC

InLab == [a \in Agents |-> "lab"]
LabLocks == {{}, {"lab"}}

AgentSymmetry == Permutations(Agents)

\* An override is one of the lab track, as the agents are.
LabOverrides ==
  mishaps' # mishaps => \A r \in policies' \ policies : r.track = "lab"

MCSpec == Init /\ [][Next /\ LabOverrides]_vars
=============================================================================
