----------------------------- MODULE MCEventGate -----------------------------
(* A small instance of EventGate, and what the design says of it.          *)
EXTENDS EventGate

\* Design, section 8: "a replayed event id never produces a second turn,
\* across restarts" - not even when the process is killed while it appends
\* an id to the seen file ("atomic append").
NeverSecondTurn == \A e \in Events : Cardinality(Turns(e)) <= 1
=============================================================================
