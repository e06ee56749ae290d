------------------------------ MODULE MCOutbox ------------------------------
(* Small instances of Outbox for TLC.                                      *)
EXTENDS Outbox, TLC

EventSymmetry == Permutations(Events)
=============================================================================
