-------------------------- MODULE DeliveryPromise --------------------------
(***************************************************************************)
(* What the event bridge promises about an event it has recorded: it is    *)
(* owed until it is told or dropped, it is only told after the relay       *)
(* accepted it, and it is never forgotten.  A settled event may be owed    *)
(* again (the bridge retries after an internal error), so it may be posted *)
(* more than once; recognising the repetition is the receiver's part.      *)
(***************************************************************************)
CONSTANTS Events

VARIABLES
  status,   \* of each event
  heard     \* events the relay accepted at least once

pvars == <<status, heard>>

Statuses == {"absent", "owed", "told", "dropped"}

PInit ==
  /\ status = [e \in Events |-> "absent"]
  /\ heard = {}

Become(e, s) == status' = [status EXCEPT ![e] = s]

Record(e) ==
  /\ status[e] = "absent"
  /\ Become(e, "owed") /\ UNCHANGED heard

Post(e) ==
  /\ status[e] = "owed"
  /\ heard' = heard \cup {e} /\ UNCHANGED status

Tell(e) ==
  /\ status[e] = "owed" /\ e \in heard
  /\ Become(e, "told") /\ UNCHANGED heard

Drop(e) ==
  /\ status[e] = "owed"
  /\ Become(e, "dropped") /\ UNCHANGED heard

Reopen(e) ==
  /\ status[e] \in {"told", "dropped"}
  /\ Become(e, "owed") /\ UNCHANGED heard

PNext == \E e \in Events : Record(e) \/ Post(e) \/ Tell(e) \/ Drop(e) \/ Reopen(e)

Spec == PInit /\ [][PNext]_pvars
=============================================================================
