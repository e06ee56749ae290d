--------------------------- MODULE EventPipeline ---------------------------
(***************************************************************************)
(* The way of an event from the bridge to a turn of the front-door agent.  *)
(* The bridge is its promise (DeliveryPromise, which Outbox implements):   *)
(* it posts an event at least once.  The relay hands what it stored to the *)
(* subscribed harness in any order and, after a reconnect, again.  Other   *)
(* authors in the channel may quote the tag of any event.  EventGate lets  *)
(* an event start a turn.  The relay and the other authors are external.   *)
(***************************************************************************)
EXTENDS EventGate

VARIABLES
  status,   \* of each event, as the bridge's promise has it
  heard     \* events the relay accepted

promise == <<status, heard>>
pipe == <<promise, gvars>>

Bridge == INSTANCE DeliveryPromise WITH Events <- Events, status <- status, heard <- heard

\* What the relay may hand to the harness.
Reaches(author, e) == author = "bridge" => e \in heard

PipelineInit == Bridge!PInit /\ Init

PipelineNext ==
  \/ Bridge!PNext /\ UNCHANGED gvars
  \/ /\ \E author \in Authors, e \in Events :
          /\ Reaches(author, e)
          /\ Check(author, e) \/ CrashInCheck(author, e)
     /\ UNCHANGED promise
  \/ Restarts /\ UNCHANGED promise

PipelineSpec == PipelineInit /\ [][PipelineNext]_pipe

-----------------------------------------------------------------------------
\* A turn, and a place in the seen set, is only ever given to an event that
\* the bridge recorded and posted: a quoted tag neither starts a turn nor
\* uses up the id, so that the genuine notice is dropped when it comes.
OnlyPostedEvents ==
  \A i \in DOMAIN log : log[i].id \in heard /\ status[log[i].id] # "absent"
=============================================================================
