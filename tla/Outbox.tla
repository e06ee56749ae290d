------------------------------- MODULE Outbox -------------------------------
(***************************************************************************)
(* The event bridge's transactional outbox (store.py) and the thread that  *)
(* drains it (deliver.py).  Producers insert a row per event; the delivery *)
(* thread claims the due rows, posts each one to a Buzz channel through    *)
(* the buzz CLI, and writes the outcome back.  Every store call commits on *)
(* its own, so the bridge may be killed between any two of them, and a     *)
(* post may reach the relay although the bridge sees a failure.            *)
(*                                                                         *)
(* Time is abstracted to two bits per event: its next_attempt_at has       *)
(* passed (due) and it is older than max_age_hours (old).                  *)
(***************************************************************************)
EXTENDS Naturals, FiniteSets

CONSTANTS
  Events,        \* event ids
  NoEvent,
  Channels,      \* Buzz channels
  NoChannel,
  Fallback,      \* cfg.fallback_channel, NoChannel when it is not configured
  Control,       \* the channel resolve_control_channel finds, if any
  MaxAttempts,   \* cfg.max_attempts
  BatchLimit,    \* rows one claim_due call may take
  StoreFaults,   \* TRUE: a store call of the delivery thread may raise
  MaxCrashes     \* bound on the number of crashes

ASSUME OutboxAssumption ==
  /\ NoEvent \notin Events
  /\ NoChannel \notin Channels
  /\ {Fallback, Control} \subseteq Channels \cup {NoChannel}
  /\ MaxAttempts \in Nat \ {0}
  /\ BatchLimit \in Nat \ {0}
  /\ StoreFaults \in BOOLEAN
  /\ MaxCrashes \in Nat

VARIABLES
  \* the deliveries and events tables, and the one meta key destinations need
  state,         \* deliveries.state; "absent" when there is no row
  attempts,      \* deliveries.attempts, saturating at MaxAttempts
  due,           \* events with next_attempt_at <= now
  lastError,     \* deliveries.last_error, by kind
  origin,        \* payload.origin_channel_id
  control,       \* meta.control_channel
  \* the world outside
  old,           \* events whose occurred_at is more than max_age_hours ago
  posted,        \* <<event, channel>> the relay accepted
  \* the process and its delivery thread
  up, crashes,
  step,          \* where run_once is
  batch,         \* claimed rows it has not started yet
  aged,          \* rows of the batch that are too old by run_once's clock reading
  cur,           \* the row it is working on
  chan,          \* the channel it is posting to
  why,           \* the reason the row is about to fail with
  abandoned      \* history: a batch was abandoned since the last boot

rows == <<state, attempts, due, lastError>>
thread == <<step, batch, aged, cur, chan, why>>
world == <<old, posted>>
process == <<up, crashes, abandoned>>
vars == <<rows, origin, control, world, process, thread>>

Final == {"sent", "fallback_sent", "failed", "expired"}
RowStates == {"absent", "pending", "sending"} \cup Final
Reasons == {"none", "relay", "not_member", "no_destination", "internal", "expired"}

\* Steps of run_once at which it holds an unfinished row, and at which it
\* has already written the row's outcome.
Working == {"expire", "send", "handle_failure", "mark_sent", "fallback",
            "mark_fallback", "fail"}
Closing == {"audit", "alert"}
Steps == {"idle", "next"} \cup Working \cup Closing

-----------------------------------------------------------------------------
(* Deliberate bugs.  Each operator whose name ends in _BUG is a slip one    *)
(* could make in the definition it is named after; a property is only      *)
(* worth its run if such a slip breaks it.                                 *)

\* INSERT OR REPLACE instead of INSERT OR IGNORE.
enqueue_event_BUG(e, ch) ==
  /\ state' = [state EXCEPT ![e] = "pending"]
  /\ due' = due \cup {e}
  /\ origin' = [origin EXCEPT ![e] = ch]
  /\ UNCHANGED <<attempts, lastError>>

\* A boot that leaves the in-flight rows alone.
recover_inflight_BUG == state

\* A boot that puts them in a state no query knows.
recover_inflight_typo_BUG == [e \in Events |-> IF state[e] = "sending" THEN "queued" ELSE state[e]]

\* next_attempt_at forgotten in the query.
claimable_BUG == {e \in Events : state[e] = "pending"}

\* One attempt too few.
attempts_exhausted_BUG(e) == attempts[e] + 2 >= MaxAttempts

-----------------------------------------------------------------------------
(* Store operations: each is one committed transaction.                    *)

\* INSERT OR IGNORE of the event together with its pending delivery.
enqueue_event(e, ch) ==
  /\ state[e] = "absent"
  /\ state' = [state EXCEPT ![e] = "pending"]
  /\ due' = due \cup {e}
  /\ origin' = [origin EXCEPT ![e] = ch]
  /\ UNCHANGED <<attempts, lastError>>

\* last_error is only overwritten when the caller has one.
finish_delivery(e, final, err) ==
  /\ state' = [state EXCEPT ![e] = final]
  /\ lastError' = [lastError EXCEPT ![e] = IF err = "none" THEN @ ELSE err]
  /\ UNCHANGED <<attempts, due>>

reschedule(e, err) ==
  /\ state' = [state EXCEPT ![e] = "pending"]
  /\ attempts' = [attempts EXCEPT ![e] = IF @ < MaxAttempts THEN @ + 1 ELSE @]
  /\ due' = due \ {e}
  /\ lastError' = [lastError EXCEPT ![e] = err]

recover_inflight == [e \in Events |-> IF state[e] = "sending" THEN "pending" ELSE state[e]]

claimable == {e \in Events : state[e] = "pending" /\ e \in due}

-----------------------------------------------------------------------------
(* Deliverer policy.                                                       *)

fallback_channel == IF Fallback # NoChannel THEN Fallback ELSE control

\* The ladder upside down.
destination_BUG(e) == IF fallback_channel # NoChannel THEN fallback_channel ELSE origin[e]

destination(e) == IF origin[e] # NoChannel THEN origin[e] ELSE fallback_channel

attempts_exhausted(e) == attempts[e] + 1 >= MaxAttempts

-----------------------------------------------------------------------------
Init ==
  /\ state = [e \in Events |-> "absent"]
  /\ attempts = [e \in Events |-> 0]
  /\ due = {}
  /\ lastError = [e \in Events |-> "none"]
  /\ origin = [e \in Events |-> NoChannel]
  /\ control = NoChannel
  /\ old = {} /\ posted = {}
  /\ up = FALSE /\ crashes = 0 /\ abandoned = FALSE
  /\ step = "idle" /\ batch = {} /\ aged = {}
  /\ cur = NoEvent /\ chan = NoChannel /\ why = "none"

\* The thread's locals between two rows.
NextRow ==
  /\ step' = "next" /\ cur' = NoEvent /\ chan' = NoChannel /\ why' = "none"
  /\ UNCHANGED <<batch, aged>>

ForgetBatch ==
  /\ step' = "idle" /\ batch' = {} /\ aged' = {}
  /\ cur' = NoEvent /\ chan' = NoChannel /\ why' = "none"

Goto(s) == step' = s /\ UNCHANGED <<batch, aged, cur>>

(* --- producers ---------------------------------------------------------- *)

\* The poller, the health monitor or a backfill records an event.  A
\* backfilled event may already be old.
Enqueue(e, ch) ==
  /\ up
  /\ enqueue_event(e, ch)
  /\ UNCHANGED <<control, world, process, thread>>

(* --- run_once ----------------------------------------------------------- *)

\* The clock is read once per batch, so aged is fixed here.  The rows come
\* in next_attempt_at order; with abstract time any of the due rows may be
\* the earliest ones.
ClaimDue(taken) ==
  /\ up /\ step = "idle"
  /\ claimable # {}
  /\ taken \subseteq claimable
  /\ \/ taken = claimable /\ Cardinality(claimable) <= BatchLimit
     \/ Cardinality(taken) = BatchLimit
  /\ state' = [e \in Events |-> IF e \in taken THEN "sending" ELSE state[e]]
  /\ batch' = taken
  /\ aged' = taken \cap old
  /\ step' = "next"
  /\ UNCHANGED <<attempts, due, lastError, origin, control, world, process, cur, chan, why>>

FinishBatch ==
  /\ step = "next" /\ batch = {}
  /\ step' = "idle" /\ aged' = {}
  /\ UNCHANGED <<rows, origin, control, world, process, batch, cur, chan, why>>

\* Start on a row: the age check, then the destination ladder.
Deliver(e) ==
  /\ step = "next" /\ e \in batch
  /\ batch' = batch \ {e} /\ cur' = e
  /\ \/ /\ e \in aged
        /\ step' = "expire" /\ UNCHANGED <<chan, why>>
     \/ /\ e \notin aged /\ destination(e) = NoChannel
        /\ step' = "fail" /\ why' = "no_destination" /\ UNCHANGED chan
     \/ /\ e \notin aged /\ destination(e) # NoChannel
        /\ step' = "send" /\ chan' = destination(e) /\ UNCHANGED why
  /\ UNCHANGED <<rows, origin, control, world, process, aged>>

MarkExpired ==
  /\ step = "expire"
  /\ finish_delivery(cur, "expired", "expired")
  /\ Goto("audit")
  /\ UNCHANGED <<origin, control, world, process, chan, why>>

Post == posted' = posted \cup {<<cur, chan>>} /\ UNCHANGED old

SendSucceeds ==
  /\ step = "send"
  /\ Post
  /\ Goto("mark_sent")
  /\ UNCHANGED <<rows, origin, control, process, chan, why>>

\* The CLI's exit status is ignored.
SendFails_BUG ==
  /\ step = "send"
  /\ Post \/ UNCHANGED world
  /\ Goto("mark_sent")
  /\ UNCHANGED <<rows, origin, control, process, chan, why>>

\* Timeout, relay error or unusable CLI output; the relay may nevertheless
\* have accepted the message.
SendFails ==
  /\ step = "send"
  /\ Post \/ UNCHANGED world
  /\ Goto("handle_failure")
  /\ UNCHANGED <<rows, origin, control, process, chan, why>>

\* "restricted: not a channel member": try the fallback channel, once.
SendRefused ==
  /\ step = "send"
  /\ \/ /\ fallback_channel \in {NoChannel, chan}
        /\ Goto("fail") /\ why' = "not_member" /\ UNCHANGED chan
     \/ /\ fallback_channel \notin {NoChannel, chan}
        /\ Goto("fallback") /\ chan' = fallback_channel /\ UNCHANGED why
  /\ UNCHANGED <<rows, origin, control, world, process>>

MarkSent ==
  /\ step = "mark_sent"
  /\ finish_delivery(cur, "sent", "none")
  /\ Goto("audit")
  /\ UNCHANGED <<origin, control, world, process, chan, why>>

FallbackSucceeds ==
  /\ step = "fallback"
  /\ Post
  /\ Goto("mark_fallback")
  /\ UNCHANGED <<rows, origin, control, process, chan, why>>

FallbackFails ==
  /\ step = "fallback"
  /\ Post \/ UNCHANGED world
  /\ Goto("fail") /\ why' = "not_member"
  /\ UNCHANGED <<rows, origin, control, process, chan>>

MarkFallback ==
  /\ step = "mark_fallback"
  /\ finish_delivery(cur, "fallback_sent", "none")
  /\ Goto("audit")
  /\ UNCHANGED <<origin, control, world, process, chan, why>>

\* Back off, or give up once the attempts are used up.
HandleFailure ==
  /\ step = "handle_failure"
  /\ \/ /\ ~attempts_exhausted(cur)
        /\ reschedule(cur, "relay")
        /\ NextRow
     \/ /\ attempts_exhausted(cur)
        /\ Goto("fail") /\ why' = "relay"
        /\ UNCHANGED <<rows, chan>>
  /\ UNCHANGED <<origin, control, world, process>>

MarkFailed ==
  /\ step = "fail"
  /\ finish_delivery(cur, "failed", why)
  /\ Goto("audit")
  /\ UNCHANGED <<origin, control, world, process, chan, why>>

\* Only a row that ran out of attempts goes on to alert the operator, and
\* only through the configured fallback channel.  The alert is a message
\* without an event id; what matters here is that sending it may raise after
\* the row is final.
Audit ==
  /\ step = "audit"
  /\ IF why = "relay" /\ Fallback # NoChannel
       THEN Goto("alert") /\ UNCHANGED <<chan, why>>
       ELSE NextRow
  /\ UNCHANGED <<rows, origin, control, world, process>>

Alert ==
  /\ step = "alert"
  /\ NextRow
  /\ UNCHANGED <<rows, origin, control, process, world>>

\* Something other than a BuzzError: run_once catches it and reschedules
\* the row, whatever was written about it before.  It comes from the CLI
\* runner or its output (possibly after the relay accepted the message) or,
\* with StoreFaults, from a store call.
CliRaises == step \in {"send", "fallback", "alert"}
StoreRaises == StoreFaults /\ step \in (Working \cup Closing) \ {"send", "fallback", "alert"}

\* The message the CLI was posting when it raised may have got through.
PerhapsPosted ==
  \/ step \in {"send", "fallback"} /\ Post
  \/ UNCHANGED world

InternalError ==
  /\ CliRaises \/ StoreRaises
  /\ PerhapsPosted
  /\ reschedule(cur, "internal")
  /\ NextRow
  /\ UNCHANGED <<origin, control, process>>

\* The handler's own store call raises too: run_once is abandoned with the
\* rest of its batch still claimed.
AbandonBatch ==
  /\ StoreFaults
  /\ step \in Working \cup Closing
  /\ PerhapsPosted
  /\ ForgetBatch
  /\ abandoned' = TRUE
  /\ UNCHANGED <<rows, origin, control, up, crashes>>

(* --- process ------------------------------------------------------------ *)

Crash ==
  /\ up /\ crashes < MaxCrashes
  /\ up' = FALSE /\ crashes' = crashes + 1
  /\ ForgetBatch
  /\ UNCHANGED <<rows, origin, control, world, abandoned>>

\* main(): in-flight rows become pending again, then the control channel is
\* resolved, which may fail; a channel found once is kept.
Boot ==
  /\ ~up
  /\ up' = TRUE /\ abandoned' = FALSE
  /\ state' = recover_inflight
  /\ control' \in {control, Control}
  /\ UNCHANGED <<attempts, due, lastError, origin, world, crashes, thread>>

(* --- time --------------------------------------------------------------- *)

BecomeDue(e) ==
  /\ state[e] # "absent" /\ e \notin due
  /\ due' = due \cup {e}
  /\ UNCHANGED <<state, attempts, lastError, origin, control, world, process, thread>>

GrowOld(e) ==
  /\ e \notin old
  /\ old' = old \cup {e}
  /\ UNCHANGED <<rows, origin, control, posted, process, thread>>

-----------------------------------------------------------------------------
RunOnce ==
  \/ \E taken \in SUBSET Events : ClaimDue(taken)
  \/ FinishBatch
  \/ \E e \in Events : Deliver(e)
  \/ MarkExpired
  \/ SendSucceeds \/ SendFails \/ SendRefused
  \/ MarkSent
  \/ FallbackSucceeds \/ FallbackFails \/ MarkFallback
  \/ HandleFailure \/ MarkFailed
  \/ Audit \/ Alert
  \/ InternalError \/ AbandonBatch

Clock == \E e \in Events : BecomeDue(e) \/ GrowOld(e)

Produce == \E e \in Events, ch \in Channels \cup {NoChannel} : Enqueue(e, ch)

Next == RunOnce \/ Produce \/ Crash \/ Boot \/ Clock

Spec == Init /\ [][Next]_vars

\* The delivery loop never stops while the process is up, the container is
\* restarted after a crash, and time passes.  Nothing is assumed of the
\* relay: every send may fail.
Fairness ==
  /\ WF_vars(RunOnce)
  /\ WF_vars(Boot)
  /\ \A e \in Events : WF_vars(BecomeDue(e)) /\ WF_vars(GrowOld(e))

FairSpec == Spec /\ Fairness
-----------------------------------------------------------------------------
TypeOK ==
  /\ state \in [Events -> RowStates]
  /\ attempts \in [Events -> 0..MaxAttempts]
  /\ due \subseteq Events
  /\ lastError \in [Events -> Reasons]
  /\ origin \in [Events -> Channels \cup {NoChannel}]
  /\ control \in Channels \cup {NoChannel}
  /\ old \subseteq Events
  /\ posted \subseteq Events \X Channels
  /\ up \in BOOLEAN
  /\ crashes \in 0..MaxCrashes
  /\ step \in Steps
  /\ batch \subseteq Events
  /\ aged \subseteq Events
  /\ cur \in Events \cup {NoEvent}
  /\ chan \in Channels \cup {NoChannel}
  /\ why \in Reasons
  /\ abandoned \in BOOLEAN

(***************************************************************************)
(* Safety.                                                                 *)
(***************************************************************************)

\* An event marked sent was accepted by the relay in the channel its ticket
\* came from; only an event without an origin goes anywhere else.  One
\* marked fallback_sent was accepted in some other channel than that one.
\* (_deliver and _fallback choose the channel, mark_sent and mark_fallback
\* run steps later, across retries, restarts and re-resolved channels.)
Heard(e) == \E ch \in Channels : <<e, ch>> \in posted

ToldWherePromised ==
  \A e \in Events :
    /\ state[e] = "sent" =>
         IF origin[e] # NoChannel THEN <<e, origin[e]>> \in posted ELSE Heard(e)
    /\ state[e] = "fallback_sent" =>
         \E ch \in Channels \ {origin[e]} : <<e, ch>> \in posted

\* Every row in state sending is in the delivery thread's hands: no failure
\* of one row, and no restart, leaves another row claimed by nobody, which
\* claim_due would never pick up again.  The exception is a batch abandoned
\* because the error handler's own store call failed; a boot ends it.
InHand == batch \cup (IF step \in Working THEN {cur} ELSE {})

NoStrandedRow ==
  up /\ ~abandoned => {e \in Events : state[e] = "sending"} = InHand

\* A row is never worked on before its next_attempt_at, not even after a
\* restart put the in-flight rows back to pending.
BackoffRespected == \A e \in Events : state[e] = "sending" => e \in due

\* A row only ends up failed for a reason that justifies it: the relay
\* refused it for the last permitted attempt, or it had nowhere to go and
\* still names no channel of its own.
FailsForCause ==
  \A e \in Events : state[e] = "failed" =>
    \/ lastError[e] = "relay" /\ attempts[e] >= MaxAttempts - 1
    \/ lastError[e] = "not_member" /\ destination(e) # NoChannel
    \/ lastError[e] = "no_destination" /\ origin[e] = NoChannel /\ Fallback = NoChannel

\* The outcome of a row the thread is no longer working on never changes:
\* no restart, no second enqueue and no other row's failure re-opens it.
FinalStays ==
  [][\A e \in Events : state[e] \in Final /\ e # cur => state'[e] = state[e]]_vars

(***************************************************************************)
(* Liveness: every recorded event is settled in the end, delivered or      *)
(* given up, even if no send ever succeeds and even if handling it always  *)
(* raises (it then expires).                                               *)
(***************************************************************************)
EverySettles == \A e \in Events : state[e] = "pending" ~> state[e] \in Final

(***************************************************************************)
(* What the outbox promises, without batches, attempts and threads.        *)
(***************************************************************************)
StatusOf(s) ==
  CASE s = "absent" -> "absent"
    [] s \in {"pending", "sending"} -> "owed"
    [] s \in {"sent", "fallback_sent"} -> "told"
    [] OTHER -> "dropped"

status == [e \in Events |-> StatusOf(state[e])]

heard == {e \in Events : Heard(e)}

Promise == INSTANCE DeliveryPromise WITH Events <- Events, status <- status, heard <- heard

\* The outbox implements the delivery promise.
KeepsPromise == Promise!Spec

(***************************************************************************)
(* A statement of the source that the code does not keep.                  *)
(***************************************************************************)

\* deliver.py: an internal error is to "back off, then fail loudly via the
\* attempt cap", so no row is put back once its attempts are used up.
AttemptCap == \A e \in Events : state[e] = "pending" => attempts[e] < MaxAttempts
=============================================================================
