---------------------------- MODULE OutboxProofs ----------------------------
(***************************************************************************)
(* The safety properties of the outbox, proved for every number of events, *)
(* channels, attempts, batch size and crashes, with and without a fallback *)
(* channel and with and without faulty store calls.                        *)
(***************************************************************************)
EXTENDS Outbox, TLAPS

\* What the thread's position says about the rows: it owns its batch and
\* its current row, and forgets both when it stops.
ThreadInv ==
  /\ ~up => step = "idle"
  /\ step = "idle" => batch = {}
  /\ step \in {"idle", "next"} <=> cur = NoEvent
  /\ cur \notin batch
  /\ \A e \in batch : state[e] = "sending"
  /\ step \in Working => state[cur] = "sending"
  /\ step \in Closing => state[cur] \in Final
  /\ \A e \in Events : state[e] = "sending" => e \in due
  /\ up /\ ~abandoned =>
       \A e \in Events : state[e] = "sending" => e \in batch \/ e = cur

\* What its position says about the channel it is posting to.
ChannelInv ==
  /\ step \in {"send", "mark_sent"} =>
       chan \in Channels /\ (origin[cur] # NoChannel => chan = origin[cur])
  /\ step \in {"fallback", "mark_fallback"} => chan \in Channels \ {origin[cur]}
  /\ step \in {"mark_sent", "mark_fallback"} => <<cur, chan>> \in posted
  /\ ToldWherePromised

\* What it says about the reason the row may fail for.
CauseInv ==
  /\ step \in {"send", "handle_failure", "fallback"} => destination(cur) # NoChannel
  /\ step = "fail" =>
       \/ why = "relay" /\ attempts_exhausted(cur)
       \/ why = "not_member" /\ destination(cur) # NoChannel
       \/ why = "no_destination" /\ origin[cur] = NoChannel /\ Fallback = NoChannel
  /\ control \in {NoChannel, Control}
  /\ FailsForCause

-----------------------------------------------------------------------------
\* Store calls keep the types of the tables.
LEMMA FinishTypes ==
  ASSUME TypeOK, NEW e, NEW final \in RowStates, NEW err \in Reasons,
         finish_delivery(e, final, err)
  PROVE  /\ state' \in [Events -> RowStates] /\ lastError' \in [Events -> Reasons]
         /\ attempts' \in [Events -> 0..MaxAttempts] /\ due' \subseteq Events
  BY DEF TypeOK, finish_delivery

\* A row that is put back keeps its types.
LEMMA RescheduleTypes ==
  ASSUME TypeOK, NEW e, NEW err \in Reasons, reschedule(e, err)
  PROVE  /\ state' \in [Events -> RowStates] /\ lastError' \in [Events -> Reasons]
         /\ attempts' \in [Events -> 0..MaxAttempts] /\ due' \subseteq Events
  <1>1. attempts' \in [Events -> 0..MaxAttempts]
    <2>1. attempts \in [Events -> 0..MaxAttempts] /\ MaxAttempts \in Nat
      BY OutboxAssumption DEF TypeOK
    <2>2. \A x \in Events :
            (IF attempts[x] < MaxAttempts THEN attempts[x] + 1 ELSE attempts[x]) \in 0..MaxAttempts
      BY <2>1
    <2>3. attempts' = [x \in Events |->
            IF x = e THEN IF attempts[x] < MaxAttempts THEN attempts[x] + 1 ELSE attempts[x]
                     ELSE attempts[x]]
      BY <2>1, Zenon DEF reschedule
    <2>. QED
      BY <2>1, <2>2, <2>3
  <1>. QED
    BY <1>1 DEF TypeOK, reschedule, RowStates

\* No step of the bridge, its environment or its clock leaves the types.
LEMMA TypeStep ==
  ASSUME TypeOK, ThreadInv, ChannelInv, [Next]_vars
  PROVE  TypeOK'
<1>. USE OutboxAssumption DEF TypeOK, RowStates, Final, Reasons, Steps, Working, Closing, rows, world, process, thread
<1>1. ASSUME NEW taken \in SUBSET Events, ClaimDue(taken)
      PROVE  TypeOK'
  BY <1>1 DEF ClaimDue, claimable
<1>2. ASSUME FinishBatch
      PROVE  TypeOK'
  BY <1>2 DEF FinishBatch
<1>3. ASSUME NEW e \in Events, Deliver(e)
      PROVE  TypeOK'
  BY <1>3 DEF Deliver, destination, fallback_channel
<1>4. ASSUME MarkExpired
      PROVE  TypeOK'
  BY <1>4, FinishTypes DEF MarkExpired, Goto
<1>5. ASSUME SendSucceeds
      PROVE  TypeOK'
  BY <1>5 DEF SendSucceeds, Post, Goto, ThreadInv, ChannelInv
<1>6. ASSUME SendFails
      PROVE  TypeOK'
  BY <1>6 DEF SendFails, Post, Goto, ThreadInv, ChannelInv
<1>7. ASSUME SendRefused
      PROVE  TypeOK'
  BY <1>7 DEF SendRefused, Goto, fallback_channel
<1>8. ASSUME MarkSent
      PROVE  TypeOK'
  BY <1>8, FinishTypes DEF MarkSent, Goto
<1>9. ASSUME FallbackSucceeds
      PROVE  TypeOK'
  BY <1>9 DEF FallbackSucceeds, Post, Goto, ThreadInv, ChannelInv
<1>10. ASSUME FallbackFails
      PROVE  TypeOK'
  BY <1>10 DEF FallbackFails, Post, Goto, ThreadInv, ChannelInv
<1>11. ASSUME MarkFallback
      PROVE  TypeOK'
  BY <1>11, FinishTypes DEF MarkFallback, Goto
<1>12. ASSUME HandleFailure
      PROVE  TypeOK'
  BY <1>12, RescheduleTypes DEF HandleFailure, NextRow, Goto
<1>13. ASSUME MarkFailed
      PROVE  TypeOK'
  BY <1>13, FinishTypes DEF MarkFailed, Goto
<1>14. ASSUME Audit
      PROVE  TypeOK'
  BY <1>14 DEF Audit, Goto, NextRow
<1>15. ASSUME Alert
      PROVE  TypeOK'
  BY <1>15 DEF Alert, NextRow, ThreadInv
<1>16. ASSUME InternalError
      PROVE  TypeOK'
  BY <1>16, RescheduleTypes DEF InternalError, CliRaises, StoreRaises, PerhapsPosted, Post, NextRow, ThreadInv, ChannelInv
<1>17. ASSUME AbandonBatch
      PROVE  TypeOK'
  BY <1>17 DEF AbandonBatch, PerhapsPosted, Post, ForgetBatch, ThreadInv, ChannelInv
<1>18. ASSUME NEW e \in Events, NEW ch \in Channels \cup {NoChannel}, Enqueue(e, ch)
      PROVE  TypeOK'
  BY <1>18 DEF Enqueue, enqueue_event
<1>19. ASSUME Crash
      PROVE  TypeOK'
  <2>1. crashes' \in 0..MaxCrashes
    BY <1>19, OutboxAssumption DEF Crash, TypeOK
  <2>. QED
    BY <1>19, <2>1 DEF Crash, ForgetBatch
<1>20. ASSUME Boot
      PROVE  TypeOK'
  BY <1>20 DEF Boot, recover_inflight
<1>21. ASSUME NEW e \in Events, BecomeDue(e)
      PROVE  TypeOK'
  BY <1>21 DEF BecomeDue
<1>22. ASSUME NEW e \in Events, GrowOld(e)
      PROVE  TypeOK'
  BY <1>22 DEF GrowOld
<1>23. CASE UNCHANGED vars
  BY <1>23 DEF vars
<1>. QED
  BY <1>1, <1>2, <1>3, <1>4, <1>5, <1>6, <1>7, <1>8, <1>9, <1>10, <1>11, <1>12, <1>13, <1>14, <1>15, <1>16, <1>17, <1>18, <1>19, <1>20, <1>21, <1>22, <1>23 DEF Next, RunOnce, Produce, Clock

\* The thread owns exactly what it claimed and has not finished.
LEMMA ThreadStep ==
  ASSUME TypeOK, ThreadInv, [Next]_vars
  PROVE  ThreadInv'
<1>. USE OutboxAssumption DEF TypeOK, ThreadInv, RowStates, Final, Steps, Working, Closing, rows, world, process, thread
<1>1. ASSUME NEW taken \in SUBSET Events, ClaimDue(taken)
      PROVE  ThreadInv'
  BY <1>1 DEF ClaimDue, claimable
<1>2. ASSUME FinishBatch
      PROVE  ThreadInv'
  BY <1>2 DEF FinishBatch
<1>3. ASSUME NEW e \in Events, Deliver(e)
      PROVE  ThreadInv'
  BY <1>3 DEF Deliver, destination, fallback_channel
<1>4. ASSUME MarkExpired
      PROVE  ThreadInv'
  BY <1>4 DEF MarkExpired, finish_delivery, Goto
<1>5. ASSUME SendSucceeds
      PROVE  ThreadInv'
  BY <1>5 DEF SendSucceeds, Post, Goto
<1>6. ASSUME SendFails
      PROVE  ThreadInv'
  BY <1>6 DEF SendFails, Post, Goto, world
<1>7. ASSUME SendRefused
      PROVE  ThreadInv'
  BY <1>7 DEF SendRefused, Goto, fallback_channel
<1>8. ASSUME MarkSent
      PROVE  ThreadInv'
  BY <1>8 DEF MarkSent, finish_delivery, Goto
<1>9. ASSUME FallbackSucceeds
      PROVE  ThreadInv'
  BY <1>9 DEF FallbackSucceeds, Post, Goto
<1>10. ASSUME FallbackFails
      PROVE  ThreadInv'
  BY <1>10 DEF FallbackFails, Post, Goto
<1>11. ASSUME MarkFallback
      PROVE  ThreadInv'
  BY <1>11 DEF MarkFallback, finish_delivery, Goto
<1>12. ASSUME HandleFailure
      PROVE  ThreadInv'
  BY <1>12 DEF HandleFailure, reschedule, NextRow, Goto, attempts_exhausted
<1>13. ASSUME MarkFailed
      PROVE  ThreadInv'
  BY <1>13 DEF MarkFailed, finish_delivery, Goto
<1>14. ASSUME Audit
      PROVE  ThreadInv'
  BY <1>14 DEF Audit, Goto, NextRow
<1>15. ASSUME Alert
      PROVE  ThreadInv'
  BY <1>15 DEF Alert, NextRow
<1>16. ASSUME InternalError
      PROVE  ThreadInv'
  BY <1>16 DEF InternalError, CliRaises, StoreRaises, PerhapsPosted, Post, reschedule, NextRow
<1>17. ASSUME AbandonBatch
      PROVE  ThreadInv'
  BY <1>17 DEF AbandonBatch, PerhapsPosted, Post, ForgetBatch
<1>18. ASSUME NEW e \in Events, NEW ch \in Channels \cup {NoChannel}, Enqueue(e, ch)
      PROVE  ThreadInv'
  BY <1>18 DEF Enqueue, enqueue_event
<1>19. ASSUME Crash
      PROVE  ThreadInv'
  BY <1>19 DEF Crash, ForgetBatch
<1>20. ASSUME Boot
      PROVE  ThreadInv'
  BY <1>20 DEF Boot, recover_inflight
<1>21. ASSUME NEW e \in Events, BecomeDue(e)
      PROVE  ThreadInv'
  BY <1>21 DEF BecomeDue
<1>22. ASSUME NEW e \in Events, GrowOld(e)
      PROVE  ThreadInv'
  BY <1>22 DEF GrowOld
<1>23. CASE UNCHANGED vars
  BY <1>23 DEF vars
<1>. QED
  BY <1>1, <1>2, <1>3, <1>4, <1>5, <1>6, <1>7, <1>8, <1>9, <1>10, <1>11, <1>12, <1>13, <1>14, <1>15, <1>16, <1>17, <1>18, <1>19, <1>20, <1>21, <1>22, <1>23 DEF Next, RunOnce, Produce, Clock

\* The channel the thread posts to is the one the event's origin calls for.
LEMMA ChannelStep ==
  ASSUME TypeOK, ThreadInv, ChannelInv, [Next]_vars
  PROVE  ChannelInv'
<1>. USE OutboxAssumption DEF TypeOK, ThreadInv, ChannelInv, ToldWherePromised, Heard, RowStates, Final, Steps, Working, Closing, rows, world, process, thread
<1>1. ASSUME NEW taken \in SUBSET Events, ClaimDue(taken)
      PROVE  ChannelInv'
  BY <1>1 DEF ClaimDue, claimable
<1>2. ASSUME FinishBatch
      PROVE  ChannelInv'
  BY <1>2 DEF FinishBatch
<1>3. ASSUME NEW e \in Events, Deliver(e)
      PROVE  ChannelInv'
  BY <1>3 DEF Deliver, destination, fallback_channel
<1>4. ASSUME MarkExpired
      PROVE  ChannelInv'
  BY <1>4 DEF MarkExpired, finish_delivery, Goto
<1>5. ASSUME SendSucceeds
      PROVE  ChannelInv'
  BY <1>5 DEF SendSucceeds, Post, Goto
<1>6. ASSUME SendFails
      PROVE  ChannelInv'
  BY <1>6 DEF SendFails, Post, Goto, world
<1>7. ASSUME SendRefused
      PROVE  ChannelInv'
  BY <1>7 DEF SendRefused, Goto, fallback_channel
<1>8. ASSUME MarkSent
      PROVE  ChannelInv'
  BY <1>8 DEF MarkSent, finish_delivery, Goto
<1>9. ASSUME FallbackSucceeds
      PROVE  ChannelInv'
  BY <1>9 DEF FallbackSucceeds, Post, Goto
<1>10. ASSUME FallbackFails
      PROVE  ChannelInv'
  BY <1>10 DEF FallbackFails, Post, Goto
<1>11. ASSUME MarkFallback
      PROVE  ChannelInv'
  BY <1>11 DEF MarkFallback, finish_delivery, Goto
<1>12. ASSUME HandleFailure
      PROVE  ChannelInv'
  <2>1. cur \in Events /\ state[cur] = "sending"
    BY <1>12 DEF HandleFailure
  <2>2. CASE reschedule(cur, "relay") /\ NextRow
    BY <1>12, <2>1, <2>2 DEF HandleFailure, reschedule, NextRow
  <2>3. CASE Goto("fail") /\ UNCHANGED rows
    BY <1>12, <2>1, <2>3 DEF HandleFailure, Goto
  <2>. QED
    BY <1>12, <2>2, <2>3 DEF HandleFailure
<1>13. ASSUME MarkFailed
      PROVE  ChannelInv'
  BY <1>13 DEF MarkFailed, finish_delivery, Goto
<1>14. ASSUME Audit
      PROVE  ChannelInv'
  BY <1>14 DEF Audit, Goto, NextRow
<1>15. ASSUME Alert
      PROVE  ChannelInv'
  BY <1>15 DEF Alert, NextRow
<1>16. ASSUME InternalError
      PROVE  ChannelInv'
  BY <1>16 DEF InternalError, CliRaises, StoreRaises, PerhapsPosted, Post, reschedule, NextRow
<1>17. ASSUME AbandonBatch
      PROVE  ChannelInv'
  BY <1>17 DEF AbandonBatch, PerhapsPosted, Post, ForgetBatch
<1>18. ASSUME NEW e \in Events, NEW ch \in Channels \cup {NoChannel}, Enqueue(e, ch)
      PROVE  ChannelInv'
  BY <1>18 DEF Enqueue, enqueue_event
<1>19. ASSUME Crash
      PROVE  ChannelInv'
  BY <1>19 DEF Crash, ForgetBatch
<1>20. ASSUME Boot
      PROVE  ChannelInv'
  BY <1>20 DEF Boot, recover_inflight
<1>21. ASSUME NEW e \in Events, BecomeDue(e)
      PROVE  ChannelInv'
  BY <1>21 DEF BecomeDue
<1>22. ASSUME NEW e \in Events, GrowOld(e)
      PROVE  ChannelInv'
  BY <1>22 DEF GrowOld
<1>23. CASE UNCHANGED vars
  BY <1>23 DEF vars
<1>. QED
  BY <1>1, <1>2, <1>3, <1>4, <1>5, <1>6, <1>7, <1>8, <1>9, <1>10, <1>11, <1>12, <1>13, <1>14, <1>15, <1>16, <1>17, <1>18, <1>19, <1>20, <1>21, <1>22, <1>23 DEF Next, RunOnce, Produce, Clock

\* A row only heads for failure with a reason that justifies it.
LEMMA CauseStep ==
  ASSUME TypeOK, ThreadInv, CauseInv, [Next]_vars
  PROVE  CauseInv'
<1>. USE OutboxAssumption DEF TypeOK, ThreadInv, CauseInv, FailsForCause, attempts_exhausted, destination, fallback_channel, RowStates, Final, Steps, Working, Closing, rows, world, process, thread
<1>1. ASSUME NEW taken \in SUBSET Events, ClaimDue(taken)
      PROVE  CauseInv'
  BY <1>1 DEF ClaimDue, claimable
<1>2. ASSUME FinishBatch
      PROVE  CauseInv'
  BY <1>2 DEF FinishBatch
<1>3. ASSUME NEW e \in Events, Deliver(e)
      PROVE  CauseInv'
  BY <1>3 DEF Deliver, destination, fallback_channel
<1>4. ASSUME MarkExpired
      PROVE  CauseInv'
  BY <1>4 DEF MarkExpired, finish_delivery, Goto
<1>5. ASSUME SendSucceeds
      PROVE  CauseInv'
  BY <1>5 DEF SendSucceeds, Post, Goto
<1>6. ASSUME SendFails
      PROVE  CauseInv'
  BY <1>6 DEF SendFails, Post, Goto, world
<1>7. ASSUME SendRefused
      PROVE  CauseInv'
  BY <1>7 DEF SendRefused, Goto, fallback_channel
<1>8. ASSUME MarkSent
      PROVE  CauseInv'
  BY <1>8 DEF MarkSent, finish_delivery, Goto
<1>9. ASSUME FallbackSucceeds
      PROVE  CauseInv'
  BY <1>9 DEF FallbackSucceeds, Post, Goto
<1>10. ASSUME FallbackFails
      PROVE  CauseInv'
  BY <1>10 DEF FallbackFails, Post, Goto
<1>11. ASSUME MarkFallback
      PROVE  CauseInv'
  BY <1>11 DEF MarkFallback, finish_delivery, Goto
<1>12. ASSUME HandleFailure
      PROVE  CauseInv'
  BY <1>12 DEF HandleFailure, reschedule, NextRow, Goto, attempts_exhausted
<1>13. ASSUME MarkFailed
      PROVE  CauseInv'
  BY <1>13 DEF MarkFailed, finish_delivery, Goto
<1>14. ASSUME Audit
      PROVE  CauseInv'
  BY <1>14 DEF Audit, Goto, NextRow
<1>15. ASSUME Alert
      PROVE  CauseInv'
  BY <1>15 DEF Alert, NextRow
<1>16. ASSUME InternalError
      PROVE  CauseInv'
  BY <1>16 DEF InternalError, CliRaises, StoreRaises, PerhapsPosted, Post, reschedule, NextRow
<1>17. ASSUME AbandonBatch
      PROVE  CauseInv'
  BY <1>17 DEF AbandonBatch, PerhapsPosted, Post, ForgetBatch
<1>18. ASSUME NEW e \in Events, NEW ch \in Channels \cup {NoChannel}, Enqueue(e, ch)
      PROVE  CauseInv'
  BY <1>18 DEF Enqueue, enqueue_event
<1>19. ASSUME Crash
      PROVE  CauseInv'
  BY <1>19 DEF Crash, ForgetBatch
<1>20. ASSUME Boot
      PROVE  CauseInv'
  BY <1>20 DEF Boot, recover_inflight
<1>21. ASSUME NEW e \in Events, BecomeDue(e)
      PROVE  CauseInv'
  BY <1>21 DEF BecomeDue
<1>22. ASSUME NEW e \in Events, GrowOld(e)
      PROVE  CauseInv'
  BY <1>22 DEF GrowOld
<1>23. CASE UNCHANGED vars
  BY <1>23 DEF vars
<1>. QED
  BY <1>1, <1>2, <1>3, <1>4, <1>5, <1>6, <1>7, <1>8, <1>9, <1>10, <1>11, <1>12, <1>13, <1>14, <1>15, <1>16, <1>17, <1>18, <1>19, <1>20, <1>21, <1>22, <1>23 DEF Next, RunOnce, Produce, Clock

IInv == TypeOK /\ ThreadInv /\ ChannelInv /\ CauseInv

\* The invariant holds at the start: every row is absent, no thread runs.
LEMMA InvInit == Init => IInv
<1>. SUFFICES ASSUME Init
              PROVE  IInv
  OBVIOUS
<1>. USE OutboxAssumption DEF Init, RowStates, Final, Reasons, Steps, Working, Closing
<1>1. TypeOK
  <2>1. 0 \in 0..MaxAttempts /\ crashes \in 0..MaxCrashes
    OBVIOUS
  <2>. QED
    BY <2>1 DEF TypeOK
<1>2. ThreadInv
  BY DEF ThreadInv
<1>3. ChannelInv
  BY DEF ChannelInv, ToldWherePromised
<1>4. \A e \in Events : state[e] # "failed"
  BY DEF Init
<1>5. CauseInv
  BY <1>4 DEF CauseInv, FailsForCause
<1>. QED
  BY <1>1, <1>2, <1>3, <1>5 DEF IInv

\* Every step keeps the invariant, part by part.
LEMMA InvStep == IInv /\ [Next]_vars => IInv'
  BY TypeStep, ThreadStep, ChannelStep, CauseStep DEF IInv

\* The strengthened invariant holds in every reachable state.
THEOREM Invariance == Spec => []IInv
  BY InvInit, InvStep, PTL DEF Spec

\* Every variable keeps its type.
THEOREM TypeCorrect == Spec => []TypeOK
  BY Invariance, PTL DEF IInv

\* sent and fallback_sent rows were accepted where they should have been.
THEOREM ToldWherePromisedHolds == Spec => []ToldWherePromised
  <1>1. IInv => ToldWherePromised
    BY DEF IInv, ChannelInv
  <1>. QED
    BY <1>1, Invariance, PTL

\* No claimed row is left to nobody, unless a batch was abandoned.
THEOREM NoStrandedRowHolds == Spec => []NoStrandedRow
  <1>1. IInv => NoStrandedRow
    <2>. SUFFICES ASSUME IInv, up, ~abandoned
                  PROVE  {e \in Events : state[e] = "sending"} = InHand
      BY DEF NoStrandedRow
    <2>1. ASSUME NEW e \in Events, state[e] = "sending"
          PROVE  e \in InHand
      <3>1. e \in batch \/ e = cur
        BY <2>1 DEF IInv, ThreadInv
      <3>2. e = cur => step \in Working
        BY <2>1, OutboxAssumption DEF IInv, TypeOK, ThreadInv, Steps, Working, Closing, Final
      <3>. QED
        BY <3>1, <3>2 DEF InHand
    <2>2. ASSUME NEW e \in InHand
          PROVE  e \in Events /\ state[e] = "sending"
      BY <2>2 DEF IInv, TypeOK, ThreadInv, InHand, Steps, Working, Closing, Final
    <2>. QED
      BY <2>1, <2>2
  <1>. QED
    BY <1>1, Invariance, PTL

\* No row is in flight before its next attempt is due.
THEOREM BackoffRespectedHolds == Spec => []BackoffRespected
  <1>1. IInv => BackoffRespected
    BY DEF IInv, ThreadInv, BackoffRespected
  <1>. QED
    BY <1>1, Invariance, PTL

\* A failed row carries a reason that justifies it.
THEOREM FailsForCauseHolds == Spec => []FailsForCause
  <1>1. IInv => FailsForCause
    BY DEF IInv, CauseInv
  <1>. QED
    BY <1>1, Invariance, PTL

-----------------------------------------------------------------------------
\* No step changes the outcome of a row other than the current one.
LEMMA FinalStep ==
  ASSUME IInv, [Next]_vars, NEW x \in Events, state[x] \in Final, x # cur
  PROVE  state'[x] = state[x]
<1>. USE DEF IInv, TypeOK, ThreadInv, Final, Working, Closing, Steps, rows
<1>1. ASSUME NEW taken \in SUBSET Events, ClaimDue(taken)
      PROVE  state'[x] = state[x]
  BY <1>1 DEF ClaimDue, claimable
<1>2. ASSUME FinishBatch
      PROVE  state'[x] = state[x]
  BY <1>2 DEF FinishBatch
<1>3. ASSUME NEW e \in Events, Deliver(e)
      PROVE  state'[x] = state[x]
  BY <1>3 DEF Deliver
<1>4. ASSUME MarkExpired
      PROVE  state'[x] = state[x]
  BY <1>4 DEF MarkExpired, finish_delivery
<1>5. ASSUME SendSucceeds
      PROVE  state'[x] = state[x]
  BY <1>5 DEF SendSucceeds, Post
<1>6. ASSUME SendFails
      PROVE  state'[x] = state[x]
  BY <1>6 DEF SendFails, Post
<1>7. ASSUME SendRefused
      PROVE  state'[x] = state[x]
  BY <1>7 DEF SendRefused
<1>8. ASSUME MarkSent
      PROVE  state'[x] = state[x]
  BY <1>8 DEF MarkSent, finish_delivery
<1>9. ASSUME FallbackSucceeds
      PROVE  state'[x] = state[x]
  BY <1>9 DEF FallbackSucceeds, Post
<1>10. ASSUME FallbackFails
      PROVE  state'[x] = state[x]
  BY <1>10 DEF FallbackFails, Post
<1>11. ASSUME MarkFallback
      PROVE  state'[x] = state[x]
  BY <1>11 DEF MarkFallback, finish_delivery
<1>12. ASSUME HandleFailure
      PROVE  state'[x] = state[x]
  BY <1>12 DEF HandleFailure, reschedule
<1>13. ASSUME MarkFailed
      PROVE  state'[x] = state[x]
  BY <1>13 DEF MarkFailed, finish_delivery
<1>14. ASSUME Audit
      PROVE  state'[x] = state[x]
  BY <1>14 DEF Audit
<1>15. ASSUME Alert
      PROVE  state'[x] = state[x]
  BY <1>15 DEF Alert
<1>16. ASSUME InternalError
      PROVE  state'[x] = state[x]
  BY <1>16 DEF InternalError, CliRaises, StoreRaises, PerhapsPosted, Post, reschedule
<1>17. ASSUME AbandonBatch
      PROVE  state'[x] = state[x]
  BY <1>17 DEF AbandonBatch, PerhapsPosted, Post
<1>18. ASSUME NEW e \in Events, NEW ch \in Channels \cup {NoChannel}, Enqueue(e, ch)
      PROVE  state'[x] = state[x]
  BY <1>18 DEF Enqueue, enqueue_event
<1>19. ASSUME Crash
      PROVE  state'[x] = state[x]
  BY <1>19 DEF Crash
<1>20. ASSUME Boot
      PROVE  state'[x] = state[x]
  BY <1>20 DEF Boot, recover_inflight
<1>21. ASSUME NEW e \in Events, BecomeDue(e)
      PROVE  state'[x] = state[x]
  BY <1>21 DEF BecomeDue
<1>22. ASSUME NEW e \in Events, GrowOld(e)
      PROVE  state'[x] = state[x]
  BY <1>22 DEF GrowOld
<1>23. CASE UNCHANGED vars
  BY <1>23 DEF vars
<1>. QED
  BY <1>1, <1>2, <1>3, <1>4, <1>5, <1>6, <1>7, <1>8, <1>9, <1>10, <1>11, <1>12, <1>13, <1>14, <1>15, <1>16, <1>17, <1>18, <1>19, <1>20, <1>21, <1>22, <1>23 DEF Next, RunOnce, Produce, Clock

\* The outcome of a row that the thread has left never changes.
THEOREM FinalStaysHolds == Spec => FinalStays
  <1>1. IInv /\ [Next]_vars =>
          [\A e \in Events : state[e] \in Final /\ e # cur => state'[e] = state[e]]_vars
    BY FinalStep
  <1>. QED
    BY <1>1, Invariance, PTL DEF Spec, FinalStays

-----------------------------------------------------------------------------
\* How the refinement mapping follows a change of one row and a post.
LEMMA RowMoves ==
  ASSUME TypeOK, NEW e \in Events, NEW s \in RowStates, state' = [state EXCEPT ![e] = s]
  PROVE  status' = [status EXCEPT ![e] = StatusOf(s)] /\ status[e] = StatusOf(state[e])
  BY DEF TypeOK, status

\* A message the relay accepts is one heard event more.
LEMMA PostIsHeard ==
  ASSUME cur \in Events, chan \in Channels, Post
  PROVE  heard' = heard \cup {cur}
  BY DEF heard, Heard, Post

\* The three ways a thread step shows in the promise.
LEMMA SilentStep ==
  ASSUME UNCHANGED <<state, posted>>
  PROVE  UNCHANGED Promise!pvars
  BY DEF Promise!pvars, status, heard, Heard

\* A post of an owed row is a post of the promise.
LEMMA PostStep ==
  ASSUME IInv, cur \in Events, state[cur] = "sending", chan \in Channels, Post, UNCHANGED state
  PROVE  Promise!PNext
  <1>1. UNCHANGED status /\ status[cur] = "owed"
    BY DEF status, StatusOf
  <1>. QED
    BY <1>1, PostIsHeard DEF Promise!PNext, Promise!Post

\* A final outcome is one the promise allows.
LEMMA SettleStep ==
  ASSUME IInv, cur \in Events, state[cur] = "sending", NEW final \in Final,
         state' = [state EXCEPT ![cur] = final], UNCHANGED posted,
         final \in {"sent", "fallback_sent"} => <<cur, chan>> \in posted /\ chan \in Channels
  PROVE  Promise!PNext
  <1>1. UNCHANGED heard
    BY DEF heard, Heard
  <1>2. status[cur] = "owed" /\ status' = [status EXCEPT ![cur] = StatusOf(final)]
    BY RowMoves DEF IInv, RowStates, StatusOf
  <1>3. CASE final \in {"sent", "fallback_sent"}
    <2>1. StatusOf(final) = "told" /\ cur \in heard
      BY <1>3 DEF StatusOf, heard, Heard
    <2>. QED
      BY <1>1, <1>2, <2>1 DEF Promise!PNext, Promise!Tell, Promise!Become
  <1>4. CASE final \in {"failed", "expired"}
    <2>1. StatusOf(final) = "dropped"
      BY <1>4 DEF StatusOf
    <2>. QED
      BY <1>1, <1>2, <2>1 DEF Promise!PNext, Promise!Drop, Promise!Become
  <1>. QED
    BY <1>3, <1>4 DEF Final

\* Claiming, putting back and recovering rows does not show.
LEMMA OwedStep ==
  ASSUME TypeOK, UNCHANGED posted, DOMAIN state' = Events,
         \A x \in Events : \/ state'[x] = state[x]
                           \/ {state[x], state'[x]} \subseteq {"pending", "sending"},
         state' \in [Events -> RowStates]
  PROVE  UNCHANGED Promise!pvars
  <1>1. \A x \in Events : StatusOf(state'[x]) = StatusOf(state[x])
    BY DEF StatusOf
  <1>2. status' = status
    BY <1>1 DEF status
  <1>. QED
    BY <1>2 DEF Promise!pvars, heard, Heard

\* Rescheduling an owed row does not show either, unless its last post did;
\* rescheduling a settled one re-opens it.
LEMMA RetryStep ==
  ASSUME IInv, IInv', step \in Working \cup Closing, NEW err, reschedule(cur, err),
         \/ step \in {"send", "fallback"} /\ Post
         \/ UNCHANGED posted
  PROVE  [Promise!PNext]_(Promise!pvars)
<1>1. cur \in Events /\ TypeOK
  BY DEF IInv, TypeOK, ThreadInv, Working, Closing, Steps
<1>2. status' = [status EXCEPT ![cur] = "owed"] /\ status[cur] = StatusOf(state[cur])
  BY <1>1, RowMoves DEF reschedule, RowStates, StatusOf
<1>3. CASE step \in Working
  <2>1. status[cur] = "owed"
    BY <1>1, <1>2, <1>3 DEF IInv, ThreadInv, StatusOf
  <2>2. UNCHANGED status
    BY <1>2, <2>1 DEF status
  <2>3. CASE Post /\ step \in {"send", "fallback"}
    <3>1. chan \in Channels
      BY <2>3 DEF IInv, ChannelInv
    <3>. QED
      BY <1>1, <2>1, <2>2, <2>3, <3>1, PostIsHeard DEF Promise!PNext, Promise!Post
  <2>4. CASE UNCHANGED posted
    BY <2>2, <2>4 DEF Promise!pvars, heard, Heard
  <2>. QED
    BY <2>3, <2>4
<1>4. CASE step \in Closing
  <2>1. UNCHANGED heard
    BY <1>4 DEF heard, Heard, Closing
  <2>2. status[cur] \in {"told", "dropped"}
    BY <1>1, <1>2, <1>4 DEF IInv, ThreadInv, StatusOf, Final
  <2>. QED
    BY <1>1, <1>2, <2>1, <2>2 DEF Promise!PNext, Promise!Reopen, Promise!Become
<1>. QED
  BY <1>3, <1>4

\* Every step of the outbox is a step of the promise, or none.
LEMMA PromiseStep ==
  ASSUME IInv, IInv', [Next]_vars
  PROVE  [Promise!PNext]_(Promise!pvars)
<1>. USE DEF IInv, rows, world
<1>1. ASSUME NEW taken \in SUBSET Events, ClaimDue(taken)
      PROVE  [Promise!PNext]_(Promise!pvars)
  BY <1>1, OwedStep DEF ClaimDue, claimable, TypeOK
<1>2. ASSUME FinishBatch
      PROVE  [Promise!PNext]_(Promise!pvars)
  BY <1>2, SilentStep DEF FinishBatch
<1>3. ASSUME NEW e \in Events, Deliver(e)
      PROVE  [Promise!PNext]_(Promise!pvars)
  BY <1>3, SilentStep DEF Deliver
<1>4. ASSUME MarkExpired
      PROVE  [Promise!PNext]_(Promise!pvars)
  <2>1. cur \in Events /\ state[cur] = "sending"
    BY <1>4 DEF MarkExpired, TypeOK, ThreadInv, Working
  <2>. QED
    BY <1>4, <2>1, SettleStep DEF MarkExpired, finish_delivery, Final
<1>5. ASSUME SendSucceeds
      PROVE  [Promise!PNext]_(Promise!pvars)
  <2>1. cur \in Events /\ state[cur] = "sending" /\ chan \in Channels
    BY <1>5 DEF SendSucceeds, TypeOK, ThreadInv, ChannelInv, Working
  <2>. QED
    BY <1>5, <2>1, PostStep DEF SendSucceeds
<1>6. ASSUME SendFails
      PROVE  [Promise!PNext]_(Promise!pvars)
  <2>1. cur \in Events /\ state[cur] = "sending" /\ chan \in Channels
    BY <1>6 DEF SendFails, TypeOK, ThreadInv, ChannelInv, Working
  <2>. QED
    BY <1>6, <2>1, PostStep, SilentStep DEF SendFails
<1>7. ASSUME SendRefused
      PROVE  [Promise!PNext]_(Promise!pvars)
  BY <1>7, SilentStep DEF SendRefused
<1>8. ASSUME MarkSent
      PROVE  [Promise!PNext]_(Promise!pvars)
  <2>1. cur \in Events /\ state[cur] = "sending" /\ <<cur, chan>> \in posted /\ chan \in Channels
    BY <1>8 DEF MarkSent, TypeOK, ThreadInv, ChannelInv, Working
  <2>. QED
    BY <1>8, <2>1, SettleStep DEF MarkSent, finish_delivery, Final
<1>9. ASSUME FallbackSucceeds
      PROVE  [Promise!PNext]_(Promise!pvars)
  <2>1. cur \in Events /\ state[cur] = "sending" /\ chan \in Channels
    BY <1>9 DEF FallbackSucceeds, TypeOK, ThreadInv, ChannelInv, Working
  <2>. QED
    BY <1>9, <2>1, PostStep DEF FallbackSucceeds
<1>10. ASSUME FallbackFails
      PROVE  [Promise!PNext]_(Promise!pvars)
  <2>1. cur \in Events /\ state[cur] = "sending" /\ chan \in Channels
    BY <1>10 DEF FallbackFails, TypeOK, ThreadInv, ChannelInv, Working
  <2>. QED
    BY <1>10, <2>1, PostStep, SilentStep DEF FallbackFails
<1>11. ASSUME MarkFallback
      PROVE  [Promise!PNext]_(Promise!pvars)
  <2>1. cur \in Events /\ state[cur] = "sending" /\ <<cur, chan>> \in posted /\ chan \in Channels
    BY <1>11 DEF MarkFallback, TypeOK, ThreadInv, ChannelInv, Working
  <2>. QED
    BY <1>11, <2>1, SettleStep DEF MarkFallback, finish_delivery, Final
<1>12. ASSUME HandleFailure
      PROVE  [Promise!PNext]_(Promise!pvars)
  <2>1. CASE reschedule(cur, "relay")
    BY <1>12, <2>1, RetryStep DEF HandleFailure, Working
  <2>2. CASE UNCHANGED rows
    BY <1>12, <2>2, SilentStep DEF HandleFailure
  <2>. QED
    BY <1>12, <2>1, <2>2 DEF HandleFailure
<1>13. ASSUME MarkFailed
      PROVE  [Promise!PNext]_(Promise!pvars)
  <2>1. cur \in Events /\ state[cur] = "sending"
    BY <1>13 DEF MarkFailed, TypeOK, ThreadInv, Working
  <2>. QED
    BY <1>13, <2>1, SettleStep DEF MarkFailed, finish_delivery, Final
<1>14. ASSUME Audit
      PROVE  [Promise!PNext]_(Promise!pvars)
  BY <1>14, SilentStep DEF Audit
<1>15. ASSUME Alert
      PROVE  [Promise!PNext]_(Promise!pvars)
  BY <1>15, SilentStep DEF Alert
<1>16. ASSUME InternalError
      PROVE  [Promise!PNext]_(Promise!pvars)
  BY <1>16, RetryStep DEF InternalError, CliRaises, StoreRaises, PerhapsPosted, Working, Closing
<1>17. ASSUME AbandonBatch
      PROVE  [Promise!PNext]_(Promise!pvars)
  <2>1. CASE step \in {"send", "fallback"} /\ Post
    <3>1. cur \in Events /\ state[cur] = "sending" /\ chan \in Channels
      BY <2>1 DEF TypeOK, ThreadInv, ChannelInv, Working
    <3>. QED
      BY <1>17, <2>1, <3>1, PostStep DEF AbandonBatch
  <2>2. CASE UNCHANGED posted
    BY <1>17, <2>2, SilentStep DEF AbandonBatch
  <2>. QED
    BY <1>17, <2>1, <2>2 DEF AbandonBatch, PerhapsPosted
<1>18. ASSUME NEW e \in Events, NEW ch \in Channels \cup {NoChannel}, Enqueue(e, ch)
      PROVE  [Promise!PNext]_(Promise!pvars)
  <2>1. UNCHANGED heard
    BY <1>18 DEF Enqueue, heard, Heard
  <2>2. status[e] = "absent" /\ status' = [status EXCEPT ![e] = "owed"]
    BY <1>18, RowMoves DEF Enqueue, enqueue_event, RowStates, StatusOf
  <2>. QED
    BY <2>1, <2>2 DEF Promise!PNext, Promise!Record, Promise!Become
<1>19. ASSUME Crash
      PROVE  [Promise!PNext]_(Promise!pvars)
  BY <1>19, SilentStep DEF Crash
<1>20. ASSUME Boot
      PROVE  [Promise!PNext]_(Promise!pvars)
  BY <1>20, OwedStep DEF Boot, recover_inflight, TypeOK
<1>21. ASSUME NEW e \in Events, BecomeDue(e)
      PROVE  [Promise!PNext]_(Promise!pvars)
  BY <1>21, SilentStep DEF BecomeDue
<1>22. ASSUME NEW e \in Events, GrowOld(e)
      PROVE  [Promise!PNext]_(Promise!pvars)
  BY <1>22, SilentStep DEF GrowOld
<1>23. CASE UNCHANGED vars
  BY <1>23, SilentStep DEF vars
<1>. QED
  BY <1>1, <1>2, <1>3, <1>4, <1>5, <1>6, <1>7, <1>8, <1>9, <1>10, <1>11, <1>12, <1>13, <1>14, <1>15, <1>16, <1>17, <1>18, <1>19, <1>20, <1>21, <1>22, <1>23 DEF Next, RunOnce, Produce, Clock

\* The outbox implements the delivery promise.
THEOREM KeepsPromiseHolds == Spec => KeepsPromise
  <1>1. ASSUME Init
        PROVE  Promise!PInit
    <2>1. \A e \in Events : StatusOf(state[e]) = "absent"
      BY <1>1 DEF Init, StatusOf
    <2>2. heard = {}
      BY <1>1 DEF Init, heard, Heard
    <2>. QED
      BY <2>1, <2>2 DEF Promise!PInit, status
  <1>2. IInv /\ IInv' /\ [Next]_vars => [Promise!PNext]_(Promise!pvars)
    BY PromiseStep
  <1>. QED
    BY <1>1, <1>2, Invariance, PTL DEF Spec, KeepsPromise, Promise!Spec
=============================================================================
