----------------------------- MODULE WatchProofs -----------------------------
(***************************************************************************)
(* What the bridge watches of the runs: proofs about the health monitor    *)
(* (HealthMonitor), the run sweep (RunSweep) and the adaptive controller   *)
(* (AdaptiveController).                                                   *)
(***************************************************************************)
EXTENDS HealthMonitor, RunSweep, AdaptiveController, WellFoundedInduction, TLAPS

(* HealthMonitor.                                                          *)

States == {"none", "healthy", "slow", "unknown", "suspected_stalled", "lost"}

\* The rows' shape, and the two promises.
HealthInv ==
    /\ clock \in Nat
    /\ health \in [Run -> [state : States, notified : Nat \cup {Unseen}]]
    /\ NoticeBacked
    /\ AlarmNeedsSilence

\* A verdict is one of five, and the two that raise an alarm need silence or
\* a run that has finished.
LEMMA ClassifyFacts ==
    ASSUME NEW v \in Verdicts
    PROVE  /\ v.state \in States
           /\ v.state \in {"suspected_stalled", "lost"} =>
                v.finished \/ v.age = Unseen \/ v.age >= Slow
<1>1. PICK e \in Evidence : v = [state |-> Classify(e), age |-> e.age, finished |-> e.finished]
  BY DEF Verdicts
<1>2. e.age \in Nat \cup {Unseen} /\ e.finished \in BOOLEAN
  BY HealthAssumption DEF Evidence
<1>3. /\ Classify(e) \in States
      /\ Classify(e) \in {"suspected_stalled", "lost"} =>
           e.finished \/ e.age = Unseen \/ e.age >= Slow
  BY <1>2, HealthAssumption DEF Classify, SilentFor, States
<1>. QED
  BY <1>1, <1>3

\* What a step of the monitor does to the rows.
LEMMA HealthTypeStep ==
    HealthInv /\ [HealthNext]_healthVars =>
        /\ clock' \in Nat
        /\ health' \in [Run -> [state : States, notified : Nat \cup {Unseen}]]
<1>. SUFFICES ASSUME HealthInv, [HealthNext]_healthVars
              PROVE  /\ clock' \in Nat
                     /\ health' \in [Run -> [state : States, notified : Nat \cup {Unseen}]]
  OBVIOUS
<1>1. ASSUME NEW r \in Run, ReapRun(r)
      PROVE  health' \in [Run -> [state : States, notified : Nat \cup {Unseen}]] /\ clock' = clock
  BY <1>1 DEF ReapRun, HealthInv, States
<1>2. ASSUME NEW r \in Run, NEW v \in Verdicts, Apply(r, v)
      PROVE  health' \in [Run -> [state : States, notified : Nat \cup {Unseen}]] /\ clock' = clock
  BY <1>2, ClassifyFacts DEF Apply, Keep, HealthInv, States
<1>3. CASE Emit \/ CrashBetween \/ UNCHANGED healthVars
  BY <1>3 DEF Emit, CrashBetween, healthVars, HealthInv
<1>4. CASE ClockTick
  BY <1>4 DEF ClockTick, HealthInv
<1>. QED
  BY <1>1, <1>2, <1>3, <1>4 DEF HealthNext, HealthInv

\* A row's notice stays where it is, or goes on to the outbox or with a crash.
LEMMA NoticeStep == HealthInv /\ [HealthNext]_healthVars => NoticeBacked'
<1>. SUFFICES ASSUME HealthInv, [HealthNext]_healthVars, NEW q \in Run,
                     health'[q].state \in Abnormal, health'[q].notified # Unseen
              PROVE  <<q, health'[q].state, Period(health'[q].notified)>> \in
                        queued' \cup lost' \cup {emitting'}
  BY DEF NoticeBacked, Period
<1>0. health \in [Run -> [state : States, notified : Nat \cup {Unseen}]]
  BY DEF HealthInv
<1>1. ASSUME health'[q] = health[q], queued \subseteq queued', lost \subseteq lost',
             emitting = Nothing \/ emitting \in queued' \cup lost' \cup {emitting'}
      PROVE  <<q, health'[q].state, Period(health'[q].notified)>> \in
                queued' \cup lost' \cup {emitting'}
  <2>1. <<q, health[q].state, Period(health[q].notified)>> \in queued \cup lost \cup {emitting}
    BY <1>1 DEF HealthInv, NoticeBacked
  <2>2. <<q, health[q].state, Period(health[q].notified)>> # Nothing
    BY DEF Nothing
  <2>. QED
    BY <1>1, <2>1, <2>2
<1>2. ASSUME NEW r \in Run, ReapRun(r)
      PROVE  <<q, health'[q].state, Period(health'[q].notified)>> \in
                queued' \cup lost' \cup {emitting'}
  <2>1. q # r
    BY <1>0, <1>2 DEF ReapRun, Abnormal
  <2>. QED
    BY <1>0, <1>1, <1>2, <2>1 DEF ReapRun
<1>3. ASSUME NEW r \in Run, NEW v \in Verdicts, Apply(r, v)
      PROVE  <<q, health'[q].state, Period(health'[q].notified)>> \in
                queued' \cup lost' \cup {emitting'}
  <2>1. queued' = queued /\ lost' = lost /\ emitting = Nothing
    BY <1>3 DEF Apply
  <2>2. CASE health'[q] = health[q]
    BY <1>1, <2>1, <2>2
  <2>3. CASE health'[q] # health[q]
    <3>1. q = r /\ v.state \in Abnormal /\ DueNotice(r, v.state)
      <4>1. q = r
        BY <1>0, <1>3, <2>3 DEF Apply, Keep
      <4>2. v.state # "healthy"
        BY <1>0, <1>3, <4>1 DEF Apply, Abnormal
      <4>3. v.state # "unknown"
        BY <1>0, <1>3, <2>3, <4>1 DEF Apply, Keep, Abnormal
      <4>4. v.state \in Abnormal
        BY <1>3, <4>2, <4>3 DEF Apply
      <4>5. ~DueNotice(r, v.state) => health' = Keep(r, v.state) /\ health[r].state = v.state
        BY <1>3, <4>2, <4>3 DEF Apply, DueNotice
      <4>. QED
        BY <1>0, <2>3, <4>1, <4>4, <4>5 DEF Keep
    <3>2. /\ health'[q] = [state |-> v.state, notified |-> clock]
          /\ emitting' = <<r, v.state, Period(clock)>>
      BY <1>0, <1>3, <3>1 DEF Apply, Announce, Abnormal
    <3>. QED
      BY <3>1, <3>2
  <2>. QED
    BY <2>2, <2>3
<1>4. CASE Emit
  BY <1>1, <1>4 DEF Emit
<1>5. CASE CrashBetween
  BY <1>1, <1>5 DEF CrashBetween
<1>6. CASE ClockTick \/ UNCHANGED healthVars
  BY <1>1, <1>6 DEF ClockTick, healthVars
<1>. QED
  BY <1>2, <1>3, <1>4, <1>5, <1>6 DEF HealthNext

\* An alarm is set by a verdict only.
LEMMA AlarmStep == HealthInv /\ [HealthNext]_healthVars => AlarmNeedsSilence'
<1>. SUFFICES ASSUME HealthInv, [HealthNext]_healthVars
              PROVE  AlarmNeedsSilence'
  OBVIOUS
<1>1. ASSUME UNCHANGED alarm PROVE AlarmNeedsSilence'
  BY <1>1 DEF HealthInv, AlarmNeedsSilence
<1>2. ASSUME NEW r \in Run, NEW v \in Verdicts, Apply(r, v)
      PROVE  AlarmNeedsSilence'
  <2>1. CASE UNCHANGED alarm
    BY <1>1, <2>1
  <2>2. CASE alarm' # alarm
    <3>1. /\ v.state \in Abnormal \ {"slow"}
          /\ alarm' = [age |-> v.age, finished |-> v.finished]
      BY <1>2, <2>2 DEF Apply
    <3>. QED
      BY <3>1, ClassifyFacts DEF AlarmNeedsSilence, Abnormal
  <2>. QED
    BY <2>1, <2>2
<1>. QED
  BY <1>1, <1>2 DEF HealthNext, ReapRun, Emit, ClockTick, CrashBetween, healthVars

\* The monitor's invariant.
LEMMA HealthInvariance == HealthSpec => []HealthInv
<1>1. HealthInit => HealthInv
  BY HealthAssumption DEF HealthInit, HealthInv, NoRow, States, NoticeBacked, AlarmNeedsSilence,
     Abnormal
<1>2. HealthInv /\ [HealthNext]_healthVars => HealthInv'
  BY HealthTypeStep, NoticeStep, AlarmStep DEF HealthInv
<1>. QED
  BY <1>1, <1>2, PTL DEF HealthSpec

\* What a row says has been notified is in the outbox, on its way there, or
\* lost in a crash between the two writes.
THEOREM NoticeBackedHolds == HealthSpec => []NoticeBacked
  BY HealthInvariance, PTL DEF HealthInv

\* No run that showed life within slow_seconds is called stalled or lost
\* before it has finished.
THEOREM AlarmNeedsSilenceHolds == HealthSpec => []AlarmNeedsSilence
  BY HealthInvariance, PTL DEF HealthInv

-----------------------------------------------------------------------------
(* RunSweep.                                                               *)

\* The newest of some finishes exists.
LEMMA NewestFacts ==
    ASSUME NEW T \in SUBSET Nat, T # {}, NEW n \in Nat, \A t \in T : t <= n
    PROVE  Newest(T) \in T
<1>. DEFINE D == {n - t : t \in T}
<1>1. D \subseteq Nat /\ D # {}
  <2>1. \A t \in T : n - t \in Nat
    OBVIOUS
  <2>2. D \subseteq Nat
    BY <2>1, Zenon
  <2>3. D # {}
    OBVIOUS
  <2>. QED
    BY <2>2, <2>3
<1>2. \E d \in D : \A c \in D : ~(<<c, d>> \in OpToRel(<, Nat))
  <2>. HIDE DEF D
  <2>. QED
    BY <1>1, NatLessThanWellFounded, WFMin, Zenon
<1>3. \A c, d \in Nat : c < d => <<c, d>> \in OpToRel(<, Nat)
  BY DEF OpToRel
<1>4. PICK d \in D : \A c \in D : d <= c
  <2>. HIDE DEF D
  <2>1. PICK d \in D : \A c \in D : ~(<<c, d>> \in OpToRel(<, Nat))
    BY <1>2, Zenon
  <2>2. \A c \in D : ~(c < d)
    BY <1>1, <1>3, <2>1, Zenon
  <2>. QED
    BY <1>1, <2>2
<1>5. PICK t \in T : d = n - t
  OBVIOUS
<1>6. \A u \in T : u <= t
  <2>. TAKE u \in T
  <2>1. n - u \in D
    OBVIOUS
  <2>2. n - t <= n - u
    BY <1>4, <1>5, <2>1
  <2>. QED
    BY <2>2
<1>. QED
  BY <1>6 DEF Newest

Finished(r) == finishedAt[r] # NoCursor

SweepTypes ==
    /\ moment \in Nat
    /\ finishedAt \in [RunIds -> Nat \cup {NoCursor}]
    /\ cursor \in Nat \cup {NoCursor}
    /\ latest \in Nat \cup {NoCursor}
    /\ page \subseteq visible /\ visible \subseteq RunIds
    /\ \A r \in visible : Finished(r)

\* No time stamp is ahead of the clock, the list lags by the overlap at most,
\* and a running sweep has a cursor and a newest finish.
SweepTimes ==
    /\ \A r \in RunIds : Finished(r) => finishedAt[r] <= moment
    /\ \A r \in RunIds \ visible : Finished(r) => moment <= finishedAt[r] + Overlap
    /\ cursor # NoCursor => cursor <= moment
    /\ page # {} => cursor # NoCursor /\ latest # NoCursor /\ latest <= moment

\* A finished run that the running sweep will not look at, and that nobody
\* has accounted for, lies within the overlap of every finish this sweep may
\* still move the cursor to.
InSight ==
    page # {} =>
        \A r \in RunIds \ (page \cup reported \cup excused) :
            Finished(r) => /\ finishedAt[r] >= latest - Overlap
                           /\ \A p \in page : finishedAt[r] >= finishedAt[p] - Overlap

SweepInv == SweepTypes /\ SweepTimes /\ InSight /\ SweepCovers

\* Paperclip's own steps.
LEMMA RunsMove ==
    ASSUME SweepInv, \/ Begin \/ Pass
                     \/ \E r \in RunIds : Show(r) \/ \E b \in BOOLEAN : Finish(r, b)
    PROVE  SweepInv'
<1>1. CASE Begin
  BY <1>1 DEF Begin, SweepInv, SweepTypes, SweepTimes, InSight, SweepCovers, Finished, InReach
<1>2. CASE Pass
  <2>1. /\ moment' = moment + 1
        /\ UNCHANGED <<finishedAt, visible, cursor, page, latest, reported, excused>>
    BY <1>2 DEF Pass
  <2>2. \A r \in RunIds \ visible : Finished(r) => moment < finishedAt[r] + Overlap
    BY <1>2 DEF Pass, Finished
  <2>3. SweepTypes' /\ InSight' /\ SweepCovers'
    BY <2>1 DEF SweepInv, SweepTypes, InSight, SweepCovers, Finished, InReach
  <2>4. SweepTimes'
    BY <2>1, <2>2, SweepAssumption DEF SweepInv, SweepTypes, SweepTimes, Finished
  <2>. QED
    BY <2>3, <2>4 DEF SweepInv
<1>3. ASSUME NEW q \in RunIds, Show(q)
      PROVE  SweepInv'
  BY <1>3 DEF Show, SweepInv, SweepTypes, SweepTimes, InSight, SweepCovers, Finished, InReach
<1>4. ASSUME NEW q \in RunIds, NEW b \in BOOLEAN, Finish(q, b)
      PROVE  SweepInv'
  <2>1. /\ finishedAt' = [finishedAt EXCEPT ![q] = moment] /\ ~Finished(q)
        /\ UNCHANGED <<moment, visible, cursor, page, latest, reported, excused>>
    BY <1>4 DEF Finish, Finished
  <2>2. q \notin visible /\ q \notin page
    BY <2>1 DEF SweepInv, SweepTypes
  <2>3. finishedAt'[q] = moment /\ \A r \in RunIds \ {q} : finishedAt'[r] = finishedAt[r]
    BY <2>1 DEF SweepInv, SweepTypes
  <2>4. SweepTypes'
    BY <2>1, <2>2, <2>3, SweepAssumption DEF SweepInv, SweepTypes, Finished
  <2>5. SweepTimes'
    BY <2>1, <2>2, <2>3, SweepAssumption DEF SweepInv, SweepTypes, SweepTimes, Finished
  <2>6. InSight'
    <3>. SUFFICES ASSUME page # {}, NEW r \in RunIds \ (page \cup reported \cup excused),
                         Finished(r)'
                  PROVE  /\ finishedAt'[r] >= latest - Overlap
                         /\ \A p \in page : finishedAt'[r] >= finishedAt[p] - Overlap
      BY <2>1, <2>2, <2>3 DEF InSight, SweepInv, SweepTypes
    <3>1. CASE r = q
      <4>1. latest \in Nat /\ latest <= moment /\ moment \in Nat
        BY DEF SweepInv, SweepTypes, SweepTimes
      <4>2. \A p \in page : finishedAt[p] \in Nat /\ finishedAt[p] <= moment
        BY DEF SweepInv, SweepTypes, SweepTimes, Finished
      <4>. QED
        BY <2>3, <3>1, <4>1, <4>2, SweepAssumption
    <3>2. CASE r # q
      BY <2>3, <3>2 DEF SweepInv, InSight, Finished
    <3>. QED
      BY <3>1, <3>2
  <2>7. SweepCovers'
    <3>. SUFFICES ASSUME cursor # NoCursor, NEW r \in RunIds, Finished(r)', ~InReach(r)'
                  PROVE  r \in reported \cup excused
      BY <2>1 DEF SweepCovers, Finished
    <3>1. r # q
      BY <2>1, <2>3, SweepAssumption DEF SweepInv, SweepTypes, SweepTimes, InReach
    <3>. QED
      BY <2>1, <2>3, <3>1 DEF SweepInv, SweepCovers, Finished, InReach
  <2>. QED
    BY <2>4, <2>5, <2>6, <2>7 DEF SweepInv
<1>. QED
  BY <1>1, <1>2, <1>3, <1>4

\* The first sweep takes every finish so far as history.
LEMMA BaselineStep == SweepInv /\ Baseline => SweepInv'
<1>. SUFFICES ASSUME SweepInv, Baseline
              PROVE  SweepInv'
  OBVIOUS
<1>1. /\ page = {} /\ cursor = NoCursor /\ cursor' = Newest(Ended(Listed)) /\ Ended(Listed) # {}
      /\ excused' = excused \cup {r \in RunIds : finishedAt[r] # NoCursor /\ finishedAt[r] <= cursor'}
      /\ UNCHANGED <<moment, finishedAt, visible, page, latest, reported>>
  BY DEF Baseline
<1>2. Ended(Listed) \subseteq Nat /\ \A t \in Ended(Listed) : t <= moment
  BY DEF Ended, Listed, SweepInv, SweepTypes, SweepTimes, Finished
<1>3. cursor' \in Nat /\ cursor' <= moment
  BY <1>1, <1>2, NewestFacts DEF SweepInv, SweepTypes
<1>4. SweepTypes' /\ SweepTimes' /\ InSight'
  BY <1>1, <1>3 DEF SweepInv, SweepTypes, SweepTimes, InSight, Finished
<1>5. SweepCovers'
  <2>. SUFFICES ASSUME NEW r \in RunIds, finishedAt[r] # NoCursor, ~(finishedAt[r] >= cursor' - Overlap)
                PROVE  r \in excused'
    BY <1>1 DEF SweepCovers, InReach
  <2>1. finishedAt[r] \in Nat
    BY DEF SweepInv, SweepTypes
  <2>2. finishedAt[r] <= cursor'
    BY <1>3, <2>1, SweepAssumption
  <2>. QED
    BY <1>1, <2>2
<1>. QED
  BY <1>4, <1>5 DEF SweepInv

\* A sweep begins: what it will not look at is covered, out of its sight, or
\* so young that it lies within the overlap of the present moment.
LEMMA SweepBeginsStep == SweepInv /\ SweepBegins => SweepInv'
<1>. SUFFICES ASSUME SweepInv, SweepBegins
              PROVE  SweepInv'
  OBVIOUS
<1>1. /\ cursor # NoCursor /\ latest' = cursor
      /\ page' = {r \in Listed \cap visible : InReach(r)}
      /\ excused' = excused \cup {r \in visible \ Listed : finishedAt[r] # NoCursor}
      /\ UNCHANGED <<moment, finishedAt, visible, cursor, reported>>
  BY DEF SweepBegins
<1>2. SweepTypes' /\ SweepTimes'
  BY <1>1 DEF SweepInv, SweepTypes, SweepTimes, Finished
<1>3. SweepCovers'
  BY <1>1 DEF SweepInv, SweepCovers, InReach
<1>4. InSight'
  <2>. SUFFICES ASSUME NEW r \in RunIds \ (page' \cup reported \cup excused'), Finished(r)
                PROVE  /\ finishedAt[r] >= cursor - Overlap
                       /\ \A p \in page' : finishedAt[r] >= finishedAt[p] - Overlap
    BY <1>1 DEF InSight, Finished
  <2>1. r \notin visible
    <3>1. InReach(r)
      BY <1>1 DEF SweepInv, SweepCovers, Finished
    <3>. QED
      BY <1>1, <3>1 DEF Finished
  <2>2. moment <= finishedAt[r] + Overlap /\ finishedAt[r] \in Nat /\ moment \in Nat
    BY <2>1 DEF SweepInv, SweepTypes, SweepTimes, Finished
  <2>3. cursor \in Nat /\ cursor <= moment
    BY <1>1 DEF SweepInv, SweepTypes, SweepTimes
  <2>4. \A p \in page' : finishedAt[p] \in Nat /\ finishedAt[p] <= moment
    BY <1>1 DEF SweepInv, SweepTypes, SweepTimes, Finished
  <2>. QED
    BY <2>2, <2>3, <2>4, SweepAssumption
<1>. QED
  BY <1>2, <1>3, <1>4 DEF SweepInv

\* One run is looked at; the last one moves the cursor.
LEMMA LookStep == ASSUME NEW q \in RunIds, SweepInv, Look(q) PROVE SweepInv'
<1>. DEFINE m == IF finishedAt[q] > latest THEN finishedAt[q] ELSE latest
<1>1. /\ q \in page /\ page' = page \ {q}
      /\ reported \subseteq reported' /\ excused \subseteq excused'
      /\ q \in reported' \cup excused'
      /\ UNCHANGED <<moment, finishedAt, visible>>
  BY DEF Look
<1>2. /\ finishedAt[q] \in Nat /\ finishedAt[q] <= moment /\ moment \in Nat
      /\ latest \in Nat /\ latest <= moment
  BY <1>1 DEF SweepInv, SweepTypes, SweepTimes, Finished
<1>3. m \in Nat /\ m <= moment /\ m \in {latest, finishedAt[q]}
  BY <1>2
<1>4. \A r \in RunIds \ (page' \cup reported' \cup excused') :
         Finished(r) => /\ finishedAt[r] >= m - Overlap
                        /\ \A p \in page' : finishedAt[r] >= finishedAt[p] - Overlap
  <2>. TAKE r \in RunIds \ (page' \cup reported' \cup excused')
  <2>1. r \notin page \cup reported \cup excused
    BY <1>1
  <2>. QED
    BY <1>1, <1>3, <2>1 DEF SweepInv, InSight
<1>5. CASE page' = {}
  <2>1. cursor' = m /\ latest' = NoCursor
    BY <1>5 DEF Look
  <2>2. SweepTypes' /\ SweepTimes' /\ InSight'
    <3>. HIDE DEF m
    <3>. QED
      BY <1>1, <1>3, <1>5, <2>1 DEF SweepInv, SweepTypes, SweepTimes, InSight, Finished
  <2>3. SweepCovers'
    <3>. HIDE DEF m
    <3>. SUFFICES ASSUME NEW r \in RunIds, finishedAt[r] # NoCursor, ~(finishedAt[r] >= m - Overlap)
                  PROVE  r \in reported' \cup excused'
      BY <1>1, <2>1 DEF SweepCovers, InReach
    <3>. QED
      BY <1>4, <1>5 DEF Finished
  <2>. QED
    BY <2>2, <2>3 DEF SweepInv
<1>6. CASE page' # {}
  <2>1. latest' = m /\ cursor' = cursor
    BY <1>6 DEF Look
  <2>2. m # NoCursor
    BY <1>3, SweepAssumption
  <2>. HIDE DEF m
  <2>3. SweepTypes' /\ SweepTimes'
    BY <1>1, <1>3, <2>1, <2>2 DEF SweepInv, SweepTypes, SweepTimes, Finished
  <2>4. InSight'
    BY <1>1, <1>4, <2>1 DEF InSight, Finished
  <2>5. SweepCovers'
    BY <1>1, <2>1 DEF SweepInv, SweepCovers, InReach
  <2>. QED
    BY <2>3, <2>4, <2>5 DEF SweepInv
<1>. QED
  BY <1>5, <1>6

\* The sweep's invariant.
LEMMA SweepInvariance == SweepSpec => []SweepInv
<1>1. SweepInit => SweepInv
  BY DEF SweepInit, SweepInv, SweepTypes, SweepTimes, InSight, SweepCovers, Finished
<1>2. SweepInv /\ [SweepNext]_sweepVars => SweepInv'
  <2>. SUFFICES ASSUME SweepInv, [SweepNext]_sweepVars
                PROVE  SweepInv'
    OBVIOUS
  <2>1. CASE SweepDies \/ UNCHANGED sweepVars
    BY <2>1 DEF SweepDies, sweepVars, SweepInv, SweepTypes, SweepTimes, InSight, SweepCovers,
       Finished, InReach
  <2>. QED
    BY <2>1, RunsMove, BaselineStep, SweepBeginsStep, LookStep DEF SweepNext
<1>. QED
  BY <1>1, <1>2, PTL DEF SweepSpec

\* No failed run slips past the cursor: what no later sweep will look at was
\* reported or passed over for a named reason, wherever a sweep was cut short.
THEOREM SweepCoversHolds == SweepSpec => []SweepCovers
  BY SweepInvariance, PTL DEF SweepInv

-----------------------------------------------------------------------------
(* AdaptiveController.                                                     *)

\* The timer that runs is no older than the drift it measures.
DriftInv ==
    /\ core \in 1..99
    /\ since \in 0..Hold \cup {Unset}
    /\ streak \in 0..Hold \cup {Unset}
    /\ since # Unset => streak # Unset /\ since <= streak
    /\ adjusted \in {Unset, Hold}

\* Ticks that do not adjust restart the timer, stop it, or let it run.
LEMMA TimerSteps ==
    ASSUME DriftInv, \/ TickSkipped \/ TickQuiet \/ TickTurn \/ TickHold
                     \/ DriftClock \/ NewReading
                     \/ \E choice : OperatorSets(choice)
    PROVE  DriftInv'
<1>1. CASE TickSkipped
  BY <1>1, DriftAssumption DEF TickSkipped, DriftInv
<1>2. CASE TickQuiet
  BY <1>2, DriftAssumption DEF TickQuiet, DriftInv
<1>3. CASE TickTurn
  BY <1>3, DriftAssumption DEF TickTurn, DriftInv
<1>4. CASE TickHold
  BY <1>4, DriftAssumption DEF TickHold, DriftInv
<1>5. CASE DriftClock
  BY <1>5, DriftAssumption DEF DriftClock, DriftInv
<1>6. CASE NewReading
  BY <1>6 DEF NewReading, DriftInv
<1>7. ASSUME NEW choice, OperatorSets(choice)
      PROVE  DriftInv'
  BY <1>7 DEF OperatorSets, DriftInv
<1>. QED
  BY <1>1, <1>2, <1>3, <1>4, <1>5, <1>6, <1>7

\* When the hold is over, the drift has lasted as long as the hold.
LEMMA AdjustSteps ==
    ASSUME DriftInv, TickAdjust \/ TickApplyFails
    PROVE  DriftInv'
<1>1. HoldOver
  BY DEF TickAdjust, TickApplyFails
<1>2. streak \in {Unset, Hold}
  BY <1>1, DriftAssumption DEF HoldOver, DriftInv
<1>3. adjusted' \in {Unset, Hold}
  BY <1>1, <1>2 DEF HoldOver
<1>4. Target(reading) \in 1..99
  BY <1>1 DEF HoldOver, Drifts
<1>5. core' \in 1..99
  BY <1>4 DEF TickAdjust, TickApplyFails, DriftInv
<1>6. CASE TickAdjust
  BY <1>3, <1>5, <1>6, DriftAssumption DEF TickAdjust, DriftInv
<1>7. CASE TickApplyFails
  BY <1>3, <1>5, <1>7 DEF TickApplyFails, DriftInv
<1>. QED
  BY <1>6, <1>7

\* The loop never moves the allocation on noise, and never to a lock.
THEOREM DriftHeldHolds == DriftSpec => []DriftHeld
<1>1. DriftInit => DriftInv
  BY DriftAssumption DEF DriftInit, DriftInv
<1>2. DriftInv /\ [DriftNext]_driftVars => DriftInv'
  <2>1. DriftInv /\ UNCHANGED driftVars => DriftInv'
    BY DEF driftVars, DriftInv
  <2>. QED
    BY <2>1, TimerSteps, AdjustSteps DEF DriftNext, DriftTick
<1>3. DriftInv => DriftHeld
  BY DEF DriftInv, DriftHeld
<1>. QED
  BY <1>1, <1>2, <1>3, PTL DEF DriftSpec
=============================================================================
