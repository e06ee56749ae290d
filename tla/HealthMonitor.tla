---------------------------- MODULE HealthMonitor ----------------------------
(***************************************************************************)
(* opc_bridge/health.py: on every tick the monitor classifies each running *)
(* run from what Paperclip says of it, keeps a row per run (run_health)    *)
(* and queues a notice when the state changes or a reminder is due.  A     *)
(* notice's event id names the run, the kind and the reminder period, so   *)
(* the outbox takes one of each.                                           *)
(***************************************************************************)
EXTENDS Naturals

CONSTANTS
    Run,
    Slow, Stall,     \* slow_seconds and stall_seconds, Slow <= Stall
    Reminder,        \* health_reminder_seconds
    MaxClock,        \* bound on the clock
    MaxCrashes       \* bound on crashes of the bridge

\* Ages of the last sign of life; Unseen when Paperclip knows none.
CONSTANT Unseen

ASSUME HealthAssumption ==
    /\ Slow \in Nat /\ Stall \in Nat /\ Slow <= Stall
    /\ Reminder \in Nat \ {0}
    /\ Unseen \notin Nat

VARIABLES
    clock,
    health,    \* table run_health: state and time of the last notice
    queued,    \* notices in the outbox: <<run, kind, period>>
    emitting,  \* the notice whose row is written and that is not queued yet
    alarm,     \* history: the evidence behind the last stalled or lost notice
    lost,      \* history: notices a crash lost
    crashes

healthVars == <<clock, health, queued, emitting, alarm, lost, crashes>>

Abnormal == {"slow", "suspected_stalled", "lost"}

NoRow == [state |-> "none", notified |-> Unseen]
Nothing == <<>>

HealthInit ==
    /\ clock = 0
    /\ health = [r \in Run |-> NoRow]
    /\ queued = {}
    /\ emitting = Nothing
    /\ alarm = [age |-> Unseen, finished |-> FALSE]
    /\ lost = {}
    /\ crashes = 0

----------------------------------------------------------------------------
(* classify, on the evidence Paperclip gives for a running run.            *)

Evidence ==
    [age : {0, Slow, Stall, Unseen},  \* since the last output or event
     finished : BOOLEAN,              \* finishedAt is set though it runs
     overdue : BOOLEAN,               \* its issue is terminal past the grace
     held : BOOLEAN,                  \* its agent is paused or terminated
     abnormal : BOOLEAN,              \* the silence level is abnormal
     visible : BOOLEAN]               \* it has a pid or a last output

SilentFor(e, seconds) == e.age # Unseen /\ e.age >= seconds

\* An agent paused under a running run is taken for lost without silence.
Classify_BUG(e) ==
    IF \/ e.finished
       \/ e.overdue /\ (e.age = Unseen \/ SilentFor(e, Slow))
       \/ e.held /\ e.age # Unseen
    THEN "lost"
    ELSE IF e.age = Unseen THEN "unknown"
    ELSE IF SilentFor(e, Stall)
    THEN IF e.abnormal THEN "suspected_stalled" ELSE IF e.visible THEN "slow" ELSE "unknown"
    ELSE IF SilentFor(e, Slow) THEN "slow" ELSE "healthy"

Classify(e) ==
    IF \/ e.finished
       \/ e.overdue /\ (e.age = Unseen \/ SilentFor(e, Slow))
       \/ e.held /\ SilentFor(e, Slow)
    THEN "lost"
    ELSE IF e.age = Unseen THEN "unknown"
    ELSE IF SilentFor(e, Stall)
    THEN IF e.abnormal THEN "suspected_stalled" ELSE IF e.visible THEN "slow" ELSE "unknown"
    ELSE IF SilentFor(e, Slow) THEN "slow" ELSE "healthy"

\* What a tick makes of a run: its state, and of the evidence what the history
\* keeps.
Verdicts ==
    {[state |-> Classify(e), age |-> e.age, finished |-> e.finished] : e \in Evidence}

----------------------------------------------------------------------------
(* _apply: the row is written first, then the notice is queued.            *)

Period(t) == t \div Reminder

\* _emit will queue this notice.
Announce(r, kind) == emitting' = <<r, kind, Period(clock)>>

Keep(r, state) == [health EXCEPT ![r].state = state]

\* The state at the last notice is not compared.
DueNotice_BUG(r, state) ==
    health[r].notified = Unseen \/ clock >= health[r].notified + Reminder

DueNotice(r, state) ==
    \/ health[r].state # state
    \/ health[r].notified = Unseen
    \/ clock >= health[r].notified + Reminder

\* A run seen for the first time gets a row with its state and no notice, so
\* an abnormal first sight is due at once.
Apply(r, v) ==
    LET state == v.state IN
    /\ emitting = Nothing
    /\ \/ /\ state = "healthy"
          /\ health' = [health EXCEPT ![r] = [state |-> "healthy",
                           notified |-> IF @.state \in {"none", "healthy"} THEN @.notified
                                        ELSE Unseen]]
          /\ IF health[r].state \in {"none", "healthy"}
             THEN UNCHANGED emitting
             ELSE Announce(r, "recovered")
          /\ UNCHANGED alarm
       \/ /\ state = "unknown"
          /\ health' = IF health[r] = NoRow THEN Keep(r, state) ELSE health
          /\ UNCHANGED <<emitting, alarm>>
       \/ /\ state \in Abnormal
          /\ IF DueNotice(r, state)
             THEN /\ health' = [health EXCEPT ![r] = [state |-> state, notified |-> clock]]
                  /\ Announce(r, state)
                  /\ alarm' = IF state = "slow" THEN alarm ELSE [age |-> v.age, finished |-> v.finished]
             ELSE /\ health' = Keep(r, state)
                  /\ UNCHANGED <<emitting, alarm>>
    /\ UNCHANGED <<clock, queued, lost, crashes>>

\* INSERT OR IGNORE on the event id.
Emit ==
    /\ emitting # Nothing
    /\ queued' = queued \cup {emitting}
    /\ emitting' = Nothing
    /\ UNCHANGED <<clock, health, alarm, lost, crashes>>

\* _reap: the row of a run that has ended is cleared without a notice.
ReapRun(r) ==
    /\ emitting = Nothing
    /\ health[r].state \in Abnormal
    /\ health' = [health EXCEPT ![r] = [state |-> "healthy", notified |-> Unseen]]
    /\ UNCHANGED <<clock, queued, emitting, alarm, lost, crashes>>

ClockTick ==
    /\ clock < MaxClock
    /\ clock' = clock + 1
    /\ UNCHANGED <<health, queued, emitting, alarm, lost, crashes>>

\* The bridge dies between the row and the notice.
CrashBetween ==
    /\ emitting # Nothing
    /\ crashes < MaxCrashes
    /\ crashes' = crashes + 1
    /\ lost' = lost \cup {emitting}
    /\ emitting' = Nothing
    /\ UNCHANGED <<clock, health, queued, alarm>>

HealthNext ==
    \/ \E r \in Run : ReapRun(r) \/ \E v \in Verdicts : Apply(r, v)
    \/ Emit \/ ClockTick \/ CrashBetween

HealthSpec == HealthInit /\ [][HealthNext]_healthVars

----------------------------------------------------------------------------

\* What a row says has been notified has been: the notice of the run's
\* present abnormal state is in the outbox for the period of its last notice,
\* unless it is being queued or a crash lost it (_apply writes before _emit).
NoticeBacked ==
    \A r \in Run :
        health[r].state \in Abnormal /\ health[r].notified # Unseen =>
            <<r, health[r].state, Period(health[r].notified)>> \in
                queued \cup lost \cup {emitting}

\* A human is alarmed only by silence or a contradiction: a run that showed
\* life within slow_seconds and has not finished is never called stalled or
\* lost, whatever its issue and its agent are (classify: a hard lock pauses
\* agents under running runs).
AlarmNeedsSilence == alarm.finished \/ alarm.age = Unseen \/ alarm.age >= Slow
=============================================================================
