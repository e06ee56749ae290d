--------------------------- MODULE ControlProofs ---------------------------
(***************************************************************************)
(* The safety properties of the allocation and pause control, proved for   *)
(* every set of agents, handlers and locks, any number of requests,        *)
(* crashes, failed calls and human acts: the ledger knows every agent the  *)
(* bridge has paused, and keeps its row open while no allocations overlap; *)
(* an allocation or a boot that nothing disturbs leaves policy, track      *)
(* state, agents and ledger in agreement.                                  *)
(***************************************************************************)
EXTENDS Control, TLAPS

ThreadSteps == {"idle", "check", "insert", "resolve", "agents", "pause", "resume", "release"}

ThreadStates ==
  [step : ThreadSteps, lock : Locks \cup {{}}, at : 0..MaxRequests, n : 0..4, track : Tracks,
   todo : SUBSET Agents, cur : Agents \cup {NoAgent}, listed : [Agents -> AgentStates]]

\* TypeOK, in parts.
ThreadOK == thread \in [Threads -> ThreadStates]

StoreOK ==
  /\ policies \subseteq Rows
  /\ ledger \in [Agents -> [state : {"none", "open", "released"}, holds : SUBSET {"text"}]]
  /\ track_state \in [Tracks -> {"running", "paused"}]

AgentOK ==
  /\ agents \in [Agents -> AgentStates]
  /\ paused_by \in [Agents -> {"nobody", "human", "bridge"}]
  /\ \A a \in Agents : paused_by[a] = "nobody" <=> agents[a].status = "idle"

ProcessOK ==
  /\ phase \in {"down", "boot", "up"}
  /\ boot \in [todo : SUBSET Agents, cur : Agents \cup {NoAgent}]
  /\ clock \in 0..MaxRequests /\ mishaps \in 0..MaxMishaps
  /\ alone \in Threads \cup {NoThread}
  /\ settled \in [what : {"nothing", "allocation", "booting", "boot"}, lock : Locks \cup {{}}, by : Threads]

MarksOK == overlapped \in BOOLEAN /\ shut \subseteq Agents

\* What a thread's position says about its locals.
PlaceInv ==
  \A t \in Threads :
    /\ thread[t].step # "idle" => thread[t].at \in 1..clock
    /\ thread[t].step \in {"check", "insert"} => thread[t].n <= 3
    /\ thread[t].step \in {"pause", "resume", "release"} => thread[t].cur \in Agents

\* Requests have timestamps of their own, so a row's share tells which
\* request it is from.
RowInv ==
  /\ \A r \in policies : r.at <= clock
  /\ \A t, u \in Threads :
       thread[t].step # "idle" /\ thread[u].step # "idle" /\ thread[t].at = thread[u].at => t = u
  /\ \A t \in Threads : thread[t].step # "idle" =>
       \A r \in policies : r.at = thread[t].at => r.zero = (r.track \in thread[t].lock)
  /\ \A r, o \in policies : r.at = o.at /\ r.track = o.track => r.zero = o.zero
  /\ \A r \in policies : r.priority = 40 /\ r.key = "allocation" => r.scope = "company"

\* Whoever is about to pause an agent has seen or written its row.
Known(a) == ledger[a].state # "none"

KnownInv ==
  /\ \A t \in Threads : thread[t].step = "pause" => Known(thread[t].cur)
  /\ \A a \in boot.todo : Known(a)
  /\ boot.cur # NoAgent => Known(boot.cur)
  /\ KnownPause

IInv == TypeOK /\ PlaceInv /\ RowInv /\ KnownInv

-----------------------------------------------------------------------------
\* The parts make up the whole.
LEMMA Parts == TypeOK <=> ThreadOK /\ StoreOK /\ AgentOK /\ ProcessOK /\ MarksOK
  BY Zenon DEF TypeOK, ThreadOK, StoreOK, AgentOK, ProcessOK, MarksOK, ThreadStates, ThreadSteps

\* The initial state satisfies the invariant.
LEMMA InvInit == Init => IInv
<1>. SUFFICES ASSUME Init PROVE IInv
  OBVIOUS
<1>. USE ControlAssumption DEF Init, NoRow, Idle, NoBoot, Nothing, Threads, Tracks
<1>1. TypeOK
  <2>1. ThreadOK /\ StoreOK /\ AgentOK /\ ProcessOK
    BY DEF ThreadOK, ThreadStates, ThreadSteps, StoreOK, AgentOK, ProcessOK, AgentStates
  <2>2. MarksOK
    BY Zenon DEF MarksOK
  <2>. QED
    BY <2>1, <2>2, Parts
<1>2. PlaceInv
  BY DEF PlaceInv
<1>3. RowInv
  BY DEF RowInv
<1>4. KnownInv
  BY DEF KnownInv, KnownPause, Known
<1>. QED
  BY <1>1, <1>2, <1>3, <1>4 DEF IInv
-----------------------------------------------------------------------------
\* An idle thread is well formed.
LEMMA IdleType == Idle \in ThreadStates
  BY ControlAssumption DEF Idle, ThreadStates, ThreadSteps, Tracks, AgentStates

\* Setting a well-formed record keeps the type.
LEMMA SetType ==
  ASSUME ThreadOK, NEW t \in Threads, NEW r \in ThreadStates, Set(t, r)
  PROVE  ThreadOK'
  BY DEF ThreadOK, Set

\* Going to a step keeps the type.
LEMMA GotoType ==
  ASSUME ThreadOK, NEW t \in Threads, NEW s \in ThreadSteps, Goto(t, s)
  PROVE  ThreadOK'
  BY DEF ThreadOK, Goto, ThreadStates

\* Taking the next agent keeps the type.
LEMMA TakeType ==
  ASSUME ThreadOK, NEW t \in Threads, NEW a \in Agents, NEW s \in ThreadSteps, Take(t, a, s)
  PROVE  ThreadOK'
<1>. DEFINE todo == thread[t].todo \ {a}
            c == IF s = "agents" THEN NoAgent ELSE a
<1>1. Set(t, [thread[t] EXCEPT !.todo = todo, !.step = s, !.cur = c])
  BY DEF Take, Set, ThreadOK
<1>2. todo \in SUBSET Agents /\ c \in Agents \cup {NoAgent}
  BY DEF ThreadOK, ThreadStates
<1>. HIDE DEF todo, c
<1>3. [thread[t] EXCEPT !.todo = todo, !.step = s, !.cur = c] \in ThreadStates
  BY <1>2 DEF ThreadOK, ThreadStates
<1>. QED
  BY <1>1, <1>3, SetType

\* Every step keeps the threads well formed.
LEMMA ThreadType == ThreadOK /\ AgentOK /\ ProcessOK /\ PlaceInv /\ [Next]_vars => ThreadOK'
<1>. SUFFICES ASSUME ThreadOK, AgentOK, ProcessOK, PlaceInv, [Next]_vars
              PROVE  ThreadOK'
  OBVIOUS
<1>1. ASSUME NEW t \in Threads, NEW lock \in Locks \cup {{}}, NEW s \in ThreadSteps, Begin(t, lock, s)
      PROVE  ThreadOK'
  <2>1. [Idle EXCEPT !.step = s, !.lock = lock, !.at = clock + 1] \in ThreadStates
    <3>1. clock + 1 \in 0..MaxRequests
      BY <1>1, ControlAssumption DEF Begin, ProcessOK
    <3>. QED
      BY <3>1, IdleType DEF ThreadStates
  <2>. QED
    BY <2>1, <1>1, SetType DEF Begin
<1>2. ASSUME NEW t \in Handlers, NEW lock \in Locks, Request(t, lock)
      PROVE  ThreadOK'
  BY <1>1, <1>2 DEF Request, Threads, ThreadSteps
<1>3. CASE AdaptiveTick
  BY <1>1, <1>3 DEF AdaptiveTick, Threads, ThreadSteps
<1>4. CASE CheckOperator
  BY <1>4, IdleType, SetType, GotoType DEF CheckOperator, Threads, ThreadSteps
<1>5. ASSUME NEW t \in Threads, InsertPolicy(t)
      PROVE  ThreadOK'
  <2>. DEFINE n == thread[t].n + 1
              s == IF thread[t].n = 3 THEN "resolve" ELSE thread[t].step
  <2>1. n \in 0..4 /\ s \in ThreadSteps
    BY <1>5 DEF InsertPolicy, At, ThreadOK, ThreadStates, PlaceInv
  <2>2. Set(t, [thread[t] EXCEPT !.n = n, !.step = s])
    BY <1>5 DEF InsertPolicy, Set, ThreadOK
  <2>. HIDE DEF n, s
  <2>3. [thread[t] EXCEPT !.n = n, !.step = s] \in ThreadStates
    BY <2>1 DEF ThreadOK, ThreadStates
  <2>. QED
    BY <2>2, <2>3, SetType
<1>6. ASSUME NEW t \in Threads, Resolve(t)
      PROVE  ThreadOK'
  <2>. DEFINE tr == thread[t].track
              seen == [a \in Agents |-> IF TrackOf[a] = tr THEN agents[a] ELSE thread[t].listed[a]]
  <2>1. seen \in [Agents -> AgentStates]
    BY DEF ThreadOK, ThreadStates, AgentOK
  <2>2. \A f \in [Agents -> AgentStates], o \in Tracks, s \in ThreadSteps, todo \in SUBSET Agents :
          [thread[t] EXCEPT !.listed = f, !.track = o, !.step = s, !.todo = todo] \in ThreadStates
    BY DEF ThreadOK, ThreadStates
  <2>3. OfTrack("core") \in SUBSET Agents
    BY DEF OfTrack
  <2>4. PICK r \in ThreadStates : Set(t, r)
    BY <1>6, <2>1, <2>2, <2>3, Zenon DEF Resolve, Tracks, ThreadSteps
  <2>. QED
    BY <2>4, SetType
<1>7. ASSUME NEW t \in Threads, NEW a \in Agents,
             LockPaused(t, a) \/ LockRunning(t, a) \/ UnlockRunning(t, a) \/ UnlockSkips(t, a) \/ UnlockPaused(t, a)
      PROVE  ThreadOK'
  BY <1>7, TakeType DEF LockPaused, LockRunning, UnlockRunning, UnlockSkips, UnlockPaused, ThreadSteps
<1>8. ASSUME NEW t \in Threads, PauseAgent(t) \/ Release(t)
      PROVE  ThreadOK'
  <2>1. Set(t, [thread[t] EXCEPT !.step = "agents", !.cur = NoAgent])
    BY <1>8 DEF PauseAgent, Release, NextAgent, Set, ThreadOK
  <2>2. [thread[t] EXCEPT !.step = "agents", !.cur = NoAgent] \in ThreadStates
    BY DEF ThreadOK, ThreadStates, ThreadSteps
  <2>. QED
    BY <2>1, <2>2, SetType
<1>9. ASSUME NEW t \in Threads, ResumeAgent(t)
      PROVE  ThreadOK'
  BY <1>9, GotoType DEF ResumeAgent, ThreadSteps
<1>10. ASSUME NEW t \in Threads, SetTrackState(t)
       PROVE  ThreadOK'
  <2>1. CASE thread[t].track = "core"
    <3>1. Set(t, [thread[t] EXCEPT !.track = "lab", !.todo = OfTrack("lab")])
      BY <1>10, <2>1 DEF SetTrackState, Set, ThreadOK
    <3>2. [thread[t] EXCEPT !.track = "lab", !.todo = OfTrack("lab")] \in ThreadStates
      BY DEF OfTrack, ThreadOK, ThreadStates, Tracks
    <3>. QED
      BY <3>1, <3>2, SetType
  <2>2. CASE thread[t].track # "core"
    BY <1>10, <2>2, IdleType, SetType DEF SetTrackState
  <2>. QED
    BY <2>1, <2>2
<1>11. ASSUME NEW t \in Threads, Abort(t)
       PROVE  ThreadOK'
  BY <1>11, IdleType, SetType DEF Abort
<1>12. CASE Crash
  BY <1>12, IdleType DEF Crash, ThreadOK
<1>13. CASE Overrides \/ People \/ UNCHANGED vars
  BY <1>13 DEF Overrides, Override, Revoke, People, HumanPauses, HumanResumes, HumanHolds, Human, vars, ThreadOK
<1>14. CASE Restart /\ ~Crash
  BY <1>14 DEF Restart, Boot, ReconcileRow, ReconcilePause, Reconciled, ReconcileFails, ThreadOK
<1>. QED
  BY <1>2, <1>3, <1>4, <1>5, <1>6, <1>7, <1>8, <1>9, <1>10, <1>11, <1>12, <1>13, <1>14
  DEF Next, Allocate, Restart, Threads

\* Every step keeps the types of the tables.
LEMMA StoreType == ThreadOK /\ StoreOK /\ PlaceInv /\ ProcessOK /\ [Next]_vars => StoreOK'
<1>. SUFFICES ASSUME ThreadOK, StoreOK, PlaceInv, ProcessOK, [Next]_vars
              PROVE  StoreOK'
  OBVIOUS
<1>1. ASSUME NEW t \in Threads, InsertPolicy(t)
      PROVE  StoreOK'
  <2>1. RowNo(t, thread[t].n) \in Rows
    BY <1>1 DEF RowNo, Rows, Keys, Tracks, Scopes, Priority, InsertPolicy, At, ThreadOK, ThreadStates, PlaceInv, ProcessOK
  <2>. QED
    BY <1>1, <2>1 DEF InsertPolicy, StoreOK
<1>2. ASSUME NEW a \in Agents, NEW h \in SUBSET {"text"}, ledger' = ledger_put(a, h) \/ ledger' = ledger_release(a),
             UNCHANGED <<policies, track_state>>
      PROVE  StoreOK'
  BY <1>2 DEF ledger_put, ledger_release, StoreOK
<1>3. ASSUME NEW t \in Threads, NEW a \in Agents,
             LockPaused(t, a) \/ LockRunning(t, a) \/ UnlockRunning(t, a)
      PROVE  StoreOK'
  <2>1. \A h : recorded_text(h) \in SUBSET {"text"}
    BY DEF recorded_text
  <2>2. ledger[a].holds \in SUBSET {"text"}
    BY DEF StoreOK
  <2>3. ledger' = ledger \/ \E h \in SUBSET {"text"} : ledger' = ledger_put(a, h) \/ ledger' = ledger_release(a)
    BY <1>3, <2>1, <2>2 DEF LockPaused, LockRunning, UnlockRunning
  <2>4. UNCHANGED <<policies, track_state>>
    BY <1>3 DEF LockPaused, LockRunning, UnlockRunning, StoreOnly
  <2>. QED
    BY <2>3, <2>4, <1>2 DEF StoreOK
<1>4. ASSUME NEW t \in Threads, Release(t)
      PROVE  StoreOK'
  BY <1>4, <1>2 DEF Release, At, StoreOnly, PlaceInv
<1>5. ASSUME NEW t \in Threads, SetTrackState(t)
      PROVE  StoreOK'
  BY <1>5 DEF SetTrackState, StoreOK
<1>6. ASSUME NEW key \in Keys, NEW tr \in Tracks, NEW scope \in Scopes, NEW zero \in BOOLEAN,
             Override(key, tr, scope, zero)
      PROVE  StoreOK'
  <2>1. [key |-> key, track |-> tr, scope |-> scope, priority |-> 20, at |-> clock + 1, zero |-> zero] \in Rows
    BY <1>6, ControlAssumption DEF Override, ProcessOK, Rows
  <2>. QED
    BY <1>6, <2>1 DEF Override, StoreOK
<1>7. ASSUME NEW row \in policies, Revoke(row)
      PROVE  StoreOK'
  BY <1>7 DEF Revoke, StoreOK
<1>8. ASSUME NEW a \in Agents, ReconcileRow(a)
      PROVE  StoreOK'
  BY <1>8, <1>2, {} \in SUBSET {"text"} DEF ReconcileRow, StoreOK
<1>9. CASE UNCHANGED store
  BY <1>9 DEF store, StoreOK
<1>10. \/ \E t \in Threads, lock \in Locks : Request(t, lock)
       \/ AdaptiveTick \/ CheckOperator
       \/ \E t \in Threads : Resolve(t) \/ PauseAgent(t) \/ ResumeAgent(t) \/ Abort(t)
       \/ \E t \in Threads, a \in Agents : UnlockSkips(t, a) \/ UnlockPaused(t, a)
       \/ Crash \/ Boot \/ ReconcilePause \/ Reconciled \/ ReconcileFails
       \/ People \/ UNCHANGED vars
       => UNCHANGED store
  BY DEF Request, AdaptiveTick, Begin, CheckOperator, Resolve, PauseAgent, ResumeAgent, Abort, UnlockSkips,
         UnlockPaused, StoreOnly, Crash, Boot, ReconcilePause, Reconciled, ReconcileFails, People, HumanPauses,
         HumanResumes, HumanHolds, Human, vars, store
<1>. QED
  BY <1>1, <1>3, <1>4, <1>5, <1>6, <1>7, <1>8, <1>9, <1>10 DEF Next, Allocate, Overrides, Restart, Threads

\* Every step keeps the agents well formed.
LEMMA AgentType == ThreadOK /\ AgentOK /\ ProcessOK /\ PlaceInv /\ [Next]_vars => AgentOK'
<1>. SUFFICES ASSUME ThreadOK, AgentOK, ProcessOK, PlaceInv, [Next]_vars
              PROVE  AgentOK'
  OBVIOUS
<1>1. ASSUME NEW a \in Agents, patch_paused(a) \/ patch_idle(a)
      PROVE  AgentOK'
  BY <1>1 DEF patch_paused, patch_idle, AgentOK, AgentStates
<1>2. ASSUME UNCHANGED <<agents, paused_by>>
      PROVE  AgentOK'
  BY <1>2 DEF AgentOK
<1>3. ASSUME NEW t \in Threads, PauseAgent(t) \/ ResumeAgent(t) \/ Abort(t)
      PROVE  AgentOK'
  BY <1>3, <1>1, <1>2 DEF PauseAgent, ResumeAgent, Abort, At, PlaceInv
<1>4. CASE ReconcilePause \/ ReconcileFails
  BY <1>4, <1>1, <1>2 DEF ReconcilePause, ReconcileFails, ProcessOK
<1>5. ASSUME NEW a \in Agents, HumanPauses(a) \/ HumanResumes(a) \/ HumanHolds(a)
      PROVE  AgentOK'
  BY <1>5 DEF HumanPauses, HumanResumes, HumanHolds, Human, AgentOK, AgentStates
<1>6. \/ \E t \in Threads, lock \in Locks : Request(t, lock)
      \/ AdaptiveTick \/ CheckOperator
      \/ \E t \in Threads : InsertPolicy(t) \/ Resolve(t) \/ Release(t) \/ SetTrackState(t)
      \/ \E t \in Threads, a \in Agents :
           LockPaused(t, a) \/ LockRunning(t, a) \/ UnlockRunning(t, a) \/ UnlockSkips(t, a) \/ UnlockPaused(t, a)
      \/ Overrides \/ Crash \/ Boot \/ Reconciled \/ \E a \in Agents : ReconcileRow(a)
      \/ UNCHANGED vars
      => UNCHANGED <<agents, paused_by>>
  BY DEF Request, AdaptiveTick, Begin, CheckOperator, InsertPolicy, Resolve, Release, SetTrackState, LockPaused,
         LockRunning, UnlockRunning, UnlockSkips, UnlockPaused, StoreOnly, Overrides, Override, Revoke, Crash, Boot,
         Reconciled, ReconcileRow, vars
<1>. QED
  BY <1>2, <1>3, <1>4, <1>5, <1>6 DEF Next, Allocate, Restart, People, Threads

\* Every step keeps the types of the process and of the history.
LEMMA ProcessType == ThreadOK /\ StoreOK /\ ProcessOK /\ [Next]_vars => ProcessOK'
<1>. SUFFICES ASSUME ThreadOK, StoreOK, ProcessOK, [Next]_vars
              PROVE  ProcessOK'
  OBVIOUS
<1>. USE ControlAssumption DEF ProcessOK, Threads
<1>1. ASSUME NEW t \in Threads, NEW lock, NEW s, Begin(t, lock, s)
      PROVE  ProcessOK'
  BY <1>1 DEF Begin, Nothing
<1>2. ASSUME NEW t \in Threads, NEW lock, Request(t, lock)
      PROVE  ProcessOK'
  BY <1>1, <1>2 DEF Request
<1>3. CASE AdaptiveTick \/ CheckOperator
  BY <1>1, <1>3 DEF AdaptiveTick, CheckOperator
<1>4. ASSUME NEW t \in Threads, SetTrackState(t)
      PROVE  ProcessOK'
  <2>1. [what |-> "allocation", lock |-> thread[t].lock, by |-> t]
          \in [what : {"nothing", "allocation", "booting", "boot"}, lock : Locks \cup {{}}, by : Threads]
    BY DEF ThreadOK, ThreadStates
  <2>2. settled' = settled \/ settled' = Nothing \/ settled' = [what |-> "allocation", lock |-> thread[t].lock, by |-> t]
    BY <1>4 DEF SetTrackState, Quietly
  <2>. QED
    BY <1>4, <2>1, <2>2 DEF SetTrackState, Quietly, Nothing
<1>5. ASSUME NEW t \in Threads, Abort(t)
      PROVE  ProcessOK'
  BY <1>5 DEF Abort, Mishap, Disturb, Nothing
<1>6. ASSUME NEW t \in Threads,
             \/ InsertPolicy(t) \/ Resolve(t) \/ PauseAgent(t) \/ ResumeAgent(t) \/ Release(t)
             \/ \E a \in Agents : \/ LockPaused(t, a) \/ LockRunning(t, a)
                                 \/ UnlockRunning(t, a) \/ UnlockSkips(t, a) \/ UnlockPaused(t, a)
      PROVE  ProcessOK'
  BY <1>6 DEF InsertPolicy, Resolve, PauseAgent, ResumeAgent, Release, LockPaused, LockRunning, UnlockRunning,
              UnlockSkips, UnlockPaused, StoreOnly, Quietly
<1>7. CASE Overrides \/ People
  BY <1>7 DEF Overrides, Override, Revoke, People, HumanPauses, HumanResumes, HumanHolds, Human, Mishap, Disturb, Nothing
<1>8. CASE Crash \/ Boot
  BY <1>8 DEF Crash, Boot, Mishap, NoBoot, Disturb, Nothing, Ended, boot_rows, open_rows
<1>9. ASSUME NEW a \in Agents, ReconcileRow(a)
      PROVE  ProcessOK'
  BY <1>9 DEF ReconcileRow
<1>10. CASE ReconcilePause \/ Reconciled \/ ReconcileFails
  BY <1>10 DEF ReconcilePause, Reconciled, ReconcileFails, Serve, NoBoot, Mishap, Nothing, Ended
<1>11. CASE UNCHANGED vars
  BY <1>11 DEF vars
<1>. QED
  BY <1>2, <1>3, <1>4, <1>5, <1>6, <1>7, <1>8, <1>9, <1>10, <1>11 DEF Next, Allocate, Restart

\* Every step keeps the type of the marks.
LEMMA MarksType == MarksOK /\ [Next]_vars => MarksOK'
<1>. SUFFICES ASSUME MarksOK, [Next]_vars
              PROVE  MarksOK'
  OBVIOUS
<1>1. \/ overlapped' = overlapped
      \/ overlapped' = (overlapped \/ \E u \in Threads : thread[u].step # "idle")
  BY DEF Next, Allocate, Request, AdaptiveTick, Begin, CheckOperator, InsertPolicy, Resolve, LockPaused, LockRunning,
     PauseAgent, UnlockRunning, UnlockSkips, UnlockPaused, ResumeAgent, Release, SetTrackState, Abort, StoreOnly,
     Overrides, Override, Revoke, Restart, Crash, Boot, ReconcileRow, ReconcilePause, Reconciled, ReconcileFails,
     People, HumanPauses, HumanResumes, HumanHolds, Human, vars, marks
<1>2. overlapped' \in BOOLEAN
  BY <1>1, Zenon DEF MarksOK
<1>3. shut' = shut \/ \E a \in Agents : shut' = shut \cup {a} \/ shut' = shut \ {a}
  BY DEF Next, Allocate, Request, AdaptiveTick, Begin, CheckOperator, InsertPolicy, Resolve, LockPaused, LockRunning,
     PauseAgent, UnlockRunning, UnlockSkips, UnlockPaused, ResumeAgent, Release, SetTrackState, Abort, StoreOnly,
     Overrides, Override, Revoke, Restart, Crash, Boot, ReconcileRow, ReconcilePause, Reconciled, ReconcileFails,
     People, HumanPauses, HumanResumes, HumanHolds, Human, vars, marks
<1>4. shut' \subseteq Agents
  BY <1>3 DEF MarksOK
<1>. QED
  BY <1>2, <1>4 DEF MarksOK

\* Every variable keeps its type.
LEMMA TypeStep == TypeOK /\ PlaceInv /\ [Next]_vars => TypeOK'
<1>1. TypeOK => ThreadOK /\ StoreOK /\ AgentOK /\ ProcessOK /\ MarksOK
  BY Parts
<1>2. ThreadOK' /\ StoreOK' /\ AgentOK' /\ ProcessOK' /\ MarksOK' => TypeOK'
  BY Parts, PTL
<1>. QED
  BY <1>1, <1>2, ThreadType, StoreType, AgentType, ProcessType, MarksType

-----------------------------------------------------------------------------
\* The steps of an allocation under way: its thread goes on with the same
\* timestamp and lock, or is done.
GoesOn(t) ==
  thread'[t].step # "idle" =>
    thread[t].step # "idle" /\ thread'[t].at = thread[t].at /\ thread'[t].lock = thread[t].lock

\* All other steps leave timestamps and locks alone; a request begins.
LEMMA Steady ==
  ASSUME ThreadOK, [Next]_vars
  PROVE  \/ \A t \in Threads : GoesOn(t)
         \/ \E t \in Threads : \E lock, s : Begin(t, lock, s) /\ s \in {"insert", "check"}
<1>. USE DEF ThreadOK, GoesOn
<1>1. ASSUME NEW t \in Threads, NEW a, NEW s, Goto(t, s) \/ Take(t, a, s) \/ NextAgent(t), thread[t].step # "idle"
      PROVE  \A u \in Threads : GoesOn(u)
  <2>1. CASE Goto(t, s)
    BY <1>1, <2>1 DEF Goto, ThreadStates
  <2>2. CASE Take(t, a, s)
    BY <1>1, <2>2 DEF Take, ThreadStates
  <2>3. CASE NextAgent(t)
    BY <1>1, <2>3 DEF NextAgent, ThreadStates
  <2>. QED
    BY <1>1, <2>1, <2>2, <2>3
<1>2. ASSUME NEW t \in Threads, Set(t, Idle)
      PROVE  \A u \in Threads : GoesOn(u)
  BY <1>2 DEF Set, Idle
<1>3. ASSUME NEW t \in Threads, InsertPolicy(t)
      PROVE  \A u \in Threads : GoesOn(u)
  BY <1>3 DEF InsertPolicy, At, ThreadStates
<1>4. ASSUME NEW t \in Threads, Resolve(t)
      PROVE  \A u \in Threads : GoesOn(u)
  BY <1>4 DEF Resolve, At, Set, ThreadStates
<1>5. ASSUME NEW t \in Threads, PauseAgent(t) \/ ResumeAgent(t) \/ Release(t)
      PROVE  \A u \in Threads : GoesOn(u)
  BY <1>5, <1>1 DEF PauseAgent, ResumeAgent, Release, At
<1>6. ASSUME NEW t \in Threads, NEW a \in Agents,
             LockPaused(t, a) \/ LockRunning(t, a) \/ UnlockRunning(t, a) \/ UnlockSkips(t, a) \/ UnlockPaused(t, a)
      PROVE  \A u \in Threads : GoesOn(u)
  <2>1. thread[t].step # "idle" /\ \E s : Take(t, a, s)
    BY <1>6 DEF LockPaused, LockRunning, UnlockRunning, UnlockSkips, UnlockPaused, Working, At
  <2>. QED
    BY <2>1, <1>1
<1>7. ASSUME NEW t \in Threads, SetTrackState(t)
      PROVE  \A u \in Threads : GoesOn(u)
  <2>1. CASE thread[t].track = "core"
    BY <1>7, <2>1 DEF SetTrackState, At, ThreadStates
  <2>2. CASE thread[t].track # "core"
    BY <1>7, <2>2, <1>2 DEF SetTrackState
  <2>. QED
    BY <2>1, <2>2
<1>8. ASSUME NEW t \in Threads, Abort(t)
      PROVE  \A u \in Threads : GoesOn(u)
  BY <1>8, <1>2 DEF Abort
<1>9. ASSUME CheckOperator
      PROVE  \A u \in Threads : GoesOn(u)
  BY <1>9, <1>1, <1>2 DEF CheckOperator, At, Threads
<1>10. CASE Crash
  BY <1>10 DEF Crash, Idle
<1>11. CASE Overrides \/ People \/ UNCHANGED vars
  BY <1>11 DEF Overrides, Override, Revoke, People, HumanPauses, HumanResumes, HumanHolds, Human, vars
<1>12. CASE Restart /\ ~Crash
  BY <1>12 DEF Restart, Boot, ReconcileRow, ReconcilePause, Reconciled, ReconcileFails
<1>13. CASE (\E t \in Handlers, lock \in Locks : Request(t, lock)) \/ AdaptiveTick
  BY <1>13 DEF Request, AdaptiveTick, Threads
<1>. QED
  BY <1>3, <1>4, <1>5, <1>6, <1>7, <1>8, <1>9, <1>10, <1>11, <1>12, <1>13 DEF Next, Allocate, Restart

\* The clock does not run backwards.
LEMMA ClockStep ==
  ASSUME ProcessOK, [Next]_vars
  PROVE  clock \in Nat /\ clock' \in Nat /\ clock <= clock'
<1>1. clock' = clock \/ clock' = clock + 1
  BY DEF Next, Allocate, Request, AdaptiveTick, Begin, CheckOperator, InsertPolicy, Resolve, LockPaused, LockRunning,
     PauseAgent, UnlockRunning, UnlockSkips, UnlockPaused, ResumeAgent, Release, SetTrackState, Abort, StoreOnly,
     Overrides, Override, Revoke, Restart, Crash, Boot, ReconcileRow, ReconcilePause, Reconciled, ReconcileFails,
     People, HumanPauses, HumanResumes, HumanHolds, Human, vars
<1>2. clock \in Nat
  BY ControlAssumption DEF ProcessOK
<1>. QED
  BY <1>1, <1>2

\* Rows are added by a thread that inserts its own and by an override.
LEMMA PolicyStep ==
  ASSUME [Next]_vars
  PROVE  \/ policies' \subseteq policies
         \/ \E t \in Threads : InsertPolicy(t)
         \/ \E key \in Keys, tr \in Tracks, scope \in Scopes, zero \in BOOLEAN : Override(key, tr, scope, zero)
  BY DEF Next, Allocate, Request, AdaptiveTick, Begin, CheckOperator, Resolve, LockPaused, LockRunning, PauseAgent,
     UnlockRunning, UnlockSkips, UnlockPaused, ResumeAgent, Release, SetTrackState, Abort, StoreOnly, Overrides, Revoke,
     Restart, Crash, Boot, ReconcileRow, ReconcilePause, Reconciled, ReconcileFails, People, HumanPauses, HumanResumes,
     HumanHolds, Human, vars, store

-----------------------------------------------------------------------------
\* Rows stay attributable to the request that wrote them.
LEMMA RowStep == TypeOK /\ PlaceInv /\ RowInv /\ [Next]_vars => RowInv'
<1>. SUFFICES ASSUME ThreadOK, StoreOK, ProcessOK, PlaceInv, RowInv, [Next]_vars
              PROVE  RowInv'
  BY Parts
<1>0. clock \in Nat /\ clock' \in Nat /\ clock <= clock'
  BY ClockStep
<1>1. CASE policies' \subseteq policies /\ \A t \in Threads : GoesOn(t)
  <2>1. \A r \in policies' : r.at \in Nat /\ r.at <= clock'
    BY <1>0, <1>1, ControlAssumption DEF RowInv, StoreOK, Rows
  <2>. QED
    BY <1>1, <2>1 DEF RowInv, GoesOn
<1>2. ASSUME NEW t \in Threads, InsertPolicy(t)
      PROVE  RowInv'
  <2>. DEFINE row == RowNo(t, thread[t].n)
  <2>1. /\ row.at = thread[t].at /\ row.zero = (row.track \in thread[t].lock)
        /\ row.key = "allocation" => row.scope = "company"
    BY DEF RowNo
  <2>2. policies' = policies \cup {row} /\ clock' = clock /\ thread[t].step # "idle"
    BY <1>2 DEF InsertPolicy, At
  <2>3. \A u \in Threads : thread'[u].at = thread[u].at /\ thread'[u].lock = thread[u].lock
                           /\ (thread'[u].step # "idle" => thread[u].step # "idle")
    BY <1>2 DEF InsertPolicy, ThreadOK, ThreadStates, At
  <2>4. thread[t].at <= clock
    BY <2>2 DEF PlaceInv
  <2>. HIDE DEF row
  <2>5. \A r \in policies' : r.at <= clock'
    BY <2>1, <2>2, <2>4 DEF RowInv
  <2>6. \A u \in Threads : thread'[u].step # "idle" =>
          \A r \in policies' : r.at = thread'[u].at => r.zero = (r.track \in thread'[u].lock)
    BY <2>1, <2>2, <2>3 DEF RowInv
  <2>7. \A r, o \in policies' : r.at = o.at /\ r.track = o.track => r.zero = o.zero
    BY <2>1, <2>2 DEF RowInv
  <2>8. \A r \in policies' : r.priority = 40 /\ r.key = "allocation" => r.scope = "company"
    BY <2>1, <2>2 DEF RowInv
  <2>. QED
    BY <2>3, <2>5, <2>6, <2>7, <2>8 DEF RowInv
<1>3. ASSUME NEW t \in Threads, NEW lock, NEW s, Begin(t, lock, s)
      PROVE  RowInv'
  <2>1. policies' = policies /\ clock' = clock + 1
    BY <1>3 DEF Begin, store
  <2>2. thread'[t].at = clock + 1
    BY <1>3 DEF Begin, Set, Idle, ThreadOK
  <2>3. \A u \in Threads \ {t} : thread'[u] = thread[u]
    BY <1>3 DEF Begin, Set, ThreadOK
  <2>4. \A r \in policies : r.at \in Nat /\ r.at <= clock
    BY ControlAssumption DEF RowInv, StoreOK, Rows
  <2>5. \A u \in Threads : thread[u].step # "idle" => thread[u].at \in Nat /\ thread[u].at <= clock
    BY <1>0 DEF PlaceInv
  <2>. QED
    BY <1>0, <2>1, <2>2, <2>3, <2>4, <2>5 DEF RowInv
<1>4. ASSUME NEW key \in Keys, NEW tr \in Tracks, NEW scope \in Scopes, NEW zero \in BOOLEAN,
             Override(key, tr, scope, zero)
      PROVE  RowInv'
  <2>. DEFINE row == [key |-> key, track |-> tr, scope |-> scope, priority |-> 20, at |-> clock + 1, zero |-> zero]
  <2>1. policies' = policies \cup {row} /\ clock' = clock + 1 /\ thread' = thread
    BY <1>4 DEF Override
  <2>2. row.at = clock + 1 /\ row.priority = 20
    OBVIOUS
  <2>3. \A r \in policies : r.at \in Nat /\ r.at <= clock
    BY ControlAssumption DEF RowInv, StoreOK, Rows
  <2>4. \A u \in Threads : thread[u].step # "idle" => thread[u].at \in Nat /\ thread[u].at <= clock
    BY <1>0 DEF PlaceInv
  <2>. HIDE DEF row
  <2>. QED
    BY <1>0, <2>1, <2>2, <2>3, <2>4 DEF RowInv
<1>5. (\E t \in Threads : InsertPolicy(t)) \/ (\E key \in Keys, tr \in Tracks, scope \in Scopes, zero \in BOOLEAN : Override(key, tr, scope, zero))
      \/ policies' \subseteq policies
  BY PolicyStep
<1>. QED
  BY <1>1, <1>2, <1>3, <1>4, <1>5, Steady

\* Its place and its locals still go together.
Placed(u) ==
  /\ thread[u].step \in {"check", "insert"} => thread[u].n <= 3
  /\ thread[u].step \in {"pause", "resume", "release"} => thread[u].cur \in Agents

\* Every step keeps a thread's place and its locals together.
LEMMA PlaceStep == TypeOK /\ PlaceInv /\ [Next]_vars => PlaceInv'
<1>. SUFFICES ASSUME ThreadOK, ProcessOK, PlaceInv, [Next]_vars
              PROVE  PlaceInv'
  BY Parts
<1>0. clock \in Nat /\ clock' \in Nat /\ clock <= clock'
  BY ClockStep
<1>1. \A t \in Threads : thread'[t].step # "idle" => thread'[t].at \in 1..clock'
  <2>1. CASE \A t \in Threads : GoesOn(t)
    BY <1>0, <2>1 DEF PlaceInv, GoesOn
  <2>2. ASSUME NEW t \in Threads, NEW lock, NEW s, Begin(t, lock, s)
        PROVE  \A u \in Threads : thread'[u].step # "idle" => thread'[u].at \in 1..clock'
    <3>1. clock' = clock + 1 /\ thread'[t].at = clock + 1
      BY <2>2 DEF Begin, Set, Idle, ThreadOK
    <3>2. \A u \in Threads \ {t} : thread'[u] = thread[u]
      BY <2>2 DEF Begin, Set, ThreadOK
    <3>. QED
      BY <1>0, <3>1, <3>2 DEF PlaceInv
  <2>. QED
    BY <2>1, <2>2, Steady
<1>. SUFFICES \A u \in Threads : Placed(u)'
  BY <1>1 DEF PlaceInv, Placed
<1>2. ASSUME NEW t \in Threads, NEW r, Set(t, r), r.step \notin {"check", "insert", "pause", "resume", "release"}
      PROVE  \A u \in Threads : Placed(u)'
  BY <1>2 DEF PlaceInv, Placed, Set, ThreadOK
<1>3. ASSUME NEW t \in Threads, Set(t, Idle)
      PROVE  \A u \in Threads : Placed(u)'
  BY <1>2, <1>3 DEF Idle
<1>4. ASSUME UNCHANGED thread
      PROVE  \A u \in Threads : Placed(u)'
  BY <1>4 DEF PlaceInv, Placed
<1>5. ASSUME NEW t \in Threads, NEW lock, NEW s, Begin(t, lock, s), s \in {"insert", "check"}
      PROVE  \A u \in Threads : Placed(u)'
  BY <1>5 DEF Begin, Set, Idle, PlaceInv, Placed, ThreadOK
<1>6. CASE (\E t \in Handlers, lock \in Locks : Request(t, lock)) \/ AdaptiveTick
  BY <1>5, <1>6, Zenon DEF Request, AdaptiveTick, Threads
<1>7. CASE CheckOperator
  <2>1. CASE Set(Adaptive, Idle)
    BY <1>3, <2>1 DEF Threads
  <2>2. CASE Goto(Adaptive, "insert") /\ thread[Adaptive].step = "check"
    BY <2>2 DEF Goto, PlaceInv, Placed, ThreadOK, ThreadStates, Threads
  <2>. QED
    BY <1>7, <2>1, <2>2 DEF CheckOperator, At
<1>8. ASSUME NEW t \in Threads, InsertPolicy(t)
      PROVE  \A u \in Threads : Placed(u)'
  <2>1. thread[t].n \in 0..3
    BY <1>8 DEF InsertPolicy, At, PlaceInv, ThreadOK, ThreadStates
  <2>. QED
    BY <1>8, <2>1 DEF InsertPolicy, At, PlaceInv, Placed, ThreadOK, ThreadStates
<1>9. ASSUME NEW t \in Threads, Resolve(t)
      PROVE  \A u \in Threads : Placed(u)'
  <2>1. thread'[t].step \in {"resolve", "agents"}
    BY <1>9 DEF Resolve, Set, ThreadOK, ThreadStates
  <2>2. \A u \in Threads \ {t} : thread'[u] = thread[u]
    BY <1>9 DEF Resolve, Set, ThreadOK
  <2>. QED
    BY <2>1, <2>2 DEF PlaceInv, Placed
<1>10. ASSUME NEW t \in Threads, PauseAgent(t) \/ Release(t)
       PROVE  \A u \in Threads : Placed(u)'
  <2>1. thread'[t].step = "agents" /\ \A u \in Threads \ {t} : thread'[u] = thread[u]
    BY <1>10 DEF PauseAgent, Release, NextAgent, ThreadOK, ThreadStates
  <2>. QED
    BY <2>1 DEF PlaceInv, Placed
<1>11. ASSUME NEW t \in Threads, NEW a \in Agents, NEW s \in {"agents", "pause", "resume"}, Take(t, a, s)
       PROVE  \A u \in Threads : Placed(u)'
  BY <1>11 DEF Take, PlaceInv, Placed, ThreadOK, ThreadStates
<1>12. ASSUME NEW t \in Threads, NEW a \in Agents,
              LockPaused(t, a) \/ LockRunning(t, a) \/ UnlockRunning(t, a) \/ UnlockSkips(t, a) \/ UnlockPaused(t, a)
       PROVE  \A u \in Threads : Placed(u)'
  BY <1>11, <1>12 DEF LockPaused, LockRunning, UnlockRunning, UnlockSkips, UnlockPaused
<1>13. ASSUME NEW t \in Threads, ResumeAgent(t)
       PROVE  \A u \in Threads : Placed(u)'
  BY <1>13 DEF ResumeAgent, At, Goto, PlaceInv, Placed, ThreadOK, ThreadStates
<1>14. ASSUME NEW t \in Threads, SetTrackState(t)
       PROVE  \A u \in Threads : Placed(u)'
  <2>1. CASE thread[t].track = "core"
    BY <1>14, <2>1 DEF SetTrackState, At, PlaceInv, Placed, ThreadOK, ThreadStates
  <2>2. CASE thread[t].track # "core"
    BY <1>14, <2>2, <1>3 DEF SetTrackState
  <2>. QED
    BY <2>1, <2>2
<1>15. ASSUME NEW t \in Threads, Abort(t)
       PROVE  \A u \in Threads : Placed(u)'
  BY <1>3, <1>15 DEF Abort
<1>16. CASE Overrides \/ Restart \/ People \/ UNCHANGED vars
  <2>1. CASE Crash
    BY <2>1 DEF Crash, Idle, Placed
  <2>2. UNCHANGED thread \/ Crash
    BY <1>16 DEF Overrides, Override, Revoke, Restart, Boot, ReconcileRow, ReconcilePause, Reconciled, ReconcileFails,
                 People, HumanPauses, HumanResumes, HumanHolds, Human, vars
  <2>. QED
    BY <1>4, <2>1, <2>2
<1>. QED
  BY <1>6, <1>7, <1>8, <1>9, <1>10, <1>12, <1>13, <1>14, <1>15, <1>16 DEF Next, Allocate

-----------------------------------------------------------------------------
\* The ledger never forgets an agent.
LEMMA RowsStay ==
  ASSUME StoreOK, [Next]_vars
  PROVE  \A a \in Agents : Known(a) => Known(a)'
<1>. USE DEF Known, StoreOK
<1>1. ASSUME NEW a, NEW h, ledger' = ledger_put(a, h) \/ ledger' = ledger_release(a)
      PROVE  \A b \in Agents : Known(b) => Known(b)'
  BY <1>1 DEF ledger_put, ledger_release
<1>2. \/ UNCHANGED ledger
      \/ \E a, h : ledger' = ledger_put(a, h) \/ ledger' = ledger_release(a)
  BY DEF Next, Allocate, Request, AdaptiveTick, Begin, CheckOperator, InsertPolicy, Resolve, LockPaused, LockRunning,
     PauseAgent, UnlockRunning, UnlockSkips, UnlockPaused, ResumeAgent, Release, SetTrackState, Abort, StoreOnly,
     Overrides, Override, Revoke, Restart, Crash, Boot, ReconcileRow, ReconcilePause, Reconciled, ReconcileFails,
     People, HumanPauses, HumanResumes, HumanHolds, Human, vars, store
<1>. QED
  BY <1>1, <1>2

\* A thread that is about to pause an agent has just written its row, or
\* was about to before.
LEMMA AboutToPause ==
  ASSUME ThreadOK, [Next]_vars, NEW t \in Threads, thread'[t].step = "pause"
  PROVE  thread'[t] = thread[t] \/ \E a \in Agents : LockRunning(t, a)
<1>. USE DEF ThreadOK
<1>1. ASSUME NEW u \in Threads, NEW r, Set(u, r), r.step # "pause"
      PROVE  thread'[t] = thread[t]
  BY <1>1 DEF Set
<1>2. ASSUME NEW u \in Threads, Set(u, Idle)
      PROVE  thread'[t] = thread[t]
  BY <1>1, <1>2 DEF Idle
<1>3. CASE (\E u \in Handlers, lock \in Locks : Request(u, lock)) \/ AdaptiveTick
  <2>1. PICK u \in Threads : \E lock, s : Begin(u, lock, s) /\ s # "pause"
    BY <1>3 DEF Request, AdaptiveTick, Threads
  <2>. QED
    BY <2>1 DEF Begin, Set, Idle
<1>4. CASE CheckOperator
  BY <1>2, <1>4 DEF CheckOperator, Goto, Threads, ThreadStates
<1>5. ASSUME NEW u \in Threads, InsertPolicy(u)
      PROVE  thread'[t] = thread[t]
  BY <1>5 DEF InsertPolicy, At, ThreadStates
<1>6. ASSUME NEW u \in Threads, Resolve(u)
      PROVE  thread'[t] = thread[t]
  BY <1>6 DEF Resolve, Set, ThreadStates
<1>7. ASSUME NEW u \in Threads, PauseAgent(u) \/ Release(u)
      PROVE  thread'[t] = thread[t]
  BY <1>7 DEF PauseAgent, Release, NextAgent, ThreadStates
<1>8. ASSUME NEW u \in Threads, NEW a \in Agents, NEW s \in {"agents", "resume"}, Take(u, a, s)
      PROVE  thread'[t] = thread[t]
  BY <1>8 DEF Take, ThreadStates
<1>9. ASSUME NEW u \in Threads, NEW a \in Agents,
             LockPaused(u, a) \/ UnlockRunning(u, a) \/ UnlockSkips(u, a) \/ UnlockPaused(u, a)
      PROVE  thread'[t] = thread[t]
  BY <1>8, <1>9 DEF LockPaused, UnlockRunning, UnlockSkips, UnlockPaused
<1>10. ASSUME NEW u \in Threads, NEW a \in Agents, LockRunning(u, a)
       PROVE  u = t \/ thread'[t] = thread[t]
  BY <1>10 DEF LockRunning, Take
<1>11. ASSUME NEW u \in Threads, ResumeAgent(u)
       PROVE  thread'[t] = thread[t]
  BY <1>11 DEF ResumeAgent, Goto, ThreadStates
<1>12. ASSUME NEW u \in Threads, SetTrackState(u)
       PROVE  thread'[t] = thread[t]
  <2>1. CASE thread[u].track = "core"
    BY <1>12, <2>1 DEF SetTrackState, At, ThreadStates
  <2>2. CASE thread[u].track # "core"
    BY <1>12, <2>2, <1>2 DEF SetTrackState
  <2>. QED
    BY <2>1, <2>2
<1>13. ASSUME NEW u \in Threads, Abort(u)
       PROVE  thread'[t] = thread[t]
  BY <1>2, <1>13 DEF Abort
<1>14. CASE Overrides \/ Restart \/ People \/ UNCHANGED vars
  BY <1>14 DEF Idle, Overrides, Override, Revoke, Restart, Crash, Boot, ReconcileRow, ReconcilePause, Reconciled,
               ReconcileFails, People, HumanPauses, HumanResumes, HumanHolds, Human, vars
<1>. HIDE DEF ThreadOK
<1>. QED
  BY <1>3, <1>4, <1>5, <1>6, <1>7, <1>9, <1>10, <1>11, <1>12, <1>13, <1>14 DEF Next, Allocate

\* An agent becomes paused by the bridge only when a thread or a boot that
\* knows it pauses it.
LEMMA Pauses ==
  ASSUME AgentOK, [Next]_vars, NEW a \in Agents, paused_by'[a] = "bridge"
  PROVE  \/ paused_by[a] = "bridge"
         \/ \E t \in Threads : thread[t].step = "pause" /\ thread[t].cur = a
         \/ boot.cur # NoAgent /\ boot.cur = a
<1>. USE DEF AgentOK
<1>1. ASSUME NEW b, b # a, patch_paused(b)
      PROVE  paused_by[a] = "bridge"
  BY <1>1 DEF patch_paused
<1>2. ASSUME NEW b, patch_idle(b)
      PROVE  paused_by[a] = "bridge"
  BY <1>2 DEF patch_idle
<1>3. ASSUME NEW t \in Threads, PauseAgent(t) \/ ResumeAgent(t) \/ Abort(t)
      PROVE  paused_by[a] = "bridge" \/ (thread[t].step = "pause" /\ thread[t].cur = a)
  <2>1. \/ thread[t].step = "pause" /\ patch_paused(thread[t].cur)
        \/ \E b : patch_idle(b)
        \/ paused_by' = paused_by
    BY <1>3 DEF PauseAgent, ResumeAgent, Abort, At
  <2>2. CASE patch_paused(thread[t].cur) /\ thread[t].cur # a
    BY <1>1, <2>2
  <2>. QED
    BY <1>2, <2>1, <2>2
<1>4. CASE ReconcilePause \/ ReconcileFails
  BY <1>1, <1>4 DEF ReconcilePause, ReconcileFails
<1>5. ASSUME NEW b \in Agents, HumanPauses(b) \/ HumanResumes(b) \/ HumanHolds(b)
      PROVE  paused_by[a] = "bridge"
  BY <1>5 DEF HumanPauses, HumanResumes, HumanHolds, Human
<1>6. \/ \E t \in Threads : PauseAgent(t) \/ ResumeAgent(t) \/ Abort(t)
      \/ ReconcilePause \/ ReconcileFails \/ People \/ UNCHANGED paused_by
  BY DEF Next, Allocate, Request, AdaptiveTick, Begin, CheckOperator, InsertPolicy, Resolve, LockPaused, LockRunning,
     UnlockRunning, UnlockSkips, UnlockPaused, Release, SetTrackState, StoreOnly, Overrides, Override, Revoke,
     Restart, Crash, Boot, ReconcileRow, Reconciled, vars
<1>. QED
  BY <1>3, <1>4, <1>5, <1>6 DEF People

\* A boot collects its rows once, and pauses only agents that have one.
LEMMA BootStep ==
  ASSUME ProcessOK, [Next]_vars
  PROVE  Boot \/ (boot'.todo \subseteq boot.todo /\ boot'.cur \in {boot.cur, NoAgent} \cup boot.todo)
<1>1. \/ UNCHANGED boot \/ boot' = NoBoot
      \/ Boot \/ ReconcilePause \/ \E a \in Agents : ReconcileRow(a)
  BY DEF Next, Allocate, Request, AdaptiveTick, Begin, CheckOperator, InsertPolicy, Resolve, LockPaused, LockRunning,
     PauseAgent, UnlockRunning, UnlockSkips, UnlockPaused, ResumeAgent, Release, SetTrackState, Abort, StoreOnly,
     Overrides, Override, Revoke, Restart, Crash, Reconciled, ReconcileFails, Serve, People, HumanPauses, HumanResumes,
     HumanHolds, Human, vars
<1>2. CASE ReconcilePause
  BY <1>2 DEF ReconcilePause, ProcessOK
<1>3. ASSUME NEW a \in Agents, ReconcileRow(a)
      PROVE  boot'.todo \subseteq boot.todo /\ boot'.cur \in {boot.cur, NoAgent} \cup boot.todo
  BY <1>3 DEF ReconcileRow
<1>4. CASE boot' = NoBoot
  BY <1>4 DEF NoBoot
<1>. QED
  BY <1>1, <1>2, <1>3, <1>4

\* Whoever pauses an agent has its row, after every step.
LEMMA KnownStep == TypeOK /\ PlaceInv /\ KnownInv /\ [Next]_vars => KnownInv'
<1>. SUFFICES ASSUME ThreadOK, StoreOK, AgentOK, ProcessOK, PlaceInv, KnownInv, [Next]_vars
              PROVE  KnownInv'
  BY Parts
<1>0. \A a \in Agents : ledger[a].state # "none" => ledger'[a].state # "none"
  BY RowsStay DEF Known
<1>1. ASSUME NEW t \in Threads, thread'[t].step = "pause"
      PROVE  ledger'[thread'[t].cur].state # "none"
  <2>1. CASE thread'[t] = thread[t]
    BY <1>0, <1>1, <2>1 DEF KnownInv, Known, PlaceInv
  <2>2. ASSUME NEW a \in Agents, LockRunning(t, a)
        PROVE  ledger'[thread'[t].cur].state # "none"
    <3>1. thread'[t].cur = a
      BY <2>2 DEF LockRunning, Take, ThreadOK, ThreadStates
    <3>2. ledger'[a].state = "open"
      BY <2>2 DEF LockRunning, ledger_put, StoreOK
    <3>. QED
      BY <3>1, <3>2
  <2>. QED
    BY <1>1, <2>1, <2>2, AboutToPause
<1>2. \A a \in boot'.todo : ledger'[a].state # "none"
  <2>1. boot.todo \subseteq Agents
    BY DEF ProcessOK
  <2>2. CASE Boot
    BY <2>2 DEF Boot, boot_rows, open_rows, is_open, store
  <2>. QED
    BY <1>0, <2>1, <2>2, BootStep DEF KnownInv, Known
<1>3. boot'.cur # NoAgent => ledger'[boot'.cur].state # "none"
  <2>1. boot.cur \in Agents \cup {NoAgent} /\ boot.todo \subseteq Agents
    BY DEF ProcessOK
  <2>2. CASE Boot
    BY <2>2 DEF Boot
  <2>. QED
    BY <1>0, <2>1, <2>2, BootStep DEF KnownInv, Known
<1>4. ASSUME NEW a \in Agents, paused_by'[a] = "bridge"
      PROVE  ledger'[a].state # "none"
  <2>1. ledger[a].state # "none"
    BY <1>4, Pauses DEF KnownInv, KnownPause, Known
  <2>. QED
    BY <1>0, <2>1
<1>. QED
  BY <1>1, <1>2, <1>3, <1>4 DEF KnownInv, KnownPause, Known

\* Every step preserves the invariant.
LEMMA InvStep == IInv /\ [Next]_vars => IInv'
  BY TypeStep, PlaceStep, RowStep, KnownStep DEF IInv

-----------------------------------------------------------------------------
\* The strengthened invariant holds in every reachable state.
THEOREM Invariance == Spec => []IInv
  BY InvInit, InvStep, PTL DEF Spec

\* Every variable keeps its type.
THEOREM TypeCorrect == Spec => []TypeOK
  BY Invariance, PTL DEF IInv

\* No agent is ever paused by the bridge without the ledger knowing it.
THEOREM KnownPauseHolds == Spec => []KnownPause
  <1>1. IInv => KnownPause
    BY DEF IInv, KnownInv
  <1>. QED
    BY <1>1, Invariance, PTL

-----------------------------------------------------------------------------
(* What an allocation or a boot that nothing disturbs leaves behind.       *)

AllIdle == \A t \in Threads : thread[t].step = "idle"

\* A boot keeps every open row in its list, closes it, or sees to its agent.
SeenTo(a) ==
  \/ a \in boot.todo
  \/ /\ effective("allocation", TrackOf[a])
     /\ agents[a].status = "paused" \/ boot.cur = a

\* Nobody works while the process is down or boots, nor on what has settled.
QuietInv ==
  /\ phase # "up" \/ settled.what \in {"allocation", "boot"} => AllIdle
  /\ settled.what \in {"allocation", "boot"} => phase = "up"
  /\ settled.what = "booting" => phase = "boot" /\ \A a \in open_rows : SeenTo(a)

Walking == {"agents", "pause", "resume", "release"}

\* The agent a thread has taken and is not done with.
InHand(t) == IF thread[t].step \in Walking \ {"agents"} THEN {thread[t].cur} ELSE {}

Right(a, locked) == IF locked THEN LockedUp(a) ELSE LetGo(a)

\* The rows of an undisturbed allocation are the newest.
Stored(t) ==
  /\ thread[t].at = clock
  /\ \A i \in 0..3 : i < thread[t].n => RowNo(t, i) \in policies
  /\ thread[t].step \notin {"check", "insert"} => thread[t].n = 4
  /\ t = Adaptive /\ thread[t].step # "check" => operator_rows = {}

\* Its listing is up to date for the agents ahead, and those behind are right.
Walked(t) ==
  /\ thread[t].step \in {"check", "insert"} => thread[t].track = "core"
  /\ thread[t].step = "resolve" /\ thread[t].track = "lab" =>
       \A a \in OfTrack("core") : thread[t].listed[a] = agents[a]
  /\ thread[t].step \in Walking =>
       /\ thread[t].todo \cup InHand(t) \subseteq OfTrack(thread[t].track)
       /\ \A a \in InHand(t) : a \notin thread[t].todo
       /\ \A a \in thread[t].todo : thread[t].listed[a] = agents[a]
       /\ \A a \in OfTrack(thread[t].track) \ (thread[t].todo \cup InHand(t)) : Right(a, Locking(t))
       /\ thread[t].track = "core" => \A a \in OfTrack("lab") : thread[t].listed[a] = agents[a]
       /\ thread[t].track = "lab" =>
            /\ track_state["core"] = IF "core" \in thread[t].lock THEN "paused" ELSE "running"
            /\ \A a \in OfTrack("core") : Right(a, "core" \in thread[t].lock)
  /\ thread[t].step = "pause" => Locking(t) /\ is_open(thread[t].cur)
  /\ thread[t].step \in {"resume", "release"} => ~Locking(t)

Undisturbed(t) ==
  /\ phase = "up" /\ thread[t].step # "idle"
  /\ \A u \in Threads \ {t} : thread[u].step = "idle"
  /\ Stored(t) /\ Walked(t)

SettledInv ==
  /\ QuietInv
  /\ \A t \in Threads : alone = t => Undisturbed(t)
  /\ LockReasserted
  /\ Agreement

-----------------------------------------------------------------------------
\* A row that nothing decides over decides: two such rows are of one request.
LEMMA WinnerDecides ==
  ASSUME StoreOK, RowInv, NEW key, NEW tr, NEW r \in candidates(key, tr), \A o \in candidates(key, tr) : wins(r, o)
  PROVE  effective(key, tr) = r.zero
<1>. DEFINE rows == candidates(key, tr)
            p == pick(rows)
<1>0. rows # {} /\ r.zero \in BOOLEAN
  BY DEF candidates, StoreOK, Rows
<1>1. p \in rows /\ \A o \in rows : wins(p, o)
  BY DEF pick
<1>2. \A o \in rows : o \in policies /\ o.priority \in {20, 40} /\ o.at \in Nat /\ o.scope \in Scopes /\ o.track = tr
  BY ControlAssumption DEF candidates, StoreOK, Rows
<1>. HIDE DEF p
<1>3. wins(p, r) /\ wins(r, p)
  BY <1>1
<1>4. p.at = r.at
  BY <1>1, <1>2, <1>3 DEF wins, ScopeRank, Scopes
<1>5. p.zero = r.zero
  BY <1>1, <1>2, <1>4 DEF RowInv
<1>. QED
  BY <1>0, <1>5, Zenon DEF effective, p

\* The steps of a thread's allocation, between its begin and its end.
Move(t) ==
  \/ t = Adaptive /\ CheckOperator
  \/ InsertPolicy(t) \/ Resolve(t) \/ PauseAgent(t) \/ ResumeAgent(t) \/ Release(t) \/ SetTrackState(t)
  \/ \E a \in Agents : LockPaused(t, a) \/ LockRunning(t, a) \/ UnlockRunning(t, a) \/ UnlockSkips(t, a) \/ UnlockPaused(t, a)

\* Only a thread that has begun moves.
LEMMA MoverWorks ==
  ASSUME NEW t \in Threads, Move(t)
  PROVE  phase = "up" /\ thread[t].step # "idle"
  BY DEF Move, CheckOperator, InsertPolicy, Resolve, PauseAgent, ResumeAgent, Release, SetTrackState, LockPaused,
         LockRunning, UnlockRunning, UnlockSkips, UnlockPaused, Working, At

\* Every step is a move, begins a request, belongs to a restart, disturbs or
\* changes nothing.
LEMMA Steps ==
  ASSUME [Next]_vars
  PROVE  \/ \E t \in Threads : Move(t)
         \/ \E t \in Threads, lock \in Locks \cup {{}}, s \in {"insert", "check"} :
              Begin(t, lock, s) /\ (t = Adaptive <=> s = "check")
         \/ Boot \/ ReconcilePause \/ Reconciled \/ \E a \in Agents : ReconcileRow(a)
         \/ ReconcileFails \/ Crash
         \/ Disturb /\ (\A t \in Threads : thread'[t] = thread[t] \/ thread'[t] = Idle) /\ phase' = phase
         \/ UNCHANGED vars
<1>1. CASE Overrides \/ People
  BY <1>1 DEF Overrides, Override, Revoke, People, HumanPauses, HumanResumes, HumanHolds, Human
<1>2. ASSUME NEW t \in Threads, Abort(t)
      PROVE  Disturb /\ (\A u \in Threads : thread'[u] = thread[u] \/ thread'[u] = Idle) /\ phase' = phase
  BY <1>2 DEF Abort, Set
<1>3. CASE Restart
  BY <1>3 DEF Restart
<1>4. ASSUME NEW t \in Handlers, NEW lock \in Locks, Request(t, lock)
      PROVE  Begin(t, lock, "insert") /\ t \in Threads /\ t # Adaptive
  BY <1>4, ControlAssumption DEF Request, Threads
<1>5. AdaptiveTick => Begin(Adaptive, {}, "check") /\ Adaptive \in Threads
  BY DEF AdaptiveTick, Threads
<1>6. CheckOperator => Move(Adaptive) /\ Adaptive \in Threads
  BY DEF Move, Threads
<1>. QED
  BY <1>1, <1>2, <1>3, <1>4, <1>5, <1>6 DEF Next, Allocate, Move

-----------------------------------------------------------------------------
\* Nobody works while the process is down or boots, after every step.
LEMMA QuietStep == TypeOK /\ QuietInv /\ (\A t \in Threads : alone = t => Undisturbed(t)) /\ [Next]_vars
                     => QuietInv' /\ (settled'.what = "boot" => LockReasserted' \/ UNCHANGED vars)
<1>. SUFFICES ASSUME ThreadOK, StoreOK, AgentOK, ProcessOK, QuietInv, \A t \in Threads : alone = t => Undisturbed(t),
                     [Next]_vars
              PROVE  QuietInv' /\ (settled'.what = "boot" => LockReasserted' \/ UNCHANGED vars)
  BY Parts
<1>1. ASSUME phase' = "up", settled' = Nothing
      PROVE  QuietInv' /\ settled'.what # "boot"
  BY <1>1 DEF QuietInv, Nothing
<1>2. ASSUME NEW t \in Threads, Move(t)
      PROVE  QuietInv' /\ settled'.what # "boot"
  <2>1. settled.what = "nothing"
    BY <1>2, MoverWorks DEF QuietInv, AllIdle, ProcessOK
  <2>2. phase' = "up"
    BY <1>2, MoverWorks DEF Move, CheckOperator, InsertPolicy, Resolve, PauseAgent, ResumeAgent, Release, SetTrackState,
       LockPaused, LockRunning, UnlockRunning, UnlockSkips, UnlockPaused, StoreOnly
  <2>3. CASE settled' = settled
    BY <2>1, <2>2, <2>3 DEF QuietInv
  <2>4. CASE settled' # settled
    <3>1. SetTrackState(t) /\ thread[t].track # "core"
      BY <1>2, <2>4 DEF Move, CheckOperator, InsertPolicy, Resolve, PauseAgent, ResumeAgent, Release, SetTrackState,
         LockPaused, LockRunning, UnlockRunning, UnlockSkips, UnlockPaused, StoreOnly, Quietly
    <3>2. CASE alone # t
      BY <1>1, <2>2, <3>1, <3>2 DEF SetTrackState
    <3>3. CASE alone = t
      <4>1. settled'.what = "allocation"
        BY <3>1, <3>3 DEF SetTrackState
      <4>2. \A u \in Threads \ {t} : thread'[u].step = "idle"
        BY <3>1, <3>3 DEF SetTrackState, Set, Undisturbed, ThreadOK
      <4>3. thread'[t].step = "idle"
        BY <3>1 DEF SetTrackState, Set, Idle, ThreadOK
      <4>. QED
        BY <2>2, <4>1, <4>2, <4>3 DEF QuietInv, AllIdle
    <3>. QED
      BY <3>2, <3>3
  <2>. QED
    BY <2>3, <2>4
<1>3. ASSUME NEW t \in Threads, NEW lock, NEW s, Begin(t, lock, s)
      PROVE  QuietInv' /\ settled'.what # "boot"
  BY <1>1, <1>3 DEF Begin, At
<1>4. CASE Boot
  BY <1>4 DEF Boot, QuietInv, AllIdle, Ended, Nothing, SeenTo, boot_rows, open_rows, is_open, store
<1>5. CASE Crash
  BY <1>5 DEF Crash, Disturb, Nothing, QuietInv, AllIdle, Idle
<1>6. CASE Disturb /\ (\A t \in Threads : thread'[t] = thread[t] \/ thread'[t] = Idle) /\ phase' = phase
  BY <1>6 DEF Disturb, Nothing, QuietInv, AllIdle, Idle
<1>7. CASE ReconcileFails
  BY <1>1, <1>7 DEF ReconcileFails, Serve
<1>8. CASE Reconciled
  <2>1. phase' = "up" /\ AllIdle'
    BY <1>8 DEF Reconciled, Serve, QuietInv, AllIdle
  <2>2. settled'.what \in {"boot", "nothing"} /\ (settled'.what = "boot" => settled.what = "booting")
    BY <1>8 DEF Reconciled, Ended, Nothing
  <2>3. ASSUME settled.what = "booting"
        PROVE  LockReasserted'
    <3>1. boot.todo = {} /\ boot.cur = NoAgent
      BY <1>8 DEF Reconciled, NoBoot
    <3>2. \A a \in open_rows : agents[a].status = "paused" /\ effective("allocation", TrackOf[a])
      BY <2>3, <3>1, ControlAssumption DEF QuietInv, SeenTo, open_rows
    <3>3. UNCHANGED <<policies, ledger, agents>>
      BY <1>8 DEF Reconciled, store
    <3>. QED
      BY <3>2, <3>3 DEF LockReasserted, open_rows, is_open, effective, candidates, pick
  <2>. QED
    BY <2>1, <2>2, <2>3 DEF QuietInv
<1>9. CASE ReconcilePause \/ \E a \in Agents : ReconcileRow(a)
  <2>1. phase = "boot" /\ phase' = "boot" /\ thread' = thread /\ settled' = settled /\ policies' = policies
    BY <1>9 DEF ReconcilePause, ReconcileRow, store
  <2>2. ASSUME settled.what = "booting"
        PROVE  \A a \in open_rows' : SeenTo(a)'
    <3>1. \A tr : effective("allocation", tr)' = effective("allocation", tr)
      BY <2>1 DEF effective, candidates, pick
    <3>2. CASE ReconcilePause
      BY <2>2, <3>1, <3>2 DEF ReconcilePause, patch_paused, QuietInv, SeenTo, open_rows, is_open, AgentOK, store
    <3>3. ASSUME NEW a \in Agents, ReconcileRow(a)
          PROVE  \A b \in open_rows' : SeenTo(b)'
      <4>1. \A b \in open_rows' : b \in open_rows /\ (b = a => effective("allocation", TrackOf[a]))
        BY <3>3 DEF ReconcileRow, ledger_release, open_rows, is_open, StoreOK
      <4>2. agents' = agents
        BY <3>3 DEF ReconcileRow
      <4>3. boot'.todo = boot.todo \ {a} /\ boot.cur = NoAgent
        BY <3>3 DEF ReconcileRow
      <4>4. effective("allocation", TrackOf[a]) => agents[a].status = "paused" \/ boot'.cur = a
        BY <3>3 DEF ReconcileRow
      <4>5. \A b \in open_rows : SeenTo(b) /\ b \in Agents
        BY <2>2 DEF QuietInv, open_rows
      <4>. QED
        BY <3>1, <4>1, <4>2, <4>3, <4>4, <4>5, ControlAssumption DEF SeenTo
    <3>. QED
      BY <1>9, <3>2, <3>3
  <2>. QED
    BY <2>1, <2>2 DEF QuietInv, AllIdle
<1>10. CASE UNCHANGED vars
  BY <1>10 DEF vars, store, QuietInv, AllIdle, SeenTo, open_rows, is_open, effective, candidates, pick
<1>. QED
  BY <1>2, <1>3, <1>4, <1>5, <1>6, <1>7, <1>8, <1>9, <1>10, Steps

-----------------------------------------------------------------------------
\* What a move leaves alone once the rows are stored.
Keeps(t) ==
  /\ phase' = "up" /\ clock' = clock /\ policies' = policies
  /\ thread'[t].at = thread[t].at /\ thread'[t].n = thread[t].n /\ thread'[t].lock = thread[t].lock
  /\ \A u \in Threads \ {t} : thread'[u] = thread[u]

\* What an allocation has stored stays stored while no other thread acts.
LEMMA StoredStays ==
  ASSUME NEW t \in Threads, Stored(t), Keeps(t),
         thread[t].step \notin {"check", "insert"}, thread'[t].step \notin {"check", "insert"}
  PROVE  Stored(t)'
  BY DEF Stored, Keeps, RowNo, Priority, operator_rows

\* A step with one agent of the track: it was ahead or in hand, and is in
\* hand or right afterwards.
LEMMA OneAgent ==
  ASSUME ThreadOK, NEW t \in Threads, Walked(t), NEW a \in thread[t].todo \cup InHand(t),
         thread[t].step \in Walking, thread'[t].step \in Walking, InHand(t) \subseteq {a},
         thread'[t].track = thread[t].track, thread'[t].lock = thread[t].lock, thread'[t].listed = thread[t].listed,
         thread'[t].todo = thread[t].todo \ {a}, track_state' = track_state,
         \A b \in Agents \ {a} : ledger'[b] = ledger[b] /\ agents'[b] = agents[b],
         IF thread'[t].step = "agents" THEN Right(a, Locking(t))' ELSE thread'[t].cur = a,
         thread'[t].step = "pause" => Locking(t) /\ ledger'[a].state = "open",
         thread'[t].step \in {"resume", "release"} => ~Locking(t)
  PROVE  Walked(t)'
<1>1. thread[t].todo \cup InHand(t) \subseteq OfTrack(thread[t].track) /\ a \in Agents /\ TrackOf[a] = thread[t].track
  BY DEF Walked, OfTrack
<1>2. InHand(t)' = IF thread'[t].step = "agents" THEN {} ELSE {a}
  BY DEF InHand, Walking
<1>3. Locking(t)' = Locking(t)
  BY DEF Locking
<1>5. (thread'[t].todo \cup InHand(t)' \subseteq OfTrack(thread'[t].track)) /\ \A b \in InHand(t)' : b \notin thread'[t].todo
  BY <1>1, <1>2
<1>6. \A b \in thread'[t].todo : thread'[t].listed[b] = agents'[b]
  BY <1>1 DEF Walked, OfTrack
<1>7. ASSUME NEW b \in OfTrack(thread'[t].track) \ (thread'[t].todo \cup InHand(t)')
      PROVE  Right(b, Locking(t))'
  <2>1. CASE b = a
    BY <1>2, <1>7, <2>1
  <2>2. CASE b # a
    <3>1. b \in OfTrack(thread[t].track) \ (thread[t].todo \cup InHand(t)) /\ b \in Agents
      BY <1>7, <2>2 DEF OfTrack
    <3>2. Right(b, Locking(t))
      BY <3>1 DEF Walked
    <3>. QED
      BY <1>3, <2>2, <3>1, <3>2 DEF Right, LockedUp, LetGo, is_open
  <2>. QED
    BY <2>1, <2>2
<1>8. thread'[t].track = "core" => \A b \in OfTrack("lab") : thread'[t].listed[b] = agents'[b]
  BY <1>1 DEF Walked, OfTrack
<1>9. ASSUME thread'[t].track = "lab"
      PROVE  /\ track_state'["core"] = IF "core" \in thread'[t].lock THEN "paused" ELSE "running"
             /\ \A b \in OfTrack("core") : Right(b, "core" \in thread[t].lock)'
  <2>1. \A b \in OfTrack("core") : b \in Agents \ {a} /\ Right(b, "core" \in thread[t].lock)
    BY <1>1, <1>9 DEF Walked, OfTrack
  <2>2. \A b \in OfTrack("core") : Right(b, "core" \in thread[t].lock)'
    BY <1>9, <2>1 DEF Right, LockedUp, LetGo, is_open
  <2>. QED
    BY <1>9, <2>2 DEF Walked
<1>. QED
  BY <1>2, <1>3, <1>5, <1>6, <1>7, <1>8, <1>9 DEF Walked, Walking, is_open, Right

\* An undisturbed allocation stays so, until it ends.
LEMMA MoveStep ==
  ASSUME TypeOK, PlaceInv, NEW t \in Threads, alone = t, Undisturbed(t), Move(t)
  PROVE  alone' = t => Undisturbed(t)'
<1>0. ThreadOK /\ StoreOK /\ AgentOK /\ ProcessOK
  BY Parts
<1>. USE <1>0 DEF ThreadOK
<1>1. thread[t] \in ThreadStates /\ phase = "up" /\ Stored(t) /\ Walked(t)
  BY DEF Undisturbed
<1>2. ASSUME Keeps(t), thread'[t].step # "idle", Stored(t)', Walked(t)'
      PROVE  Undisturbed(t)'
  BY <1>2 DEF Undisturbed, Keeps
<1>3. CASE t = Adaptive /\ CheckOperator /\ alone' = t
  <2>1. operator_rows = {} /\ thread[t].step = "check" /\ Goto(t, "insert") /\ t # NoThread
    BY <1>3, ControlAssumption DEF CheckOperator, At, Threads
  <2>2. thread'[t] = [thread[t] EXCEPT !.step = "insert"] /\ \A u \in Threads \ {t} : thread'[u] = thread[u]
    BY <2>1 DEF Goto
  <2>3. thread'[t].step = "insert" /\ thread'[t].at = thread[t].at /\ thread'[t].n = thread[t].n
        /\ thread'[t].lock = thread[t].lock /\ thread'[t].track = thread[t].track
    BY <1>1, <2>2 DEF ThreadStates
  <2>4. UNCHANGED <<store, phase, clock>>
    BY <1>3 DEF CheckOperator
  <2>5. Stored(t)'
    BY <1>1, <2>1, <2>3, <2>4 DEF Stored, store, RowNo, Priority, operator_rows
  <2>6. Walked(t)'
    BY <1>1, <2>1, <2>3 DEF Walked, Walking
  <2>. QED
    BY <1>2, <1>1, <2>2, <2>3, <2>4, <2>5, <2>6 DEF Keeps, store
<1>4. CASE InsertPolicy(t)
  <2>. DEFINE row == RowNo(t, thread[t].n)
  <2>1. thread[t].step = "insert" /\ thread[t].n \in 0..3
    BY <1>1, <1>4 DEF InsertPolicy, At, PlaceInv, ThreadStates
  <2>2. /\ thread'[t].at = thread[t].at /\ thread'[t].lock = thread[t].lock /\ thread'[t].track = thread[t].track
        /\ thread'[t].n = thread[t].n + 1
        /\ thread'[t].step = IF thread[t].n = 3 THEN "resolve" ELSE "insert"
        /\ \A u \in Threads \ {t} : thread'[u] = thread[u]
    BY <1>1, <1>4, <2>1 DEF InsertPolicy, ThreadStates
  <2>3. policies' = policies \cup {row} /\ UNCHANGED <<phase, clock>>
    BY <1>4 DEF InsertPolicy
  <2>4. \A i \in 0..3 : RowNo(t, i)' = RowNo(t, i)
    BY <2>2 DEF RowNo, Priority
  <2>5. \A i \in 0..3 : i < thread[t].n + 1 => RowNo(t, i)' \in policies'
    <3>1. \A i \in 0..3 : i < thread[t].n + 1 => i < thread[t].n \/ i = thread[t].n
      BY <2>1
    <3>. QED
      BY <1>1, <2>3, <2>4, <3>1 DEF Stored
  <2>6. t = Adaptive => operator_rows' = {}
    BY <1>1, <2>1, <2>3 DEF Stored, operator_rows, RowNo, Priority
  <2>7. Stored(t)'
    <3>. HIDE DEF row
    <3>1. \A i \in 0..3 : i < thread'[t].n => RowNo(t, i)' \in policies'
      BY <2>2, <2>5
    <3>2. thread'[t].step \notin {"check", "insert"} => thread'[t].n = 4
      BY <2>1, <2>2
    <3>3. thread'[t].at = clock'
      BY <1>1, <2>2, <2>3 DEF Stored
    <3>. QED
      BY <2>6, <3>1, <3>2, <3>3 DEF Stored
  <2>8. Walked(t)'
    BY <1>1, <2>1, <2>2 DEF Walked, Walking
  <2>. HIDE DEF row
  <2>. QED
    BY <1>1, <2>2, <2>3, <2>7, <2>8 DEF Undisturbed
<1>5. CASE Resolve(t)
  <2>. DEFINE tr == thread[t].track
              seen == [a \in Agents |-> IF TrackOf[a] = tr THEN agents[a] ELSE thread[t].listed[a]]
              track2 == IF tr = "core" THEN "lab" ELSE "core"
              step2 == IF tr = "core" THEN "resolve" ELSE "agents"
              todo2 == IF tr = "core" THEN {} ELSE OfTrack("core")
  <2>1. /\ thread'[t] = [thread[t] EXCEPT !.listed = seen, !.track = track2, !.step = step2, !.todo = todo2]
        /\ \A u \in Threads \ {t} : thread'[u] = thread[u]
        /\ thread[t].step = "resolve"
        /\ UNCHANGED <<store, agents, phase, clock>>
    BY <1>5 DEF Resolve, Set, At
  <2>2. tr \in Tracks
    BY <1>1 DEF ThreadStates
  <2>3. \A a \in Agents : seen[a] = IF TrackOf[a] = tr THEN agents[a] ELSE thread[t].listed[a]
    OBVIOUS
  <2>4. tr = "lab" => \A a \in OfTrack("core") : thread[t].listed[a] = agents[a]
    BY <1>1, <2>1 DEF Walked
  <2>. HIDE DEF seen, track2, step2, todo2
  <2>5. /\ thread'[t].listed = seen /\ thread'[t].track = track2 /\ thread'[t].step = step2 /\ thread'[t].todo = todo2
        /\ thread'[t].at = thread[t].at /\ thread'[t].n = thread[t].n /\ thread'[t].lock = thread[t].lock
    BY <1>1, <2>1 DEF ThreadStates
  <2>6. Keeps(t)
    BY <1>1, <2>1, <2>5 DEF Keeps, store
  <2>7. step2 \in {"resolve", "agents"}
    BY DEF step2
  <2>8. Stored(t)'
    BY <1>1, <2>1, <2>5, <2>6, <2>7, StoredStays
  <2>9. Walked(t)'
    <3>1. CASE tr = "core"
      <4>1. \A a \in OfTrack("core") : seen[a] = agents[a]
        BY <2>3, <3>1 DEF OfTrack
      <4>. QED
        BY <2>1, <2>5, <3>1, <4>1 DEF Walked, Walking, step2, track2
    <3>2. CASE tr = "lab"
      <4>1. \A a \in Agents : seen[a] = agents[a]
        BY <2>3, <2>4, <3>2, ControlAssumption DEF OfTrack, Tracks
      <4>2. InHand(t)' = {}
        BY <2>5, <3>2 DEF InHand, step2
      <4>. QED
        BY <2>1, <2>5, <3>2, <4>1, <4>2 DEF Walked, Walking, step2, track2, todo2, OfTrack
    <3>. QED
      BY <2>2, <3>1, <3>2 DEF Tracks
  <2>. QED
    BY <1>2, <2>5, <2>6, <2>7, <2>8, <2>9

<1>6. ASSUME NEW a \in Agents, NEW s, Take(t, a, s)
      PROVE  /\ thread'[t].step = s /\ thread'[t].todo = thread[t].todo \ {a}
             /\ thread'[t].cur = IF s = "agents" THEN NoAgent ELSE a
             /\ thread'[t].track = thread[t].track /\ thread'[t].lock = thread[t].lock
             /\ thread'[t].listed = thread[t].listed /\ thread'[t].at = thread[t].at /\ thread'[t].n = thread[t].n
             /\ \A u \in Threads \ {t} : thread'[u] = thread[u]
  BY <1>1, <1>6 DEF Take, ThreadStates
<1>7. ASSUME NEW a \in Agents, NEW s \in Walking, Take(t, a, s), Working(t, a), StoreOnly(t),
             \A b \in Agents \ {a} : ledger'[b] = ledger[b],
             s = "agents" => Right(a, Locking(t))',
             s = "pause" => Locking(t) /\ ledger'[a].state = "open",
             s \in {"resume", "release"} => ~Locking(t)
      PROVE  Undisturbed(t)'
  <2>1. thread[t].step = "agents" /\ a \in thread[t].todo
    BY <1>7 DEF Working, At
  <2>2. InHand(t) = {}
    BY <2>1 DEF InHand
  <2>3. Keeps(t)
    BY <1>1, <1>6, <1>7 DEF Keeps, StoreOnly
  <2>4. s \notin {"idle", "check", "insert"}
    BY <1>7 DEF Walking
  <2>5. Stored(t)'
    BY <1>1, <1>6, <1>7, <2>1, <2>3, <2>4, StoredStays
  <2>6. Walked(t)'
    <3>1. thread[t].step \in Walking
      BY <2>1 DEF Walking
    <3>2. agents' = agents /\ track_state' = track_state
      BY <1>7 DEF StoreOnly
    <3>. QED
      BY <1>1, <1>6, <1>7, <2>1, <2>2, <3>1, <3>2, OneAgent
  <2>. QED
    BY <1>2, <1>6, <1>7, <2>3, <2>4, <2>5, <2>6
<1>8. ASSUME NEW a \in Agents, Working(t, a)
      PROVE  thread[t].listed[a] = agents[a] /\ a \in thread[t].todo
  BY <1>1, <1>8 DEF Working, At, Walked, Walking
<1>9. ASSUME NEW a \in Agents, NEW s, Take(t, a, s)
      PROVE  Locking(t)' = Locking(t)
  BY <1>6, <1>9 DEF Locking
<1>10. ASSUME NEW a \in Agents, LockPaused(t, a)
       PROVE  Undisturbed(t)'
  <2>1. agents[a].status = "paused" /\ Locking(t) /\ agents' = agents
    BY <1>8, <1>10 DEF LockPaused, listed_paused, StoreOnly
  <2>2. ledger'[a].state # "released" /\ \A b \in Agents \ {a} : ledger'[b] = ledger[b]
    BY <1>0, <1>10 DEF LockPaused, ledger_put, NoRow, StoreOK
  <2>3. Right(a, Locking(t))'
    BY <1>9, <1>10, <2>1, <2>2 DEF LockPaused, Right, LockedUp
  <2>. QED
    BY <1>7, <1>10, <2>2, <2>3 DEF LockPaused, Walking
<1>11. ASSUME NEW a \in Agents, LockRunning(t, a)
       PROVE  Undisturbed(t)'
  <2>1. ledger'[a].state = "open" /\ \A b \in Agents \ {a} : ledger'[b] = ledger[b]
    BY <1>0, <1>11 DEF LockRunning, ledger_put, StoreOK
  <2>. QED
    BY <1>7, <1>11, <2>1 DEF LockRunning, Walking
<1>12. ASSUME NEW a \in Agents, UnlockRunning(t, a)
       PROVE  Undisturbed(t)'
  <2>1. ledger'[a].state # "open" /\ \A b \in Agents \ {a} : ledger'[b] = ledger[b]
    BY <1>0, <1>12 DEF UnlockRunning, ledger_release, StoreOK
  <2>2. Right(a, Locking(t))'
    BY <1>9, <1>12, <2>1 DEF UnlockRunning, Right, LetGo, is_open
  <2>. QED
    BY <1>7, <1>12, <2>1, <2>2 DEF UnlockRunning, Walking
<1>13. ASSUME NEW a \in Agents, UnlockSkips(t, a)
       PROVE  Undisturbed(t)'
  <2>1. ledger' = ledger /\ agents' = agents
    BY <1>13 DEF UnlockSkips, StoreOnly
  <2>2. LetGo(a)
    BY <1>8, <1>13 DEF UnlockSkips, LetGo, listed_paused, holds_changed, holds_match
  <2>3. Right(a, Locking(t))'
    BY <1>9, <1>13, <2>1, <2>2 DEF UnlockSkips, Right, LetGo, is_open
  <2>. QED
    BY <1>7, <1>13, <2>1, <2>3 DEF UnlockSkips, Walking
<1>14. ASSUME NEW a \in Agents, UnlockPaused(t, a)
       PROVE  Undisturbed(t)'
  <2>1. ledger' = ledger
    BY <1>14 DEF UnlockPaused
  <2>. QED
    BY <1>7, <1>14, <2>1 DEF UnlockPaused, Walking

<1>15. ASSUME NEW a \in Agents, thread[t].cur = a, thread[t].step \in {"pause", "resume", "release"},
              NEW s \in {"agents", "release"}, thread'[t].step = s, s = "release" => thread'[t].cur = a,
              thread'[t].todo = thread[t].todo, thread'[t].track = thread[t].track,
              thread'[t].listed = thread[t].listed, Keeps(t), track_state' = track_state,
              \A b \in Agents \ {a} : ledger'[b] = ledger[b] /\ agents'[b] = agents[b],
              s = "agents" => Right(a, Locking(t))',
              s = "release" => ~Locking(t)
       PROVE  Undisturbed(t)'
  <2>2. InHand(t) = {a} /\ thread[t].step \in Walking /\ s \in Walking
    BY <1>15 DEF InHand, Walking
  <2>3. a \notin thread[t].todo
    BY <1>1, <2>2 DEF Walked
  <2>4. Stored(t)'
    BY <1>1, <1>15, StoredStays
  <2>5. thread'[t].lock = thread[t].lock
    BY <1>15 DEF Keeps
  <2>6. Walked(t)'
    <3>1. thread'[t].todo = thread[t].todo \ {a}
      BY <1>15, <2>3
    <3>2. IF thread'[t].step = "agents" THEN Right(a, Locking(t))' ELSE thread'[t].cur = a
      BY <1>15
    <3>. QED
      BY <1>1, <1>15, <2>2, <2>5, <3>1, <3>2, OneAgent
  <2>. QED
    BY <1>2, <1>15, <2>4, <2>6
<1>16. CASE PauseAgent(t)
  <2>1. PICK a \in Agents : thread[t].cur = a
    BY <1>16 DEF PauseAgent, At, PlaceInv
  <2>2. thread'[t] = [thread[t] EXCEPT !.step = "agents", !.cur = NoAgent] /\ \A u \in Threads \ {t} : thread'[u] = thread[u]
    BY <1>16 DEF PauseAgent, NextAgent
  <2>3. Keeps(t) /\ Locking(t)' = Locking(t)
    BY <1>1, <1>16, <2>2 DEF PauseAgent, Keeps, store, ThreadStates, Locking
  <2>4. Locking(t) /\ is_open(a) /\ thread[t].step = "pause"
    BY <1>1, <1>16, <2>1 DEF PauseAgent, At, Walked
  <2>5. agents'[a].status = "paused" /\ ledger' = ledger /\ track_state' = track_state
        /\ \A b \in Agents \ {a} : agents'[b] = agents[b]
    BY <1>0, <1>16, <2>1 DEF PauseAgent, patch_paused, store, AgentOK
  <2>6. Right(a, Locking(t))'
    BY <2>3, <2>4, <2>5 DEF Right, LockedUp, is_open
  <2>7. thread'[t].step = "agents" /\ thread'[t].todo = thread[t].todo /\ thread'[t].track = thread[t].track
        /\ thread'[t].listed = thread[t].listed
    BY <1>1, <2>2 DEF ThreadStates
  <2>. QED
    BY <1>15, <2>1, <2>3, <2>4, <2>5, <2>6, <2>7
<1>17. CASE ResumeAgent(t)
  <2>1. PICK a \in Agents : thread[t].cur = a
    BY <1>17 DEF ResumeAgent, At, PlaceInv
  <2>2. thread'[t] = [thread[t] EXCEPT !.step = "release"] /\ \A u \in Threads \ {t} : thread'[u] = thread[u]
    BY <1>17 DEF ResumeAgent, Goto
  <2>3. Keeps(t)
    BY <1>1, <1>17, <2>2 DEF ResumeAgent, Keeps, store, ThreadStates
  <2>4. ~Locking(t) /\ thread[t].step = "resume"
    BY <1>1, <1>17 DEF ResumeAgent, At, Walked
  <2>5. ledger' = ledger /\ track_state' = track_state /\ \A b \in Agents \ {a} : agents'[b] = agents[b]
    BY <1>0, <1>17, <2>1 DEF ResumeAgent, patch_idle, store, AgentOK
  <2>6. thread'[t].step = "release" /\ thread'[t].todo = thread[t].todo /\ thread'[t].track = thread[t].track
        /\ thread'[t].listed = thread[t].listed /\ thread'[t].cur = a
    BY <1>1, <2>1, <2>2 DEF ThreadStates
  <2>. QED
    BY <1>15, <2>1, <2>3, <2>4, <2>5, <2>6
<1>18. CASE Release(t)
  <2>1. PICK a \in Agents : thread[t].cur = a
    BY <1>18 DEF Release, At, PlaceInv
  <2>2. thread'[t] = [thread[t] EXCEPT !.step = "agents", !.cur = NoAgent] /\ \A u \in Threads \ {t} : thread'[u] = thread[u]
    BY <1>18 DEF Release, NextAgent
  <2>3. Keeps(t) /\ Locking(t)' = Locking(t)
    BY <1>1, <1>18, <2>2 DEF Release, StoreOnly, Keeps, ThreadStates, Locking
  <2>4. ~Locking(t) /\ thread[t].step = "release"
    BY <1>1, <1>18 DEF Release, At, Walked
  <2>5. ledger'[a].state # "open" /\ agents' = agents /\ track_state' = track_state
        /\ \A b \in Agents \ {a} : ledger'[b] = ledger[b]
    BY <1>0, <1>18, <2>1 DEF Release, ledger_release, StoreOnly, StoreOK
  <2>6. Right(a, Locking(t))'
    BY <2>3, <2>4, <2>5 DEF Right, LetGo, is_open
  <2>7. thread'[t].step = "agents" /\ thread'[t].todo = thread[t].todo /\ thread'[t].track = thread[t].track
        /\ thread'[t].listed = thread[t].listed
    BY <1>1, <2>2 DEF ThreadStates
  <2>. QED
    BY <1>15, <2>1, <2>3, <2>4, <2>5, <2>6, <2>7
<1>19. CASE SetTrackState(t) /\ thread[t].track = "core"
  <2>1. thread'[t] = [thread[t] EXCEPT !.track = "lab", !.todo = OfTrack("lab")] /\ \A u \in Threads \ {t} : thread'[u] = thread[u]
    BY <1>19 DEF SetTrackState
  <2>2. thread'[t].step = thread[t].step /\ thread'[t].todo = OfTrack("lab") /\ thread'[t].track = "lab"
        /\ thread'[t].listed = thread[t].listed /\ thread'[t].lock = thread[t].lock
    BY <1>1, <2>1 DEF ThreadStates
  <2>3. thread[t].step = "agents" /\ thread[t].todo = {} /\ InHand(t) = {} /\ InHand(t)' = {}
    BY <1>19, <2>2 DEF SetTrackState, At, InHand
  <2>4. UNCHANGED <<policies, ledger, agents, phase, clock>>
    BY <1>19 DEF SetTrackState
  <2>5. Keeps(t)
    BY <1>1, <2>1, <2>2, <2>4 DEF Keeps, ThreadStates
  <2>6. Stored(t)'
    BY <1>1, <2>2, <2>3, <2>5, StoredStays
  <2>7. track_state'["core"] = IF "core" \in thread[t].lock THEN "paused" ELSE "running"
    BY <1>0, <1>19 DEF SetTrackState, Locking, StoreOK, Tracks
  <2>8. \A a \in OfTrack("core") : Right(a, "core" \in thread[t].lock)'
    <3>1. \A a \in OfTrack("core") : Right(a, "core" \in thread[t].lock)
      BY <1>1, <1>19, <2>3 DEF Walked, Walking, Locking
    <3>. QED
      BY <2>2, <2>4, <3>1 DEF Right, LockedUp, LetGo, is_open
  <2>9. \A a \in OfTrack("lab") : thread[t].listed[a] = agents[a]
    BY <1>1, <1>19, <2>3 DEF Walked, Walking
  <2>10. Walked(t)'
    BY <2>2, <2>3, <2>4, <2>7, <2>8, <2>9 DEF Walked, OfTrack
  <2>. QED
    BY <1>2, <2>2, <2>3, <2>5, <2>6, <2>10
<1>20. CASE SetTrackState(t) /\ thread[t].track # "core"
  BY <1>20, ControlAssumption DEF SetTrackState, Threads
<1>. QED
  BY <1>3, <1>4, <1>5, <1>10, <1>11, <1>12, <1>13, <1>14, <1>16, <1>17, <1>18, <1>19, <1>20 DEF Move

\* An allocation begins undisturbed when nobody works, and goes on so while
\* nobody else does anything.
LEMMA AloneStep ==
  ASSUME TypeOK, PlaceInv, QuietInv, \A t \in Threads : alone = t => Undisturbed(t), [Next]_vars,
         NEW t \in Threads, alone' = t
  PROVE  Undisturbed(t)'
<1>0. ThreadOK /\ StoreOK /\ AgentOK /\ ProcessOK
  BY Parts
<1>. USE <1>0 DEF ThreadOK
<1>1. ASSUME NEW u \in Threads, Move(u)
      PROVE  Undisturbed(t)'
  <2>1. alone = t
    BY <1>1, ControlAssumption DEF Move, CheckOperator, InsertPolicy, Resolve, PauseAgent, ResumeAgent, Release,
       SetTrackState, LockPaused, LockRunning, UnlockRunning, UnlockSkips, UnlockPaused, StoreOnly, Quietly, Threads
  <2>2. u = t
    BY <1>1, <2>1, MoverWorks DEF Undisturbed
  <2>. QED
    BY <1>1, <2>1, <2>2, MoveStep
<1>2. ASSUME NEW u \in Threads, NEW lock \in Locks \cup {{}}, NEW s \in {"insert", "check"}, Begin(u, lock, s),
             u = Adaptive <=> s = "check"
      PROVE  Undisturbed(t)'
  <2>1. u = t /\ \A w \in Threads : thread[w].step = "idle"
    BY <1>2, ControlAssumption DEF Begin, Threads
  <2>2. thread'[t] = [Idle EXCEPT !.step = s, !.lock = lock, !.at = clock + 1]
        /\ (\A w \in Threads \ {t} : thread'[w] = thread[w]) /\ phase' = "up" /\ clock' = clock + 1
    BY <1>2, <2>1 DEF Begin, Set, At
  <2>3. thread'[t].step = s /\ thread'[t].at = clock + 1 /\ thread'[t].n = 0 /\ thread'[t].track = "core"
    BY <2>2 DEF Idle
  <2>4. Stored(t)'
    BY <1>2, <2>1, <2>2, <2>3 DEF Stored
  <2>5. Walked(t)'
    BY <2>3 DEF Walked, Walking
  <2>. QED
    BY <2>1, <2>2, <2>3, <2>4, <2>5 DEF Undisturbed
<1>3. CASE UNCHANGED vars
  BY <1>3 DEF vars, store, Undisturbed, Stored, Walked, InHand, Right, LockedUp, LetGo, is_open, Locking, RowNo, Priority,
              operator_rows
<1>4. CASE Disturb \/ Crash
  BY <1>4, ControlAssumption DEF Crash, Disturb, Threads
<1>5. CASE Boot \/ ReconcilePause \/ Reconciled \/ ReconcileFails \/ \E a \in Agents : ReconcileRow(a)
  BY <1>5 DEF Boot, ReconcilePause, Reconciled, ReconcileFails, ReconcileRow, Undisturbed
<1>. QED
  BY <1>1, <1>2, <1>3, <1>4, <1>5, Steps

\* An undisturbed allocation ends in agreement.
LEMMA EndAgrees ==
  ASSUME TypeOK, RowInv, NEW t \in Threads, Undisturbed(t), alone = t, SetTrackState(t), thread[t].track # "core"
  PROVE  Agreement'
<1>0. ThreadOK /\ StoreOK /\ AgentOK /\ ProcessOK
  BY Parts
<1>. DEFINE lock == thread[t].lock
<1>1. thread[t].step = "agents" /\ thread[t].todo = {} /\ InHand(t) = {} /\ thread[t].track = "lab"
  BY <1>0 DEF SetTrackState, At, InHand, ThreadOK, ThreadStates, Tracks
<1>2. settled'.lock = lock /\ settled'.by = t
  BY DEF SetTrackState
<1>3. UNCHANGED <<policies, ledger, agents>>
  BY DEF SetTrackState
<1>4. track_state' = [track_state EXCEPT !["lab"] = IF "lab" \in lock THEN "paused" ELSE "running"]
  BY <1>1 DEF SetTrackState, Locking
<1>5. Stored(t) /\ Walked(t)
  BY DEF Undisturbed
<1>6. \A i \in 0..3 : RowNo(t, i) \in policies
  <2>1. thread[t].n = 4
    BY <1>1, <1>5 DEF Stored
  <2>. QED
    BY <1>5, <2>1 DEF Stored
<1>7. ASSUME NEW tr \in Tracks
      PROVE  /\ ~Overruled(tr)' => effective("allocation", tr)' = (tr \in lock)
             /\ t # Adaptive => effective("track_locked", tr)' = (tr \in lock)
  <2>. DEFINE r == RowNo(t, IF tr = "core" THEN 0 ELSE 1)
              l == RowNo(t, IF tr = "core" THEN 2 ELSE 3)
  <2>1. /\ r \in candidates("allocation", tr) /\ r.zero = (tr \in lock)
        /\ r.scope = "company" /\ r.priority = Priority(t) /\ r.at = clock
    BY <1>5, <1>6, <1>7 DEF RowNo, Stored, Tracks, candidates
  <2>2. /\ l \in candidates("track_locked", tr) /\ l.zero = (tr \in lock)
        /\ l.scope = "track" /\ l.priority = Priority(t) /\ l.at = clock
    BY <1>5, <1>6, <1>7 DEF RowNo, Stored, Tracks, candidates
  <2>3. \A o \in policies : o.priority \in {20, 40} /\ o.at \in Nat /\ o.at <= clock /\ o.scope \in Scopes
    BY <1>0, ControlAssumption DEF StoreOK, Rows, RowInv
  <2>4. clock \in Nat
    BY <1>0, ControlAssumption DEF ProcessOK
  <2>5. t = Adaptive => operator_rows = {}
    BY <1>1, <1>5 DEF Stored
  <2>. HIDE DEF r, l
  <2>6. ASSUME ~Overruled(tr)
        PROVE  effective("allocation", tr) = (tr \in lock)
    <3>1. ASSUME NEW o \in candidates("allocation", tr)
          PROVE  wins(r, o)
      <4>1. o \in policies /\ o.key = "allocation" /\ o.track = tr /\ o.scope # "project"
        BY <3>1 DEF candidates
      <4>2. CASE o.priority = 20
        <5>1. o \in operator_rows /\ t # Adaptive
          BY <2>5, <4>1, <4>2 DEF operator_rows
        <5>2. o.scope = "company" /\ r.priority = 20
          BY <2>1, <2>3, <2>6, <4>1, <5>1 DEF Overruled, Scopes, Priority
        <5>. QED
          BY <2>1, <2>3, <2>4, <4>1, <4>2, <5>2 DEF wins
      <4>3. CASE o.priority = 40
        <5>1. o.scope = "company"
          BY <4>1, <4>3 DEF RowInv
        <5>. QED
          BY <2>1, <2>3, <2>4, <4>1, <4>3, <5>1 DEF wins, Priority
      <4>. QED
        BY <2>3, <4>1, <4>2, <4>3
    <3>. QED
      BY <1>0, <2>1, <3>1, WinnerDecides
  <2>7. ASSUME t # Adaptive
        PROVE  effective("track_locked", tr) = (tr \in lock)
    <3>1. ASSUME NEW o \in candidates("track_locked", tr)
          PROVE  wins(l, o)
      BY <2>2, <2>3, <2>4, <2>7, <3>1 DEF wins, Priority, candidates, Scopes, ScopeRank
    <3>. QED
      BY <1>0, <2>2, <3>1, WinnerDecides
  <2>8. effective("allocation", tr)' = effective("allocation", tr) /\ Overruled(tr)' = Overruled(tr)
        /\ effective("track_locked", tr)' = effective("track_locked", tr)
    BY <1>3 DEF effective, candidates, pick, Overruled, operator_rows
  <2>. QED
    BY <2>6, <2>7, <2>8
<1>8. ASSUME NEW tr \in Tracks
      PROVE  track_state'[tr] = IF tr \in lock THEN "paused" ELSE "running"
  BY <1>0, <1>1, <1>4, <1>5 DEF Walked, Walking, Tracks, StoreOK
<1>9. ASSUME NEW tr \in Tracks, NEW a \in OfTrack(tr)
      PROVE  IF tr \in lock THEN LockedUp(a)' ELSE LetGo(a)'
  <2>1. Right(a, tr \in lock)
    BY <1>1, <1>5 DEF Walked, Walking, Locking, Tracks
  <2>. QED
    BY <1>3, <2>1 DEF Right, LockedUp, LetGo, is_open
<1>. QED
  BY <1>2, <1>7, <1>8, <1>9 DEF Agreement, OfTrack

\* What an allocation that has ended or a boot leaves stays as it is, until
\* something happens to it.
LEMMA AgreementStep ==
  ASSUME TypeOK, RowInv, QuietInv, Agreement, \A t \in Threads : alone = t => Undisturbed(t), [Next]_vars
  PROVE  Agreement'
<1>0. ProcessOK
  BY Parts
<1>1. ASSUME settled'.what # "allocation"
      PROVE  Agreement'
  BY <1>1 DEF Agreement
<1>2. ASSUME NEW t \in Threads, Move(t)
      PROVE  Agreement'
  <2>1. settled.what = "nothing"
    BY <1>0, <1>2, MoverWorks DEF QuietInv, AllIdle, ProcessOK
  <2>2. CASE settled' = settled
    BY <1>1, <2>1, <2>2
  <2>3. CASE settled' # settled
    <3>1. SetTrackState(t) /\ thread[t].track # "core"
      BY <1>2, <2>3 DEF Move, CheckOperator, InsertPolicy, Resolve, PauseAgent, ResumeAgent, Release, SetTrackState,
         LockPaused, LockRunning, UnlockRunning, UnlockSkips, UnlockPaused, StoreOnly, Quietly
    <3>2. CASE alone # t
      BY <1>1, <3>1, <3>2 DEF SetTrackState, Nothing
    <3>. QED
      BY <3>1, <3>2, EndAgrees
  <2>. QED
    BY <2>2, <2>3
<1>3. ASSUME NEW t \in Threads, NEW lock, NEW s, Begin(t, lock, s)
      PROVE  Agreement'
  BY <1>1, <1>3 DEF Begin, Nothing
<1>4. CASE Boot \/ Reconciled \/ ReconcileFails \/ Crash \/ Disturb
  BY <1>1, <1>4 DEF Boot, Reconciled, ReconcileFails, Crash, Disturb, Nothing, Ended
<1>5. CASE ReconcilePause \/ \E a \in Agents : ReconcileRow(a)
  BY <1>1, <1>5 DEF ReconcilePause, ReconcileRow, QuietInv
<1>6. CASE UNCHANGED vars
  <2>1. UNCHANGED <<policies, ledger, track_state, agents, settled>>
    BY <1>6 DEF vars, store
  <2>2. \A key \in Keys, tr \in Tracks : effective(key, tr)' = effective(key, tr) /\ Overruled(tr)' = Overruled(tr)
    BY <2>1 DEF effective, candidates, pick, Overruled, operator_rows
  <2>3. \A a \in Agents : LockedUp(a)' = LockedUp(a) /\ LetGo(a)' = LetGo(a)
    BY <2>1 DEF LockedUp, LetGo, is_open
  <2>. QED
    BY <2>1, <2>2, <2>3 DEF Agreement, OfTrack, Keys
<1>. QED
  BY <1>2, <1>3, <1>4, <1>5, <1>6, Steps

\* Nothing is settled before the first request, and nothing needs to be.
LEMMA SettledInit == Init => SettledInv
  BY ControlAssumption DEF Init, Nothing, SettledInv, QuietInv, AllIdle, Idle, LockReasserted, Agreement, Threads

\* Every step keeps the part of the invariant that speaks of undisturbed requests.
LEMMA SettledStep == IInv /\ SettledInv /\ [Next]_vars => SettledInv'
<1>. SUFFICES ASSUME TypeOK, PlaceInv, RowInv, SettledInv, [Next]_vars
              PROVE  SettledInv'
  BY DEF IInv
<1>1. QuietInv' /\ (settled'.what = "boot" => LockReasserted' \/ UNCHANGED vars)
  BY QuietStep DEF SettledInv
<1>2. \A t \in Threads : alone' = t => Undisturbed(t)'
  BY AloneStep DEF SettledInv
<1>3. Agreement'
  BY AgreementStep DEF SettledInv
<1>4. UNCHANGED vars => LockReasserted'
  BY DEF SettledInv, LockReasserted, vars, store, open_rows, is_open, effective, candidates, pick
<1>5. LockReasserted'
  BY <1>1, <1>4 DEF LockReasserted
<1>. QED
  BY <1>1, <1>2, <1>3, <1>5 DEF SettledInv

\* The strengthened invariant of the allocations and boots that nothing
\* disturbs holds in every reachable state.
THEOREM SettledInvariance == Spec => []SettledInv
  BY Invariance, SettledInit, SettledStep, PTL DEF Spec

\* An allocation that ran by itself leaves policy, track state, agents and
\* ledger in agreement.
THEOREM AgreementHolds == Spec => []Agreement
  <1>1. SettledInv => Agreement
    BY DEF SettledInv
  <1>. QED
    BY <1>1, SettledInvariance, PTL

\* After a boot, the open rows are those of the agents that a lock in force
\* keeps paused.
THEOREM LockReassertedHolds == Spec => []LockReasserted
  <1>1. SettledInv => LockReasserted
    BY DEF SettledInv
  <1>. QED
    BY <1>1, SettledInvariance, PTL

-----------------------------------------------------------------------------
(* The open rows of agents that the bridge keeps paused.                   *)

Single == \A t, u \in Threads : thread[t].step # "idle" /\ thread[u].step # "idle" => t = u

Held(a) == paused_by[a] = "bridge" => is_open(a) \/ a \in shut

\* The agents a thread has listed and will still act on.
Ahead(t) ==
  IF thread[t].step \in Walking
    THEN thread[t].todo \cup (IF thread[t].track = "core" THEN OfTrack("lab") ELSE {})
    ELSE IF thread[t].step = "resolve" /\ thread[t].track = "lab" THEN OfTrack("core") ELSE {}

\* Whom it lists as running the bridge has not paused since; whom it is about
\* to pause has an open row; whose row it is about to close is not paused by
\* the bridge.
Fresh(t) ==
  /\ thread[t].step \in {"check", "insert"} => thread[t].track = "core"
  /\ thread[t].step \in Walking => thread[t].todo \subseteq OfTrack(thread[t].track)
  /\ \A a \in InHand(t) : a \notin Ahead(t)
  /\ \A a \in Ahead(t) : thread[t].listed[a].status = "paused" \/ paused_by[a] # "bridge"
  /\ thread[t].step = "pause" => is_open(thread[t].cur)
  /\ thread[t].step = "release" => paused_by[thread[t].cur] # "bridge"

\* A boot works on open rows, alone.
BootInv ==
  /\ phase # "boot" => boot = NoBoot
  /\ phase # "up" => AllIdle
  /\ \A a \in boot.todo : is_open(a)
  /\ boot.cur # NoAgent => is_open(boot.cur)

OpenInv ==
  /\ BootInv
  /\ ~overlapped => Single /\ (\A t \in Threads : Fresh(t)) /\ \A a \in Agents : Held(a)

\* Nobody has done anything at the start.
LEMMA OpenInit == Init => OpenInv
<1>. SUFFICES ASSUME Init
              PROVE  OpenInv
  OBVIOUS
<1>. USE ControlAssumption DEF Init, Idle, NoBoot, NoRow, Threads
<1>1. BootInv
  BY DEF BootInv, AllIdle
<1>2. Single /\ \A a \in Agents : Held(a)
  BY DEF Single, Held
<1>3. \A t \in Threads : Fresh(t)
  BY DEF Fresh, Ahead, InHand, Walking
<1>. QED
  BY <1>1, <1>2, <1>3 DEF OpenInv

\* The steps of a boot, and all others leave it alone or find nothing of it.
LEMMA BootInvStep == TypeOK /\ BootInv /\ [Next]_vars => BootInv'
<1>. SUFFICES ASSUME ThreadOK, StoreOK, ProcessOK, BootInv, [Next]_vars
              PROVE  BootInv'
  BY Parts
<1>1. ASSUME NEW t \in Threads, Move(t)
      PROVE  BootInv'
  <2>1. phase = "up" /\ boot = NoBoot
    BY <1>1, MoverWorks DEF BootInv
  <2>2. phase' = phase /\ boot' = boot
    BY <1>1 DEF Move, CheckOperator, InsertPolicy, Resolve, PauseAgent, ResumeAgent, Release, SetTrackState,
       LockPaused, LockRunning, UnlockRunning, UnlockSkips, UnlockPaused, StoreOnly
  <2>. QED
    BY <2>1, <2>2 DEF BootInv, NoBoot
<1>2. ASSUME NEW t \in Threads, NEW lock, NEW s, Begin(t, lock, s)
      PROVE  BootInv'
  BY <1>2 DEF Begin, At, BootInv, NoBoot
<1>3. CASE Boot
  BY <1>3 DEF Boot, BootInv, AllIdle, boot_rows, open_rows, is_open, store
<1>4. CASE ReconcilePause
  BY <1>4 DEF ReconcilePause, BootInv, AllIdle, is_open, store, ProcessOK
<1>5. CASE Reconciled \/ ReconcileFails
  BY <1>5 DEF Reconciled, ReconcileFails, Serve, BootInv, NoBoot
<1>6. ASSUME NEW a \in Agents, ReconcileRow(a)
      PROVE  BootInv'
  <2>1. /\ phase' = "boot" /\ phase = "boot" /\ thread' = thread /\ a \in boot.todo
        /\ boot'.todo = boot.todo \ {a} /\ boot'.cur \in {a, NoAgent}
        /\ boot'.cur = a => effective("allocation", TrackOf[a])
    BY <1>6, ControlAssumption DEF ReconcileRow
  <2>2. \A b \in Agents \ {a} : ledger'[b] = ledger[b]
    BY <1>6 DEF ReconcileRow, ledger_release, StoreOK
  <2>3. effective("allocation", TrackOf[a]) => ledger' = ledger
    BY <1>6 DEF ReconcileRow
  <2>4. boot.todo \subseteq Agents
    BY DEF ProcessOK
  <2>. QED
    BY <2>1, <2>2, <2>3, <2>4 DEF BootInv, AllIdle, is_open
<1>7. CASE Crash
  BY <1>7 DEF Crash, BootInv, NoBoot, AllIdle, Idle
<1>8. CASE Overrides \/ People \/ UNCHANGED vars
  <2>1. UNCHANGED <<phase, boot, thread, ledger>>
    BY <1>8 DEF Overrides, Override, Revoke, People, HumanPauses, HumanResumes, HumanHolds, Human, vars, store
  <2>. QED
    BY <2>1 DEF BootInv, AllIdle, is_open
<1>9. ASSUME NEW t \in Threads, Abort(t)
      PROVE  BootInv'
  BY <1>9 DEF Abort, At, BootInv, NoBoot
<1>10. CASE Restart
  BY <1>3, <1>4, <1>5, <1>6, <1>7, <1>10 DEF Restart
<1>11. CASE Allocate
  BY <1>1, <1>2, <1>9, <1>11 DEF Allocate, Move, Request, AdaptiveTick, Threads
<1>. QED
  BY <1>8, <1>10, <1>11 DEF Next

\* A thread that is idle has nothing to act on.
LEMMA IdleFresh ==
  ASSUME NEW t \in Threads, thread[t].step = "idle"
  PROVE  Fresh(t)
  BY DEF Fresh, Ahead, InHand, Walking

\* A move of the only thread at work leaves every paused agent's row open.
LEMMA HeldMove ==
  ASSUME TypeOK, PlaceInv, KnownPause, NEW t \in Threads, Fresh(t), \A a \in Agents : Held(a), Move(t)
  PROVE  \A a \in Agents : Held(a)'
<1>0. ThreadOK /\ StoreOK /\ AgentOK
  BY Parts
<1>1. CASE UNCHANGED <<ledger, paused_by, shut>>
  BY <1>1 DEF Held, is_open
<1>2. ASSUME CheckOperator \/ InsertPolicy(t) \/ Resolve(t) \/ SetTrackState(t)
             \/ \E a \in Agents : UnlockSkips(t, a) \/ UnlockPaused(t, a)
      PROVE  UNCHANGED <<ledger, paused_by, shut>>
  BY <1>2 DEF CheckOperator, InsertPolicy, Resolve, SetTrackState, UnlockSkips, UnlockPaused, StoreOnly, store, marks
<1>3. ASSUME NEW a \in Agents, LockPaused(t, a) \/ LockRunning(t, a)
      PROVE  \A b \in Agents : Held(b)'
  <2>1. /\ ledger'[a].state = "open" \/ (ledger' = ledger /\ ledger[a] = NoRow)
        /\ \A b \in Agents \ {a} : ledger'[b] = ledger[b]
        /\ shut' = shut \ {a} /\ paused_by' = paused_by
    BY <1>0, <1>3 DEF LockPaused, LockRunning, ledger_put, StoreOnly, StoreOK
  <2>2. ledger[a] = NoRow => paused_by[a] # "bridge"
    BY DEF KnownPause, NoRow
  <2>. QED
    BY <2>1, <2>2 DEF Held, is_open
<1>4. CASE PauseAgent(t)
  <2>1. is_open(thread[t].cur) /\ thread[t].cur \in Agents
    BY <1>4 DEF PauseAgent, At, Fresh, PlaceInv
  <2>. QED
    BY <1>0, <1>4, <2>1 DEF PauseAgent, patch_paused, Held, is_open, store, marks, AgentOK
<1>5. CASE ResumeAgent(t)
  BY <1>0, <1>5 DEF ResumeAgent, patch_idle, Held, is_open, store, marks, AgentOK
<1>6. ASSUME NEW a \in Agents, ledger' = ledger_release(a), paused_by[a] # "bridge", UNCHANGED <<paused_by, shut>>
      PROVE  \A b \in Agents : Held(b)'
  BY <1>0, <1>6 DEF ledger_release, Held, is_open, StoreOK
<1>7. ASSUME NEW a \in Agents, UnlockRunning(t, a)
      PROVE  \A b \in Agents : Held(b)'
  <2>1. a \in Ahead(t)
    BY <1>7 DEF UnlockRunning, Working, At, Ahead, Walking
  <2>2. paused_by[a] # "bridge"
    BY <1>7, <2>1 DEF UnlockRunning, listed_paused, Fresh
  <2>. QED
    BY <1>6, <1>7, <2>2 DEF UnlockRunning, StoreOnly
<1>8. CASE Release(t)
  <2>1. paused_by[thread[t].cur] # "bridge" /\ thread[t].cur \in Agents
    BY <1>8 DEF Release, At, Fresh, PlaceInv
  <2>. QED
    BY <1>6, <1>8, <2>1 DEF Release, StoreOnly
<1>. QED
  BY <1>1, <1>2, <1>3, <1>4, <1>5, <1>7, <1>8 DEF Move

\* Nor does its listing go stale for the agents ahead of it.
LEMMA FreshMove ==
  ASSUME TypeOK, PlaceInv, NEW t \in Threads, Fresh(t), Move(t)
  PROVE  Fresh(t)'
<1>0. ThreadOK /\ StoreOK /\ AgentOK
  BY Parts
<1>. USE <1>0 DEF ThreadOK
<1>1. thread[t] \in ThreadStates
  OBVIOUS
<1>2. ASSUME NEW s \in {"idle", "insert"}, thread'[t].step = s, s = "insert" => thread'[t].track = "core"
      PROVE  Fresh(t)'
  BY <1>2 DEF Fresh, Ahead, InHand, Walking
<1>3. CASE CheckOperator /\ t = Adaptive
  <2>1. /\ thread'[t].step \in {"idle", "insert"}
        /\ thread'[t].step = "insert" => thread'[t].track = "core"
    BY <1>1, <1>3 DEF CheckOperator, At, Set, Goto, Idle, ThreadStates, Fresh
  <2>. QED
    BY <1>2, <2>1
<1>4. CASE InsertPolicy(t)
  <2>1. thread'[t].step \in {"insert", "resolve"} /\ thread'[t].track = thread[t].track /\ thread'[t].listed = thread[t].listed
    BY <1>1, <1>4 DEF InsertPolicy, At, ThreadStates
  <2>2. thread[t].track = "core"
    BY <1>4 DEF InsertPolicy, At, Fresh
  <2>. QED
    BY <1>1, <2>1, <2>2 DEF Fresh, Ahead, InHand, Walking
<1>5. CASE Resolve(t)
  <2>. DEFINE tr == thread[t].track
              seen == [a \in Agents |-> IF TrackOf[a] = tr THEN agents[a] ELSE thread[t].listed[a]]
              r == [thread[t] EXCEPT !.listed = seen,
                      !.track = IF tr = "core" THEN "lab" ELSE "core",
                      !.step = IF tr = "core" THEN "resolve" ELSE "agents",
                      !.todo = IF tr = "core" THEN {} ELSE OfTrack("core")]
  <2>1. thread'[t] = r /\ UNCHANGED <<ledger, agents, paused_by>> /\ thread[t].step = "resolve"
    BY <1>5 DEF Resolve, Set, At, store
  <2>2. \A a \in Agents : seen[a] = IF TrackOf[a] = tr THEN agents[a] ELSE thread[t].listed[a]
    OBVIOUS
  <2>3. tr \in Tracks
    BY <1>1 DEF ThreadStates
  <2>. HIDE DEF seen
  <2>4. /\ r.listed = seen /\ r.track = (IF tr = "core" THEN "lab" ELSE "core")
        /\ r.step = (IF tr = "core" THEN "resolve" ELSE "agents")
        /\ r.todo = (IF tr = "core" THEN {} ELSE OfTrack("core"))
    BY <1>1 DEF ThreadStates
  <2>. HIDE DEF r
  <2>5. \A a \in Agents : agents[a].status = "paused" \/ paused_by[a] # "bridge"
    BY DEF AgentOK, AgentStates
  <2>6. CASE tr = "core"
    <3>1. \A a \in OfTrack("core") : seen[a].status = "paused" \/ paused_by[a] # "bridge"
      BY <2>2, <2>5, <2>6 DEF OfTrack
    <3>. QED
      BY <2>1, <2>4, <2>6, <3>1 DEF Fresh, Ahead, InHand, Walking, OfTrack
  <2>7. CASE tr = "lab"
    <3>1. \A a \in OfTrack("core") : thread[t].listed[a].status = "paused" \/ paused_by[a] # "bridge"
      BY <2>1, <2>7 DEF Fresh, Ahead, Walking
    <3>2. \A a \in OfTrack("core") \cup OfTrack("lab") : seen[a].status = "paused" \/ paused_by[a] # "bridge"
      BY <2>2, <2>5, <2>7, <3>1 DEF OfTrack
    <3>3. r.step = "agents" /\ r.todo = OfTrack("core") /\ r.track = "core" /\ r.listed = seen
      BY <2>4, <2>7
    <3>4. Ahead(t)' = OfTrack("core") \cup OfTrack("lab") /\ InHand(t)' = {}
      BY <2>1, <3>3 DEF Ahead, InHand, Walking, OfTrack
    <3>. QED
      BY <2>1, <3>2, <3>3, <3>4 DEF Fresh, Walking, OfTrack
  <2>. QED
    BY <2>3, <2>6, <2>7 DEF Tracks
<1>6. ASSUME NEW a \in Agents, NEW s \in Walking, Take(t, a, s), Working(t, a), paused_by' = paused_by,
             s = "pause" => ledger'[a].state = "open", s # "release"
      PROVE  Fresh(t)'
  <2>1. /\ thread'[t].step = s /\ thread'[t].todo = thread[t].todo \ {a}
        /\ thread'[t].cur = (IF s = "agents" THEN NoAgent ELSE a)
        /\ thread'[t].track = thread[t].track /\ thread'[t].listed = thread[t].listed
    BY <1>1, <1>6 DEF Take, ThreadStates
  <2>2. thread[t].step = "agents" /\ a \in thread[t].todo /\ thread[t].todo \subseteq OfTrack(thread[t].track)
    BY <1>6 DEF Working, At, Fresh, Walking
  <2>3. Ahead(t)' = Ahead(t) \ {a} /\ InHand(t)' \subseteq {a}
    BY <1>6, <2>1, <2>2 DEF Ahead, InHand, Walking, OfTrack
  <2>. QED
    BY <1>6, <2>1, <2>2, <2>3 DEF Fresh, is_open, Walking
<1>7. ASSUME NEW a \in Agents, LockPaused(t, a) \/ UnlockRunning(t, a) \/ UnlockSkips(t, a)
      PROVE  Fresh(t)'
  BY <1>6, <1>7 DEF LockPaused, UnlockRunning, UnlockSkips, StoreOnly, Walking
<1>8. ASSUME NEW a \in Agents, LockRunning(t, a)
      PROVE  Fresh(t)'
  <2>1. ledger'[a].state = "open"
    BY <1>8 DEF LockRunning, ledger_put, StoreOK
  <2>. QED
    BY <1>6, <1>8, <2>1 DEF LockRunning, StoreOnly, Walking
<1>9. ASSUME NEW a \in Agents, UnlockPaused(t, a)
      PROVE  Fresh(t)'
  BY <1>6, <1>9 DEF UnlockPaused, StoreOnly, Walking
<1>10. ASSUME NEW a \in Agents, thread[t].cur = a, thread[t].step \in {"pause", "resume", "release"},
              NEW s \in {"agents", "release"}, thread'[t].step = s, s = "release" => thread'[t].cur = a,
              thread'[t].todo = thread[t].todo, thread'[t].track = thread[t].track,
              thread'[t].listed = thread[t].listed, \A b \in Agents \ {a} : paused_by'[b] = paused_by[b],
              s = "release" => paused_by'[a] # "bridge"
       PROVE  Fresh(t)'
  <2>1. Ahead(t)' = Ahead(t) /\ InHand(t)' \subseteq {a} /\ a \notin Ahead(t) /\ Ahead(t) \subseteq Agents
    BY <1>1, <1>10 DEF Ahead, InHand, Walking, Fresh, OfTrack, ThreadStates
  <2>. QED
    BY <1>10, <2>1 DEF Fresh, Walking
<1>11. CASE PauseAgent(t) \/ Release(t)
  <2>1. /\ thread'[t].step = "agents" /\ thread'[t].todo = thread[t].todo /\ thread'[t].track = thread[t].track
        /\ thread'[t].listed = thread[t].listed
    BY <1>1, <1>11 DEF PauseAgent, Release, NextAgent, ThreadStates
  <2>2. thread[t].cur \in Agents /\ thread[t].step \in {"pause", "release"}
    BY <1>11 DEF PauseAgent, Release, At, PlaceInv
  <2>3. \A b \in Agents \ {thread[t].cur} : paused_by'[b] = paused_by[b]
    BY <1>11 DEF PauseAgent, Release, patch_paused, StoreOnly, AgentOK
  <2>. QED
    BY <1>10, <2>1, <2>2, <2>3
<1>12. CASE ResumeAgent(t)
  <2>1. /\ thread'[t].step = "release" /\ thread'[t].todo = thread[t].todo /\ thread'[t].track = thread[t].track
        /\ thread'[t].listed = thread[t].listed /\ thread'[t].cur = thread[t].cur
    BY <1>1, <1>12 DEF ResumeAgent, Goto, ThreadStates
  <2>2. thread[t].cur \in Agents /\ thread[t].step = "resume"
    BY <1>12 DEF ResumeAgent, At, PlaceInv
  <2>3. paused_by'[thread[t].cur] = "nobody" /\ \A b \in Agents \ {thread[t].cur} : paused_by'[b] = paused_by[b]
    BY <1>12, <2>2 DEF ResumeAgent, patch_idle, AgentOK
  <2>. QED
    BY <1>10, <2>1, <2>2, <2>3
<1>13. CASE SetTrackState(t) /\ thread[t].track = "core"
  <2>1. /\ thread'[t].step = thread[t].step /\ thread'[t].todo = OfTrack("lab") /\ thread'[t].track = "lab"
        /\ thread'[t].listed = thread[t].listed
    BY <1>1, <1>13 DEF SetTrackState, ThreadStates
  <2>2. thread[t].step = "agents" /\ thread[t].todo = {} /\ paused_by' = paused_by
    BY <1>13 DEF SetTrackState, At
  <2>3. Ahead(t)' = OfTrack("lab") /\ Ahead(t) = OfTrack("lab") /\ InHand(t)' = {}
    BY <1>13, <2>1, <2>2 DEF Ahead, InHand, Walking, OfTrack
  <2>. QED
    BY <2>1, <2>2, <2>3 DEF Fresh, Walking
<1>14. CASE SetTrackState(t) /\ thread[t].track # "core"
  <2>1. thread'[t].step = "idle"
    BY <1>14 DEF SetTrackState, Set, Idle
  <2>. QED
    BY <1>2, <2>1
<1>. QED
  BY <1>3, <1>4, <1>5, <1>7, <1>8, <1>9, <1>11, <1>12, <1>13, <1>14 DEF Move

\* Every step keeps the rows of the agents that the bridge paused open.
LEMMA OpenStep == IInv /\ OpenInv /\ [Next]_vars => OpenInv'
<1>. SUFFICES ASSUME TypeOK, PlaceInv, KnownPause, OpenInv, [Next]_vars, ~overlapped'
              PROVE  Single' /\ (\A t \in Threads : Fresh(t)') /\ \A a \in Agents : Held(a)'
  BY BootInvStep DEF IInv, KnownInv, OpenInv
<1>0. ThreadOK /\ StoreOK /\ AgentOK /\ ProcessOK /\ BootInv
  BY Parts DEF OpenInv
<1>1. ~overlapped
  BY DEF Next, Allocate, Request, AdaptiveTick, Begin, CheckOperator, InsertPolicy, Resolve, LockPaused, LockRunning,
     PauseAgent, UnlockRunning, UnlockSkips, UnlockPaused, ResumeAgent, Release, SetTrackState, Abort, StoreOnly,
     Overrides, Override, Revoke, Restart, Crash, Boot, ReconcileRow, ReconcilePause, Reconciled, ReconcileFails,
     People, HumanPauses, HumanResumes, HumanHolds, Human, vars, marks
<1>2. Single /\ (\A t \in Threads : Fresh(t)) /\ \A a \in Agents : Held(a)
  BY <1>1 DEF OpenInv
<1>3. ASSUME NEW t \in Threads, Move(t)
      PROVE  Single' /\ (\A u \in Threads : Fresh(u)') /\ \A a \in Agents : Held(a)'
  <2>1. \A u \in Threads \ {t} : thread[u].step = "idle"
    BY <1>2, <1>3, MoverWorks DEF Single
  <2>2. \A u \in Threads \ {t} : thread'[u] = thread[u]
    BY <1>0, <1>3 DEF Move, CheckOperator, InsertPolicy, Resolve, PauseAgent, ResumeAgent, Release, SetTrackState,
       LockPaused, LockRunning, UnlockRunning, UnlockSkips, UnlockPaused, Set, Goto, NextAgent, Take, ThreadOK
  <2>3. \A u \in Threads \ {t} : Fresh(u)'
    BY <2>1, <2>2 DEF Fresh, Ahead, InHand, Walking
  <2>4. Fresh(t)' /\ \A a \in Agents : Held(a)'
    BY <1>2, <1>3, FreshMove, HeldMove
  <2>5. Single'
    BY <2>1, <2>2 DEF Single
  <2>. QED
    BY <2>3, <2>4, <2>5
<1>4. ASSUME NEW t \in Threads, NEW lock, NEW s \in {"insert", "check"}, Begin(t, lock, s)
      PROVE  Single' /\ (\A u \in Threads : Fresh(u)') /\ \A a \in Agents : Held(a)'
  <2>1. \A u \in Threads : thread[u].step = "idle"
    BY <1>4 DEF Begin
  <2>2. thread'[t].step = s /\ thread'[t].track = "core" /\ \A u \in Threads \ {t} : thread'[u] = thread[u]
    BY <1>0, <1>4 DEF Begin, Set, Idle, ThreadOK
  <2>3. UNCHANGED <<ledger, paused_by, shut>>
    BY <1>4 DEF Begin, store
  <2>4. \A a \in Agents : Held(a)'
    BY <1>2, <2>3 DEF Held, is_open
  <2>5. \A u \in Threads : Fresh(u)'
    BY <2>1, <2>2 DEF Fresh, Ahead, InHand, Walking
  <2>. QED
    BY <2>1, <2>2, <2>4, <2>5 DEF Single
<1>5. ASSUME \A t \in Threads : thread'[t] = thread[t] \/ thread'[t].step = "idle",
             UNCHANGED <<ledger, shut>>, \A a \in Agents : paused_by'[a] = "bridge" => paused_by[a] = "bridge"
      PROVE  Single' /\ (\A u \in Threads : Fresh(u)') /\ \A a \in Agents : Held(a)'
  <2>1. Single'
    BY <1>2, <1>5 DEF Single
  <2>2. \A a \in Agents : Held(a)'
    BY <1>2, <1>5 DEF Held, is_open
  <2>3. ASSUME NEW t \in Threads
        PROVE  Fresh(t)'
    <3>1. CASE thread'[t].step = "idle"
      BY <3>1 DEF Fresh, Ahead, InHand, Walking
    <3>2. CASE thread'[t] = thread[t]
      <4>1. Ahead(t)' = Ahead(t) /\ InHand(t)' = InHand(t) /\ Ahead(t) \subseteq Agents
        BY <1>0, <3>2 DEF Ahead, InHand, OfTrack, ThreadOK, ThreadStates
      <4>2. thread[t].step \in {"pause", "release"} => thread[t].cur \in Agents
        BY DEF PlaceInv
      <4>. QED
        BY <1>2, <1>5, <3>2, <4>1, <4>2 DEF Fresh, is_open
    <3>. QED
      BY <1>5, <3>1, <3>2
  <2>. QED
    BY <2>1, <2>2, <2>3
<1>6. ASSUME NEW a \in Agents, patch_paused(a), is_open(a), UNCHANGED <<ledger, shut>>,
             \A t \in Threads : thread'[t].step = "idle"
      PROVE  Single' /\ (\A u \in Threads : Fresh(u)') /\ \A b \in Agents : Held(b)'
  <2>1. \A b \in Agents : Held(b)'
    BY <1>0, <1>2, <1>6 DEF patch_paused, Held, is_open, AgentOK
  <2>2. Single' /\ \A u \in Threads : Fresh(u)'
    BY <1>6 DEF Single, Fresh, Ahead, InHand, Walking
  <2>. QED
    BY <2>1, <2>2
<1>7. ASSUME NEW t \in Threads, Abort(t)
      PROVE  Single' /\ (\A u \in Threads : Fresh(u)') /\ \A a \in Agents : Held(a)'
  <2>1. UNCHANGED <<ledger, shut>> /\ thread' = [thread EXCEPT ![t] = Idle]
    BY <1>7 DEF Abort, Set, store, marks
  <2>2. \A u \in Threads : thread'[u] = thread[u] \/ thread'[u].step = "idle"
    BY <1>0, <2>1 DEF ThreadOK, Idle
  <2>3. CASE thread[t].step = "pause" /\ patch_paused(thread[t].cur)
    <3>1. \A u \in Threads \ {t} : thread[u].step = "idle"
      BY <1>2, <2>3 DEF Single
    <3>2. \A u \in Threads : thread'[u].step = "idle"
      BY <1>0, <2>1, <3>1 DEF ThreadOK, Idle
    <3>3. thread[t].cur \in Agents /\ is_open(thread[t].cur)
      BY <1>2, <2>3 DEF PlaceInv, Fresh
    <3>. QED
      BY <1>6, <2>1, <2>3, <3>2, <3>3
  <2>4. CASE (\E b : patch_idle(b)) \/ paused_by' = paused_by
    <3>1. \A a \in Agents : paused_by'[a] = "bridge" => paused_by[a] = "bridge"
      BY <1>0, <2>4 DEF patch_idle, AgentOK
    <3>. QED
      BY <1>5, <2>1, <2>2, <3>1
  <2>. QED
    BY <1>7, <2>3, <2>4 DEF Abort
<1>8. CASE Overrides \/ People \/ Boot \/ Crash \/ Reconciled \/ UNCHANGED vars
  <2>1. UNCHANGED <<ledger, shut>>
    BY <1>8 DEF Overrides, Override, Revoke, People, HumanPauses, HumanResumes, HumanHolds, Human, Boot, Crash,
                Reconciled, store, marks, vars
  <2>2. \A t \in Threads : thread'[t] = thread[t] \/ thread'[t].step = "idle"
    BY <1>8 DEF Overrides, Override, Revoke, People, HumanPauses, HumanResumes, HumanHolds, Human, Boot, Crash,
                Reconciled, Idle, vars
  <2>3. \A a \in Agents : paused_by'[a] = "bridge" => paused_by[a] = "bridge"
    BY <1>0, <1>8 DEF Overrides, Override, Revoke, People, HumanPauses, HumanResumes, HumanHolds, Human, Boot, Crash,
                      Reconciled, AgentOK, vars
  <2>. QED
    BY <1>5, <2>1, <2>2, <2>3
<1>9. CASE ReconcilePause \/ ReconcileFails
  <2>1. phase = "boot" /\ UNCHANGED <<ledger, shut, thread>>
    BY <1>9 DEF ReconcilePause, ReconcileFails, store, marks
  <2>2. \A t \in Threads : thread'[t].step = "idle"
    BY <1>0, <2>1 DEF BootInv, AllIdle
  <2>3. CASE boot.cur # NoAgent /\ patch_paused(boot.cur)
    BY <1>0, <1>6, <2>1, <2>2, <2>3 DEF BootInv, ProcessOK
  <2>4. CASE paused_by' = paused_by
    BY <1>5, <2>1, <2>2, <2>4
  <2>. QED
    BY <1>9, <2>3, <2>4 DEF ReconcilePause, ReconcileFails
<1>10. ASSUME NEW a \in Agents, ReconcileRow(a)
       PROVE  Single' /\ (\A u \in Threads : Fresh(u)') /\ \A b \in Agents : Held(b)'
  <2>1. phase = "boot" /\ thread' = thread /\ paused_by' = paused_by
    BY <1>10 DEF ReconcileRow
  <2>2. \A t \in Threads : thread'[t].step = "idle"
    BY <1>0, <2>1 DEF BootInv, AllIdle
  <2>3. Single' /\ \A u \in Threads : Fresh(u)'
    BY <2>2 DEF Single, Fresh, Ahead, InHand, Walking
  <2>4. /\ \A b \in Agents \ {a} : ledger'[b] = ledger[b]
        /\ shut \subseteq shut'
        /\ ledger' = ledger \/ (paused_by[a] = "bridge" => a \in shut')
    BY <1>0, <1>10 DEF ReconcileRow, ledger_release, StoreOK
  <2>5. \A b \in Agents : Held(b)'
    BY <1>2, <2>1, <2>4 DEF Held, is_open
  <2>. QED
    BY <2>3, <2>5
<1>11. CASE Allocate
  BY <1>3, <1>4, <1>7, <1>11 DEF Allocate, Move, Request, AdaptiveTick, Threads
<1>12. CASE Restart
  BY <1>8, <1>9, <1>10, <1>12 DEF Restart
<1>. QED
  BY <1>8, <1>11, <1>12 DEF Next

\* While no two allocations overlap, an agent that the bridge paused has an
\* open row, unless a boot has closed it.
THEOREM PauseIsOpenHolds == Spec => []PauseIsOpen
  <1>1. OpenInv => PauseIsOpen
    BY DEF OpenInv, Held, PauseIsOpen
  <1>. QED
    BY <1>1, OpenInit, OpenStep, Invariance, PTL DEF Spec
=============================================================================
