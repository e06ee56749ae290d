------------------------------ MODULE Control ------------------------------
(***************************************************************************)
(* The allocation and pause control of the event bridge (control.py):      *)
(* operator requests served by concurrent HTTP threads, the adaptive       *)
(* controller's thread, and the re-assertion of the lock at boot.  All of  *)
(* them work on four records that no transaction spans: the policy rows,   *)
(* the pause ledger and the track state in the bridge's store, and the     *)
(* agents in Paperclip, which people pause and resume as well.             *)
(*                                                                         *)
(* Of an allocation only matters which track gets nothing.  _wait_settled  *)
(* only reads; that it may raise after the PATCH went through is part of   *)
(* Abort.                                                                  *)
(***************************************************************************)
EXTENDS Naturals, FiniteSets

CONSTANTS
  Agents,
  TrackOf,        \* the track whose selectors match an agent
  Handlers,       \* HTTP threads that serve an allocation request
  Adaptive,       \* the adaptive controller's thread
  NoThread,
  NoAgent,
  Locks,          \* the sets of tracks an operator may lock
  MaxRequests,    \* bound on the allocations begun
  MaxMishaps      \* bound on failed Paperclip calls, crashes, overrides set or
                  \* revoked, and what people do to agents, taken together

Tracks == {"core", "lab"}

ASSUME ControlAssumption ==
  /\ TrackOf \in [Agents -> Tracks]
  /\ Adaptive \notin Handlers
  /\ NoThread \notin Handlers \cup {Adaptive}
  /\ NoAgent \notin Agents
  /\ Locks \subseteq (SUBSET Tracks) \ {Tracks}
  /\ {MaxRequests, MaxMishaps} \subseteq Nat

VARIABLES
  \* the bridge's store
  policies,      \* active rows
  ledger,        \* agent_pause_ledger
  track_state,
  \* Paperclip
  agents,
  \* the process
  phase,         \* "down", "boot" (in reconcile_lock) or "up"
  boot,          \* reconcile_lock: rows left, and the agent it is to pause
  thread,        \* apply_allocation, per thread
  clock, mishaps,
  \* history
  paused_by,     \* who paused a paused agent
  overlapped,    \* two allocations have been under way at once
  shut,          \* agents whose row a boot closed while the bridge kept them paused
  alone,         \* the thread whose allocation nothing has disturbed so far
  settled        \* what ended last, with nothing happening to it since

store == <<policies, ledger, track_state>>
marks == <<overlapped, shut>>
vars == <<store, agents, phase, boot, thread, clock, mishaps, paused_by, marks, alone, settled>>

Threads == Handlers \cup {Adaptive}
OfTrack(tr) == {a \in Agents : TrackOf[a] = tr}

Priority(t) == IF t = Adaptive THEN 40 ELSE 20

Manual == "manual"
Other == "other"

-----------------------------------------------------------------------------
(* policy.py, as far as allocation goes.                                   *)

Keys == {"allocation", "track_locked"}

\* An allocation's shares are rows of the company, its track_locked rows are
\* rows of the track.  An override names its scope and has the track's unless
\* it says otherwise.
Scopes == {"company", "track", "project"}

ScopeRank(scope) == CASE scope = "company" -> 1 [] scope = "track" -> 2 [] scope = "project" -> 3

\* The rows that a question about a track meets.  The bridge asks with no
\* project; "project" stands for a track other than the key's as well.
candidates(key, tr) == {r \in policies : r.key = key /\ r.track = tr /\ r.scope # "project"}

\* Nothing decides over r: the lowest priority number, then the narrowest
\* scope, then the newest row.
wins(r, o) ==
  \/ r.priority < o.priority
  \/ r.priority = o.priority /\ ScopeRank(r.scope) > ScopeRank(o.scope)
  \/ r.priority = o.priority /\ r.scope = o.scope /\ r.at >= o.at

\* _pick.
pick(rows) == CHOOSE r \in rows : \A o \in rows : wins(r, o)

\* The share is zero; track_locked is true.  Both default to no.
effective(key, tr) == candidates(key, tr) # {} /\ pick(candidates(key, tr)).zero

\* What the adaptive controller looks for, of any scope.
operator_rows == {r \in policies : r.priority = 20 /\ r.key = "allocation"}

-----------------------------------------------------------------------------
(* The pause ledger.                                                       *)

NoRow == [state |-> "none", holds |-> {}]

\* Deliberate bugs: a row that was released stays released; only an existing
\* row is written.
ledger_put_BUG(a, holds) ==
  [ledger EXCEPT ![a] = [state |-> IF @.state = "none" THEN "open" ELSE @.state, holds |-> holds]]
ledger_update_BUG(a, holds) ==
  [ledger EXCEPT ![a] = IF @ = NoRow THEN @ ELSE [state |-> "open", holds |-> holds]]

ledger_put(a, holds) == [ledger EXCEPT ![a] = [state |-> "open", holds |-> holds]]

ledger_release(a) == [ledger EXCEPT ![a].state = IF @ = "none" THEN @ ELSE "released"]

\* The holds are stored as Python's text of the list and read back as JSON:
\* only the empty list survives, any other comes back as one unknown hold.
recorded_text(holds) == IF holds = {} THEN {} ELSE {"text"}

holds_match(recorded, current) == recorded = current \ {Manual}

-----------------------------------------------------------------------------
(* Threads.                                                                *)

Idle == [step |-> "idle", lock |-> {}, at |-> 0, n |-> 0, track |-> "core",
         todo |-> {}, cur |-> NoAgent, listed |-> [a \in Agents |-> [status |-> "idle", holds |-> {}]]]

Nothing == [what |-> "nothing", lock |-> {}, by |-> Adaptive]

NoBoot == [todo |-> {}, cur |-> NoAgent]

Init ==
  /\ policies = {}
  /\ ledger = [a \in Agents |-> NoRow]
  /\ track_state = [tr \in Tracks |-> "running"]
  /\ agents = [a \in Agents |-> [status |-> "idle", holds |-> {}]]
  /\ phase = "up" /\ boot = NoBoot
  /\ thread = [t \in Threads |-> Idle]
  /\ clock = 0 /\ mishaps = 0
  /\ paused_by = [a \in Agents |-> "nobody"]
  /\ overlapped = FALSE /\ shut = {}
  /\ alone = NoThread /\ settled = Nothing

At(t, s) == phase = "up" /\ thread[t].step = s

Set(t, r) == thread' = [thread EXCEPT ![t] = r]

Goto(t, s) == thread' = [thread EXCEPT ![t].step = s]

\* On to the next agent of the loop.
NextAgent(t) == thread' = [thread EXCEPT ![t].step = "agents", ![t].cur = NoAgent]

Ended(what) == [Nothing EXCEPT !.what = what]

Mishap == mishaps < MaxMishaps /\ mishaps' = mishaps + 1

Disturb == alone' = NoThread /\ settled' = Nothing

Quietly == UNCHANGED <<alone, settled>>

\* PATCH /agents/:id.  The board adds or clears the manual hold with the
\* status; clearing takes the other holds with it.
patch_paused(a) ==
  /\ agents' = [agents EXCEPT ![a] = [status |-> "paused", holds |-> @.holds \cup {Manual}]]
  /\ paused_by' = [paused_by EXCEPT ![a] = IF agents[a].status = "paused" THEN @ ELSE "bridge"]

patch_idle(a) ==
  /\ agents' = [agents EXCEPT ![a] = [status |-> "idle", holds |-> {}]]
  /\ paused_by' = [paused_by EXCEPT ![a] = "nobody"]

-----------------------------------------------------------------------------
(* apply_allocation.                                                       *)

(* --- authorisation, validation, the adaptive check -------------------- *)

\* The request's timestamp is taken when its handler calls apply_allocation.
Begin(t, lock, s) ==
  /\ At(t, "idle") /\ clock < MaxRequests
  /\ clock' = clock + 1
  /\ Set(t, [Idle EXCEPT !.step = s, !.lock = lock, !.at = clock + 1])
  /\ alone' = IF \A u \in Threads : thread[u].step = "idle" THEN t ELSE NoThread
  /\ overlapped' = (overlapped \/ \E u \in Threads : thread[u].step # "idle")
  /\ settled' = Nothing
  /\ UNCHANGED <<store, agents, phase, boot, mishaps, paused_by, shut>>

Request(t, lock) == t \in Handlers /\ Begin(t, lock, "insert")

\* AdaptiveController.tick, when it is about to adjust: no operator row was
\* there when it began, and its target takes no share to zero.
AdaptiveTick == operator_rows = {} /\ Begin(Adaptive, {}, "check")

\* apply_allocation looks again before it writes.
CheckOperator ==
  /\ At(Adaptive, "check")
  /\ IF operator_rows = {} THEN Goto(Adaptive, "insert") ELSE Set(Adaptive, Idle)
  /\ alone' = IF operator_rows = {} THEN alone ELSE NoThread
  /\ UNCHANGED <<store, agents, phase, boot, clock, mishaps, paused_by, marks, settled>>

(* --- the four policy rows ----------------------------------------------- *)

RowNo(t, n) ==
  LET tr == IF n \in {0, 2} THEN "core" ELSE "lab"
  IN  [key |-> IF n < 2 THEN "allocation" ELSE "track_locked", track |-> tr,
       scope |-> IF n < 2 THEN "company" ELSE "track",
       priority |-> Priority(t), at |-> thread[t].at, zero |-> tr \in thread[t].lock]

\* Deliberate bug: one row too many.
InsertPolicy_BUG(t) ==
  /\ At(t, "insert")
  /\ policies' = policies \cup {RowNo(t, thread[t].n)}
  /\ thread' = [thread EXCEPT ![t].n = @ + 1,
                              ![t].step = IF thread[t].n = 4 THEN "resolve" ELSE @]
  /\ Quietly
  /\ UNCHANGED <<ledger, track_state, agents, phase, boot, clock, mishaps, paused_by, marks>>

InsertPolicy(t) ==
  /\ At(t, "insert")
  /\ policies' = policies \cup {RowNo(t, thread[t].n)}
  /\ thread' = [thread EXCEPT ![t].n = @ + 1,
                              ![t].step = IF thread[t].n = 3 THEN "resolve" ELSE @]
  /\ Quietly
  /\ UNCHANGED <<ledger, track_state, agents, phase, boot, clock, mishaps, paused_by, marks>>

(* --- agents ------------------------------------------------------------- *)

\* resolve_track_agents: one listing per track, read before the first change.
Resolve(t) ==
  /\ At(t, "resolve")
  /\ LET tr == thread[t].track
         seen == [a \in Agents |-> IF TrackOf[a] = tr THEN agents[a] ELSE thread[t].listed[a]]
     IN  Set(t, [thread[t] EXCEPT
               !.listed = seen,
               !.track = IF tr = "core" THEN "lab" ELSE "core",
               !.step = IF tr = "core" THEN "resolve" ELSE "agents",
               !.todo = IF tr = "core" THEN {} ELSE OfTrack("core")])
  /\ Quietly
  /\ UNCHANGED <<store, agents, phase, boot, clock, mishaps, paused_by, marks>>

\* The next agent of the track, as it was listed.
Working(t, a) == At(t, "agents") /\ a \in thread[t].todo

Locking(t) == thread[t].track \in thread[t].lock

Take(t, a, s) ==
  thread' = [thread EXCEPT ![t].todo = @ \ {a}, ![t].step = s,
                           ![t].cur = IF s = "agents" THEN NoAgent ELSE a]

StoreOnly(t) ==
  Quietly /\ UNCHANGED <<policies, track_state, agents, phase, boot, clock, mishaps, paused_by, overlapped>>

listed_paused(t, a) == thread[t].listed[a].status = "paused"

\* Track without a share, agent already paused: reopen the row of an agent
\* we have paused before.
LockPaused(t, a) ==
  /\ Working(t, a) /\ Locking(t) /\ listed_paused(t, a)
  /\ ledger' = IF ledger[a] = NoRow THEN ledger ELSE ledger_put(a, ledger[a].holds)
  /\ shut' = shut \ {a}
  /\ Take(t, a, "agents")
  /\ StoreOnly(t)

LockRunning(t, a) ==
  /\ Working(t, a) /\ Locking(t) /\ ~listed_paused(t, a)
  /\ ledger' = ledger_put(a, recorded_text(thread[t].listed[a].holds))
  /\ shut' = shut \ {a}
  /\ Take(t, a, "pause")
  /\ StoreOnly(t)

PauseAgent(t) ==
  /\ At(t, "pause")
  /\ patch_paused(thread[t].cur)
  /\ NextAgent(t)
  /\ Quietly
  /\ UNCHANGED <<store, phase, boot, clock, mishaps, marks>>

is_open(a) == ledger[a].state = "open"

holds_changed(t, a) ==
  LET current == thread[t].listed[a].holds
  IN  current # {} /\ ~holds_match(ledger[a].holds, current)

\* Track with a share: close the row of an agent that runs again, leave
\* alone one we do not hold or whose holds were changed, resume the others.
UnlockRunning(t, a) ==
  /\ Working(t, a) /\ ~Locking(t) /\ is_open(a) /\ ~listed_paused(t, a)
  /\ ledger' = ledger_release(a)
  /\ Take(t, a, "agents")
  /\ UNCHANGED shut /\ StoreOnly(t)

UnlockSkips(t, a) ==
  /\ Working(t, a) /\ ~Locking(t)
  /\ is_open(a) => listed_paused(t, a) /\ holds_changed(t, a)
  /\ Take(t, a, "agents")
  /\ UNCHANGED <<ledger, shut>> /\ StoreOnly(t)

\* Deliberate bug: the row is closed before the agent is resumed.
UnlockPaused_BUG(t, a) ==
  /\ Working(t, a) /\ ~Locking(t) /\ is_open(a) /\ listed_paused(t, a) /\ ~holds_changed(t, a)
  /\ ledger' = ledger_release(a)
  /\ Take(t, a, "resume")
  /\ UNCHANGED shut /\ StoreOnly(t)

UnlockPaused(t, a) ==
  /\ Working(t, a) /\ ~Locking(t) /\ is_open(a) /\ listed_paused(t, a) /\ ~holds_changed(t, a)
  /\ Take(t, a, "resume")
  /\ UNCHANGED <<ledger, shut>> /\ StoreOnly(t)

ResumeAgent(t) ==
  /\ At(t, "resume")
  /\ patch_idle(thread[t].cur)
  /\ Goto(t, "release")
  /\ Quietly
  /\ UNCHANGED <<store, phase, boot, clock, mishaps, marks>>

Release(t) ==
  /\ At(t, "release")
  /\ ledger' = ledger_release(thread[t].cur)
  /\ NextAgent(t)
  /\ UNCHANGED shut /\ StoreOnly(t)

(* --- the end of a track, and of the allocation -------------------------- *)

\* The slots of an unlocked track are written just before; see Abort.
SetTrackState(t) ==
  /\ At(t, "agents") /\ thread[t].todo = {}
  /\ track_state' = [track_state EXCEPT ![thread[t].track] = IF Locking(t) THEN "paused" ELSE "running"]
  /\ IF thread[t].track = "core"
       THEN /\ thread' = [thread EXCEPT ![t].track = "lab", ![t].todo = OfTrack("lab")]
            /\ Quietly
       ELSE /\ Set(t, Idle)
            /\ alone' = NoThread
            /\ settled' = IF alone = t
                            THEN [what |-> "allocation", lock |-> thread[t].lock, by |-> t]
                            ELSE Nothing
  /\ UNCHANGED <<policies, ledger, agents, phase, boot, clock, mishaps, paused_by, marks>>

\* A call of Paperclip raises and the allocation ends where it is: while the
\* agents are listed (or when a selector does not match exactly one), at a
\* PATCH, while it waits for the PATCH to settle, or at a slot write.
Abort(t) ==
  /\ At(t, thread[t].step)
  /\ \/ /\ thread[t].step = "resolve"
        /\ UNCHANGED <<agents, paused_by>>
     \/ /\ thread[t].step = "pause"
        /\ patch_paused(thread[t].cur) \/ UNCHANGED <<agents, paused_by>>
     \/ /\ thread[t].step = "resume"
        /\ patch_idle(thread[t].cur) \/ UNCHANGED <<agents, paused_by>>
     \/ /\ thread[t].step = "agents" /\ thread[t].todo = {} /\ ~Locking(t)
        /\ UNCHANGED <<agents, paused_by>>
  /\ Mishap
  /\ Set(t, Idle)
  /\ Disturb
  /\ UNCHANGED <<store, phase, boot, clock, marks>>

-----------------------------------------------------------------------------
(* set_override and override_revoke: policy rows only.                     *)

Override(key, tr, scope, zero) ==
  /\ phase = "up" /\ clock < MaxRequests
  /\ Mishap /\ clock' = clock + 1
  /\ policies' = policies \cup
       {[key |-> key, track |-> tr, scope |-> scope, priority |-> 20, at |-> clock + 1, zero |-> zero]}
  /\ Disturb
  /\ UNCHANGED <<ledger, track_state, agents, phase, boot, thread, paused_by, marks>>

Revoke(row) ==
  /\ phase = "up" /\ Mishap
  /\ policies' = policies \ {row}
  /\ Disturb
  /\ UNCHANGED <<ledger, track_state, agents, phase, boot, thread, clock, paused_by, marks>>

-----------------------------------------------------------------------------
(* Crash, boot and reconcile_lock.                                         *)

Crash ==
  /\ phase # "down"
  /\ Mishap
  /\ phase' = "down" /\ boot' = NoBoot
  /\ thread' = [t \in Threads |-> Idle]
  /\ Disturb
  /\ UNCHANGED <<store, agents, clock, paused_by, marks>>

open_rows == {a \in Agents : is_open(a)}

\* Deliberate bug: rows of agents that run are not looked at.
boot_rows_BUG == {a \in open_rows : agents[a].status = "paused"}

boot_rows == open_rows

Boot ==
  /\ phase = "down"
  /\ phase' = "boot" /\ boot' = [todo |-> boot_rows, cur |-> NoAgent]
  /\ settled' = Ended("booting")
  /\ UNCHANGED <<store, agents, thread, clock, mishaps, paused_by, marks, alone>>

\* A row of a track with a share is closed; an agent that is paused is left
\* alone; any other is to be paused again.
ReconcileRow(a) ==
  /\ phase = "boot" /\ boot.cur = NoAgent /\ a \in boot.todo
  /\ ledger' = IF effective("allocation", TrackOf[a]) THEN ledger ELSE ledger_release(a)
  /\ boot' = [todo |-> boot.todo \ {a},
              cur |-> IF effective("allocation", TrackOf[a]) /\ agents[a].status # "paused"
                        THEN a ELSE NoAgent]
  /\ shut' = IF ~effective("allocation", TrackOf[a]) /\ paused_by[a] = "bridge" THEN shut \cup {a} ELSE shut
  /\ UNCHANGED <<policies, track_state, agents, phase, thread, clock, mishaps, paused_by, overlapped, alone, settled>>

ReconcilePause ==
  /\ phase = "boot" /\ boot.cur # NoAgent
  /\ patch_paused(boot.cur)
  /\ boot' = [boot EXCEPT !.cur = NoAgent]
  /\ UNCHANGED <<store, phase, thread, clock, mishaps, marks, alone, settled>>

Serve == phase' = "up" /\ boot' = NoBoot

Reconciled ==
  /\ phase = "boot" /\ boot = NoBoot
  /\ Serve
  /\ settled' = IF settled.what = "booting" THEN Ended("boot") ELSE Nothing
  /\ UNCHANGED <<store, agents, thread, clock, mishaps, paused_by, marks, alone>>

\* A failed call ends the reconciliation, not the boot.
ReconcileFails ==
  /\ phase = "boot" /\ boot # NoBoot
  /\ Mishap
  /\ Serve /\ settled' = Nothing
  /\ \/ boot.cur # NoAgent /\ patch_paused(boot.cur)
     \/ UNCHANGED <<agents, paused_by>>
  /\ UNCHANGED <<store, thread, clock, marks, alone>>

-----------------------------------------------------------------------------
(* People, on the board.                                                   *)

Human(a, agent, by) ==
  /\ Mishap
  /\ agents' = [agents EXCEPT ![a] = agent]
  /\ paused_by' = [paused_by EXCEPT ![a] = by]
  /\ Disturb
  /\ UNCHANGED <<store, phase, boot, thread, clock, marks>>

HumanPauses(a) ==
  /\ agents[a].status = "idle"
  /\ Human(a, [status |-> "paused", holds |-> agents[a].holds \cup {Manual}], "human")

HumanResumes(a) ==
  /\ agents[a].status = "paused"
  /\ Human(a, [status |-> "idle", holds |-> {}], "nobody")

HumanHolds(a) ==
  /\ Other \notin agents[a].holds
  /\ Human(a, [agents[a] EXCEPT !.holds = @ \cup {Other}], paused_by[a])

-----------------------------------------------------------------------------
Allocate ==
  \/ \E t \in Handlers, lock \in Locks : Request(t, lock)
  \/ AdaptiveTick \/ CheckOperator
  \/ \E t \in Threads :
       \/ InsertPolicy(t) \/ Resolve(t)
       \/ \E a \in Agents : LockPaused(t, a) \/ LockRunning(t, a)
       \/ PauseAgent(t)
       \/ \E a \in Agents : UnlockRunning(t, a) \/ UnlockSkips(t, a) \/ UnlockPaused(t, a)
       \/ ResumeAgent(t) \/ Release(t)
       \/ SetTrackState(t) \/ Abort(t)

Overrides ==
  \/ \E key \in Keys, tr \in Tracks, scope \in Scopes, zero \in BOOLEAN : Override(key, tr, scope, zero)
  \/ \E row \in policies : Revoke(row)

Restart ==
  \/ Crash \/ Boot \/ ReconcilePause \/ Reconciled \/ ReconcileFails
  \/ \E a \in Agents : ReconcileRow(a)

People == \E a \in Agents : HumanPauses(a) \/ HumanResumes(a) \/ HumanHolds(a)

Next == Allocate \/ Overrides \/ Restart \/ People

Spec == Init /\ [][Next]_vars

-----------------------------------------------------------------------------
AgentStates == [status : {"idle", "paused"}, holds : SUBSET {Manual, Other}]

Rows == [key : Keys, track : Tracks, scope : Scopes, priority : {20, 40}, at : 1..MaxRequests, zero : BOOLEAN]

TypeOK ==
  /\ policies \subseteq Rows
  /\ ledger \in [Agents -> [state : {"none", "open", "released"}, holds : SUBSET {"text"}]]
  /\ track_state \in [Tracks -> {"running", "paused"}]
  /\ agents \in [Agents -> AgentStates]
  /\ phase \in {"down", "boot", "up"}
  /\ boot \in [todo : SUBSET Agents, cur : Agents \cup {NoAgent}]
  /\ thread \in [Threads ->
       [step : {"idle", "check", "insert", "resolve", "agents", "pause", "resume", "release"},
        lock : Locks \cup {{}}, at : 0..MaxRequests, n : 0..4, track : Tracks,
        todo : SUBSET Agents, cur : Agents \cup {NoAgent}, listed : [Agents -> AgentStates]]]
  /\ clock \in 0..MaxRequests /\ mishaps \in 0..MaxMishaps
  /\ paused_by \in [Agents -> {"nobody", "human", "bridge"}]
  /\ \A a \in Agents : paused_by[a] = "nobody" <=> agents[a].status = "idle"
  /\ overlapped \in BOOLEAN /\ shut \subseteq Agents
  /\ alone \in Threads \cup {NoThread}
  /\ settled \in [what : {"nothing", "allocation", "booting", "boot"}, lock : Locks \cup {{}}, by : Threads]

\* No agent is ever paused by the bridge without the ledger knowing it, in
\* whatever order requests, boots, failed calls and crashes fall: the row is
\* written first, and never deleted.  A track's next lock reopens the row, so
\* that its next unlock finds the agent.
KnownPause == \A a \in Agents : paused_by[a] = "bridge" => ledger[a].state # "none"

\* While no two allocations overlap, an agent that the bridge paused has an
\* open row, which the track's next unlock finds and the next boot asserts:
\* through failed calls, crashes and people the row opens before the pause and
\* closes after the resume.  The exception is a boot that closes the rows of
\* agents still paused, after an unlock that did not get to them or when an
\* override gives the track a share.
PauseIsOpen ==
  ~overlapped => \A a \in Agents : paused_by[a] = "bridge" => is_open(a) \/ a \in shut

\* An override of the track stands for the share: it decides over an
\* allocation's row of the company, even an older one.
Overruled(tr) == \E r \in operator_rows : r.track = tr /\ r.scope = "track"

LockedUp(a) ==
  /\ agents[a].status = "paused"
  /\ ledger[a].state # "released"

LetGo(a) == is_open(a) => agents[a].status = "paused" /\ agents[a].holds \ {Manual} # ledger[a].holds

\* An allocation that ran by itself leaves policy, track state, agents and
\* ledger in agreement, whatever mess earlier requests, failed calls, crashes
\* and people left behind: a locked track has no running agent, and the bridge
\* will resume the ones it paused; an unlocked track has no open row but those
\* it refused to resume.  The share it set is in force unless overruled, and
\* the refusal to create tickets (track_locked) always is.
Agreement ==
  settled.what = "allocation" => \A tr \in Tracks :
    LET locked == tr \in settled.lock IN
    /\ ~Overruled(tr) => effective("allocation", tr) = locked
    /\ settled.by # Adaptive => effective("track_locked", tr) = locked
    /\ track_state[tr] = IF locked THEN "paused" ELSE "running"
    /\ \A a \in OfTrack(tr) : IF locked THEN LockedUp(a) ELSE LetGo(a)

\* Once a boot has reconciled the lock, and until the next request or human
\* act, the open rows are those of the agents that a lock in force keeps
\* paused: a crash, or a human who resumed an agent meanwhile, neither lifts
\* the lock nor leaves a row behind that a later boot would act on.
LockReasserted ==
  settled.what = "boot" => \A a \in open_rows :
    agents[a].status = "paused" /\ effective("allocation", TrackOf[a])

(***************************************************************************)
(* A statement of the source that the code does not keep.                  *)
(***************************************************************************)

\* adaptive.py: "Operator override wins: if any priority-20 allocation row
\* exists, adaptive does nothing" - in particular it never resumes an agent of
\* a track that an operator has locked.
OperatorOverrideWins ==
  [][\A r \in operator_rows :
       thread[Adaptive].step = "resume" /\ thread'[Adaptive].step = "release" /\ r.zero
         => r.track # TrackOf[thread[Adaptive].cur]]_vars
=============================================================================
