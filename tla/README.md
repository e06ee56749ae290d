# A verification project for opc-stack

TLA+ models of the parts of this repository that keep state and run
concurrently, the TLC runs that check them on small instances, and TLAPS proofs
of the properties that matter most for every instance.  `PROJECT.json` is the
machine-readable side: components, runs, the source lines behind every
definition, deliberate bugs that each property must catch, hazards, findings and
theorems.

```
tlc -workers 2 -config Outbox.cfg MCOutbox      # one run
tlapm OutboxProofs.tla                          # the proofs
```

Paths below are relative to `src/`; `opc_bridge/` stands for
`patches/event-bridge/opc_bridge/`.

## 1. The system

opc-stack is a Docker Compose runtime for a company of agents with one operator.
Buzz (a relay) owns conversation, Paperclip owns tracked work, TencentDB owns
memory.  Those are upstream programs.  What this repository adds, and what is
worth modelling, is the glue between them:

| part | state it keeps | operations | acts on |
|---|---|---|---|
| **Outbox and delivery thread** (`store.py`, `deliver.py`, `buzz.py`) | SQLite rows: events, deliveries with state, attempts, next attempt, last error | enqueue, claim a batch, send, back off, fall back, give up, expire, recover at boot | the relay, through the buzz CLI |
| **Event gate** (`patches/buzz/patches/opc-event-gate.patch`) | a bounded FIFO of event ids and a text file behind it | check a message: tag, author, seen; remember; load at start | the front-door agent's turns |
| **Issue poller** (`poller.py`, `events.py`, `paperclip.py`) | cursor, baseline watermark, last state per issue, origins, labels | baseline, tick, reconcile, run sweep, backfill | reads Paperclip, enqueues events |
| **Allocation and pause control** (`control.py`, `policy.py`, `routes.py`) | policy rows, pause ledger, track state | apply an allocation, override, revoke, re-assert the lock at boot | pauses and resumes Paperclip's agents |
| **Adaptive controller** (`adaptive.py`) | drift direction and since when, last target | measure, decide, apply an allocation of its own | as above |
| **Health monitor** (`health.py`) | a level per run, reminders | classify, alert, remind, recover, reap | enqueues alerts |
| **Operator authorisation, force stop** (`control.py`) | used commands, mandates, audit | verify a signed command once, grant, revoke, cancel runs | Paperclip's runs |
| **HTTP API and CLI** (`api.py`, `cli.py`) | none | route, format | the operations above, one thread per request |
| **Memory provider** (`patches/buzz/memory_tencentdb/`, the same code in `patches/hermes/`) | gateway process, circuit breaker, capture threads | start and watch the gateway, recall, capture, shut down | the memory gateway |
| **podenv, devenv** (`patches/paperclip/`) | lease rows, ports, containers, schemas | provision, release, restore, reap | podman, PostgreSQL, Valkey, S3 |
| **prototype** (`patches/paperclip/prototype/`) | a registry of previews | publish, stop, restore | pm2, nginx |
| helpers, entrypoints, host scripts, other patches | none of their own | one-shot | files and APIs |

How they interact.  The bridge is one Python process: the poller, the delivery
loop, the health monitor and the adaptive controller each have a thread, and
every HTTP request has one more.  All share one SQLite store behind a lock; each
store call commits on its own, so there is no transaction across two of them,
and none across the store and Paperclip.  The poller and the health monitor
insert events, the delivery thread posts them, the relay hands them to the agent
harness, and the gate in the harness decides whether an event starts a turn.
Operator requests and the adaptive controller write policy rows and then walk
Paperclip's agents, which people pause and resume as well.

What is hard:

* a kill between two store calls, or between a store call and its effect outside;
* a message the relay accepted although the bridge saw a failure; a stored
  message the relay delivers again, late, or out of order;
* a board that changes between two pages of an offset-paged listing, and changes
  that become visible later than their timestamp;
* several allocations in flight at once, working from listings of agents that are
  out of date;
* one failing step of several: a batch of rows, a walk over agents, a baseline.

What makes each part correct:

* outbox: an event is marked told only when it was, in its own channel; no row is
  lost, stranded or worked on early; every row is settled in the end;
* gate: an event starts at most one turn, and only if the bridge sent it;
* poller: history is not replayed, no end of an issue is missed;
* control: policy, track state, agents and ledger agree once an allocation has
  run; a lock survives a crash; an operator's word beats the controller's;
* health: one alert per change of level, none lost; authorisation: one use per
  command; memory: no more than one gateway, the breaker opens and closes;
  leases: no port leased twice, no container left behind a release.

`PROJECT.json` lists the hazards line by line.

## 2. Modules

```
DeliveryPromise <--refined by--  Outbox  <--  MCOutbox, OutboxProofs
      |
      +-- EventPipeline (extends EventGate)    <--  MCEventPipeline, EventPipelineProofs
                         EventGate             <--  MCEventGate
Poller   <-- MCPoller, PollerProofs
Control  <-- MCControl, ControlProofs
AdaptiveController  (its own run, and MCLive)

GatewaySupervisor <-- MemoryProvider <-- MCMemory  --+
MemorySnapshot, MemoryCapture                        +-- MCParts, MCLive
Authority, HealthMonitor, RunSweep, Podenv         --+

MemorySnapshot, MemoryCapture, MemoryProvider       <--  MemoryProofs
HealthMonitor, RunSweep, AdaptiveController         <--  WatchProofs
Authority  <--  AuthorityProofs          Podenv  <--  PodenvProofs
```

`Outbox` has `Promise == INSTANCE DeliveryPromise WITH Events <- Events,
status <- status, heard <- heard`, where `status` and `heard` are defined from
the outbox's own variables, and `Promise!Spec` is a property of its run and a
theorem; `EventPipeline` takes the same promise as the bridge's side of a
composition.  `MCParts` and `MCLive` put parts that share no state into one run:
a variable `part` says which one moves, so the run is the union of the parts'
state spaces and not their product.

Every definition that models code is mapped to its lines in `PROJECT.json`.
Definitions whose name ends in `_BUG` are deliberate slips (an upside-down
ladder, a forgotten guard); they occur in no specification, and are put in
place of the definition they are named after to see that a property notices.

### Outbox and DeliveryPromise

`Outbox` is the life of a delivery row.  The store's operations (`enqueue_event`,
`claim_due`, `recover_inflight`, `_finish_delivery`, `reschedule`) are operators
of the same name; the delivery thread is the variable `step`, and between two
steps lies exactly what a crash, another thread or a failing call can fall into:
one step is one store transaction or one CLI call.

| action | code |
|---|---|
| `ClaimDue`, `Deliver`, `FinishBatch` | `run_once`, `claim_due`, the age check and destination ladder of `_deliver` |
| `SendSucceeds`, `SendFails`, `SendRefused` | the CLI call in `_deliver` and its three error kinds |
| `MarkSent`, `MarkExpired`, `MarkFallback`, `MarkFailed` | the outcome written back |
| `HandleFailure` | `_handle_failure`: back off or give up |
| `FallbackSucceeds`, `FallbackFails` | `_fallback` |
| `Audit`, `Alert` | what follows a final outcome, and may still raise |
| `InternalError`, `AbandonBatch` | the `except` of `run_once`, and what happens when it raises itself |
| `Crash`, `Boot` | the process and `main()`'s start-up |
| `BecomeDue`, `GrowOld` | time |

Abstractions.  Time is two bits per event: due, and older than `max_age_hours`;
both may become true at any moment, so backoff of every length is covered.
`attempts` saturates at `MaxAttempts`, since only the comparison with it matters.
The payload is its origin channel.  The message of an alert carries no event id
and is left out; that sending it may raise is not.  An origin's thread id
travels with its channel.  A send that fails may nevertheless have posted.

`DeliveryPromise` is what others may rely on: recorded, owed, told or dropped,
told only after the relay accepted, possibly owed again.  It allows repeated
posts, because the code does; `EventGate` is why that is no harm.

### EventGate and EventPipeline

`EventGate` is the Rust gate of the agent harness.  Messages without the event tag
pass it untouched and are left out; so are those that only have a malformed tag.  A
line of the seen file is a sequence of ids, because the code writes an id and its
newline in two calls: `<<e>>` is a good line, `<<e, f>>` one whose newline went
missing.  What a start loads is written with positions (`newest`, the last lines
that fit the window; `firsts`, each at its first place).  `Check` is one admitted
message with everything that can happen to the file; `CrashInCheck` the same, killed
anywhere inside; `Start` reads the file back.  `EventPipeline` composes the gate
with the promise and an external relay that delivers any posted message any number
of times in any order, and external authors who quote any event's tag.

### Poller

Baseline, cursor polls and reconcile, one step per HTTP page or store
transaction, in one thread.  `Board` is the external Paperclip: issues are
created, moved and touched with timestamps that may lie up to `Delay` in the
past when they become visible.  A crash and a failed request both end the pass
(`GiveUp`): the thread's locals go, the store stays.  A listing is recomputed at
every page from the board as it is then, which is what offset paging does: a page is
the set of rows whose `Position` in the listing, ordered by `Before` as the query
asks, lies between the offset and the page size beyond it, and the loop over the page
takes the `First` of the rows that are left.  Time begins late enough (`Start`) that
no stamp is zero, which stands for "not set".

The baseline is one request for each open status (`ListOpen`), which returns any
`PageSize` of the issues that have it: there is no second page.  The board moves
between two of these requests, so an issue may be listed twice or not at all, and
one that is not listed has no recorded state.

Abstractions.  "done" stands for done and cancelled; two open statuses,
`OpenStatuses`, for the code's four.  The cut-over lookback is 0.  `Overlap` is
`POLL_OVERLAP_SECONDS` (ten seconds, `poller.py:28`), which a poll looks back behind
its cursor, and `Delay` may not exceed it (assumption `PollerAssumption`): a change
visible later than that is out of what the code handles before the next reconcile.
The `blockedTransitionAt` column is absent in the runs, which is the harder case (a
touched blocked issue is a new event).

### Control

`apply_allocation` for every thread that may call it, with the exact order of
its writes: the four policy rows, the two listings, then per agent the ledger row
before the pause and the resume before the release, then the track state.
`Abort` is any Paperclip call that raises.  `Override` and `Revoke` are the other
two ways policy rows change; `Boot`, `ReconcileRow`, `ReconcilePause`,
`Reconciled` and `ReconcileFails` are `reconcile_lock`; `HumanPauses`,
`HumanResumes`, `HumanHolds` are people.  The policy resolver is `pick` and
`effective`, for the two keys an allocation writes, over rows of every scope:
`wins` ranks the priority first, then the scope (`ScopeRank`), then the time.  An
allocation writes its shares for the company and its locks for the track, while an
override has the track's scope unless it names another, so an override of a track
decides over every later allocation until it is revoked; `Agreement` names that case
(`Overruled`).  `overlapped` and `shut` are history variables: whether two
allocations were ever under way at once, and the agents whose row a boot closed while
the bridge kept them paused.

Abstractions.  Of an allocation only the set of tracks that get nothing is kept.
Slots are data nothing here reads back.  A request takes its timestamp when it
begins, and timestamps differ; rows of equal time are `Authority`'s.  The HTTP flag
that lets a caller act as the adaptive controller is left out: the controller's
thread is the only one that does.  The holds of an agent are the manual one and one
other; that they are stored as Python's text of a list and read back as JSON is
modelled by what it does (`recorded_text`): a non-empty list comes back as one
unknown hold.

### AdaptiveController

One tick of the controller is one action, chosen by what it finds: an operator's
row (`TickSkipped`), too few samples or no drift (`TickQuiet`), a new direction
(`TickTurn`), a drift that is not old enough (`TickHold`), an adjustment
(`TickAdjust`) and one that raises (`TickApplyFails`).  The run list is an input,
`reading`, which changes between ticks in any way.  `streak` is a history
variable: how long every tick has really found this drift, against which the
timer the code keeps (`since`, `direction`) is compared.  The walk over the agents
is `Control`'s; here an allocation changes the split, fails, or finds an
operator's row that appeared meanwhile.  In `TickApplyFails` the timer runs on,
because the code writes its state after the call: the next pass adjusts again.

### Authority

A call of the HTTP API runs through `Ask` (`OperatorAuth.verify` up to
`auth_used`), `UseAuth` (the INSERT into `auth_uses`), and the command: `WriteRow`
(a mandate or an override), `RevokeRow`, or `StopCheck`, `StopCancel`,
`StopSettle` (`force_stop`).  Each is one transaction or one request, so that two
handlers and a restart fall between any two.  A run may finish, or be cancelled or
interrupted by somebody else, at any time (`RunEnds`); `StopSettle` takes either as
stopped, as the code does.  `Effective` is the resolver of
`policy.py` for the one key that both a mandate and an override can set:
priority, then scope, then age, and the fold over ties; since the fold does not depend
on the order of the ties, it takes the rows as a set.  Expiry of rows is left
out.  A message's text is the set of commands whose verb and tokens it has:
since the text of an override names its scope and key and not its value
(`control.py:83`, `routes.py:107`), one message has the tokens of either value,
and the instance says so.

### HealthMonitor

`Apply` is `_apply` on any verdict that some evidence leads to (`Verdicts`):
`Classify` is the code's ladder with ages cut to the thresholds.  The row is written
first and the notice queued after it (`Emit`), with a crash in between
(`CrashBetween`); the outbox keeps one notice per run, kind and reminder period.
`ReapRun` clears the row of a run that ended.

### RunSweep

The poller's third pass.  Runs start in order, end in any order, and show their
end late by at most the overlap.  `Baseline` is the first sweep, `SweepBegins` one
later sweep's selection, `Look` a run of it, `SweepDies` a crash in it.
`excused` records why a run may be passed over, so that the property can say
that nothing else is.

### The memory provider

`GatewaySupervisor` is `supervisor.py`: `ensure_running` split at every point
where another thread or the gateway can do something (probe, file lock, second
probe, `Popen`, wait for health), `shutdown` in two steps, and the gateway
processes with crashes, hangs and a port that only one can hold.
`MemoryProvider` is the threads around it: the agent's own (initialise, prefetch,
`sync_turn`, tool call, shutdown), the background starter, the watchdog and one
thread per captured turn, with the breaker and the recovery they share without a
lock.  Joins with a time limit may go on at any moment.  `_client`, `_supervisor`
and `_watchdog_stop` follow other variables and have none of their own; the list of
capture threads, of which only the members matter, is a set (`active`); the
breaker's time is forgotten below the threshold, where the code never reads it.
The starter takes the client and sets the availability in two steps (`StarterDone`,
`StarterSets`), and `shutdown` reads the child, drops it, and clears the provider's
fields in three (`StopGateway`, `EndGateway`, `ShutdownDone`); the last makes the four
assignments that follow each other in the code at once.

`MemorySnapshot` is the ledger of snapshots, pruned while it is written, against
what prompts really had.  `MemoryCapture` is what a turn stores: the projection of
`ingress.py`, redelivery of cancelled turns, the ingress log and its sweep.  A
`conversation_add` that fails may have stored its text.  An append to the log may fail
too, which `_log_ingress_drop` swallows: `unlogged` collects the messages whose row
was lost so.

### Podenv

A command is a process: it reads and writes PostgreSQL, asks podman, and
writes a line of a `.env`, one action each, while other commands, the runtime's
restart and the restore pass do the same.  `Provision`, `LookUp`, `Insert`,
`Realloc` are the row; `CheckContainer` to `Settle` the container; `Rollback` and
`Forget` the exit trap; `Release`, `RemoveContainer`, `Forget` a release.  An INSERT
succeeds exactly when the key has no row and the port none.  `WriteEnv` may fail,
before the line is in or after, and rolls back; a command that is told to end rolls
back as well.  Neither a release nor a rollback touches the `.env`: its line stays
behind the row (`stale`) until the key's next provision writes it anew.  Leases of the host
network, argument checks and mismatches (which change nothing) are left out.
`Concurrent` says whether two commands may be busy with one key at once.

## 3. Runs

| run | instance | shows |
|---|---|---|
| `outbox` | 2 events, 2 channels, 2 attempts, batch 2, faulty store, 1 crash; 1.0 M states | safety of the outbox and its refinement of the promise |
| `outbox_live` | the same with one channel, no store faults, fairness; 0.3 M states | every row is settled |
| `outbox_cap` | as `outbox`, no store faults | finding: internal errors never meet the attempt cap |
| `event_pipeline` | 3 events, window 2, 2 restarts, 5 ids recorded; 0.2 M states | no second turn within the window, no turn for a forged tag |
| `event_gate_torn` | 2 events, window 4, 2 restarts | finding: a torn line of the seen file loses the next id |
| `poller` | 2 issues, page size 1, 3 pages, 2 changes, 1 abandoned pass; 1.2 M states | no replay of history, nothing left behind the cursor, every end announced |
| `poller_replay` | the same, baseline may fail until a reconcile is due | finding: without a baseline the reconcile replays history |
| `control` | 2 agents, an HTTP thread and the controller, 3 allocations, 2 mishaps; 2.3 M states | every pause is known and, without overlapping requests, stays open to the next unlock; an undisturbed allocation repairs everything, a boot re-asserts the lock |
| `control_override` | 1 agent, 2 allocations, no mishap | finding: the controller can undo an operator's lock |
| `parts` | 7 parts, see below; 1.4 M states in all | the safety of the memory provider, commands, health monitor, run sweep and leases |
| `live` | gateway with 2 processes, 2 faults and no capture threads; drift with 5 readings, hold 2; 0.4 M states | the memory comes back; adjustments are earned; a drift timer that runs ends |
| `adaptive_stuck` | the same drift instance; 1458 states | finding: a drift that returns after a quiet tick is never acted on |

Why the bounds are enough.  Two events with a batch of two is the least at which
one row's failure can strand another, and with batch size equal to the number of
events both the full and the partial batch occur.  Two attempts give a first, a
last and an exhausted one.  A window of two with three events lets an id be evicted
and come back; half the window is one, so the file is both appended to and
compacted.  Two restarts are the least that expose a torn line (one to tear it,
one to load the joined one).  Page size one makes every pair of issues straddle a
page boundary, and three pages are more than two issues need, so a listing both
ends by itself and by its limit.  Two agents let a walk over a track stop half-way;
three allocations let a lock, an overlapping one and a repair follow each other; a
mishap is a failed call, a crash, an override, a revocation or a person's act, and
two of them in any order are every pair of disturbances.  The core track's agents
and overrides are left out of the `control` instance: core is never locked there, and the
code of the two tracks is the same.

In `parts`: two capture threads with a cap of one make the cap bind; two gateway
identities let a start follow a crash or a hang, and one fault is enough to need
each of recovery, restart and overtaken shutdown (`live` has two, where no
capture threads run).  A threshold of two has a closed, a nearly open and an open
breaker.  Two sessions and a time to live of two let a pruned entry belong to
another session.  Three messages are the owner's, a stranger's and a broken one;
three days with a retention of one have days kept, expired and protected by the
floor.  Six orders and two handlers race on one
order and on two; two rows tie, and override, grant and revocation combine; a
restart falls between verification and use.  A clock of two with thresholds one
and two has both silences and a reminder.  Three runs with a page of two push one
off the page, and an overlap of one in four moments is both enough and too little.
Two keys, two ports and two processes make every race for a port, with a mishap
(dead runtime or daemon, failed removal, killed command) anywhere in it.  Gateways,
handlers, and keys with their callers are interchangeable, which the run's symmetry
(`PartSymmetry`) says; of the sync threads and callers that are idle a step takes the
first thread that is free and the key's own caller (`FirstFree`).

Deadlock is not checked: all counters are bounded by guards, and a system at its
bounds, with nothing to deliver, rightly stops.

### Fairness

`Outbox!FairSpec` assumes that the delivery loop keeps running (`WF` on
`RunOnce`; `_deliver_loop` catches every exception and waits a second), that the
container is restarted (`WF` on `Boot`; `restart: unless-stopped`), and that time
passes.  It assumes nothing of the relay, nor that anything succeeds.
`Poller!FairSpec` assumes that ticks and pages go on, and that a reconcile comes
round again and again: `SF`, because it is only enabled between passes.  The
poller's loop runs it every `reconcile_seconds`, after a tick.  Passes may fail,
but only `MaxFaults` times: a board that never answers is never announced.
The gate and control have no liveness property: nothing there is retried.

`MemoryProvider!Fairness`: every thread of the provider that is in the middle of
something goes on, a started gateway binds its port or exits, and the breaker's
and the recovery's pauses end (they are times).  Requests of the agent, faults and
the end of a hang are nobody's duty, so `Recovers` rests on the watchdog alone and
excludes a gateway that hangs for good: neither its process is dead nor does it
answer, and the port is taken.  `DriftFairness`: the clock and the controller's tick
go on (`_adaptive_loop` catches everything).  In `MCLive` the fair actions of the part
that does not move are disabled, so its fairness asks nothing.

## 4. Proofs

Every invariant and every action property of the passing runs is a theorem of its
specification, for every value of the constants (one of them, `NoHistoryReplay`,
where `SlowBootstrap` is false).  Eight modules hold the proofs.  In each the
argument is the same: an inductive invariant that contains the property and what the
property rests on; that the initial states satisfy it; one lemma per action or group
of actions that every step keeps it; and the theorem, by temporal reasoning from
these three.  Every invariant was checked by TLC on small instances before it was
proved.  The proofs use the modules' `ASSUME`s and nothing else; most of these only
say what kind of value a constant is, and those that say more are named below.

**Outbox** (`OutboxProofs`; any events and channels, any `MaxAttempts`, `BatchLimit`,
`MaxCrashes`, with and without a fallback channel and faulty store calls).
`TypeCorrect`, `ToldWherePromisedHolds`, `NoStrandedRowHolds`,
`BackoffRespectedHolds`, `FailsForCauseHolds`; the action property
`FinalStaysHolds`; and `KeepsPromiseHolds`, the refinement `Spec => Promise!Spec`.
None of the invariants is inductive: what is written about a row depends on what
the thread found out steps earlier.  `IInv` adds what the thread's position says:
`ThreadInv` (it owns its batch and its row, which are `sending` and due;
a closing row is final), `ChannelInv` (it posts to the origin if there is one, to
another channel when it falls back, and has been heard before it writes so) and
`CauseInv` (the reason it carries is borne out; the control channel never changes
once found).  The refinement is proved from lemmas on the few ways a row's status can
move (recorded, posted, settled, owed again), so that every action falls under one.

**Event gate and pipeline** (`EventPipelineProofs`; any events, window, failing and
torn writes).  `OnlyPostedEventsHolds` rests on `PostedInv`: what was posted had been
recorded.  For the window, the two properties compare turns through the log of all
messages, while the code compares an id with a list that forgets.  `Covers` joins
them: a turn is covered by a list while its id stands in it with nothing behind it
that was not recorded after the turn, or once `Limit` other ids were recorded.
`MemoryInv` says this of the ids in memory and the turns of this life, `FileInv` of
the file and the turns of every life as long as no line was lost or torn; lemmas show
that appending, evicting, compacting and loading keep it.  `NoReplayInLifeHolds`,
`NoReplayInWindowHolds` and `GateTypeCorrect` follow.

**Poller** (`PollerProofs`; any finite set of issues, page size, page limit, lookback
and past, any number of changes and abandoned passes).  Types hold with what the
thread's locals mean at its place (`PassInv`) and with what a row that was read tells of
the board, which has moved on since (`PageInv`).
`NoHistoryReplayHolds` needs `HistoryInv`: for every issue, and for every row that is
still to be recorded, a transition between what is or will be recorded and what
the board shows is newer than the baseline; it is proved for a baseline that is taken
before a reconcile is due, and run `poller_replay` shows that it fails otherwise.
`NothingBehindCursorHolds` needs `CursorInv`: what is not recorded lies within the
overlap of the cursor, of the newest row the pass has seen, and of each row left on the
page, unless its own row comes first; and a tick whose board has not changed has
recorded everything before its offset.  The lemmas `Positions`, `Ordered` and
`PageOfListing` are what makes paging by offset sound there.
`RecordedIsAnnouncedHolds`, an action property, needs `AnnouncedInv`: between the
event and the row, the row in hand is no news or has its event.
`PollerAssumption` has one clause about the deployment that no code enforces: a change
becomes visible within the overlap of its time stamp (`Delay <= Overlap`).

**Control** (`ControlProofs`; any agents, handlers, locks, numbers of requests and
mishaps).  `TypeCorrect`; `KnownPauseHolds`, from `KnownInv`: a thread or a boot
that is about to pause an agent has its row, and no step forgets one;
`PauseIsOpenHolds`, from `OpenInv`: as long as requests have not overlapped, a thread
lists as running only agents that the bridge has not paused since (`Fresh`), and a boot
works on open rows alone (`BootInv`).  `RowInv` says that requests have timestamps of
their own, so that two rows of one time and track agree, which is why `pick` is well
defined.  `PlaceInv` ties a thread's locals to its place.
`AgreementHolds` and `LockReassertedHolds` speak of requests and boots that nothing
disturbs, and of the state when they end, so the invariant has to follow them on their
way: `SettledInv` says of a thread that is still alone that its rows are stored and the
newest (`Stored`), and that its listings are up to date for the agents ahead of it and
the agents behind it are as it wants them (`Walked`); of a boot, that every open
row is in its list or seen to; and that nobody works on what has settled.  The share in
force is the allocation's own unless an override of the track stands (`WinnerDecides`).
`LockReasserted` speaks of the agents with an open row: those whose row a boot has
closed are `PauseIsOpen`'s exception.

**Health monitor, run sweep, adaptive controller** (`WatchProofs`; any runs, thresholds,
reminder period; any page size, overlap and order of the runs' ends; any shares and
hold).  `NoticeBackedHolds` and `AlarmNeedsSilenceHolds` are inductive with the types.
`SweepCoversHolds` needs `SweepTimes` (a finish shows in the list within the overlap,
which the model asks of Paperclip) and `InSight`: a finished run that this sweep will
not look at, and that nobody has accounted for, lies within the overlap of every
finish the cursor may still move to.  `DriftHeldHolds` needs that the
timer the code keeps is no older than the drift.  `HealthAssumption` says
`Slow <= Stall`; the defaults are 900 and 1800, and nothing enforces it.

**Memory** (`MemoryProofs`; any sessions, messages, writers, retention; any number of
capture threads, gateways, faults).  `LedgerExactHolds`: a pruned entry was too old to
matter.  `StoredOnceHolds` and `AccountedHolds`: a message triggers one turn only, and
is stored, logged, or one whose row the log failed to write.
`ProviderTypeCorrect`, `SingleFlightHolds`, `OwnedHolds`, `CleanShutdownHolds`,
`TrackedSyncsHolds` share `ProviderInv`: who may be inside `ensure_running` (`Places`),
which handle a shutdown stops (`StopsOwn`), and that nobody, the starter before its
last line included, is left to call a gateway available after it (`StaysDown`); the
exceptions are the ones the properties name.

**Operator authorisation** (`AuthorityProofs`; any handlers, messages, runs and rows).
`OneCommandHolds` needs `Warrants` and `OneActor`: who is past the INSERT into
`auth_uses` has taken the message out of use, and nobody else acts on it.  Of a run
reported as stopped it says that somebody was authorised to stop it and that it ended
cancelled or interrupted, not by whom.
`NoWideningHolds` is a fact about the resolver, whatever rows there are: some candidate
wins or ties against all (`BestExists`: least values exist because the naturals are
well-founded), an override that forbids and is at least as narrow and as new as a
row cannot lose to it, and the restrictive fold over ties allows only what each
allows.
`AuthorityAssumption` says that a grant and an override of this key set it to true or
false, in one of the three scopes.

**Podenv** (`PodenvProofs`; any keys, ports, processes and mishaps).
`AddressBackedHolds` and `NoOrphanHolds` rest on `Orderly`: a key has one command at
a time (`Exclusive`), a command in the middle knows what holds of its key
(`Standing`), address, row and container belong together (`Matched`) until the row
is gone, and leases have different ports.  Both properties except overlapping
commands on one key, so the invariant is about `~Concurrent`; what goes wrong
otherwise is under findings.

Only model-checked: the liveness properties `EverySettles`, `EveryEndAnnounced`,
`Recovers` and `TimerEnds`.  They need fairness and `ENABLED`, which the prover does not
reason about.  The findings are counterexamples, and stay with TLC too.

## 5. Findings

1. `deliver.py:66` says an internal error "fail[s] loudly via the attempt cap".
   The handler never looks at the cap: the row is retried until it expires, without
   an alert (`outbox_cap`).
2. The design (section 8) promises an atomic append of the seen file.  The id and
   its newline are two writes; a crash in between joins the next id to it, and
   after another start neither is known (`event_gate_torn`).
3. `poller.py:146` says pre-cutover history is not replayed by a reconcile.  When
   every baseline so far failed, the reconcile has no watermark and takes everything
   for news (`poller_replay`).
4. `adaptive.py:21` says an operator override wins.  It is checked before the
   controller's own writes, and an operator's lock applied after the check is undone
   (`control_override`).
5. The design (section 12) says the controller moves once the split has been off
   for the hold time.  A tick within tolerance, or with too few samples, drops
   `drift_since` and keeps `drift_direction`; when the drift returns in that
   direction, its age is taken from now at every tick and never written down
   again: no adjustment ever happens (`adaptive_stuck`).

Seen while modelling, and not a run of their own:

* `decide` moves the split away from the measured share (`adaptive.py:110`), while
  its docstring and the design (line 474) say toward it; the tests fix the code's
  direction, and the model follows the code.
* An allocation that raises after it wrote the split leaves the drift timer
  running: the next pass moves a second step.
* A message that orders an override has the tokens of either value; what it was
  meant for is the caller's choice, once.
* The monitor says "recovered" for a run that was only unknown before, and two
  recoveries within one reminder period share an event id.
* A gateway that hangs is never replaced by the watchdog, whose second probe only
  starts one that is not answering on a port the hung one keeps; a request-path start
  overwrites the handle, and nobody stops the old process.  A start that overtakes
  `shutdown` leaves a gateway behind.  `Owned` and `CleanShutdown` name both cases.
* More capture threads than the cap run after the five-second wait.
* A message whose turn was cancelled before its sync is not captured when it is
  delivered again, whoever wrote it.
* A ticket that cannot be fetched makes the sweep pass over its failed run for good.
* An override of a track outranks the company's rows of later allocations.  While it
  gives the track a share, an operator's lock pauses the agents and the next boot
  closes their rows (`control.py:403`): the agents stay paused, and the unlock that
  follows finds no open row to resume.  The same boot closes the rows of agents that an
  unlock had not got to when the process died.  Only another lock and unlock brings
  them back.  The design (line 460) has a resume check that no override is newer than
  the pause; the code has no such check.
* The baseline lists at most one page of each status.  Issues past it have no recorded
  state, and their ends are announced by the reconcile alone.
* A message whose turn stores nothing is logged, but a failing log is swallowed
  (`__init__.py:978`): the message is then neither stored nor logged.
* `force_stop` reports a run as stopped when it finds it cancelled or interrupted,
  whoever did it.
* The starter's last two lines (`__init__.py:755`) may land after a shutdown, which
  then leaves a provider that is down and calls itself available.
* The address in a `.env` outlives its lease, after a release or after a rollback that
  came once the line was in, and names a port that will be another tenant's; the
  command warns of the first.
* With two podenv commands on one key at once (`Concurrent = TRUE`), a release
  between the row and `podman run` leaves a container without a row, and a second
  provision may take the port that a third key's lease owns: its first query read
  a free port, its second finds the row that the other command inserted with
  another port.
* A container left by a removal that failed keeps its port; every new lease is given
  the same smallest free port and fails, until the container is removed by hand.

## 6. Not modelled, and what is left

Not modelled: formatting, parsing and routing (API, CLI, configuration, labels),
one-shot scripts and entrypoints, and patches to upstream programs that are not
here.  `devenv` allocates its blocks of ports under a table lock and has no runtime
behind a row; `prototype` keeps its state in pm2 and nginx.  `opc-paperclip` has no
state.

Parts of modelled components that are left out: the poller's caches of origins and
comments, label and track checks and the backfill by API threads; `slot_plan`, whose
result nothing reads back, and the expiry of policies and mandates; the
memory provider's recall window, tool schemas and HTTP details; of podenv the leases
of the host network and the entrypoint's self-test.

Left: the liveness properties (`EverySettles`, `EveryEndAnnounced`, `Recovers`,
`TimerEnds`) are beyond the prover.  Worth proving next: that the outbox and the
gate together keep the gate's promise with `Outbox` itself in the place of
`DeliveryPromise`, and lemmas that would make the `Concurrent = TRUE` instance of
`Podenv` say what is still true of it.
