--------------------------- MODULE MemoryProvider ---------------------------
(***************************************************************************)
(* memory_tencentdb/__init__.py: the provider's threads around the         *)
(* supervisor.  The agent's own thread initialises the provider, makes     *)
(* requests (prefetch, sync_turn, a tool call) and shuts it down; a        *)
(* starter launches the gateway in the background, a watchdog revives it,  *)
(* and one sync thread per captured turn writes to it.                     *)
(*                                                                         *)
(* The clock is two bits: `tripped` (now < _breaker_open_until) and        *)
(* `cooling` (a recovery was tried less than _RECOVER_COOLDOWN_SECS ago).  *)
(* `_client` is set and cleared with `_gateway_available`, `_supervisor`   *)
(* and `_watchdog_stop` follow the agent thread: none needs a variable.    *)
(***************************************************************************)
EXTENDS GatewaySupervisor

CONSTANTS
    Agent, Starter, Watchdog,  \* the fixed threads
    Syncs,                     \* the threads that carry captured turns
    MaxSyncs,                  \* _MAX_INFLIGHT_SYNCS
    Threshold                  \* _BREAKER_THRESHOLD

ASSUME ThreadsAssumption ==
    /\ Thread = {Agent, Starter, Watchdog} \cup Syncs
    /\ Agent \notin Syncs /\ Starter \notin Syncs /\ Watchdog \notin Syncs
    /\ Agent # Starter /\ Agent # Watchdog /\ Starter # Watchdog
ASSUME LimitsAssumption == MaxSyncs \in Nat \ {0} /\ Threshold \in Nat \ {0}

VARIABLES
    pc,          \* where each thread is
    available,   \* `_gateway_available`
    failures,    \* `_consecutive_failures`, up to Threshold
    tripped,     \* the breaker's pause has not run out
    recover,     \* who holds `_recover_lock`
    cooling,     \* the recovery cooldown has not run out
    active,      \* `_active_syncs`
    overlapped   \* history: the starter, the watchdog or a recovery outlived shutdown

providerVars ==
    <<pc, available, failures, tripped, recover, cooling, active, overlapped>>
vars == <<supervisorVars, providerVars>>

TypeOK ==
    /\ SupervisorTypeOK
    /\ pc \in [Thread -> {"new", "idle", "gating", "asking", "joining", "mending",
                          "stopping", "killing", "clearing", "down",
                          "off", "starting", "settling", "waiting", "probing", "sending"}]
    /\ available \in BOOLEAN
    /\ failures \in 0..Threshold
    /\ tripped \in BOOLEAN
    /\ recover \in Thread \cup {Nobody}
    /\ cooling \in BOOLEAN
    /\ active \subseteq Syncs
    /\ overlapped \in BOOLEAN
    /\ \A t \in Thread : recover = t <=> pc[t] \in {"gating", "mending"}

Init ==
    /\ SupervisorInit
    /\ pc = [t \in Thread |-> IF t = Agent THEN "new" ELSE "off"]
    /\ available = FALSE
    /\ failures = 0
    /\ tripped = FALSE
    /\ recover = Nobody
    /\ cooling = FALSE
    /\ active = {}
    /\ overlapped = FALSE

HasSupervisor_BUG == pc[Agent] # "new"

\* `_supervisor` is not None.
HasSupervisor == pc[Agent] \notin {"new", "down"}

\* `_watchdog_stop` is set.
Stopping == pc[Agent] \in {"stopping", "killing", "clearing", "down"}

----------------------------------------------------------------------------
(* The circuit breaker.                                                    *)

BreakerOpen == failures >= Threshold /\ tripped

\* What _is_breaker_open leaves when the pause has run out.
Expired == IF failures >= Threshold THEN 0 ELSE failures

\* The time of the pause matters only at the threshold, and reaching it sets
\* the time anew: below it the model forgets it.
RecordSuccess == failures' = 0 /\ tripped' = FALSE

RecordFailure(count) ==
    IF count + 1 >= Threshold
    THEN failures' = Threshold /\ tripped' = TRUE
    ELSE failures' = count + 1 /\ tripped' = FALSE

\* What a recovery or the watchdog sets once the gateway answers.
Restore ==
    /\ available' = TRUE
    /\ failures' = 0
    /\ tripped' = FALSE

----------------------------------------------------------------------------
(* _try_recover_gateway.                                                   *)

\* Where a thread stands when it has nothing under way.
Home(t) == IF t = Agent THEN "idle" ELSE IF t = Watchdog THEN "waiting" ELSE "off"

\* The recovery lock is taken without waiting: the loser gives up.
TryRecover(t, bypass, busy) ==
    IF HasSupervisor /\ recover = Nobody /\ (bypass \/ ~cooling)
    THEN /\ recover' = t
         /\ run' = [run EXCEPT ![t] = "probe"]
         /\ pc' = [pc EXCEPT ![t] = busy]
    ELSE /\ pc' = [pc EXCEPT ![t] = Home(t)]
         /\ UNCHANGED <<recover, run>>

\* A recovery for a waiting request lets the request go on if it may.
RecoverDone(t) ==
    /\ recover = t
    /\ run[t] \in {"yes", "no"}
    /\ recover' = Nobody
    /\ cooling' = TRUE
    /\ run' = [run EXCEPT ![t] = "out"]
    /\ IF run[t] = "yes" THEN Restore ELSE UNCHANGED <<available, failures, tripped>>
    /\ pc' = [pc EXCEPT ![t] = IF pc[t] = "gating" /\ available'
                               THEN "asking" ELSE Home(t)]
    /\ UNCHANGED <<child, proc, foreign, command, stopping, victim, overtaken, lock,
                   faults, active, overlapped>>

BreakerCools ==
    /\ tripped
    /\ tripped' = FALSE
    /\ UNCHANGED <<supervisorVars, pc, available, failures, recover, cooling,
                   active, overlapped>>

RecoveryCools ==
    /\ cooling
    /\ cooling' = FALSE
    /\ UNCHANGED <<supervisorVars, pc, available, failures, tripped, recover,
                   active, overlapped>>

----------------------------------------------------------------------------
(* The life of the provider: initialize, the starter, the watchdog.        *)

Initialize ==
    /\ pc[Agent] = "new"
    /\ IF Answers
       THEN /\ available' = TRUE
            /\ pc' = [pc EXCEPT ![Agent] = "idle", ![Watchdog] = "waiting"]
            /\ UNCHANGED run
       ELSE /\ pc' = [pc EXCEPT ![Agent] = "idle", ![Watchdog] = "waiting",
                                ![Starter] = "starting"]
            /\ run' = [run EXCEPT ![Starter] = "probe"]
            /\ UNCHANGED available
    /\ UNCHANGED <<child, proc, foreign, command, stopping, victim, overtaken, lock,
                   faults, failures, tripped, recover, cooling, active, overlapped>>

\* The starter takes the client from the supervisor: after shutdown there is
\* none, and it only logs the error.
StarterDone ==
    /\ pc[Starter] = "starting"
    /\ run[Starter] \in {"yes", "no"}
    /\ pc' = [pc EXCEPT ![Starter] = IF run[Starter] = "yes" /\ HasSupervisor
                                     THEN "settling" ELSE "off"]
    /\ run' = [run EXCEPT ![Starter] = "out"]
    /\ UNCHANGED <<child, proc, foreign, command, stopping, victim, overtaken, lock,
                   faults, available, failures, tripped, recover, cooling, active,
                   overlapped>>

\* Then it calls the gateway available, whatever happened in between.
StarterSets ==
    /\ pc[Starter] = "settling"
    /\ available' = TRUE
    /\ pc' = [pc EXCEPT ![Starter] = "off"]
    /\ UNCHANGED <<supervisorVars, failures, tripped, recover, cooling, active, overlapped>>

WatchTick_BUG ==
    /\ pc[Watchdog] = "waiting"
    /\ Stopping \/ ~available
    /\ pc' = [pc EXCEPT ![Watchdog] = IF Stopping THEN "off" ELSE "probing"]
    /\ UNCHANGED <<supervisorVars, available, failures, tripped, recover, cooling,
                   active, overlapped>>

\* A gateway believed available whose process runs is not probed at all.
WatchTick ==
    /\ pc[Watchdog] = "waiting"
    /\ Stopping \/ ~(available /\ ProcessAlive)
    /\ pc' = [pc EXCEPT ![Watchdog] = IF Stopping THEN "off" ELSE "probing"]
    /\ UNCHANGED <<supervisorVars, available, failures, tripped, recover, cooling,
                   active, overlapped>>

WatchProbe ==
    /\ pc[Watchdog] = "probing"
    /\ IF Answers
       THEN /\ IF available THEN UNCHANGED <<available, failures, tripped>> ELSE Restore
            /\ pc' = [pc EXCEPT ![Watchdog] = "waiting"]
            /\ UNCHANGED <<recover, run>>
       ELSE /\ TryRecover(Watchdog, TRUE, "mending")
            /\ UNCHANGED <<available, failures, tripped>>
    /\ UNCHANGED <<child, proc, foreign, command, stopping, victim, overtaken, lock,
                   faults, cooling, active, overlapped>>

----------------------------------------------------------------------------
(* Requests of the agent.                                                  *)

\* _ensure_alive_for_request, which prefetch, sync_turn and a tool call share.
Request ==
    /\ pc[Agent] = "idle"
    /\ available \/ ~BreakerOpen
    /\ IF available
       THEN /\ pc' = [pc EXCEPT ![Agent] = "asking"]
            /\ UNCHANGED <<failures, recover, run>>
       ELSE /\ failures' = Expired
            /\ TryRecover(Agent, FALSE, "gating")
    /\ UNCHANGED <<child, proc, foreign, command, stopping, victim, overtaken, lock,
                   faults, available, tripped, cooling, active, overlapped>>

\* A prefetch swallows what its fetches raise: it counts as a success whether
\* or not the gateway answered.
Prefetched ==
    /\ pc[Agent] = "asking"
    /\ RecordSuccess
    /\ pc' = [pc EXCEPT ![Agent] = "idle"]
    /\ UNCHANGED <<supervisorVars, available, recover, cooling, active, overlapped>>

\* Only an answer it cannot read makes a prefetch fail.
PrefetchFails ==
    /\ pc[Agent] = "asking"
    /\ Answers /\ Fault
    /\ RecordFailure(failures)
    /\ TryRecover(Agent, FALSE, "mending")
    /\ UNCHANGED <<child, proc, foreign, command, stopping, victim, overtaken, lock,
                   available, cooling, active, overlapped>>

\* Nothing is asked: a turn has nothing to capture, a tool call lacks an
\* argument, or it finds the breaker open.  Only a tool call looks at the
\* breaker while the gateway is available.
NothingAsked ==
    /\ pc[Agent] = "asking"
    /\ failures' \in {failures} \cup (IF BreakerOpen THEN {} ELSE {Expired})
    /\ pc' = [pc EXCEPT ![Agent] = "idle"]
    /\ UNCHANGED <<supervisorVars, available, tripped, recover, cooling, active, overlapped>>

ToolReturns ==
    /\ pc[Agent] = "asking"
    /\ ~BreakerOpen /\ Answers
    /\ RecordSuccess
    /\ pc' = [pc EXCEPT ![Agent] = "idle"]
    /\ UNCHANGED <<supervisorVars, available, recover, cooling, active, overlapped>>

ToolFails ==
    /\ pc[Agent] = "asking"
    /\ ~BreakerOpen
    /\ IF Answers THEN Fault ELSE UNCHANGED faults
    /\ RecordFailure(Expired)
    /\ TryRecover(Agent, FALSE, "mending")
    /\ UNCHANGED <<child, proc, foreign, command, stopping, victim, overtaken, lock,
                   available, cooling, active, overlapped>>

StillAlive_BUG == IF active = {} THEN {} ELSE active \ {CHOOSE s \in active : TRUE}

\* `[t for t in self._active_syncs if t.is_alive()]`
StillAlive == {s \in active : pc[s] # "off"}

StartSync ==
    /\ \E s \in Syncs :
          /\ pc[s] = "off"
          /\ active' = StillAlive \cup {s}
          /\ pc' = [pc EXCEPT ![Agent] = "idle", ![s] = "sending"]
    /\ UNCHANGED <<supervisorVars, available, failures, tripped, recover, cooling,
                   overlapped>>

SyncTurn ==
    /\ pc[Agent] = "asking"
    /\ IF Cardinality(StillAlive) < MaxSyncs
       THEN StartSync
       ELSE /\ active' = StillAlive
            /\ pc' = [pc EXCEPT ![Agent] = "joining"]
            /\ UNCHANGED <<supervisorVars, available, failures, tripped, recover,
                           cooling, overlapped>>

\* The oldest sync ended, or _SYNC_JOIN_TIMEOUT_SECS passed: go on anyway.
SyncJoined == pc[Agent] = "joining" /\ StartSync

SyncSent(s) ==
    /\ pc[s] = "sending"
    /\ Answers
    /\ RecordSuccess
    /\ pc' = [pc EXCEPT ![s] = "off"]
    /\ UNCHANGED <<supervisorVars, available, recover, cooling, active, overlapped>>

SyncFails(s) ==
    /\ pc[s] = "sending"
    /\ IF Answers THEN Fault ELSE UNCHANGED faults
    /\ RecordFailure(failures)
    /\ TryRecover(s, FALSE, "mending")
    /\ UNCHANGED <<child, proc, foreign, command, stopping, victim, overtaken, lock,
                   available, cooling, active, overlapped>>

----------------------------------------------------------------------------
(* shutdown.  Its joins have time limits: it may go on at any moment.      *)

StopThreads ==
    /\ pc[Agent] = "idle"
    /\ pc' = [pc EXCEPT ![Agent] = "stopping"]
    /\ active' = {}
    /\ UNCHANGED <<supervisorVars, available, failures, tripped, recover, cooling,
                   overlapped>>

StopGateway ==
    /\ pc[Agent] = "stopping"
    /\ RequestStop
    /\ pc' = [pc EXCEPT ![Agent] = "killing"]
    /\ UNCHANGED <<available, failures, tripped, recover, cooling, active,
                   overlapped>>

EndGateway ==
    /\ pc[Agent] = "killing"
    /\ StopChild
    /\ pc' = [pc EXCEPT ![Agent] = "clearing"]
    /\ UNCHANGED <<available, failures, tripped, recover, cooling, active, overlapped>>

\* What others set since then is overwritten; what they set later is not.
ShutdownDone ==
    /\ pc[Agent] = "clearing"
    /\ pc' = [pc EXCEPT ![Agent] = "down"]
    /\ available' = FALSE
    /\ overlapped' = (recover # Nobody \/ pc[Watchdog] = "probing" \/ pc[Starter] = "settling")
    /\ UNCHANGED <<supervisorVars, failures, tripped, recover, cooling, active>>

----------------------------------------------------------------------------

Supervise(t) == EnsureRunning(t) /\ UNCHANGED providerVars

AgentStep ==
    \/ Prefetched \/ PrefetchFails \/ NothingAsked \/ ToolReturns \/ ToolFails
    \/ SyncTurn \/ SyncJoined
    \/ StopGateway \/ EndGateway \/ ShutdownDone

SyncStep(s) == SyncSent(s) \/ SyncFails(s)

Next ==
    \/ GatewayStep /\ UNCHANGED providerVars
    \/ \E t \in Thread : Supervise(t) \/ RecoverDone(t)
    \/ Initialize \/ StarterDone \/ StarterSets \/ WatchTick \/ WatchProbe
    \/ BreakerCools \/ RecoveryCools
    \/ Request \/ AgentStep \/ StopThreads
    \/ \E s \in Syncs : SyncStep(s)

\* Threads run, timers expire and a started gateway binds its port or exits;
\* requests, faults and the end of a hang are nobody's duty.
Fairness ==
    /\ \A c \in Child : WF_vars(Bind(c) /\ UNCHANGED providerVars)
    /\ \A t \in Thread :
          /\ WF_vars((EnsureRunning(t) /\ UNCHANGED faults) /\ UNCHANGED providerVars)
          /\ WF_vars(RecoverDone(t))
    /\ WF_vars(StarterDone) /\ WF_vars(StarterSets) /\ WF_vars(WatchTick) /\ WF_vars(WatchProbe)
    /\ WF_vars(BreakerCools) /\ WF_vars(RecoveryCools)
    /\ WF_vars(AgentStep)
    /\ \A s \in Syncs : WF_vars(SyncStep(s))

Spec == Init /\ [][Next]_vars /\ Fairness

----------------------------------------------------------------------------

\* A shutdown that no start overtook, and that no recovery, watchdog probe or
\* last line of the starter outlived, releases what it
\* says it does: nothing is called available, no handle is left, and no
\* gateway this process owns still runs (shutdown, "Clean shutdown").
CleanShutdown ==
    pc[Agent] = "down" /\ ~overlapped /\ ~overtaken =>
        /\ ~available
        /\ proc = NoChild
        /\ Live \subseteq foreign

\* Until shutdown takes the list over, it names every sync thread that still
\* runs, so that shutdown waits for each of them (sync_turn's two prunings).
TrackedSyncs ==
    ~Stopping => \A s \in Syncs : pc[s] # "off" => s \in active

\* Once faults stop, the memory comes back: the provider ends up available
\* with a gateway that answers, unless the gateway hangs for good, nothing
\* is configured to start it, or the agent is not using the provider.
Recovers ==
    <>[](\/ available /\ Answers
         \/ \E c \in Child : child[c] = "hung"
         \/ ~command
         \/ ~HasSupervisor \/ Stopping)
=============================================================================
