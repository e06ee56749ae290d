-------------------------- MODULE GatewaySupervisor --------------------------
(***************************************************************************)
(* memory_tencentdb/supervisor.py: one agent process keeps the memory      *)
(* gateway, a child process on a fixed port, alive.  Several threads of    *)
(* the provider call ensure_running; a file lock shared by every process   *)
(* of the host makes them start at most one gateway at a time.             *)
(*                                                                         *)
(* A gateway is "starting" until it binds the port, then "healthy" or      *)
(* "hung" (it keeps the port and answers nothing); one that finds the port *)
(* taken exits.  "dead" is an exited child whose handle is still in        *)
(* `_process`; a gateway nobody holds a handle of and that has exited is   *)
(* "none" again, free to stand for a later one.                            *)
(***************************************************************************)
EXTENDS Naturals, FiniteSets

CONSTANTS
    Thread,      \* the threads that call ensure_running
    Nobody,      \* no thread holds the start lock
    Child,       \* identities of gateway processes
    NoChild,     \* `_process` is None
    MaxFaults    \* bound on crashes, hangs, failed and slow starts

ASSUME NobodyAssumption == Nobody \notin Thread
ASSUME NoChildAssumption == NoChild \notin Child
ASSUME MaxFaultsAssumption == MaxFaults \in Nat

VARIABLES
    child,      \* state of each gateway process
    proc,       \* `_process`: the gateway whose handle the supervisor holds
    foreign,    \* history: gateways of another process, or whose handle a
                \* later Popen overwrote while they ran
    command,    \* `_gateway_cmd` is not empty
    stopping,   \* `_shutdown_requested`
    victim,     \* the handle a running shutdown read
    overtaken,  \* history: a start went on after shutdown was requested
    lock,       \* who holds _startup_singleflight
    run,        \* where each thread is inside ensure_running
    faults      \* faults so far

supervisorVars ==
    <<child, proc, foreign, command, stopping, victim, overtaken, lock, run,
      faults>>

ChildState == {"none", "starting", "healthy", "hung", "dead"}
RunState == {"out", "probe", "lock", "reprobe", "spawn", "health", "yes", "no"}

\* The lock is held between its acquisition and the return, the handle names
\* a child that was started, and only an unreaped child is "dead".
SupervisorTypeOK ==
    /\ child \in [Child -> ChildState]
    /\ proc \in Child \cup {NoChild}
    /\ foreign \subseteq Child
    /\ command \in BOOLEAN
    /\ stopping \in BOOLEAN
    /\ victim \in Child \cup {NoChild}
    /\ overtaken \in BOOLEAN
    /\ lock \in Thread \cup {Nobody}
    /\ run \in [Thread -> RunState]
    /\ faults \in 0..MaxFaults
    /\ \A t \in Thread : lock = t <=> run[t] \in {"reprobe", "spawn", "health"}
    /\ \A c \in Child : child[c] = "dead" => proc = c
    /\ proc # NoChild => child[proc] # "none"
    /\ foreign \subseteq {c \in Child : child[c] \notin {"none", "dead"}}

\* A gateway of another agent process may already be serving the port.
SupervisorInit ==
    /\ foreign \in {{}} \cup {{c} : c \in Child}
    /\ child = [c \in Child |-> IF c \in foreign THEN "healthy" ELSE "none"]
    /\ proc = NoChild
    /\ command \in BOOLEAN
    /\ stopping = FALSE
    /\ victim = NoChild
    /\ overtaken = FALSE
    /\ lock = Nobody
    /\ run = [t \in Thread |-> "out"]
    /\ faults = 0

Live == {c \in Child : child[c] \in {"starting", "healthy", "hung"}}

PortHeld == \E c \in Child : child[c] \in {"healthy", "hung"}

\* is_running: the port answers a health check.
Answers == \E c \in Child : child[c] = "healthy"

\* is_process_alive: our own child has not exited.
ProcessAlive == proc \in Live

----------------------------------------------------------------------------
(* The gateways themselves and the faults they meet.                       *)

Fault ==
    /\ faults < MaxFaults
    /\ faults' = faults + 1

Exit(c) ==
    /\ child' = [child EXCEPT ![c] = IF c = proc THEN "dead" ELSE "none"]
    /\ foreign' = foreign \ {c}

Bind(c) ==
    /\ child[c] = "starting"
    /\ IF PortHeld
       THEN Exit(c)
       ELSE /\ child' = [child EXCEPT ![c] = "healthy"]
            /\ UNCHANGED foreign
    /\ UNCHANGED <<proc, command, stopping, victim, overtaken, lock, run,
                   faults>>

Crash(c) ==
    /\ c \in Live
    /\ Fault
    /\ Exit(c)
    /\ UNCHANGED <<proc, command, stopping, victim, overtaken, lock, run>>

Hang(c) ==
    /\ child[c] = "healthy"
    /\ Fault
    /\ child' = [child EXCEPT ![c] = "hung"]
    /\ UNCHANGED <<proc, foreign, command, stopping, victim, overtaken, lock, run>>

Wake(c) ==
    /\ child[c] = "hung"
    /\ child' = [child EXCEPT ![c] = "healthy"]
    /\ UNCHANGED <<proc, foreign, command, stopping, victim, overtaken, lock, run,
                   faults>>

GatewayStep == \E c \in Child : Bind(c) \/ Crash(c) \/ Hang(c) \/ Wake(c)

----------------------------------------------------------------------------
(* ensure_running.                                                         *)

Goto(t, where) == run' = [run EXCEPT ![t] = where]

\* Every return from under the lock releases it.
Return(t, result) ==
    /\ Goto(t, result)
    /\ lock' = Nobody

Probe(t) ==
    /\ run[t] = "probe"
    /\ Goto(t, IF Answers THEN "yes" ELSE "lock")
    /\ UNCHANGED <<child, proc, foreign, command, stopping, victim, overtaken, lock,
                   faults>>

Acquire(t) ==
    /\ run[t] = "lock"
    /\ lock = Nobody
    /\ lock' = t
    /\ Goto(t, "reprobe")
    /\ UNCHANGED <<child, proc, foreign, command, stopping, victim, overtaken, faults>>

Reap_BUG ==
    /\ proc' = NoChild
    /\ child' = [c \in Child |-> IF child[c] = "dead" THEN "none" ELSE child[c]]

\* _reap_dead_process: drop the handle of a child that has exited.
Reap ==
    IF proc # NoChild /\ ~ProcessAlive
    THEN /\ child' = [child EXCEPT ![proc] = "none"]
         /\ proc' = NoChild
    ELSE UNCHANGED <<child, proc>>

Reprobe(t) ==
    /\ run[t] = "reprobe"
    /\ \/ /\ Answers
          /\ Return(t, "yes")
          /\ UNCHANGED <<child, proc, stopping, overtaken>>
       \/ /\ ~Answers
          /\ Reap
          /\ \/ /\ ~command
                /\ Return(t, "no")
                /\ UNCHANGED <<stopping, overtaken>>
             \/ /\ command
                /\ Goto(t, "spawn")
                /\ stopping' = FALSE
                /\ overtaken' = (overtaken \/ stopping)
                /\ UNCHANGED lock
    /\ UNCHANGED <<foreign, command, victim, faults>>

Spawn_BUG(t) ==
    /\ run[t] = "spawn"
    /\ \E c \in Child :
          /\ c \notin Live \cup {victim}
          /\ child' = [d \in Child |-> IF d = c THEN "starting"
                                       ELSE IF d = proc /\ d \notin Live THEN "none"
                                       ELSE child[d]]
          /\ foreign' = foreign \cup ({proc} \cap Live)
          /\ proc' = c
    /\ overtaken' = (overtaken \/ stopping)
    /\ Return(t, "health")
    /\ UNCHANGED <<command, stopping, victim, faults>>

\* Popen overwrites `_process`, whatever it names.  (The model starts no more
\* gateways than it has identities.)
Spawn(t) ==
    /\ run[t] = "spawn"
    /\ \E c \in Child :
          /\ c \notin Live \cup {victim}
          /\ child' = [d \in Child |-> IF d = c THEN "starting"
                                       ELSE IF d = proc /\ d \notin Live THEN "none"
                                       ELSE child[d]]
          /\ foreign' = foreign \cup ({proc} \cap Live)
          /\ proc' = c
    /\ overtaken' = (overtaken \/ stopping)
    /\ Goto(t, "health")
    /\ UNCHANGED <<command, stopping, victim, lock, faults>>

SpawnFails_BUG(t) ==
    /\ run[t] = "spawn"
    /\ Fault
    /\ Goto(t, "no")
    /\ UNCHANGED <<child, proc, foreign, command, stopping, victim, overtaken, lock>>

SpawnFails(t) ==
    /\ run[t] = "spawn"
    /\ Fault
    /\ Return(t, "no")
    /\ UNCHANGED <<child, proc, foreign, command, stopping, victim, overtaken>>

\* _wait_for_health, still under the lock.
WaitForHealth(t) ==
    /\ run[t] = "health"
    /\ \/ /\ stopping \/ (proc # NoChild /\ ~ProcessAlive)
          /\ Return(t, "no")
       \/ /\ ~stopping
          /\ proc = NoChild \/ ProcessAlive
          /\ Answers
          /\ Return(t, "yes")
    /\ UNCHANGED <<child, proc, foreign, command, stopping, victim, overtaken, faults>>

\* HEALTH_CHECK_MAX_WAIT passes; the child is left running.
WaitTimesOut(t) ==
    /\ run[t] = "health"
    /\ ~Answers
    /\ Fault
    /\ Return(t, "no")
    /\ UNCHANGED <<child, proc, foreign, command, stopping, victim, overtaken>>

EnsureRunning(t) ==
    \/ Probe(t) \/ Acquire(t) \/ Reprobe(t) \/ Spawn(t) \/ SpawnFails(t)
    \/ WaitForHealth(t) \/ WaitTimesOut(t)

----------------------------------------------------------------------------
(* shutdown: ask, then terminate the process group and drop the handle.    *)

RequestStop ==
    /\ stopping' = TRUE
    /\ victim' = proc
    /\ UNCHANGED <<child, proc, foreign, command, overtaken, lock, run, faults>>

\* Without a handle shutdown returns at once; otherwise it ends the child it
\* read and drops the handle, whatever `_process` names by now.
StopChild ==
    /\ IF victim = NoChild
       THEN UNCHANGED <<child, proc, foreign>>
       ELSE /\ child' = [c \in Child |-> IF c = victim \/ child[c] = "dead"
                                         THEN "none" ELSE child[c]]
            /\ foreign' = foreign \ {victim}
            /\ proc' = NoChild
    /\ victim' = NoChild
    /\ UNCHANGED <<command, stopping, overtaken, lock, run, faults>>

----------------------------------------------------------------------------

\* While one thread starts a gateway and waits for it to answer, no other
\* thread of the host starts a second one on the same port
\* (ensure_running holds the lock across Popen and _wait_for_health).
SingleFlight ==
    \A t, u \in Thread :
        run[t] \in {"spawn", "health"} /\ run[u] \in {"spawn", "health"} => t = u

\* A running gateway is always one the supervisor can still stop: its handle
\* is in `_process`, unless another process started it, a later start
\* overwrote its handle, or the start overtook a shutdown.
Owned == Live \subseteq {proc} \cup foreign \/ overtaken
=============================================================================
