-------------------------------- MODULE Podenv --------------------------------
(***************************************************************************)
(* patches/paperclip/podenv/podenv and opc-podenv-restore.sh: leases of    *)
(* containers.  Agents run `podenv provision <key>` and `podenv release    *)
(* <key>` whenever they like; each call is a process of its own that talks *)
(* to PostgreSQL (a row per lease, unique by key and by host port), to     *)
(* podman over a socket, and to a project's .env.  Nothing spans two of    *)
(* them.  Leases of the host network and refused arguments are left out.   *)
(***************************************************************************)
EXTENDS Naturals, FiniteSets

CONSTANTS
    Key,
    Pool,        \* the ports of the pool, numbers
    NoPort,      \* no row, no container, no line in .env
    Caller,      \* processes of the CLI
    NoKey,       \* what a caller that runs no command holds
    Concurrent,     \* whether two commands may be busy with one key
    MaxLosses,   \* lost races for a port before provision gives up
    MaxMishaps   \* bound on dying runtimes and daemons, failed removals, kills

ASSUME PodenvAssumption ==
    /\ Pool \subseteq Nat /\ NoPort \notin Pool /\ NoKey \notin Key
    /\ Concurrent \in BOOLEAN
    /\ MaxLosses \in Nat \ {0} /\ MaxMishaps \in Nat

VARIABLES
    lease,      \* table podenv_lease: the host port of each key
    box,        \* podman's containers: port, and whether the daemon answers
    reachable,  \* podman answers on its socket
    restoring,  \* containers opc-podenv-restore.sh has still to look at
    address,    \* the port a key's line in .env names
    stale,      \* history: keys whose line outlived the row it was written under
    stage,      \* where each caller is
    holds,      \* the key, the port and `created_now` of its command
    losses,     \* lost races of its command
    mishaps,
    leftover    \* history: keys whose container was not removed with the row

podenvVars == <<lease, box, reachable, restoring, address, stale, stage, holds, losses,
                mishaps, leftover>>

NoBox == [port |-> NoPort, up |-> FALSE]
AtRest == [key |-> NoKey, port |-> NoPort, created |-> FALSE]

PodenvInit ==
    /\ lease = [k \in Key |-> NoPort]
    /\ box = [k \in Key |-> NoBox]
    /\ reachable = TRUE
    /\ restoring = {}
    /\ address = [k \in Key |-> NoPort]
    /\ stale = {}
    /\ stage = [c \in Caller |-> "idle"]
    /\ holds = [c \in Caller |-> AtRest]
    /\ losses = [c \in Caller |-> 0]
    /\ mishaps = 0
    /\ leftover = {}

Leased == {lease[k] : k \in Key} \ {NoPort}
Bound(p) == \E k \in Key : box[k].port = p /\ box[k].up
Mishap == mishaps < MaxMishaps /\ mishaps' = mishaps + 1

\* podenv_port_alloc: the key's own port, or the smallest without a row.
Allocs(k) ==
    IF lease[k] # NoPort THEN {lease[k]}
    ELSE {p \in Pool \ Leased : \A q \in Pool \ Leased : p <= q}

Done(c) ==
    /\ stage' = [stage EXCEPT ![c] = "idle"]
    /\ holds' = [holds EXCEPT ![c] = AtRest]
    /\ losses' = [losses EXCEPT ![c] = 0]

At(c, where) ==
    /\ stage' = [stage EXCEPT ![c] = where]
    /\ UNCHANGED <<holds, losses>>

\* A process starts on a key.
Enter(c, k, p, where) ==
    /\ stage[c] = "idle"
    /\ Concurrent \/ \A d \in Caller : holds[d].key # k
    /\ stage' = [stage EXCEPT ![c] = where]
    /\ holds' = [holds EXCEPT ![c] = [key |-> k, port |-> p, created |-> FALSE]]

----------------------------------------------------------------------------
(* provision: the row.                                                     *)

Provision(c, k) ==
    /\ reachable
    /\ \E p \in Allocs(k) : Enter(c, k, p, "look")
    /\ UNCHANGED <<lease, box, reachable, restoring, address, stale, losses, mishaps, leftover>>

\* A second query decides whether the key has a lease.
LookUp(c) ==
    /\ stage[c] = "look"
    /\ LET new == lease[holds[c].key] = NoPort IN
       /\ stage' = [stage EXCEPT ![c] = IF new THEN "insert" ELSE "check"]
       /\ holds' = [holds EXCEPT ![c].created = new]
    /\ UNCHANGED <<lease, box, reachable, restoring, address, stale, losses, mishaps,
                   leftover>>

\* No UNIQUE on host_port.
Insert_BUG(c) ==
    /\ stage[c] = "insert"
    /\ IF lease[holds[c].key] = NoPort
       THEN /\ lease' = [lease EXCEPT ![holds[c].key] = holds[c].port]
            /\ At(c, "check")
       ELSE /\ Done(c)
            /\ UNCHANGED lease
    /\ UNCHANGED <<box, reachable, restoring, address, stale, mishaps, leftover>>

\* The loser of a race for a port or a key tries again, up to a limit.
Insert(c) ==
    /\ stage[c] = "insert"
    /\ IF lease[holds[c].key] = NoPort /\ holds[c].port \notin Leased
       THEN /\ lease' = [lease EXCEPT ![holds[c].key] = holds[c].port]
            /\ At(c, "check")
       ELSE /\ IF losses[c] + 1 < MaxLosses
               THEN /\ losses' = [losses EXCEPT ![c] = @ + 1]
                    /\ stage' = [stage EXCEPT ![c] = "realloc"]
                    /\ UNCHANGED holds
               ELSE Done(c)
            /\ UNCHANGED lease
    /\ UNCHANGED <<box, reachable, restoring, address, stale, mishaps, leftover>>

\* With the pool used up it gives up at once.
Realloc(c) ==
    /\ stage[c] = "realloc"
    /\ IF Allocs(holds[c].key) = {}
       THEN Done(c)
       ELSE /\ \E p \in Allocs(holds[c].key) : holds' = [holds EXCEPT ![c].port = p]
            /\ stage' = [stage EXCEPT ![c] = "insert"]
            /\ UNCHANGED losses
    /\ UNCHANGED <<lease, box, reachable, restoring, address, stale, mishaps, leftover>>

----------------------------------------------------------------------------
(* provision: the container.                                               *)

CheckContainer(c) ==
    /\ stage[c] = "check"
    /\ At(c, IF reachable /\ box[holds[c].key] # NoBox THEN "probe" ELSE "run")
    /\ UNCHANGED <<lease, box, reachable, restoring, address, stale, mishaps, leftover>>

\* Whatever answers on the port passes; a slow daemon may not.
ProbeLease(c) ==
    /\ stage[c] = "probe"
    /\ \/ Bound(holds[c].port) /\ At(c, "write")
       \/ At(c, "stop")
    /\ UNCHANGED <<lease, box, reachable, restoring, address, stale, mishaps, leftover>>

StopContainer(c) ==
    /\ stage[c] = "stop"
    /\ box' = IF reachable THEN [box EXCEPT ![holds[c].key].up = FALSE] ELSE box
    /\ At(c, "start")
    /\ UNCHANGED <<lease, reachable, restoring, address, stale, mishaps, leftover>>

Startable(k) == reachable /\ box[k] # NoBox /\ ~Bound(box[k].port)

StartContainer(c) ==
    /\ stage[c] = "start"
    /\ LET k == holds[c].key IN
       \/ /\ Startable(k)
          /\ box' = [box EXCEPT ![k].up = TRUE]
          /\ At(c, "verify")
       \/ /\ box[k].up /\ reachable
          /\ At(c, "verify")
          /\ UNCHANGED box
       \/ /\ ~box[k].up
          /\ At(c, "undo")
          /\ UNCHANGED box
    /\ UNCHANGED <<lease, reachable, restoring, address, stale, mishaps, leftover>>

VerifyLease(c) ==
    /\ stage[c] = "verify"
    /\ \/ Bound(holds[c].port) /\ At(c, "write")
       \/ At(c, "undo")
    /\ UNCHANGED <<lease, box, reachable, restoring, address, stale, mishaps, leftover>>

\* `podman run` needs the image, the name and the port; one that fails may
\* leave a container that is not up.
RunContainer(c) ==
    /\ stage[c] = "run"
    /\ LET k == holds[c].key
           p == holds[c].port IN
       \/ /\ reachable /\ box[k] = NoBox /\ ~Bound(p)
          /\ box' = [box EXCEPT ![k] = [port |-> p, up |-> TRUE]]
          /\ At(c, "settle")
       \/ /\ box' \in {box} \cup (IF reachable /\ box[k] = NoBox
                              THEN {[box EXCEPT ![k].port = p]} ELSE {})
          /\ At(c, "undo")
    /\ UNCHANGED <<lease, reachable, restoring, address, stale, mishaps, leftover>>

\* Two seconds later it must still run.
Settle(c) ==
    /\ stage[c] = "settle"
    /\ At(c, IF reachable /\ box[holds[c].key].up THEN "write" ELSE "undo")
    /\ UNCHANGED <<lease, box, reachable, restoring, address, stale, mishaps, leftover>>

\* The address is rendered, merged into .env by a rename, and printed; under
\* set -e each may fail, and the rollback follows, with the line in or not.
WriteEnv(c) ==
    /\ stage[c] = "write"
    /\ \/ /\ address' = [address EXCEPT ![holds[c].key] = holds[c].port]
          /\ stale' = stale \ {holds[c].key}
          /\ Done(c) \/ At(c, "undo")
       \/ At(c, "undo") /\ UNCHANGED <<address, stale>>
    /\ UNCHANGED <<lease, box, reachable, restoring, mishaps, leftover>>

\* The removal of a container, which may fail and is not looked at.
Removes(k) ==
    \/ /\ reachable
       /\ box' = [box EXCEPT ![k] = NoBox]
       /\ UNCHANGED <<leftover, mishaps>>
    \/ /\ IF reachable THEN Mishap ELSE UNCHANGED mishaps
       /\ leftover' = IF box[k] = NoBox THEN leftover ELSE leftover \cup {k}
       /\ UNCHANGED box

\* A rollback that forgets the container.
Rollback_BUG(c) ==
    /\ stage[c] = "undo"
    /\ IF holds[c].created THEN At(c, "forget") ELSE Done(c)
    /\ UNCHANGED <<lease, box, reachable, restoring, address, stale, mishaps, leftover>>

\* podenv_provision_cleanup: only what this call registered is taken back.
Rollback(c) ==
    /\ stage[c] = "undo"
    /\ IF holds[c].created
       THEN Removes(holds[c].key) /\ At(c, "forget")
       ELSE Done(c) /\ UNCHANGED <<box, leftover, mishaps>>
    /\ UNCHANGED <<lease, reachable, restoring, address, stale>>

\* The DELETE that ends a rollback and a release; neither looks at .env.
Forget(c) ==
    /\ stage[c] = "forget"
    /\ LET k == holds[c].key IN
       /\ lease' = [lease EXCEPT ![k] = NoPort]
       /\ stale' = IF address[k] = NoPort THEN stale ELSE stale \cup {k}
    /\ Done(c)
    /\ UNCHANGED <<box, reachable, restoring, address, mishaps, leftover>>

----------------------------------------------------------------------------

\* release of a key with a lease: the line in .env stays, and names a port
\* that will be another tenant's; the command only warns of it.
Release(c, k) ==
    /\ lease[k] # NoPort
    /\ Enter(c, k, lease[k], "remove")
    /\ UNCHANGED <<lease, box, reachable, restoring, address, stale, losses, mishaps,
                   leftover>>

RemoveContainer(c) ==
    /\ stage[c] = "remove"
    /\ Removes(holds[c].key)
    /\ At(c, "forget")
    /\ UNCHANGED <<lease, reachable, restoring, address, stale>>

\* The stages in which the EXIT trap of provision is armed.
Trapped == {"check", "probe", "stop", "start", "verify", "run", "settle", "write"}

\* A caller is killed and no trap runs (a DELETE that fails ends it the same
\* way), or it is told to end and rolls back.
Killed(c) ==
    /\ stage[c] # "idle"
    /\ Mishap
    /\ Done(c) \/ (stage[c] \in Trapped /\ At(c, "undo"))
    /\ UNCHANGED <<lease, box, reachable, restoring, address, stale, leftover>>

DaemonExits(k) ==
    /\ box[k].up
    /\ Mishap
    /\ box' = [box EXCEPT ![k].up = FALSE]
    /\ UNCHANGED <<lease, reachable, restoring, address, stale, stage, holds, losses, leftover>>

\* The podenv service goes down with every container, and comes back.
RuntimeDies ==
    /\ reachable
    /\ Mishap
    /\ reachable' = FALSE
    /\ restoring' = {}
    /\ box' = [k \in Key |-> [box[k] EXCEPT !.up = FALSE]]
    /\ UNCHANGED <<lease, address, stale, stage, holds, losses, leftover>>

RuntimeBack ==
    /\ ~reachable
    /\ reachable' = TRUE
    /\ restoring' = {k \in Key : box[k] # NoBox}
    /\ UNCHANGED <<lease, box, address, stale, stage, holds, losses, mishaps, leftover>>

\* opc-podenv-restore.sh, one container: left alone when its port answers,
\* else stopped and started, which may fail.
Revive(k) ==
    /\ k \in restoring
    /\ restoring' = restoring \ {k}
    /\ \/ /\ ~Bound(box[k].port) /\ box[k] # NoBox
          /\ box' = [box EXCEPT ![k].up = TRUE]
       \/ UNCHANGED box
    /\ UNCHANGED <<lease, reachable, address, stale, stage, holds, losses, mishaps,
                   leftover>>

PodenvNext ==
    \/ \E c \in Caller :
          \/ \E k \in Key : Provision(c, k) \/ Release(c, k)
          \/ LookUp(c) \/ Insert(c) \/ Realloc(c)
          \/ CheckContainer(c) \/ ProbeLease(c) \/ StopContainer(c) \/ StartContainer(c)
          \/ VerifyLease(c) \/ RunContainer(c) \/ Settle(c) \/ WriteEnv(c)
          \/ Rollback(c) \/ Forget(c) \/ RemoveContainer(c) \/ Killed(c)
    \/ RuntimeDies \/ RuntimeBack
    \/ \E k \in Key : Revive(k) \/ DaemonExits(k)

PodenvSpec == PodenvInit /\ [][PodenvNext]_podenvVars

----------------------------------------------------------------------------

\* An address in a project's .env is that of its key's own lease and no other
\* key's container serves it, from the moment it is written until the row it
\* was written under is gone, whatever races there are for ports, rollbacks,
\* kills and restarts of the runtime (what follows the row's end is stale, and
\* release only warns of it); as long as commands on one key never overlap (two
\* on one key can take a third key's port) and every container went with its
\* row.
AddressBacked ==
    \A k \in Key :
        ~Concurrent /\ leftover = {} /\ address[k] # NoPort /\ k \notin stale =>
            /\ lease[k] = address[k]
            /\ \A j \in Key \ {k} : ~(box[j].up /\ box[j].port = address[k])

\* A container without a row, which would hold a port that is given to the
\* next lease, only comes from a removal that failed or from commands that
\* overlapped on its key (cleanup and release remove it before the row).
NoOrphan ==
    \A k \in Key :
        ~Concurrent /\ box[k] # NoBox /\ lease[k] = NoPort => k \in leftover
=============================================================================
