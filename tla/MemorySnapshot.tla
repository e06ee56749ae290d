--------------------------- MODULE MemorySnapshot ---------------------------
(***************************************************************************)
(* memory_tencentdb/__init__.py: the per-session snapshot of persona and   *)
(* scenes that prefetch adds to a prompt at most once per                  *)
(* _snapshot_ttl_seconds.  The ledger `_snapshot_sent_at` is pruned while  *)
(* it is written; `told` is what really happened.                          *)
(***************************************************************************)
EXTENDS Naturals

CONSTANTS
    Session,   \* the sessions one provider serves
    Never,     \* no entry in the ledger
    TTL,       \* _snapshot_ttl_seconds
    MaxNow     \* bound on the clock

ASSUME NeverAssumption == Never \notin Nat
ASSUME TTLAssumption == TTL \in Nat
ASSUME MaxNowAssumption == MaxNow \in Nat

VARIABLES
    now,      \* time.monotonic()
    sentAt,   \* `_snapshot_sent_at`
    asking,   \* the session whose prefetch runs, with its want_snapshot
    told      \* history: when a prompt of the session last had a snapshot

snapshotVars == <<now, sentAt, asking, told>>

Idle == [session |-> Never, want |-> FALSE]

SnapshotTypeOK ==
    /\ now \in Nat
    /\ sentAt \in [Session -> Nat \cup {Never}]
    /\ asking \in [session : Session \cup {Never}, want : BOOLEAN]
    /\ told \in [Session -> Nat \cup {Never}]

SnapshotInit ==
    /\ now = 0
    /\ sentAt = [s \in Session |-> Never]
    /\ asking = Idle
    /\ told = [s \in Session |-> Never]

\* _snapshot_due
Due(s) == sentAt[s] = Never \/ now >= sentAt[s] + TTL

\* Entries older than the time to live are dropped while one is written.
Pruned_BUG(s) == [k \in Session |-> IF k = s THEN now ELSE Never]

Pruned(s) ==
    [k \in Session |-> IF k = s THEN now
                       ELSE IF sentAt[k] # Never /\ sentAt[k] + TTL >= now
                       THEN sentAt[k] ELSE Never]

Tick ==
    /\ now < MaxNow
    /\ now' = now + 1
    /\ UNCHANGED <<sentAt, asking, told>>

\* prefetch decides before its fetches whether it wants the snapshot.
BeginPrefetch(s) ==
    /\ asking = Idle
    /\ asking' = [session |-> s, want |-> Due(s)]
    /\ UNCHANGED <<now, sentAt, told>>

\* Persona and scenes arrive with something to say (content), arrive empty,
\* or their fetches fail or are abandoned at the join's timeout.
EndPrefetch(content) ==
    /\ asking # Idle
    /\ IF asking.want /\ content
       THEN /\ sentAt' = Pruned(asking.session)
            /\ told' = [told EXCEPT ![asking.session] = now]
       ELSE UNCHANGED <<sentAt, told>>
    /\ asking' = Idle
    /\ UNCHANGED now

SnapshotNext ==
    \/ Tick
    \/ \E s \in Session : BeginPrefetch(s)
    \/ \E content \in BOOLEAN : EndPrefetch(content)

SnapshotSpec == SnapshotInit /\ [][SnapshotNext]_snapshotVars

\* Pruning changes no decision: a session is due exactly when no prompt of
\* its own had a snapshot within the time to live (_mark_snapshot_sent).
LedgerExact ==
    \A s \in Session : Due(s) <=> (told[s] = Never \/ now >= told[s] + TTL)
=============================================================================
