--------------------------- MODULE MemoryCapture ----------------------------
(***************************************************************************)
(* memory_tencentdb: what a turn writes to durable memory (sync_turn with  *)
(* ingress.project) and the log of what it does not (ingress_log.py).      *)
(* The harness delivers messages in turns; a cancelled turn's messages are *)
(* delivered again, marked "prior", with the next one.                     *)
(***************************************************************************)
EXTENDS Naturals, FiniteSets

CONSTANTS
    Message,     \* messages of the channel
    Author,      \* [Message -> the author's key, or NoAuthor]
    NoAuthor,    \* no 64-digit hex key
    Trusted,     \* MEMORY_TRUSTED_WRITERS
    Blank,       \* messages with nothing but white space
    Malformed,   \* messages whose entry in the metadata is not an object
    Retention,   \* retention_days
    MinShards,   \* _MIN_RETAIN_SHARDS
    MaxDay       \* bound on the days

ASSUME CaptureAssumption == Retention \in Nat

VARIABLES
    mode,       \* `_capture_mode`
    waiting,    \* messages not delivered yet
    cancelled,  \* messages of cancelled turns
    turn,       \* the messages of the turn that runs, with their roles
    synced,     \* sync_turn has run for this turn
    stored,     \* how often each message's text reached the gateway
    seen,       \* history: messages of turns that got past the gate
    sent,       \* history: messages handed to conversation_add
    dropped,    \* rows of the ingress log: <<the messages it stands for, day>>
    unlogged,   \* history: messages whose row could not be written
    shards,     \* days whose log file exists
    today

logVars == <<dropped, unlogged, shards>>

captureVars ==
    <<mode, waiting, cancelled, turn, synced, stored, seen, sent, logVars, today>>

Role == {"trigger", "prior"}

CaptureInit ==
    /\ mode \in {"projected", "full"}
    /\ waiting = Message
    /\ cancelled = {}
    /\ turn = {}
    /\ synced = FALSE
    /\ stored = [m \in Message |-> 0]
    /\ seen = {}
    /\ sent = {}
    /\ dropped = {}
    /\ unlogged = {}
    /\ shards = {}
    /\ today = 0

Messages(t) == {x[1] : x \in t}

----------------------------------------------------------------------------
(* project: what of a turn may be captured.                                *)

Captured_BUG(t) ==
    {m \in Messages(t) : m \notin Malformed /\ Author[m] \in Trusted /\ m \notin Blank}

Captured(t) ==
    {m \in Messages(t) : /\ m \notin Malformed
                         /\ <<m, "trigger">> \in t
                         /\ Author[m] \in Trusted
                         /\ m \notin Blank}

\* project records a drop for every event it does not capture.
Drops_BUG(t) == {m \in Messages(t) \ Captured(t) : <<m, "trigger">> \in t}

Drops(t) == Messages(t) \ Captured(t)

\* _log_ingress_drop, once for each of the rows: IngressLog.record opens the
\* shard of the day, creating it, and appends; whatever it raises is swallowed.
Record(parts) ==
    \E lost \in SUBSET parts :
        /\ dropped' = dropped \cup ((parts \ lost) \X {today})
        /\ unlogged' = unlogged \cup UNION lost
        /\ shards' \in {shards, shards \cup {today}}
        /\ parts \ lost # {} => today \in shards'
        /\ parts = {} => shards' = shards

----------------------------------------------------------------------------

\* The harness starts a turn with new messages and those to deliver again.
Deliver(batch) ==
    /\ turn = {}
    /\ batch # {}
    /\ turn' = (batch \X {"trigger"}) \cup (cancelled \X {"prior"})
    /\ waiting' = waiting \ batch
    /\ cancelled' = {}
    /\ synced' = FALSE
    /\ UNCHANGED <<mode, stored, seen, sent, logVars, today>>

\* One conversation_add: the gateway may have stored the message even when
\* the call fails, and the call is never made again.
Write(ms) ==
    /\ sent' = sent \cup ms
    /\ \E reached \in BOOLEAN :
          stored' = [m \in Message |->
                        IF reached /\ m \in ms THEN stored[m] + 1 ELSE stored[m]]

\* sync_turn past _ensure_alive_for_request.  `meta` is FALSE when no block
\* metadata reached the provider: a projected turn is then dropped whole, with
\* one row for its text.
CaptureTurn(meta) ==
    /\ turn # {} /\ ~synced
    /\ synced' = TRUE
    /\ seen' = seen \cup Messages(turn)
    /\ \/ /\ mode = "full"
          /\ Write(Messages(turn))
          /\ UNCHANGED logVars
       \/ /\ mode = "projected" /\ ~meta
          /\ Record({Messages(turn)})
          /\ UNCHANGED <<stored, sent>>
       \/ /\ mode = "projected" /\ meta
          /\ Record({{m} : m \in Drops(turn)})
          /\ Write(Captured(turn))
    /\ UNCHANGED <<mode, waiting, cancelled, turn, today>>

\* The turn ends, with or without its sync; a cancelled one is not forgotten.
EndTurn(completed) ==
    /\ turn # {}
    /\ completed => synced
    /\ cancelled' = IF completed THEN cancelled ELSE Messages(turn)
    /\ turn' = {}
    /\ UNCHANGED <<mode, waiting, synced, stored, seen, sent, logVars, today>>

NextDay ==
    /\ today < MaxDay
    /\ today' = today + 1
    /\ UNCHANGED <<mode, waiting, cancelled, turn, synced, stored, seen, sent, logVars>>

\* IngressLog.sweep, once per boot; a file that cannot be deleted is skipped.
ExpiredShards_BUG == {d \in shards : d + Retention <= today}

ExpiredShards == {d \in shards : d + Retention < today}

Sweep ==
    /\ \/ Cardinality(shards) <= MinShards /\ UNCHANGED shards
       \/ /\ Cardinality(shards) > MinShards
          /\ \E deleted \in SUBSET ExpiredShards : shards' = shards \ deleted
    /\ UNCHANGED <<mode, waiting, cancelled, turn, synced, stored, seen, sent, dropped,
                   unlogged, today>>

CaptureNext ==
    \/ \E batch \in SUBSET waiting : Deliver(batch)
    \/ \E meta \in BOOLEAN : CaptureTurn(meta)
    \/ \E completed \in BOOLEAN : EndTurn(completed)
    \/ NextDay \/ Sweep

CaptureSpec == CaptureInit /\ [][CaptureNext]_captureVars

----------------------------------------------------------------------------

\* However often a message is delivered again, a projected provider stores
\* its text at most once, and only a trusted writer's (ingress.project).
StoredOnce ==
    mode = "projected" =>
        \A m \in Message : stored[m] <= 1 /\ (stored[m] = 1 => Author[m] \in Trusted)

\* A message of a turn that got past the gate was handed to the gateway, or a
\* row of the ingress log stands for it whose file no sweep deletes within its
\* retention, however often it was delivered and cancelled - unless the append
\* of that row failed, which the code swallows (_log_ingress_drop).
Accounted ==
    mode = "projected" =>
        \A m \in seen : \/ m \in sent \cup unlogged
                        \/ \E row \in dropped :
                              m \in row[1] /\ (row[2] \in shards \/ row[2] + Retention < today)
=============================================================================
