---------------------------- MODULE MemoryProofs ----------------------------
(***************************************************************************)
(* Proofs about the memory provider: the ledger of snapshots               *)
(* (MemorySnapshot), what a turn captures (MemoryCapture), and the threads *)
(* around the gateway (MemoryProvider and GatewaySupervisor).              *)
(***************************************************************************)
EXTENDS MemorySnapshot, MemoryCapture, MemoryProvider, TLAPS

(* MemorySnapshot.                                                         *)

\* The ledger has a session's last snapshot, unless it has aged out of it.
SnapshotInv ==
    /\ SnapshotTypeOK
    /\ asking = Idle \/ asking.session \in Session
    /\ \A s \in Session :
        \/ sentAt[s] = told[s]
        \/ sentAt[s] = Never /\ told[s] # Never /\ now >= told[s] + TTL

\* Neither the clock nor a decision ages an entry back in.
LEMMA ClockSteps ==
    ASSUME SnapshotInv, Tick \/ \E s \in Session : BeginPrefetch(s)
    PROVE  SnapshotInv'
<1>1. CASE Tick
  BY <1>1, NeverAssumption, TTLAssumption DEF Tick, SnapshotInv, SnapshotTypeOK
<1>2. ASSUME NEW s \in Session, BeginPrefetch(s)
      PROVE  SnapshotInv'
  <2>1. Due(s) \in BOOLEAN
    BY DEF Due
  <2>. QED
    BY <1>2, <2>1 DEF BeginPrefetch, SnapshotInv, SnapshotTypeOK
<1>. QED
  BY <1>1, <1>2

\* Only entries older than the time to live are dropped while one is written.
LEMMA EndPrefetchStep ==
    ASSUME SnapshotInv, NEW content \in BOOLEAN, EndPrefetch(content)
    PROVE  SnapshotInv'
<1>1. asking' = Idle /\ now' = now /\ Idle \in [session : Session \cup {Never}, want : BOOLEAN]
  BY DEF EndPrefetch, Idle
<1>2. CASE UNCHANGED <<sentAt, told>>
  BY <1>1, <1>2 DEF SnapshotInv, SnapshotTypeOK
<1>3. CASE sentAt' = Pruned(asking.session) /\ told' = [told EXCEPT ![asking.session] = now]
  <2>1. asking.session \in Session
    BY DEF EndPrefetch, SnapshotInv
  <2>2. SnapshotTypeOK'
    BY <1>1, <1>3, <2>1 DEF Pruned, SnapshotInv, SnapshotTypeOK
  <2>3. ASSUME NEW s \in Session
        PROVE  \/ sentAt'[s] = told'[s]
               \/ sentAt'[s] = Never /\ told'[s] # Never /\ now >= told'[s] + TTL
    <3>1. CASE s = asking.session
      BY <1>3, <3>1 DEF Pruned, SnapshotInv, SnapshotTypeOK
    <3>2. CASE s # asking.session
      <4>1. told'[s] = told[s]
        BY <1>3, <3>2 DEF SnapshotInv, SnapshotTypeOK
      <4>2. sentAt'[s] = IF sentAt[s] # Never /\ sentAt[s] + TTL >= now THEN sentAt[s] ELSE Never
        BY <1>3, <3>2 DEF Pruned
      <4>. QED
        BY <4>1, <4>2, NeverAssumption, TTLAssumption DEF SnapshotInv, SnapshotTypeOK
    <3>. QED
      BY <3>1, <3>2
  <2>. QED
    BY <1>1, <2>2, <2>3 DEF SnapshotInv
<1>. QED
  BY <1>2, <1>3 DEF EndPrefetch

\* Pruning the ledger changes no decision.
THEOREM LedgerExactHolds == SnapshotSpec => []LedgerExact
<1>1. SnapshotInit => SnapshotInv
  BY DEF SnapshotInit, SnapshotInv, SnapshotTypeOK, Idle
<1>2. SnapshotInv /\ [SnapshotNext]_snapshotVars => SnapshotInv'
  <2>1. SnapshotInv /\ UNCHANGED snapshotVars => SnapshotInv'
    BY DEF snapshotVars, SnapshotInv, SnapshotTypeOK
  <2>. QED
    BY <2>1, ClockSteps, EndPrefetchStep DEF SnapshotNext
<1>3. SnapshotInv => LedgerExact
  BY NeverAssumption, TTLAssumption DEF SnapshotInv, SnapshotTypeOK, LedgerExact, Due
<1>. QED
  BY <1>1, <1>2, <1>3, PTL DEF SnapshotSpec

-----------------------------------------------------------------------------
(* MemoryCapture.                                                          *)

\* A message triggers one turn only, and what was stored belongs to a turn
\* that has had its sync.
CaptureInv ==
    /\ waiting \subseteq Message /\ cancelled \subseteq Message
    /\ turn \subseteq Message \X Role
    /\ stored \in [Message -> Nat]
    /\ dropped \subseteq (SUBSET Message) \X Nat /\ today \in Nat
    /\ \A m \in waiting : <<m, "trigger">> \notin turn
    /\ mode = "projected" =>
        \A m \in Message :
            stored[m] # 0 => /\ stored[m] = 1 /\ Author[m] \in Trusted
                             /\ m \notin waiting
                             /\ <<m, "trigger">> \in turn => synced
    /\ Accounted

\* The messages of a turn are messages.
LEMMA MessagesType ==
    ASSUME NEW t \in SUBSET (Message \X Role)
    PROVE  Messages(t) \subseteq Message
  BY DEF Messages

\* A delivered batch triggers; what was cancelled comes along as prior.
LEMMA DeliverStep ==
    ASSUME CaptureInv, NEW batch \in SUBSET waiting, Deliver(batch)
    PROVE  CaptureInv'
<1>1. /\ turn' = (batch \X {"trigger"}) \cup (cancelled \X {"prior"})
      /\ waiting' = waiting \ batch /\ cancelled' = {}
      /\ UNCHANGED <<mode, stored, seen, sent, logVars, today>>
  BY DEF Deliver
<1>2. turn' \subseteq Message \X Role
  BY <1>1 DEF CaptureInv, Role
<1>3. \A m \in Message : <<m, "trigger">> \in turn' => m \in batch
  BY <1>1
<1>4. Accounted'
  BY <1>1 DEF CaptureInv, Accounted, logVars
<1>. QED
  BY <1>1, <1>2, <1>3, <1>4 DEF CaptureInv, logVars

\* What is handed to the log is in it, or its append failed.
LEMMA RecordStep ==
    ASSUME NEW parts \in SUBSET (SUBSET Message), Record(parts), today \in Nat,
           dropped \subseteq (SUBSET Message) \X Nat
    PROVE  /\ dropped' \subseteq (SUBSET Message) \X Nat
           /\ dropped \subseteq dropped' /\ unlogged \subseteq unlogged'
           /\ shards \subseteq shards'
           /\ \A p \in parts : \/ p \subseteq unlogged'
                              \/ (<<p, today>> \in dropped' /\ today \in shards')
<1>1. PICK lost \in SUBSET parts :
        /\ dropped' = dropped \cup ((parts \ lost) \X {today})
        /\ unlogged' = unlogged \cup UNION lost
        /\ shards' \in {shards, shards \cup {today}}
        /\ parts \ lost # {} => today \in shards'
  BY DEF Record
<1>2. ASSUME NEW p \in parts
      PROVE  p \subseteq unlogged' \/ (<<p, today>> \in dropped' /\ today \in shards')
  <2>1. CASE p \in lost
    BY <1>1, <2>1
  <2>2. CASE p \notin lost
    BY <1>1, <2>2
  <2>. QED
    BY <2>1, <2>2
<1>. QED
  BY <1>1, <1>2

\* A turn's sync stores each trusted trigger once and accounts for the rest.
LEMMA CaptureTurnStep ==
    ASSUME CaptureInv, NEW meta \in BOOLEAN, CaptureTurn(meta)
    PROVE  CaptureInv'
<1>. DEFINE ms == Messages(turn)
<1>1. /\ ~synced /\ synced' /\ seen' = seen \cup ms
      /\ UNCHANGED <<mode, waiting, cancelled, turn, today>>
  BY DEF CaptureTurn
<1>2. ms \subseteq Message
  BY MessagesType DEF CaptureInv
<1>3. CASE mode # "projected"
  <2>1. Write(ms) /\ UNCHANGED <<dropped, unlogged, shards>>
    BY <1>3 DEF CaptureTurn, logVars
  <2>2. stored' \in [Message -> Nat]
    BY <2>1 DEF Write, CaptureInv
  <2>. QED
    BY <1>1, <1>3, <2>1, <2>2 DEF CaptureInv, Accounted
<1>4. CASE mode = "projected" /\ ~meta
  <2>1. Record({ms}) /\ UNCHANGED <<stored, sent>>
    BY <1>4 DEF CaptureTurn
  <2>2. /\ dropped' \subseteq (SUBSET Message) \X Nat
        /\ dropped \subseteq dropped' /\ unlogged \subseteq unlogged'
        /\ shards \subseteq shards'
        /\ ms \subseteq unlogged' \/ (<<ms, today>> \in dropped' /\ today \in shards')
    <3>1. {ms} \in SUBSET (SUBSET Message) /\ ms \in {ms}
      BY <1>2
    <3>. QED
      BY <2>1, <3>1, RecordStep DEF CaptureInv
  <2>3. Accounted'
    <3>1. ASSUME NEW m \in seen'
          PROVE  \/ m \in sent' \cup unlogged'
                 \/ \E row \in dropped' :
                        m \in row[1] /\ (row[2] \in shards' \/ row[2] + Retention < today')
      <4>1. CASE m \in seen
        BY <1>1, <1>4, <2>1, <2>2, <4>1 DEF CaptureInv, Accounted
      <4>2. CASE m \in ms
        <5>1. m \in <<ms, today>>[1] /\ <<ms, today>>[2] = today
          BY <4>2
        <5>. QED
          BY <2>2, <4>2, <5>1
      <4>. QED
        BY <1>1, <4>1, <4>2
    <3>. QED
      BY <3>1 DEF Accounted
  <2>. QED
    BY <1>1, <2>1, <2>2, <2>3 DEF CaptureInv
<1>5. CASE mode = "projected" /\ meta
  <2>1. Record({{m} : m \in Drops(turn)}) /\ Write(Captured(turn))
    BY <1>5 DEF CaptureTurn
  <2>2. /\ Drops(turn) \cup Captured(turn) = ms
        /\ Captured(turn) \subseteq Message /\ Drops(turn) \subseteq Message
    BY <1>2 DEF Drops, Captured
  <2>3. /\ dropped' \subseteq (SUBSET Message) \X Nat
        /\ dropped \subseteq dropped' /\ unlogged \subseteq unlogged'
        /\ shards \subseteq shards'
        /\ \A m \in Drops(turn) :
              m \in unlogged' \/ (<<{m}, today>> \in dropped' /\ today \in shards')
    <3>. DEFINE parts == {{m} : m \in Drops(turn)}
    <3>1. parts \in SUBSET (SUBSET Message)
      BY <2>2
    <3>2. \A m \in Drops(turn) : {m} \in parts
      OBVIOUS
    <3>3. Record(parts)
      BY <2>1
    <3>. HIDE DEF parts
    <3>4. \A p \in parts : \/ p \subseteq unlogged'
                           \/ (<<p, today>> \in dropped' /\ today \in shards')
      BY <3>1, <3>3, RecordStep DEF CaptureInv
    <3>5. \A m \in Drops(turn) :
              m \in unlogged' \/ (<<{m}, today>> \in dropped' /\ today \in shards')
      BY <3>2, <3>4
    <3>. QED
      BY <3>1, <3>3, <3>5, RecordStep DEF CaptureInv
  <2>4. Accounted'
    <3>1. sent' = sent \cup Captured(turn)
      BY <2>1 DEF Write
    <3>2. ASSUME NEW m \in seen'
          PROVE  \/ m \in sent' \cup unlogged'
                 \/ \E row \in dropped' :
                        m \in row[1] /\ (row[2] \in shards' \/ row[2] + Retention < today')
      <4>1. CASE m \in seen
        BY <1>1, <1>5, <2>3, <3>1, <4>1 DEF CaptureInv, Accounted
      <4>2. CASE m \in Drops(turn)
        <5>1. m \in <<{m}, today>>[1] /\ <<{m}, today>>[2] = today
          OBVIOUS
        <5>. QED
          BY <2>3, <4>2, <5>1
      <4>3. CASE m \in Captured(turn)
        BY <3>1, <4>3
      <4>. QED
        BY <1>1, <2>2, <4>1, <4>2, <4>3
    <3>. QED
      BY <3>2 DEF Accounted
  <2>5. \A m \in Captured(turn) : Author[m] \in Trusted /\ <<m, "trigger">> \in turn
    BY DEF Captured
  <2>6. \A m \in Captured(turn) : stored[m] = 0 /\ m \notin waiting
    BY <1>1, <1>5, <2>2, <2>5 DEF CaptureInv
  <2>7. /\ stored' \in [Message -> Nat]
        /\ \A m \in Message : stored'[m] = stored[m] \/ (m \in Captured(turn) /\ stored'[m] = stored[m] + 1)
    BY <2>1 DEF Write, CaptureInv
  <2>8. \A m \in Message :
            stored'[m] # 0 => stored'[m] = 1 /\ Author[m] \in Trusted /\ m \notin waiting
    <3>. TAKE m \in Message
    <3>1. CASE stored'[m] = stored[m]
      BY <1>5, <3>1 DEF CaptureInv
    <3>2. CASE m \in Captured(turn) /\ stored'[m] = stored[m] + 1
      <4>1. stored[m] = 0 /\ m \notin waiting
        BY <2>6, <3>2, Zenon
      <4>2. stored'[m] = 1
        BY <3>2, <4>1
      <4>3. Author[m] \in Trusted
        BY <2>5, <3>2, Zenon
      <4>. QED
        BY <4>1, <4>2, <4>3
    <3>. QED
      BY <2>7, <3>1, <3>2
  <2>. QED
    BY <1>1, <2>3, <2>4, <2>7, <2>8 DEF CaptureInv
<1>. QED
  BY <1>3, <1>4, <1>5

\* A turn's end, a new day, and the sweep of the log.
LEMMA QuietSteps ==
    ASSUME CaptureInv, (\E c \in BOOLEAN : EndTurn(c)) \/ NextDay \/ Sweep
    PROVE  CaptureInv'
<1>1. ASSUME NEW c \in BOOLEAN, EndTurn(c)
      PROVE  CaptureInv'
  BY <1>1, MessagesType DEF EndTurn, CaptureInv, Accounted, logVars
<1>2. CASE NextDay
  <2>1. Accounted'
    BY <1>2, CaptureAssumption DEF NextDay, CaptureInv, Accounted, logVars
  <2>. QED
    BY <1>2, <2>1 DEF NextDay, CaptureInv, logVars
<1>3. CASE Sweep
  <2>1. \A d \in shards : d \in shards' \/ d + Retention < today
    BY <1>3 DEF Sweep, ExpiredShards
  <2>2. Accounted'
    BY <1>3, <2>1 DEF Sweep, CaptureInv, Accounted
  <2>. QED
    BY <1>3, <2>2 DEF Sweep, CaptureInv
<1>. QED
  BY <1>1, <1>2, <1>3

\* The inductive invariant of capture holds in every reachable state.
LEMMA CaptureInvariance == CaptureSpec => []CaptureInv
<1>1. CaptureInit => CaptureInv
  BY DEF CaptureInit, CaptureInv, Accounted
<1>2. CaptureInv /\ [CaptureNext]_captureVars => CaptureInv'
  <2>1. CaptureInv /\ UNCHANGED captureVars => CaptureInv'
    BY DEF captureVars, logVars, CaptureInv, Accounted
  <2>. QED
    BY <2>1, DeliverStep, CaptureTurnStep, QuietSteps DEF CaptureNext
<1>. QED
  BY <1>1, <1>2, PTL DEF CaptureSpec

\* A projected provider stores a message's text at most once, and only a
\* trusted writer's, however often the message is delivered.
THEOREM StoredOnceHolds == CaptureSpec => []StoredOnce
<1>1. CaptureInv => StoredOnce
  <2>. SUFFICES ASSUME CaptureInv, mode = "projected", NEW m \in Message
                PROVE  stored[m] <= 1 /\ (stored[m] = 1 => Author[m] \in Trusted)
    BY DEF StoredOnce
  <2>1. stored[m] \in Nat /\ (stored[m] # 0 => stored[m] = 1 /\ Author[m] \in Trusted)
    BY DEF CaptureInv
  <2>. QED
    BY <2>1
<1>. QED
  BY <1>1, CaptureInvariance, PTL

\* Every message of a projected turn was handed to the gateway, or a row of the
\* ingress log stands for it for as long as the log is kept, or the append of
\* its row failed.
THEOREM AccountedHolds == CaptureSpec => []Accounted
  BY CaptureInvariance, PTL DEF CaptureInv

-----------------------------------------------------------------------------
(* MemoryProvider and GatewaySupervisor.                                   *)

\* A thread is inside ensure_running only on behalf of a recovery or of the
\* starter, and before initialize nothing runs.
Places ==
    /\ \A t \in Thread : run[t] # "out" => pc[t] \in {"gating", "mending", "starting"}
    /\ pc[Agent] = "new" => \A t \in Thread \ {Agent} : pc[t] = "off"

\* Once shutdown has asked the gateway to stop, only a start that overtakes
\* it puts another child into its hands.
StopsOwn ==
    ~overtaken =>
        /\ pc[Agent] = "killing" => stopping /\ proc \in {victim, NoChild}
        /\ pc[Agent] \in {"clearing", "down"} => stopping /\ proc = NoChild

\* After a shutdown that nothing outlived nobody is left to call the gateway
\* available.
StaysDown ==
    pc[Agent] = "down" /\ ~overlapped =>
        ~available /\ recover = Nobody /\ pc[Watchdog] # "probing" /\ pc[Starter] # "settling"

ProviderInv == TypeOK /\ Places /\ Owned /\ StopsOwn /\ StaysDown /\ TrackedSyncs

Locked == {"reprobe", "spawn", "health"}

\* The gateways come and go by themselves.
LEMMA GatewayMoves ==
    ASSUME SupervisorTypeOK, Owned, GatewayStep
    PROVE  /\ SupervisorTypeOK' /\ Owned'
           /\ UNCHANGED <<proc, stopping, victim, overtaken, run>>
<1>1. PICK c \in Child : Bind(c) \/ Crash(c) \/ Hang(c) \/ Wake(c)
  BY DEF GatewayStep
<1>2. UNCHANGED <<proc, command, stopping, victim, overtaken, lock, run>>
  BY <1>1 DEF Bind, Crash, Hang, Wake
<1>3. faults' \in 0..MaxFaults
  BY <1>1, MaxFaultsAssumption DEF Bind, Crash, Hang, Wake, Fault, SupervisorTypeOK
<1>4. CASE Exit(c)
  <2>1. child' \in [Child -> ChildState] /\ foreign' \subseteq Child
    BY <1>4 DEF Exit, SupervisorTypeOK, ChildState
  <2>2. /\ child'[c] = (IF c = proc THEN "dead" ELSE "none")
        /\ \A d \in Child \ {c} : child'[d] = child[d]
    BY <1>4 DEF Exit, SupervisorTypeOK
  <2>3. SupervisorTypeOK'
    BY <1>2, <1>3, <1>4, <2>1, <2>2 DEF Exit, SupervisorTypeOK
  <2>4. Owned'
    BY <1>2, <1>4, <2>2 DEF Exit, Owned, Live
  <2>. QED
    BY <1>2, <2>3, <2>4
<1>5. CASE \E s \in {"healthy", "hung"} :
             child[c] \in {"starting", "healthy", "hung"} /\ child' = [child EXCEPT ![c] = s]
           /\ foreign' = foreign
  <2>1. PICK s \in {"healthy", "hung"} :
              child[c] \in {"starting", "healthy", "hung"} /\ child' = [child EXCEPT ![c] = s]
           /\ foreign' = foreign
    BY <1>5
  <2>2. child' \in [Child -> ChildState]
    BY <2>1 DEF SupervisorTypeOK, ChildState
  <2>3. child'[c] = s /\ \A d \in Child \ {c} : child'[d] = child[d]
    BY <2>1 DEF SupervisorTypeOK
  <2>4. SupervisorTypeOK'
    BY <1>2, <1>3, <2>1, <2>2, <2>3 DEF SupervisorTypeOK
  <2>5. Owned'
    BY <1>2, <2>1, <2>3 DEF Owned, Live
  <2>. QED
    BY <1>2, <2>4, <2>5
<1>. QED
  BY <1>1, <1>4, <1>5 DEF Bind, Crash, Hang, Wake, Live

\* A thread's step inside ensure_running that moves no child.
LEMMA ThreadMoves ==
    ASSUME SupervisorTypeOK, Owned, NEW t \in Thread,
           UNCHANGED <<child, proc, foreign, command, stopping, victim, overtaken>>,
           faults' \in 0..MaxFaults,
           NEW where \in RunState, run' = [run EXCEPT ![t] = where],
           \/ lock' = lock /\ (where \in Locked <=> run[t] \in Locked)
           \/ lock' = Nobody /\ run[t] \in Locked /\ where \notin Locked
           \/ lock = Nobody /\ lock' = t /\ where \in Locked
    PROVE  SupervisorTypeOK' /\ Owned'
<1>1. run' \in [Thread -> RunState] /\ run'[t] = where /\ \A u \in Thread \ {t} : run'[u] = run[u]
  BY DEF SupervisorTypeOK
<1>2. lock' \in Thread \cup {Nobody}
  BY DEF SupervisorTypeOK
<1>3. \A u \in Thread : lock = u <=> run[u] \in Locked
  BY DEF SupervisorTypeOK, Locked
<1>4. \A u \in Thread : lock' = u <=> run'[u] \in Locked
  BY <1>1, <1>3, NobodyAssumption
<1>5. SupervisorTypeOK'
  BY <1>1, <1>2, <1>4 DEF SupervisorTypeOK, Locked
<1>. QED
  BY <1>5 DEF Owned, Live

\* The handle of a child that has exited is dropped.
LEMMA ReapFacts ==
    ASSUME SupervisorTypeOK, Owned, Reap
    PROVE  /\ child' \in [Child -> ChildState] /\ proc' \in {proc, NoChild}
           /\ \A c \in Child : child'[c] = "dead" => proc' = c
           /\ proc' # NoChild => child'[proc'] # "none"
           /\ foreign \subseteq {c \in Child : child'[c] \notin {"none", "dead"}}
           /\ Live' \subseteq {proc'} \cup foreign \/ overtaken
<1>1. CASE proc # NoChild /\ ~ProcessAlive
  <2>1. child' = [child EXCEPT ![proc] = "none"] /\ proc' = NoChild /\ proc \in Child
    BY <1>1 DEF Reap, SupervisorTypeOK
  <2>2. child'[proc] = "none" /\ \A d \in Child \ {proc} : child'[d] = child[d]
    BY <2>1 DEF SupervisorTypeOK
  <2>3. child' \in [Child -> ChildState]
    BY <2>1 DEF SupervisorTypeOK, ChildState
  <2>4. child[proc] \in {"none", "dead"}
    BY <1>1, <2>1 DEF ProcessAlive, Live, SupervisorTypeOK, ChildState
  <2>. QED
    BY <2>1, <2>2, <2>3, <2>4 DEF SupervisorTypeOK, Owned, Live
<1>2. CASE UNCHANGED <<child, proc>>
  BY <1>2 DEF SupervisorTypeOK, Owned, Live
<1>. QED
  BY <1>1, <1>2 DEF Reap

\* The second probe, under the lock.
LEMMA ReprobeMoves ==
    ASSUME SupervisorTypeOK, Owned, NEW t \in Thread, Reprobe(t)
    PROVE  /\ SupervisorTypeOK' /\ Owned' /\ (overtaken => overtaken')
           /\ ~overtaken' /\ stopping => stopping' /\ proc' \in {proc, NoChild}
<1>0. overtaken \in BOOLEAN /\ stopping \in BOOLEAN /\ run[t] \in Locked
  BY DEF SupervisorTypeOK, Reprobe, Locked
<1>1. CASE Answers /\ Return(t, "yes") /\ UNCHANGED <<child, proc, stopping, overtaken>>
  <2>1. UNCHANGED <<foreign, command, victim, faults>>
    BY DEF Reprobe
  <2>2. run' = [run EXCEPT ![t] = "yes"] /\ lock' = Nobody /\ "yes" \in RunState /\ "yes" \notin Locked
    BY <1>1 DEF Return, Goto, RunState, Locked
  <2>3. SupervisorTypeOK' /\ Owned'
    BY <1>0, <1>1, <2>1, <2>2, ThreadMoves DEF SupervisorTypeOK
  <2>. QED
    BY <1>1, <2>3
<1>2. CASE Reap /\ \/ ~command /\ Return(t, "no") /\ UNCHANGED <<stopping, overtaken>>
                   \/ /\ command /\ Goto(t, "spawn") /\ stopping' = FALSE
                      /\ overtaken' = (overtaken \/ stopping) /\ UNCHANGED lock
  <2>1. UNCHANGED <<foreign, command, victim, faults>>
    BY DEF Reprobe
  <2>2. stopping' \in BOOLEAN /\ overtaken' \in BOOLEAN /\ (overtaken => overtaken')
        /\ (~overtaken' /\ stopping => stopping')
    <3>1. CASE UNCHANGED <<stopping, overtaken>>
      BY <1>0, <3>1
    <3>2. CASE stopping' = FALSE /\ overtaken' = (overtaken \/ stopping)
      <4>1. overtaken' = TRUE \/ overtaken' = FALSE
        BY <3>2, Zenon
      <4>. QED
        BY <1>0, <3>2, <4>1
    <3>. QED
      BY <1>2, <3>1, <3>2
  <2>3. PICK where \in RunState : /\ run' = [run EXCEPT ![t] = where]
                                  /\ \/ lock' = lock /\ where \in Locked
                                     \/ lock' = Nobody /\ where \notin Locked
    BY <1>2 DEF Return, Goto, RunState, Locked
  <2>4. run' \in [Thread -> RunState] /\ run'[t] = where /\ \A u \in Thread \ {t} : run'[u] = run[u]
    BY <2>3 DEF SupervisorTypeOK
  <2>5. \A u \in Thread : lock = u <=> run[u] \in Locked
    BY DEF SupervisorTypeOK, Locked
  <2>6. \A u \in Thread : lock' = u <=> run'[u] \in Locked
    BY <1>0, <2>3, <2>4, <2>5, NobodyAssumption
  <2>7. lock' \in Thread \cup {Nobody}
    BY <2>3 DEF SupervisorTypeOK
  <2>8. /\ child' \in [Child -> ChildState] /\ proc' \in {proc, NoChild}
        /\ \A c \in Child : child'[c] = "dead" => proc' = c
        /\ proc' # NoChild => child'[proc'] # "none"
        /\ foreign' \subseteq {c \in Child : child'[c] \notin {"none", "dead"}}
        /\ Live' \subseteq {proc'} \cup foreign' \/ overtaken
    BY <1>2, <2>1, ReapFacts
  <2>9. SupervisorTypeOK'
    BY <2>1, <2>2, <2>4, <2>6, <2>7, <2>8 DEF SupervisorTypeOK, Locked
  <2>. QED
    BY <2>2, <2>8, <2>9 DEF Owned
<1>. QED
  BY <1>1, <1>2 DEF Reprobe

\* Popen.
LEMMA SpawnMoves ==
    ASSUME SupervisorTypeOK, Owned, NEW t \in Thread, Spawn(t)
    PROVE  /\ SupervisorTypeOK' /\ Owned' /\ overtaken' = (overtaken \/ stopping)
           /\ stopping' = stopping
<1>1. PICK c \in Child :
          /\ c \notin Live \cup {victim}
          /\ child' = [d \in Child |-> IF d = c THEN "starting"
                                       ELSE IF d = proc /\ d \notin Live THEN "none"
                                       ELSE child[d]]
          /\ foreign' = foreign \cup ({proc} \cap Live)
          /\ proc' = c
  BY DEF Spawn
<1>2. /\ overtaken' = (overtaken \/ stopping) /\ run[t] = "spawn"
      /\ run' = [run EXCEPT ![t] = "health"]
      /\ UNCHANGED <<command, stopping, victim, lock, faults>>
  BY DEF Spawn, Goto
<1>3. child' \in [Child -> ChildState]
  BY <1>1 DEF SupervisorTypeOK, ChildState
<1>4. /\ child'[c] = "starting"
      /\ \A d \in Child \ {c} : child'[d] = child[d] \/ (d = proc /\ d \notin Live /\ child'[d] = "none")
  BY <1>1
<1>5. run' \in [Thread -> RunState] /\ run'[t] = "health" /\ \A u \in Thread \ {t} : run'[u] = run[u]
  BY <1>2 DEF SupervisorTypeOK, RunState
<1>6. \A u \in Thread : lock' = u <=> run'[u] \in Locked
  BY <1>2, <1>5 DEF SupervisorTypeOK, Locked
<1>7. \A d \in Child : child'[d] = "dead" => proc' = d
  <2>. TAKE d \in Child
  <2>1. d # c /\ child'[d] = child[d] /\ child'[d] = "dead" => d = proc /\ d \notin Live
    BY DEF SupervisorTypeOK, Live
  <2>2. d = proc /\ d # c /\ d \notin Live => child'[d] = "none"
    BY <1>1
  <2>. QED
    BY <1>1, <1>4, <2>1, <2>2
<1>8. foreign' \subseteq {d \in Child : child'[d] \notin {"none", "dead"}}
  <2>. SUFFICES ASSUME NEW d \in foreign'
                PROVE  d \in Child /\ child'[d] \notin {"none", "dead"}
    OBVIOUS
  <2>1. d \in Child /\ d \in Live
    BY <1>1 DEF SupervisorTypeOK, Live, ChildState
  <2>. QED
    BY <1>4, <2>1 DEF Live
<1>9. SupervisorTypeOK'
  BY <1>1, <1>2, <1>3, <1>4, <1>5, <1>6, <1>7, <1>8 DEF SupervisorTypeOK, Locked
<1>10. Owned'
  <2>1. Live' \subseteq {c} \cup Live
    BY <1>3, <1>4 DEF Live
  <2>. QED
    BY <1>1, <1>2, <2>1 DEF Owned
<1>. QED
  BY <1>2, <1>9, <1>10

\* Every step inside ensure_running.
LEMMA EnsureMoves ==
    ASSUME SupervisorTypeOK, Owned, NEW t \in Thread, EnsureRunning(t)
    PROVE  /\ SupervisorTypeOK' /\ Owned'
           /\ victim' = victim /\ run[t] # "out" /\ \A u \in Thread \ {t} : run'[u] = run[u]
           /\ overtaken => overtaken'
           /\ ~overtaken' /\ stopping => stopping' /\ proc' \in {proc, NoChild}
<1>1. /\ victim' = victim /\ run[t] # "out"
      /\ \E where \in RunState : run' = [run EXCEPT ![t] = where]
  BY DEF EnsureRunning, Probe, Acquire, Reprobe, Spawn, SpawnFails, WaitForHealth, WaitTimesOut,
     Return, Goto, RunState
<1>2. \A u \in Thread \ {t} : run'[u] = run[u]
  BY <1>1 DEF SupervisorTypeOK
<1>3. CASE Reprobe(t)
  BY <1>1, <1>2, <1>3, ReprobeMoves
<1>4. CASE Spawn(t)
  BY <1>1, <1>2, <1>4, SpawnMoves DEF SupervisorTypeOK
<1>5. CASE Probe(t) \/ Acquire(t) \/ SpawnFails(t) \/ WaitForHealth(t) \/ WaitTimesOut(t)
  <2>1. UNCHANGED <<child, proc, foreign, command, stopping, victim, overtaken>>
    BY <1>5 DEF Probe, Acquire, SpawnFails, WaitForHealth, WaitTimesOut
  <2>2. faults' \in 0..MaxFaults
    BY <1>5, MaxFaultsAssumption DEF Probe, Acquire, SpawnFails, WaitForHealth, WaitTimesOut, Fault,
       SupervisorTypeOK
  <2>3. \E where \in RunState :
           /\ run' = [run EXCEPT ![t] = where]
           /\ \/ lock' = lock /\ (where \in Locked <=> run[t] \in Locked)
              \/ lock' = Nobody /\ run[t] \in Locked /\ where \notin Locked
              \/ lock = Nobody /\ lock' = t /\ where \in Locked
    BY <1>5 DEF Probe, Acquire, SpawnFails, WaitForHealth, WaitTimesOut, Return, Goto, RunState, Locked
  <2>4. SupervisorTypeOK' /\ Owned'
    BY <2>1, <2>2, <2>3, ThreadMoves
  <2>. QED
    BY <1>1, <1>2, <2>1, <2>4
<1>. QED
  BY <1>3, <1>4, <1>5 DEF EnsureRunning

\* What shutdown does to the gateway: it ends the child it read, and drops
\* the handle.
LEMMA StopMoves ==
    ASSUME SupervisorTypeOK, Owned, RequestStop \/ (StopChild /\ (overtaken \/ proc \in {victim, NoChild}))
    PROVE  SupervisorTypeOK' /\ Owned' /\ UNCHANGED <<overtaken, run>>
<1>1. CASE RequestStop
  BY <1>1 DEF RequestStop, SupervisorTypeOK, Owned, Live
<1>2. CASE StopChild /\ (overtaken \/ proc \in {victim, NoChild})
  <2>1. UNCHANGED <<command, stopping, overtaken, lock, run, faults>> /\ victim' = NoChild
    BY <1>2 DEF StopChild
  <2>2. CASE victim = NoChild
    BY <1>2, <2>1, <2>2 DEF StopChild, SupervisorTypeOK, Owned, Live
  <2>3. CASE victim # NoChild
    <3>1. /\ child' = [c \in Child |-> IF c = victim \/ child[c] = "dead" THEN "none" ELSE child[c]]
          /\ foreign' = foreign \ {victim} /\ proc' = NoChild
      BY <1>2, <2>3 DEF StopChild
    <3>2. child' \in [Child -> ChildState]
      BY <3>1 DEF SupervisorTypeOK, ChildState
    <3>3. SupervisorTypeOK'
      BY <2>1, <3>1, <3>2 DEF SupervisorTypeOK
    <3>4. Owned'
      BY <1>2, <2>1, <3>1, NoChildAssumption DEF Owned, Live
    <3>. QED
      BY <2>1, <3>3, <3>4
  <2>. QED
    BY <2>2, <2>3
<1>. QED
  BY <1>1, <1>2

\* The provider's own types.
PlaceNames ==
    {"new", "idle", "gating", "asking", "joining", "mending",
     "stopping", "killing", "clearing", "down",
     "off", "starting", "settling", "waiting", "probing", "sending"}

ProviderTypes ==
    /\ pc \in [Thread -> PlaceNames]
    /\ available \in BOOLEAN
    /\ failures \in 0..Threshold
    /\ tripped \in BOOLEAN
    /\ recover \in Thread \cup {Nobody}
    /\ cooling \in BOOLEAN
    /\ active \subseteq Syncs
    /\ overlapped \in BOOLEAN
    /\ \A t \in Thread : recover = t <=> pc[t] \in {"gating", "mending"}

\* The types are those of the supervisor and those of the provider.
LEMMA TypesSplit ==
    (TypeOK <=> SupervisorTypeOK /\ ProviderTypes) /\ (TypeOK' <=> SupervisorTypeOK' /\ ProviderTypes')
  BY DEF TypeOK, ProviderTypes, PlaceNames

\* The parts of the invariant that speak of the threads.
ThreadInv == ProviderTypes /\ Places /\ StaysDown /\ TrackedSyncs

\* The provider's threads are different ones.
LEMMA ThreadFacts ==
    /\ Agent \in Thread /\ Starter \in Thread /\ Watchdog \in Thread /\ Syncs \subseteq Thread
    /\ Agent \notin Syncs /\ Starter \notin Syncs /\ Watchdog \notin Syncs
    /\ Agent # Starter /\ Agent # Watchdog /\ Starter # Watchdog
    /\ Nobody \notin Thread
  BY ThreadsAssumption, NobodyAssumption

\* A recovery that begins, or is not begun.
LEMMA TryRecoverMoves ==
    ASSUME SupervisorTypeOK, ThreadInv, NEW t \in {Agent, Watchdog} \cup Syncs,
           NEW bypass \in BOOLEAN, NEW busy \in {"gating", "mending"},
           TryRecover(t, bypass, busy),
           pc[t] \in {"idle", "asking", "probing", "sending"},
           failures' \in 0..Threshold, tripped' \in BOOLEAN,
           UNCHANGED <<available, cooling, active, overlapped>>
    PROVE  /\ ThreadInv'
           /\ run' \in {run, [run EXCEPT ![t] = "probe"]} /\ run[t] = "out"
           /\ pc'[Agent] \in {"killing", "clearing", "down"} => pc[Agent] = pc'[Agent]
<1>1. t \in Thread /\ pc \in [Thread -> PlaceNames] /\ run[t] = "out"
  BY ThreadFacts DEF ThreadInv, ProviderTypes, Places
<1>2. pc[Agent] # "new"
  BY <1>1, ThreadFacts DEF ThreadInv, Places
<1>3. CASE /\ HasSupervisor /\ recover = Nobody /\ recover' = t
           /\ run' = [run EXCEPT ![t] = "probe"] /\ pc' = [pc EXCEPT ![t] = busy]
  <2>1. pc' \in [Thread -> PlaceNames] /\ pc'[t] = busy /\ \A u \in Thread \ {t} : pc'[u] = pc[u]
    BY <1>1, <1>3 DEF PlaceNames
  <2>2. \A u \in Thread : run'[u] # "out" => run[u] # "out" \/ u = t
    BY <1>3 DEF SupervisorTypeOK
  <2>3. ProviderTypes'
    BY <1>1, <1>3, <2>1, ThreadFacts DEF ThreadInv, ProviderTypes
  <2>4. Places'
    BY <1>1, <1>2, <2>1, <2>2, ThreadFacts DEF ThreadInv, Places
  <2>5. pc'[Agent] \in {"stopping", "killing", "clearing", "down"} <=> pc[Agent] \in {"stopping", "killing", "clearing", "down"}
    BY <1>1, <2>1, ThreadFacts
  <2>6. StaysDown'
    BY <1>3, <2>1, <2>5, ThreadFacts DEF StaysDown, HasSupervisor
  <2>7. TrackedSyncs'
    BY <1>1, <2>1, <2>5, ThreadFacts DEF ThreadInv, TrackedSyncs, Stopping
  <2>. QED
    BY <1>1, <1>3, <2>1, <2>3, <2>4, <2>6, <2>7, ThreadFacts DEF ThreadInv
<1>4. CASE pc' = [pc EXCEPT ![t] = Home(t)] /\ UNCHANGED <<recover, run>>
  <2>0. Home(t) \in {"idle", "waiting", "off"} /\ (t \in Syncs => Home(t) = "off")
    BY ThreadFacts DEF Home
  <2>1. pc' \in [Thread -> PlaceNames] /\ pc'[t] = Home(t) /\ \A u \in Thread \ {t} : pc'[u] = pc[u]
    BY <1>1, <1>4, <2>0 DEF PlaceNames
  <2>3. ProviderTypes'
    BY <1>1, <1>4, <2>0, <2>1, ThreadFacts DEF ThreadInv, ProviderTypes
  <2>4. Places'
    BY <1>1, <1>2, <1>4, <2>0, <2>1, ThreadFacts DEF ThreadInv, Places
  <2>5. pc'[Agent] \in {"stopping", "killing", "clearing", "down"} <=> pc[Agent] \in {"stopping", "killing", "clearing", "down"}
    BY <1>1, <2>0, <2>1, ThreadFacts
  <2>6. StaysDown'
    BY <1>1, <1>4, <2>0, <2>1, ThreadFacts DEF ThreadInv, StaysDown
  <2>7. TrackedSyncs'
    BY <1>1, <2>0, <2>1, <2>5, ThreadFacts DEF ThreadInv, TrackedSyncs, Stopping
  <2>. QED
    BY <1>1, <1>4, <2>0, <2>1, <2>3, <2>4, <2>6, <2>7, ThreadFacts DEF ThreadInv
<1>. QED
  BY <1>3, <1>4 DEF TryRecover

\* The agent's thread, or the watchdog's, goes to another place and nothing
\* else of the provider's threads moves.
LEMMA PlainMoves ==
    ASSUME SupervisorTypeOK, ThreadInv, run' = run, recover' = recover,
           failures' \in 0..Threshold, tripped' \in BOOLEAN, UNCHANGED <<cooling, overlapped>>,
           available' = available \/ (available' = TRUE /\ pc[Watchdog] = "probing"),
           active' = active,
           NEW t \in Thread, NEW where \in {"idle", "asking", "off", "waiting", "probing"},
           pc' = [pc EXCEPT ![t] = where],
           \/ t = Agent /\ pc[t] \in {"idle", "asking"} /\ where \in {"idle", "asking"}
           \/ t = Watchdog /\ pc[t] \in {"waiting", "probing"} /\ where \in {"off", "waiting", "probing"}
              /\ (where = "probing" => pc[Agent] # "down")
           \/ t \in Syncs /\ pc[t] = "sending" /\ where = "off"
    PROVE  ThreadInv' /\ (pc'[Agent] \in {"killing", "clearing", "down"} => pc[Agent] = pc'[Agent])
<1>1. pc \in [Thread -> PlaceNames] /\ run[t] = "out"
  BY ThreadFacts DEF ThreadInv, ProviderTypes, Places
<1>2. pc[Agent] # "new"
  BY <1>1, ThreadFacts DEF ThreadInv, Places
<1>3. pc' \in [Thread -> PlaceNames] /\ pc'[t] = where /\ \A u \in Thread \ {t} : pc'[u] = pc[u]
  BY <1>1 DEF PlaceNames
<1>4. ProviderTypes'
  BY <1>1, <1>3, ThreadFacts DEF ThreadInv, ProviderTypes
<1>5. Places'
  BY <1>1, <1>2, <1>3, ThreadFacts DEF ThreadInv, Places
<1>6. pc'[Agent] \in {"stopping", "killing", "clearing", "down"} <=> pc[Agent] \in {"stopping", "killing", "clearing", "down"}
  BY <1>1, <1>3, ThreadFacts
<1>7. pc'[Agent] = "down" <=> pc[Agent] = "down"
  BY <1>1, <1>3, ThreadFacts
<1>8. StaysDown'
  BY <1>1, <1>3, <1>7, ThreadFacts DEF ThreadInv, StaysDown
<1>9. TrackedSyncs'
  BY <1>1, <1>3, <1>6, ThreadFacts DEF ThreadInv, TrackedSyncs, Stopping
<1>. QED
  BY <1>1, <1>3, <1>4, <1>5, <1>8, <1>9, ThreadFacts DEF ThreadInv

\* Steps that leave the gateway and the lock alone.
LEMMA FrameMoves ==
    ASSUME SupervisorTypeOK, Owned, StopsOwn,
           UNCHANGED <<child, proc, foreign, command, stopping, victim, overtaken, lock>>,
           faults' \in 0..MaxFaults,
           \/ run' = run
           \/ \E t \in Thread, where \in {"probe", "out"} :
                 run[t] \notin Locked /\ run' = [run EXCEPT ![t] = where],
           pc'[Agent] \in {"killing", "clearing", "down"} => pc[Agent] = pc'[Agent]
    PROVE  SupervisorTypeOK' /\ Owned' /\ StopsOwn'
<1>1. SupervisorTypeOK' /\ Owned'
  <2>1. CASE run' = run
    BY <2>1 DEF SupervisorTypeOK, Owned, Live
  <2>2. ASSUME NEW t \in Thread, NEW where \in {"probe", "out"},
               run[t] \notin Locked, run' = [run EXCEPT ![t] = where]
        PROVE  SupervisorTypeOK' /\ Owned'
    <3>1. where \in RunState /\ where \notin Locked
      BY DEF RunState, Locked
    <3>. QED
      BY <2>2, <3>1, ThreadMoves
  <2>. QED
    BY <2>1, <2>2
<1>. QED
  BY <1>1 DEF StopsOwn

\* The breaker's counter stays within its threshold.
LEMMA BreakerFacts ==
    ASSUME ProviderTypes
    PROVE  /\ Expired \in 0..Threshold
           /\ RecordSuccess => failures' \in 0..Threshold /\ tripped' \in BOOLEAN
           /\ \A count \in 0..Threshold :
                 RecordFailure(count) => failures' \in 0..Threshold /\ tripped' \in BOOLEAN
<1>1. 0 \in 0..Threshold /\ Threshold \in 0..Threshold /\ TRUE \in BOOLEAN /\ FALSE \in BOOLEAN
  BY LimitsAssumption
<1>2. Expired \in 0..Threshold
  BY <1>1 DEF ProviderTypes, Expired
<1>3. RecordSuccess => failures' \in 0..Threshold /\ tripped' \in BOOLEAN
  BY <1>1, Zenon DEF RecordSuccess
<1>4. ASSUME NEW count \in 0..Threshold, RecordFailure(count)
      PROVE  failures' \in 0..Threshold /\ tripped' \in BOOLEAN
  <2>1. CASE failures' = Threshold /\ tripped' = TRUE
    BY <1>1, <2>1, Zenon
  <2>2. CASE ~(count + 1 >= Threshold) /\ failures' = count + 1 /\ tripped' = FALSE
    <3>1. count + 1 \in 0..Threshold
      BY <2>2, LimitsAssumption
    <3>. QED
      BY <1>1, <2>2, <3>1, Zenon
  <2>. QED
    BY <1>4, <2>1, <2>2 DEF RecordFailure
<1>. QED
  BY <1>2, <1>3, <1>4

\* A fault is counted, within its bound.
LEMMA FaultFacts ==
    ASSUME SupervisorTypeOK, Fault \/ UNCHANGED faults
    PROVE  faults' \in 0..MaxFaults
  BY MaxFaultsAssumption DEF Fault, SupervisorTypeOK

\* The gateway's own steps, and those inside ensure_running.
LEMMA SuperviseStep ==
    ASSUME ProviderInv, UNCHANGED providerVars,
           GatewayStep \/ \E t \in Thread : EnsureRunning(t)
    PROVE  ProviderInv'
<1>0. SupervisorTypeOK /\ ThreadInv /\ Owned /\ StopsOwn
  BY TypesSplit DEF ProviderInv, ThreadInv
<1>1. CASE GatewayStep
  <2>1. SupervisorTypeOK' /\ Owned' /\ UNCHANGED <<proc, stopping, victim, overtaken, run>>
    BY <1>0, <1>1, GatewayMoves
  <2>2. ThreadInv'
    BY <1>0, <2>1 DEF providerVars, ThreadInv, ProviderTypes, Places, StaysDown, TrackedSyncs, Stopping
  <2>3. StopsOwn'
    BY <1>0, <2>1 DEF providerVars, StopsOwn
  <2>. QED
    BY <2>1, <2>2, <2>3, TypesSplit DEF ProviderInv, ThreadInv
<1>2. ASSUME NEW t \in Thread, EnsureRunning(t)
      PROVE  ProviderInv'
  <2>1. /\ SupervisorTypeOK' /\ Owned'
        /\ victim' = victim /\ run[t] # "out" /\ \A u \in Thread \ {t} : run'[u] = run[u]
        /\ overtaken => overtaken'
        /\ ~overtaken' /\ stopping => stopping' /\ proc' \in {proc, NoChild}
    BY <1>0, <1>2, EnsureMoves
  <2>2. ThreadInv'
    <3>1. Places'
      BY <1>0, <2>1 DEF providerVars, ThreadInv, Places
    <3>. QED
      BY <1>0, <3>1 DEF providerVars, ThreadInv, ProviderTypes, StaysDown, TrackedSyncs, Stopping
  <2>3. StopsOwn'
    BY <1>0, <2>1 DEF providerVars, StopsOwn
  <2>. QED
    BY <2>1, <2>2, <2>3, TypesSplit DEF ProviderInv, ThreadInv
<1>. QED
  BY <1>1, <1>2

\* A recovery ends: its thread goes on, or home.
LEMMA RecoverDoneStep ==
    ASSUME ProviderInv, NEW t \in Thread, RecoverDone(t)
    PROVE  ProviderInv'
<1>0. SupervisorTypeOK /\ ThreadInv /\ Owned /\ StopsOwn
  BY TypesSplit DEF ProviderInv, ThreadInv
<1>1. /\ recover = t /\ run[t] \in {"yes", "no"} /\ recover' = Nobody /\ cooling' = TRUE
      /\ run' = [run EXCEPT ![t] = "out"]
      /\ UNCHANGED <<child, proc, foreign, command, stopping, victim, overtaken, lock, faults,
                     active, overlapped>>
  BY DEF RecoverDone
<1>2. /\ available' \in BOOLEAN /\ failures' \in 0..Threshold /\ tripped' \in BOOLEAN
  <2>1. 0 \in 0..Threshold /\ TRUE \in BOOLEAN /\ FALSE \in BOOLEAN
    BY LimitsAssumption
  <2>2. CASE Restore
    BY <2>1, <2>2, Zenon DEF Restore
  <2>3. CASE UNCHANGED <<available, failures, tripped>>
    BY <1>0, <2>3 DEF ThreadInv, ProviderTypes
  <2>. QED
    BY <2>2, <2>3 DEF RecoverDone
<1>3. PICK where \in {"asking", "idle", "waiting", "off"} : pc' = [pc EXCEPT ![t] = where] /\ (where = "asking" => pc[t] = "gating")
                                                    /\ (t \in Syncs => where \in {"asking", "off"})
  <2>1. Home(t) \in {"idle", "waiting", "off"} /\ (t \in Syncs => Home(t) = "off")
    BY ThreadFacts DEF Home
  <2>. QED
    BY <2>1 DEF RecoverDone
<1>4. pc \in [Thread -> PlaceNames] /\ pc[t] \in {"gating", "mending"} /\ pc[Agent] # "new"
  <2>1. pc \in [Thread -> PlaceNames] /\ pc[t] \in {"gating", "mending"}
    BY <1>0, <1>1 DEF ThreadInv, ProviderTypes
  <2>. QED
    BY <1>0, <2>1 DEF ThreadInv, Places
<1>5. pc' \in [Thread -> PlaceNames] /\ pc'[t] = where /\ \A u \in Thread \ {t} : pc'[u] = pc[u]
  BY <1>3, <1>4 DEF PlaceNames
<1>6. ProviderTypes'
  BY <1>0, <1>1, <1>2, <1>4, <1>5, ThreadFacts DEF ThreadInv, ProviderTypes
<1>7. Places'
  <2>1. run'[t] = "out" /\ \A u \in Thread \ {t} : run'[u] = run[u]
    BY <1>0, <1>1 DEF SupervisorTypeOK
  <2>. QED
    BY <1>0, <1>4, <1>5, <2>1, ThreadFacts DEF ThreadInv, Places
<1>8. pc'[Agent] \in {"stopping", "killing", "clearing", "down"} => pc[Agent] = pc'[Agent]
  BY <1>4, <1>5, ThreadFacts
<1>9. StaysDown'
  <2>1. pc[Agent] = "down" => overlapped
    BY <1>0, <1>1, ThreadFacts DEF ThreadInv, StaysDown
  <2>. QED
    BY <1>1, <1>8, <2>1 DEF StaysDown
<1>10. TrackedSyncs'
  BY <1>0, <1>1, <1>4, <1>5, ThreadFacts DEF ThreadInv, TrackedSyncs, Stopping
<1>11. SupervisorTypeOK' /\ Owned' /\ StopsOwn'
  <2>1. run[t] \notin Locked
    BY <1>1 DEF Locked
  <2>2. faults' \in 0..MaxFaults
    BY <1>0, <1>1 DEF SupervisorTypeOK
  <2>. QED
    BY <1>0, <1>1, <1>8, <2>1, <2>2, FrameMoves
<1>. QED
  BY <1>6, <1>7, <1>9, <1>10, <1>11, TypesSplit DEF ProviderInv

\* The provider is initialised; its starter ends.
LEMMA StarterSteps ==
    ASSUME ProviderInv, Initialize \/ StarterDone \/ StarterSets
    PROVE  ProviderInv'
<1>0. SupervisorTypeOK /\ ThreadInv /\ Owned /\ StopsOwn
  BY TypesSplit DEF ProviderInv, ThreadInv
<1>1. /\ UNCHANGED <<child, proc, foreign, command, stopping, victim, overtaken, lock, faults,
                     failures, tripped, recover, cooling, active, overlapped>>
  BY DEF Initialize, StarterDone, StarterSets, supervisorVars
<1>2. CASE Initialize
  <2>1. /\ pc[Agent] = "new" /\ pc'[Agent] = "idle" /\ pc'[Watchdog] = "waiting"
        /\ \A u \in Thread \ {Agent, Watchdog, Starter} : pc'[u] = pc[u]
        /\ pc' \in [Thread -> PlaceNames] /\ available' \in BOOLEAN
        /\ \/ pc'[Starter] = pc[Starter] /\ run' = run
           \/ pc'[Starter] = "starting" /\ run' = [run EXCEPT ![Starter] = "probe"]
    BY <1>0, <1>2, ThreadFacts DEF Initialize, ThreadInv, ProviderTypes, PlaceNames
  <2>2. \A u \in Thread : run[u] = "out" /\ (u # Agent => pc[u] = "off")
    BY <1>0, <2>1, ThreadFacts DEF ThreadInv, Places
  <2>3. ProviderTypes'
    BY <1>0, <1>1, <2>1, <2>2, ThreadFacts DEF ThreadInv, ProviderTypes
  <2>4. Places'
    <3>1. \A u \in Thread \ {Starter} : run'[u] = run[u]
      BY <1>0, <2>1 DEF SupervisorTypeOK
    <3>2. run'[Starter] # "out" => pc'[Starter] = "starting"
      BY <2>1, <2>2, ThreadFacts
    <3>. QED
      BY <2>1, <2>2, <3>1, <3>2 DEF Places
  <2>5. StaysDown' /\ TrackedSyncs'
    BY <2>1, <2>2, ThreadFacts DEF StaysDown, TrackedSyncs
  <2>6. SupervisorTypeOK' /\ Owned' /\ StopsOwn'
    <3>1. run[Starter] \notin Locked /\ faults' \in 0..MaxFaults
      BY <1>0, <1>1, <2>2, ThreadFacts DEF Locked, SupervisorTypeOK
    <3>. QED
      BY <1>0, <1>1, <2>1, <3>1, ThreadFacts, FrameMoves
  <2>. QED
    BY <2>3, <2>4, <2>5, <2>6, TypesSplit DEF ProviderInv
<1>3. CASE StarterDone \/ StarterSets
  <2>1. PICK where \in {"settling", "off"} :
          /\ pc' = [pc EXCEPT ![Starter] = where] /\ (where = "settling" => HasSupervisor)
          /\ pc[Starter] \in {"starting", "settling"}
          /\ run[Starter] \notin Locked
          /\ \/ run' = run /\ run[Starter] = "out"
             \/ run' = [run EXCEPT ![Starter] = "out"]
          /\ available' = available \/ (available' = TRUE /\ pc[Starter] = "settling")
    <3>1. CASE StarterDone
      BY <3>1 DEF StarterDone, Locked
    <3>2. CASE StarterSets
      <4>1. run[Starter] = "out"
        BY <1>0, <3>2, ThreadFacts DEF StarterSets, ThreadInv, Places
      <4>. QED
        BY <3>2, <4>1 DEF StarterSets, Locked, supervisorVars
    <3>. QED
      BY <1>3, <3>1, <3>2
  <2>2. /\ pc' \in [Thread -> PlaceNames] /\ pc'[Starter] = where
        /\ \A u \in Thread \ {Starter} : pc'[u] = pc[u]
    BY <1>0, <2>1, ThreadFacts DEF ThreadInv, ProviderTypes, PlaceNames
  <2>3. run'[Starter] = "out" /\ \A u \in Thread \ {Starter} : run'[u] = run[u]
    BY <1>0, <2>1, ThreadFacts DEF SupervisorTypeOK
  <2>4. available' \in BOOLEAN
    BY <1>0, <2>1, Zenon DEF ThreadInv, ProviderTypes
  <2>5. ProviderTypes'
    BY <1>0, <1>1, <2>1, <2>2, <2>4, ThreadFacts DEF ThreadInv, ProviderTypes
  <2>6. Places'
    BY <1>0, <2>1, <2>2, <2>3, ThreadFacts DEF ThreadInv, Places
  <2>7. StaysDown'
    BY <1>0, <1>1, <2>1, <2>2, ThreadFacts DEF ThreadInv, StaysDown, HasSupervisor
  <2>8. TrackedSyncs'
    BY <1>0, <1>1, <2>2, ThreadFacts DEF ThreadInv, TrackedSyncs, Stopping
  <2>9. SupervisorTypeOK' /\ Owned' /\ StopsOwn'
    <3>1. faults' \in 0..MaxFaults
      BY <1>0, <1>1 DEF SupervisorTypeOK
    <3>. QED
      BY <1>0, <1>1, <2>1, <2>2, <3>1, ThreadFacts, FrameMoves
  <2>. QED
    BY <2>5, <2>6, <2>7, <2>8, <2>9, TypesSplit DEF ProviderInv
<1>. QED
  BY <1>2, <1>3

\* A step that goes through _try_recover_gateway.
LEMMA RecoverStep ==
    ASSUME ProviderInv, NEW t \in {Agent, Watchdog} \cup Syncs,
           NEW bypass \in BOOLEAN, NEW busy \in {"gating", "mending"},
           TryRecover(t, bypass, busy),
           pc[t] \in {"idle", "asking", "probing", "sending"},
           failures' \in 0..Threshold, tripped' \in BOOLEAN, faults' \in 0..MaxFaults,
           UNCHANGED <<child, proc, foreign, command, stopping, victim, overtaken, lock,
                       available, cooling, active, overlapped>>
    PROVE  ProviderInv'
<1>1. SupervisorTypeOK /\ ThreadInv /\ Owned /\ StopsOwn
  BY TypesSplit DEF ProviderInv, ThreadInv
<1>2. /\ ThreadInv'
      /\ run' \in {run, [run EXCEPT ![t] = "probe"]} /\ run[t] = "out"
      /\ pc'[Agent] \in {"killing", "clearing", "down"} => pc[Agent] = pc'[Agent]
  BY <1>1, TryRecoverMoves
<1>3. SupervisorTypeOK' /\ Owned' /\ StopsOwn'
  <2>1. t \in Thread /\ run[t] \notin Locked
    BY <1>2, ThreadFacts DEF Locked
  <2>. QED
    BY <1>1, <1>2, <2>1, FrameMoves
<1>. QED
  BY <1>2, <1>3, TypesSplit DEF ProviderInv, ThreadInv

\* A step that takes one thread to another place.
LEMMA PlainStep ==
    ASSUME ProviderInv, run' = run, recover' = recover, faults' \in 0..MaxFaults,
           failures' \in 0..Threshold, tripped' \in BOOLEAN,
           UNCHANGED <<child, proc, foreign, command, stopping, victim, overtaken, lock,
                       cooling, active, overlapped>>,
           available' = available \/ (available' = TRUE /\ pc[Watchdog] = "probing"),
           NEW t \in Thread, NEW where \in {"idle", "asking", "off", "waiting", "probing"},
           pc' = [pc EXCEPT ![t] = where],
           \/ t = Agent /\ pc[t] \in {"idle", "asking"} /\ where \in {"idle", "asking"}
           \/ t = Watchdog /\ pc[t] \in {"waiting", "probing"} /\ where \in {"off", "waiting", "probing"}
              /\ (where = "probing" => pc[Agent] # "down")
           \/ t \in Syncs /\ pc[t] = "sending" /\ where = "off"
    PROVE  ProviderInv'
<1>1. SupervisorTypeOK /\ ThreadInv /\ Owned /\ StopsOwn
  BY TypesSplit DEF ProviderInv, ThreadInv
<1>2. ThreadInv' /\ (pc'[Agent] \in {"killing", "clearing", "down"} => pc[Agent] = pc'[Agent])
  BY <1>1, PlainMoves
<1>3. SupervisorTypeOK' /\ Owned' /\ StopsOwn'
  BY <1>1, <1>2, FrameMoves
<1>. QED
  BY <1>2, <1>3, TypesSplit DEF ProviderInv, ThreadInv

\* The watchdog wakes, probes, and mends.
LEMMA WatchSteps ==
    ASSUME ProviderInv, WatchTick \/ WatchProbe
    PROVE  ProviderInv'
<1>0. SupervisorTypeOK /\ ProviderTypes
  BY TypesSplit DEF ProviderInv
<1>1. /\ failures \in 0..Threshold /\ tripped \in BOOLEAN /\ faults \in 0..MaxFaults
      /\ TRUE \in BOOLEAN /\ FALSE \in BOOLEAN /\ 0 \in 0..Threshold
  BY <1>0, LimitsAssumption DEF SupervisorTypeOK, ProviderTypes
<1>2. CASE WatchTick
  <2>. DEFINE where == IF Stopping THEN "off" ELSE "probing"
  <2>1. /\ pc[Watchdog] = "waiting" /\ pc' = [pc EXCEPT ![Watchdog] = where]
        /\ where \in {"off", "probing"} /\ (where = "probing" => pc[Agent] # "down")
        /\ UNCHANGED <<supervisorVars, available, failures, tripped, recover, cooling, active, overlapped>>
    BY <1>2 DEF WatchTick, Stopping
  <2>. HIDE DEF where
  <2>. QED
    BY <1>1, <2>1, ThreadFacts, PlainStep DEF supervisorVars
<1>3. CASE WatchProbe /\ Answers
  <2>1. /\ pc[Watchdog] = "probing" /\ pc' = [pc EXCEPT ![Watchdog] = "waiting"]
        /\ UNCHANGED <<recover, run>>
        /\ UNCHANGED <<child, proc, foreign, command, stopping, victim, overtaken, lock, faults, cooling, active, overlapped>>
    BY <1>3 DEF WatchProbe
  <2>2. CASE UNCHANGED <<available, failures, tripped>>
    BY <1>1, <2>1, <2>2, ThreadFacts, PlainStep
  <2>3. CASE Restore
    <3>1. available' = TRUE /\ failures' \in 0..Threshold /\ tripped' \in BOOLEAN
      BY <1>1, <2>3, Zenon DEF Restore
    <3>. QED
      BY <1>1, <2>1, <3>1, ThreadFacts, PlainStep
  <2>. QED
    BY <1>3, <2>2, <2>3 DEF WatchProbe
<1>4. CASE WatchProbe /\ ~Answers
  <2>1. /\ pc[Watchdog] = "probing" /\ TryRecover(Watchdog, TRUE, "mending")
        /\ UNCHANGED <<available, failures, tripped>>
        /\ UNCHANGED <<child, proc, foreign, command, stopping, victim, overtaken, lock, faults, cooling, active, overlapped>>
    BY <1>4 DEF WatchProbe
  <2>. QED
    BY <1>1, <2>1, RecoverStep
<1>. QED
  BY <1>2, <1>3, <1>4

\* The pauses of the breaker and of the recovery run out.
LEMMA CoolSteps ==
    ASSUME ProviderInv, BreakerCools \/ RecoveryCools
    PROVE  ProviderInv'
<1>1. /\ UNCHANGED <<supervisorVars, pc, available, failures, recover, active, overlapped>>
      /\ tripped' \in BOOLEAN /\ cooling' \in BOOLEAN
  BY TypesSplit DEF BreakerCools, RecoveryCools, ProviderInv, ProviderTypes
<1>2. ProviderTypes'
  BY <1>1, TypesSplit DEF ProviderInv, ProviderTypes
<1>3. SupervisorTypeOK'
  BY <1>1, TypesSplit DEF ProviderInv, SupervisorTypeOK, supervisorVars
<1>. QED
  BY <1>1, <1>2, <1>3, TypesSplit DEF ProviderInv, Places, Owned, Live, StopsOwn, StaysDown, TrackedSyncs,
     Stopping, supervisorVars

\* The agent's requests, but for a captured turn.
LEMMA RequestSteps ==
    ASSUME ProviderInv,
           Request \/ Prefetched \/ PrefetchFails \/ NothingAsked \/ ToolReturns \/ ToolFails
    PROVE  ProviderInv'
<1>0. SupervisorTypeOK /\ ProviderTypes
  BY TypesSplit DEF ProviderInv
<1>1. /\ failures \in 0..Threshold /\ tripped \in BOOLEAN /\ faults \in 0..MaxFaults
      /\ Expired \in 0..Threshold /\ FALSE \in BOOLEAN
  BY <1>0, BreakerFacts DEF SupervisorTypeOK, ProviderTypes
<1>2. CASE Request
  <2>1. /\ pc[Agent] = "idle"
        /\ UNCHANGED <<child, proc, foreign, command, stopping, victim, overtaken, lock, faults, available, tripped, cooling, active, overlapped>>
    BY <1>2 DEF Request
  <2>2. CASE pc' = [pc EXCEPT ![Agent] = "asking"] /\ UNCHANGED <<failures, recover, run>>
    BY <1>1, <2>1, <2>2, ThreadFacts, PlainStep
  <2>3. CASE failures' = Expired /\ TryRecover(Agent, FALSE, "gating")
    BY <1>1, <2>1, <2>3, RecoverStep
  <2>. QED
    BY <1>2, <2>2, <2>3 DEF Request
<1>3. CASE Prefetched \/ ToolReturns
  <2>1. /\ pc[Agent] = "asking" /\ RecordSuccess /\ pc' = [pc EXCEPT ![Agent] = "idle"]
        /\ UNCHANGED <<supervisorVars, available, recover, cooling, active, overlapped>>
    BY <1>3 DEF Prefetched, ToolReturns
  <2>2. failures' \in 0..Threshold /\ tripped' \in BOOLEAN
    BY <1>0, <2>1, BreakerFacts
  <2>. QED
    BY <1>1, <2>1, <2>2, ThreadFacts, PlainStep DEF supervisorVars
<1>4. CASE NothingAsked
  <2>1. /\ pc[Agent] = "asking" /\ failures' \in {failures, Expired} /\ pc' = [pc EXCEPT ![Agent] = "idle"]
        /\ UNCHANGED <<supervisorVars, available, tripped, recover, cooling, active, overlapped>>
    BY <1>4 DEF NothingAsked
  <2>. QED
    BY <1>1, <2>1, ThreadFacts, PlainStep DEF supervisorVars
<1>5. CASE PrefetchFails \/ ToolFails
  <2>1. /\ pc[Agent] = "asking" /\ TryRecover(Agent, FALSE, "mending")
        /\ RecordFailure(failures) \/ RecordFailure(Expired)
        /\ Fault \/ UNCHANGED faults
        /\ UNCHANGED <<child, proc, foreign, command, stopping, victim, overtaken, lock, available, cooling, active, overlapped>>
    BY <1>5 DEF PrefetchFails, ToolFails
  <2>2. failures' \in 0..Threshold /\ tripped' \in BOOLEAN /\ faults' \in 0..MaxFaults
    BY <1>0, <1>1, <2>1, BreakerFacts, FaultFacts
  <2>. QED
    BY <1>1, <2>1, <2>2, RecoverStep
<1>. QED
  BY <1>2, <1>3, <1>4, <1>5

\* A captured turn: the list is pruned, and the new sync joins it.
LEMMA SyncTurnSteps ==
    ASSUME ProviderInv, SyncTurn \/ SyncJoined
    PROVE  ProviderInv'
<1>0. SupervisorTypeOK /\ ThreadInv /\ Owned /\ StopsOwn
  BY TypesSplit DEF ProviderInv, ThreadInv
<1>1. /\ pc[Agent] \in {"asking", "joining"}
      /\ UNCHANGED <<supervisorVars, available, failures, tripped, recover, cooling, overlapped>>
  BY DEF SyncTurn, SyncJoined, StartSync
<1>2. pc \in [Thread -> PlaceNames]
  BY <1>0 DEF ThreadInv, ProviderTypes
<1>3. StillAlive \subseteq Syncs /\ \A s \in Syncs : pc[s] # "off" => s \in StillAlive
  BY <1>0, <1>1 DEF ThreadInv, ProviderTypes, TrackedSyncs, StillAlive, Stopping
<1>4. CASE StartSync
  <2>1. PICK s \in Syncs : /\ pc[s] = "off" /\ active' = StillAlive \cup {s}
                           /\ pc' = [pc EXCEPT ![Agent] = "idle", ![s] = "sending"]
    BY <1>4 DEF StartSync
  <2>2. /\ pc' \in [Thread -> PlaceNames] /\ pc'[Agent] = "idle" /\ pc'[s] = "sending"
        /\ \A u \in Thread \ {Agent, s} : pc'[u] = pc[u]
    BY <1>2, <2>1, ThreadFacts DEF PlaceNames
  <2>3. ProviderTypes'
    BY <1>0, <1>1, <1>3, <2>1, <2>2, ThreadFacts DEF ThreadInv, ProviderTypes
  <2>4. Places'
    BY <1>0, <1>1, <2>1, <2>2, ThreadFacts DEF ThreadInv, Places, supervisorVars
  <2>5. StaysDown' /\ TrackedSyncs'
    BY <1>3, <2>1, <2>2, ThreadFacts DEF StaysDown, TrackedSyncs
  <2>6. SupervisorTypeOK' /\ Owned' /\ StopsOwn'
    BY <1>0, <1>1, <2>2 DEF supervisorVars, SupervisorTypeOK, Owned, Live, StopsOwn
  <2>. QED
    BY <2>3, <2>4, <2>5, <2>6, TypesSplit DEF ProviderInv
<1>5. CASE active' = StillAlive /\ pc' = [pc EXCEPT ![Agent] = "joining"]
  <2>2. /\ pc' \in [Thread -> PlaceNames] /\ pc'[Agent] = "joining"
        /\ \A u \in Thread \ {Agent} : pc'[u] = pc[u]
    BY <1>2, <1>5, ThreadFacts DEF PlaceNames
  <2>3. ProviderTypes'
    BY <1>0, <1>1, <1>3, <1>5, <2>2, ThreadFacts DEF ThreadInv, ProviderTypes
  <2>4. Places'
    BY <1>0, <1>1, <2>2, ThreadFacts DEF ThreadInv, Places, supervisorVars
  <2>5. StaysDown' /\ TrackedSyncs'
    BY <1>3, <1>5, <2>2, ThreadFacts DEF StaysDown, TrackedSyncs
  <2>6. SupervisorTypeOK' /\ Owned' /\ StopsOwn'
    BY <1>0, <1>1, <2>2 DEF supervisorVars, SupervisorTypeOK, Owned, Live, StopsOwn
  <2>. QED
    BY <2>3, <2>4, <2>5, <2>6, TypesSplit DEF ProviderInv
<1>. QED
  BY <1>4, <1>5 DEF SyncTurn, SyncJoined

\* A sync thread ends.
LEMMA SyncSteps ==
    ASSUME ProviderInv, NEW s \in Syncs, SyncStep(s)
    PROVE  ProviderInv'
<1>0. SupervisorTypeOK /\ ProviderTypes
  BY TypesSplit DEF ProviderInv
<1>1. faults \in 0..MaxFaults /\ failures \in 0..Threshold /\ FALSE \in BOOLEAN
  BY <1>0 DEF SupervisorTypeOK, ProviderTypes
<1>2. CASE SyncSent(s)
  <2>1. /\ pc[s] = "sending" /\ RecordSuccess /\ pc' = [pc EXCEPT ![s] = "off"]
        /\ UNCHANGED <<supervisorVars, available, recover, cooling, active, overlapped>>
    BY <1>2 DEF SyncSent
  <2>2. failures' \in 0..Threshold /\ tripped' \in BOOLEAN
    BY <1>0, <2>1, BreakerFacts
  <2>. QED
    BY <1>1, <2>1, <2>2, ThreadFacts, PlainStep DEF supervisorVars
<1>3. CASE SyncFails(s)
  <2>1. /\ pc[s] = "sending" /\ RecordFailure(failures) /\ TryRecover(s, FALSE, "mending")
        /\ Fault \/ UNCHANGED faults
        /\ UNCHANGED <<child, proc, foreign, command, stopping, victim, overtaken, lock, available, cooling, active, overlapped>>
    BY <1>3 DEF SyncFails
  <2>2. failures' \in 0..Threshold /\ tripped' \in BOOLEAN /\ faults' \in 0..MaxFaults
    BY <1>0, <1>1, <2>1, BreakerFacts, FaultFacts
  <2>. QED
    BY <1>1, <2>1, <2>2, RecoverStep
<1>. QED
  BY <1>2, <1>3 DEF SyncStep

\* Shutdown.
LEMMA ShutdownSteps ==
    ASSUME ProviderInv, StopThreads \/ StopGateway \/ EndGateway \/ ShutdownDone
    PROVE  ProviderInv'
<1>0. SupervisorTypeOK /\ ThreadInv /\ Owned /\ StopsOwn
  BY TypesSplit DEF ProviderInv, ThreadInv
<1>1. \E w \in {"stopping", "killing", "clearing", "down"} : pc' = [pc EXCEPT ![Agent] = w]
  BY DEF StopThreads, StopGateway, EndGateway, ShutdownDone
<1>2. PICK w \in {"stopping", "killing", "clearing", "down"} : pc' = [pc EXCEPT ![Agent] = w]
  BY <1>1
<1>3. /\ pc' \in [Thread -> PlaceNames] /\ pc'[Agent] = w
      /\ \A u \in Thread \ {Agent} : pc'[u] = pc[u]
  BY <1>0, <1>2, ThreadFacts DEF ThreadInv, ProviderTypes, PlaceNames
<1>4. pc[Agent] \in {"idle", "stopping", "killing", "clearing"} /\ UNCHANGED <<failures, tripped, recover, cooling>>
  BY DEF StopThreads, StopGateway, EndGateway, ShutdownDone
<1>5. available' \in BOOLEAN /\ active' \subseteq Syncs /\ overlapped' \in BOOLEAN
  BY <1>0 DEF StopThreads, StopGateway, EndGateway, ShutdownDone, ThreadInv, ProviderTypes
<1>6. ProviderTypes'
  BY <1>0, <1>3, <1>4, <1>5, ThreadFacts DEF ThreadInv, ProviderTypes
<1>7. SupervisorTypeOK' /\ Owned' /\ UNCHANGED run
  <2>1. CASE StopThreads
    BY <1>0, <2>1 DEF StopThreads, supervisorVars, SupervisorTypeOK, Owned, Live
  <2>2. CASE StopGateway
    BY <1>0, <2>2, StopMoves DEF StopGateway
  <2>3. CASE EndGateway
    <3>1. overtaken \/ proc \in {victim, NoChild}
      BY <1>0, <2>3 DEF EndGateway, StopsOwn
    <3>. QED
      BY <1>0, <2>3, <3>1, StopMoves DEF EndGateway
  <2>4. CASE ShutdownDone
    BY <1>0, <2>4 DEF ShutdownDone, supervisorVars, SupervisorTypeOK, Owned, Live
  <2>. QED
    BY <2>1, <2>2, <2>3, <2>4
<1>8. Places'
  BY <1>0, <1>3, <1>4, <1>7, ThreadFacts DEF ThreadInv, Places
<1>9. TrackedSyncs'
  BY <1>3 DEF TrackedSyncs, Stopping
<1>10. StopsOwn' /\ StaysDown'
  <2>1. CASE StopThreads
    BY <1>3, <2>1, ThreadFacts, pc'[Agent] = "stopping" DEF StopThreads, StopsOwn, StaysDown
  <2>2. CASE StopGateway
    <3>1. pc'[Agent] = "killing"
      BY <1>0, <2>2, ThreadFacts DEF StopGateway, ThreadInv, ProviderTypes
    <3>. QED
      BY <2>2, <3>1 DEF StopGateway, RequestStop, StopsOwn, StaysDown
  <2>3. CASE EndGateway
    <3>1. pc[Agent] = "killing" /\ pc'[Agent] = "clearing"
      BY <1>0, <2>3, ThreadFacts DEF EndGateway, ThreadInv, ProviderTypes
    <3>2. StopsOwn'
      BY <1>0, <2>3, <3>1 DEF EndGateway, StopChild, StopsOwn
    <3>. QED
      BY <3>1, <3>2 DEF StaysDown
  <2>4. CASE ShutdownDone
    <3>1. /\ pc[Agent] = "clearing" /\ pc'[Agent] = "down"
          /\ pc'[Watchdog] = pc[Watchdog] /\ pc'[Starter] = pc[Starter]
      BY <1>0, <2>4, ThreadFacts DEF ShutdownDone, ThreadInv, ProviderTypes
    <3>2. StopsOwn'
      BY <1>0, <2>4, <3>1 DEF ShutdownDone, supervisorVars, StopsOwn
    <3>3. StaysDown'
      BY <2>4, <3>1 DEF ShutdownDone, StaysDown
    <3>. QED
      BY <3>2, <3>3
  <2>. QED
    BY <2>1, <2>2, <2>3, <2>4
<1>. QED
  BY <1>6, <1>7, <1>8, <1>9, <1>10, TypesSplit DEF ProviderInv

\* The provider's invariant.
LEMMA ProviderInit == Init => ProviderInv
<1>. SUFFICES ASSUME Init PROVE ProviderInv
  OBVIOUS
<1>1. \A t \in Thread : pc[t] = (IF t = Agent THEN "new" ELSE "off") /\ run[t] = "out"
  BY DEF Init, SupervisorInit
<1>2. SupervisorTypeOK
  <2>1. /\ child \in [Child -> ChildState] /\ foreign \subseteq Child
        /\ \A c \in Child : child[c] # "dead"
        /\ foreign \subseteq {c \in Child : child[c] \notin {"none", "dead"}}
    BY DEF Init, SupervisorInit, ChildState
  <2>2. proc = NoChild /\ victim = NoChild /\ lock = Nobody /\ Nobody \notin Thread
    BY NobodyAssumption DEF Init, SupervisorInit
  <2>3. command \in BOOLEAN /\ stopping \in BOOLEAN /\ overtaken \in BOOLEAN
    BY Zenon DEF Init, SupervisorInit
  <2>4. run \in [Thread -> RunState] /\ faults \in 0..MaxFaults
    BY MaxFaultsAssumption DEF Init, SupervisorInit, RunState
  <2>5. \A t \in Thread : lock = t <=> run[t] \in {"reprobe", "spawn", "health"}
    BY <1>1, <2>2
  <2>. QED
    BY <2>1, <2>2, <2>3, <2>4, <2>5 DEF SupervisorTypeOK
<1>3. ProviderTypes
  <2>1. pc \in [Thread -> PlaceNames]
    BY DEF Init, PlaceNames
  <2>2. failures \in 0..Threshold /\ active \subseteq Syncs /\ recover = Nobody
    BY LimitsAssumption DEF Init
  <2>3. /\ available \in BOOLEAN /\ tripped \in BOOLEAN
        /\ cooling \in BOOLEAN /\ overlapped \in BOOLEAN
    BY Zenon DEF Init
  <2>4. \A t \in Thread : recover = t <=> pc[t] \in {"gating", "mending"}
    BY <1>1, <2>2, NobodyAssumption
  <2>. QED
    BY <2>1, <2>2, <2>3, <2>4 DEF ProviderTypes
<1>4. Places /\ StopsOwn /\ StaysDown /\ TrackedSyncs
  BY <1>1, ThreadFacts DEF Places, StopsOwn, StaysDown, TrackedSyncs
<1>5. Owned
  BY DEF Init, SupervisorInit, Owned, Live
<1>. QED
  BY <1>2, <1>3, <1>4, <1>5, TypesSplit DEF ProviderInv

\* Every step of the provider and its supervisor keeps the invariant.
LEMMA ProviderStep == ProviderInv /\ [Next]_vars => ProviderInv'
<1>. SUFFICES ASSUME ProviderInv, [Next]_vars
              PROVE  ProviderInv'
  OBVIOUS
<1>1. CASE GatewayStep /\ UNCHANGED providerVars
  BY <1>1, SuperviseStep
<1>2. ASSUME NEW t \in Thread, Supervise(t) \/ RecoverDone(t)
      PROVE  ProviderInv'
  BY <1>2, SuperviseStep, RecoverDoneStep DEF Supervise
<1>3. ASSUME NEW s \in Syncs, SyncStep(s)
      PROVE  ProviderInv'
  BY <1>3, SyncSteps
<1>4. CASE UNCHANGED vars
  BY <1>4, TypesSplit DEF vars, supervisorVars, providerVars, ProviderInv, SupervisorTypeOK,
     ProviderTypes, Places, Owned, Live, StopsOwn, StaysDown, TrackedSyncs, Stopping
<1>5. CASE AgentStep
  BY <1>5, RequestSteps, SyncTurnSteps, ShutdownSteps DEF AgentStep
<1>. QED
  BY <1>1, <1>2, <1>3, <1>4, <1>5, StarterSteps, WatchSteps, CoolSteps, RequestSteps,
     ShutdownSteps DEF Next

\* The inductive invariant of the provider holds in every reachable state.
LEMMA ProviderInvariance == Spec => []ProviderInv
  BY ProviderInit, ProviderStep, PTL DEF Spec

\* Every variable of the provider and its supervisor keeps its type.
THEOREM ProviderTypeCorrect == Spec => []TypeOK
  BY ProviderInvariance, PTL DEF ProviderInv

\* One thread at a time starts a gateway and waits for it.
THEOREM SingleFlightHolds == Spec => []SingleFlight
<1>1. ProviderInv => SingleFlight
  BY NobodyAssumption DEF ProviderInv, TypeOK, SupervisorTypeOK, SingleFlight
<1>. QED
  BY <1>1, ProviderInvariance, PTL

\* A running gateway is one the supervisor can still stop, another process
\* owns, a later start left behind, or whose start overtook a shutdown.
THEOREM OwnedHolds == Spec => []Owned
  BY ProviderInvariance, PTL DEF ProviderInv

\* A shutdown that nothing overtook or outlived releases what it says.
THEOREM CleanShutdownHolds == Spec => []CleanShutdown
<1>1. ProviderInv => CleanShutdown
  BY NoChildAssumption DEF ProviderInv, StopsOwn, StaysDown, Owned, Live, CleanShutdown
<1>. QED
  BY <1>1, ProviderInvariance, PTL

\* Until shutdown takes the list over it names every sync that still runs.
THEOREM TrackedSyncsHolds == Spec => []TrackedSyncs
  BY ProviderInvariance, PTL DEF ProviderInv
=============================================================================
