---------------------------- MODULE PollerProofs ----------------------------
(***************************************************************************)
(* The safety properties of the issue poller, proved for every board, page *)
(* size and page limit, any number of changes and of passes given up:      *)
(* history is not replayed, nothing is left behind the cursor, and an end  *)
(* that is recorded has been announced.                                    *)
(***************************************************************************)
EXTENDS Poller, FiniteSetTheorems, TLAPS

Statuses == Open \cup Terminal

IssueRecords == [status : {"none"} \cup Statuses, created : Nat, updated : Nat, stamp : Nat]
PageRecords == [id : Issues, status : Statuses, created : Nat, updated : Nat, stamp : Nat]
StateRecords == [status : {"none"} \cup Statuses, ts : Nat, updated : Nat]

\* What is on the board, and what was read from it.
BoardInv ==
  /\ writes \in 0..MaxWrites /\ now = Start + writes
  /\ issues \in [Issues -> IssueRecords]
  /\ \A i \in Issues :
       /\ issues[i].created <= issues[i].stamp /\ issues[i].stamp <= issues[i].updated
       /\ issues[i].updated <= now
       /\ ~Exists(i) => issues[i].updated = 0

StoreInv ==
  /\ issue_state \in [Issues -> StateRecords]
  /\ \A i \in Issues : issue_state[i].updated <= issues[i].updated /\ issue_state[i].ts <= now
  /\ events \subseteq Issues \X Terminal \X (0..now)
  /\ cursor \in 0..now /\ bootstrap_at \in 0..now /\ first_seed \in 0..now
  /\ cursor = 0 <=> bootstrap_at = 0
  /\ bootstrap_at # 0 => first_seed # 0 /\ bootstrap_at >= first_seed

\* The places of the poller thread and what its locals are there.
Passing == at \in {"fetch", "emit", "upsert", "finish"}

PassInv ==
  /\ at \in Places /\ mode \in {"tick", "reconcile"}
  /\ latest \in 0..now /\ since \in Int /\ offset \in Nat /\ {changed, shifted} \subseteq BOOLEAN
  /\ at = "idle" => offset = 0 /\ latest = 0
  /\ at = "idle" => mode = "tick" /\ changed = FALSE
  /\ at = "seed" => mode = "tick" /\ latest = 0 /\ offset = 0 /\ cursor = 0 /\ first_seed # 0 /\ changed = FALSE
  /\ at \in {"emit", "upsert"} <=> page # {} /\ at # "seed"
  /\ mode = "reconcile" => latest = 0 /\ (cursor # 0 \/ SlowBootstrap)
  /\ mode = "tick" /\ Passing => cursor # 0 /\ since = poll_since /\ cursor <= latest

\* One row per issue, read from the board at some time.
PageInv ==
  /\ page \subseteq PageRecords
  /\ \A r \in page :
       /\ Exists(r.id) /\ r.created <= r.stamp /\ r.stamp <= r.updated /\ r.updated <= issues[r.id].updated
       /\ at = "seed" => r.status \in Open
  /\ \A r, q \in page : r.id = q.id => r = q

Types == BoardInv /\ StoreInv /\ PassInv /\ PageInv

\* What makes a difference to a recorded state is newer than the baseline.
Recorded(r) == [status |-> r.status, ts |-> terminal_ts(r), updated |-> r.updated]

Newer(state, row) == is_transition(state, row) => terminal_ts(row) >= first_seed - Delay

HistoryInv ==
  /\ first_seed = 0 => at = "idle" /\ cursor = 0 /\ \A i \in Issues : issue_state[i].status = "none"
  /\ NoHistoryReplay
  /\ \A i \in Issues : Exists(i) => Newer(issue_state[i], Row(i))
  /\ \A r \in page : Newer(issue_state[r.id], r) /\ Newer(Recorded(r), Row(r.id))

\* What is not recorded is not behind the cursor, nor behind what the pass
\* has reached or will reach before it gets there.
Unrecorded(i) == bootstrap_at < issues[i].updated /\ issue_state[i].updated # issues[i].updated

NotBehind(i, time) == issues[i].updated + Overlap >= time

CursorInv ==
  ~shifted =>
  /\ \A i \in Issues : Unrecorded(i) => NotBehind(i, cursor) /\ NotBehind(i, latest)
  /\ \A r \in page : r.updated # issues[r.id].updated =>
       /\ NotBehind(r.id, cursor) /\ NotBehind(r.id, latest)
       /\ \A q \in page : NotBehind(r.id, q.updated)
  /\ mode = "tick" /\ Passing =>
       \A i \in Issues, r \in page : Unrecorded(i) =>
         \/ NotBehind(i, r.updated)
         \/ \E q \in page : q.id = i /\ q.updated = issues[i].updated /\ Before(q, r)
  /\ mode = "tick" /\ Passing /\ ~changed =>
       /\ \A r \in page : r = Row(r.id)
       /\ at # "finish" => \A i \in Issues :
            /\ Exists(i) /\ issues[i].updated >= since
            /\ Position(Row(i), listing(since)) < offset
            => issue_state[i].updated = issues[i].updated \/ Row(i) \in page

\* The event is stored before the state it was derived from is replaced.
AnnouncedInv == at = "upsert" => \A r \in page : First(r) /\ is_news(r) => EventOf(r) \in events

PollerInv == Types /\ (~SlowBootstrap => HistoryInv) /\ CursorInv /\ AnnouncedInv

-----------------------------------------------------------------------------
USE DEF Open, Terminal, Statuses

\* The time an end is known by, of a record of the board.
LEMMA TerminalTime ==
  ASSUME NEW r, r.stamp \in Nat, r.updated \in Nat
  PROVE  terminal_ts(r) \in {0, r.stamp, r.updated}
  BY DEF terminal_ts

\* The time an end is known by, of a row that shows one.
LEMMA TerminalRow ==
  ASSUME NEW r, r.status \in Terminal
  PROVE  terminal_ts(r) = r.stamp \/ terminal_ts(r) = r.updated
  BY DEF terminal_ts

\* The listing is finite, and made of rows of issues that exist.
LEMMA Listed ==
  ASSUME BoardInv, NEW from \in Int
  PROVE  /\ IsFiniteSet(listing(from))
         /\ listing(from) \subseteq PageRecords
         /\ \A row \in listing(from) : row.id \in Issues /\ Exists(row.id) /\ row = Row(row.id)
                                       /\ issues[row.id].updated >= from
<1>. DEFINE ids == {j \in Issues : Exists(j) /\ issues[j].updated >= from}
<1>1. IsFiniteSet(ids)
  BY PollerAssumption, FS_Subset
<1>2. listing(from) = {Row(i) : i \in ids}
  BY DEF listing
<1>3. IsFiniteSet({Row(i) : i \in ids})
  <2>. DEFINE T == {Row(i) : i \in ids}
              f == [i \in ids |-> Row(i)]
  <2>1. f \in Surjection(ids, T)
    BY DEF Surjection
  <2>. QED
    BY <1>1, <2>1, FS_Surjection
<1>4. \A i \in ids : Row(i) \in PageRecords /\ Row(i).id = i
  BY DEF Row, PageRecords, BoardInv, IssueRecords, Exists
<1>. QED
  BY <1>2, <1>3, <1>4

\* Rows that come later have no smaller position.
LEMMA Positions ==
  ASSUME NEW rows \in SUBSET PageRecords, IsFiniteSet(rows), NEW a \in rows, NEW b \in rows
  PROVE  /\ Position(a, rows) \in Nat
         /\ Position(a, rows) < Position(b, rows) => ~Before(b, a)
<1>. DEFINE sa == {o \in rows : Before(o, a)}
            sb == {o \in rows : Before(o, b)}
<1>1. IsFiniteSet(sa) /\ IsFiniteSet(sb)
  BY FS_Subset
<1>0. \A o \in rows : o.id \in Nat /\ o.updated \in Nat
  BY PollerAssumption DEF PageRecords
<1>2. Before(b, a) => sb \subseteq sa
  BY <1>0 DEF Before
<1>3. Before(b, a) => Cardinality(sb) <= Cardinality(sa)
  BY <1>1, <1>2, FS_Subset
<1>4. Cardinality(sa) \in Nat /\ Cardinality(sb) \in Nat
  BY <1>1, FS_CardinalityType
<1>. QED
  BY <1>3, <1>4 DEF Position

\* Two rows are the same or one comes before the other.
LEMMA Ordered ==
  ASSUME NEW a \in PageRecords, NEW b \in PageRecords, a.id # b.id
  PROVE  /\ Before(a, b) \/ Before(b, a)
         /\ ~(Before(a, b) /\ Before(b, a))
         /\ Before(a, b) => a.updated <= b.updated
<1>1. {a.id, b.id, a.updated, b.updated} \subseteq Nat
  BY PollerAssumption DEF PageRecords
<1>. QED
  BY <1>1 DEF Before

\* A baseline request lists rows of issues that are open.
LEMMA ListedOpen ==
  ASSUME ListOpen, NEW r \in page'
  PROVE  \E i \in Issues : r = Row(i) /\ issues[i].status \in Open
<1>1. PICK k \in 1..Len(OpenStatuses) : page' \in issues_with_status(OpenStatuses[k])
  BY DEF ListOpen
<1>2. OpenStatuses[k] \in Open
  BY <1>1 DEF OpenStatuses
<1>. QED
  BY <1>1, <1>2 DEF issues_with_status

\* Nothing is behind a cursor that stands at the beginning of time.
LEMMA BehindNothing ==
    ASSUME NEW i \in Issues, issues[i].updated \in Nat
    PROVE  NotBehind(i, 0)
BY PollerAssumption DEF NotBehind

-----------------------------------------------------------------------------
\* The initial states satisfy the invariant.
LEMMA InvInit == Init => PollerInv
<1>. SUFFICES ASSUME Init PROVE PollerInv
  OBVIOUS
<1>. USE PollerAssumption DEF Init, Start
<1>1. BoardInv
  BY DEF BoardInv, NoIssue, IssueRecords, Exists
<1>2. StoreInv
  <2>1. issue_state \in [Issues -> StateRecords]
    BY DEF StateRecords
  <2>2. \A i \in Issues : issues[i].updated >= 0
    BY <1>1 DEF BoardInv, IssueRecords
  <2>. QED
    BY <2>1, <2>2 DEF StoreInv
<1>3. PassInv /\ PageInv
  <2>1. page = {} /\ at = "idle" /\ mode = "tick" /\ latest = 0 /\ offset = 0 /\ since = 0 /\ ~changed /\ ~shifted
        /\ changed \in BOOLEAN /\ shifted \in BOOLEAN
    OBVIOUS
  <2>2. latest \in 0..now /\ since \in Int /\ offset \in Nat
    OBVIOUS
  <2>. QED
    BY <2>1, <2>2 DEF PassInv, PageInv, Places, Passing
<1>4. HistoryInv
  BY DEF HistoryInv, NoHistoryReplay, Newer, is_transition
<1>5. CursorInv /\ AnnouncedInv
  <2>1. \A i \in Issues : issues[i].updated \in Nat
    BY <1>1 DEF BoardInv, IssueRecords
  <2>2. cursor = 0 /\ latest = 0 /\ page = {} /\ at = "idle"
    OBVIOUS
  <2>3. \A i \in Issues : NotBehind(i, 0)
    BY <2>1, BehindNothing
  <2>. QED
    BY <2>2, <2>3 DEF CursorInv, AnnouncedInv, Passing
<1>. QED
  BY <1>1, <1>2, <1>3, <1>4, <1>5 DEF PollerInv, Types

-----------------------------------------------------------------------------
\* What a change of the board comes to, whatever it is.
Existing == [status : Statuses, created : Nat, updated : Nat, stamp : Nat]

Changed(i, issue) ==
  /\ issues' = [issues EXCEPT ![i] = issue]
  /\ issue.created <= issue.stamp /\ issue.stamp <= issue.updated
  /\ issues[i].updated <= issue.updated /\ issue.updated <= now' /\ issue.updated >= now' - Delay
  /\ \/ issue.stamp = issue.updated
     \/ Exists(i) /\ issue.status = issues[i].status /\ issue.stamp = issues[i].stamp
  /\ now' = now + 1 /\ writes' = writes + 1 /\ writes < MaxWrites
  /\ changed' = (mode = "tick" /\ at \notin {"idle", "seed"})
  /\ UNCHANGED <<store, at, mode, since, offset, pages, page, full, latest, faults, first_seed, shifted>>

\* Every act on the board is a change of that form.
LEMMA BoardStep ==
  ASSUME BoardInv, Board
  PROVE  \E i \in Issues, issue \in Existing : Changed(i, issue)
<1>1. PICK i \in Issues, t \in (now' - Delay)..now' :
        Create(i, t) \/ Touch(i, t) \/ \E s \in Open \cup Terminal : Move(i, s, t)
  BY DEF Board
<1>2. now' = now + 1 /\ now \in Nat /\ t \in Nat /\ t >= now' - Delay /\ t <= now' /\ issues[i].updated \in Nat
  BY PollerAssumption DEF Board, BoardInv, IssueRecords, Start
<1>3. ASSUME NEW issue \in Existing, Write(i, issue), issue.updated = t, issues[i].updated <= t,
             issue.created <= issue.stamp, issue.stamp <= t,
             issue.stamp = t \/ (Exists(i) /\ issue.status = issues[i].status /\ issue.stamp = issues[i].stamp)
      PROVE  Changed(i, issue)
  BY <1>2, <1>3 DEF Write, Changed
<1>4. CASE Create(i, t)
  <2>. DEFINE issue == [status |-> "todo", created |-> t, updated |-> t, stamp |-> t]
  <2>1. issue \in Existing
    BY <1>2 DEF Existing
  <2>2. issues[i].updated <= t /\ Write(i, issue)
    BY <1>2, <1>4 DEF Create, BoardInv
  <2>3. t <= t
    BY <1>2
  <2>4. issue.updated = t /\ issue.created = t /\ issue.stamp = t
    OBVIOUS
  <2>. HIDE DEF issue
  <2>. QED
    BY <1>3, <2>1, <2>2, <2>3, <2>4
<1>5. CASE Touch(i, t)
  <2>. DEFINE issue == [issues[i] EXCEPT !.updated = t]
  <2>1. issues[i] \in IssueRecords /\ issues[i].status \in Statuses
    BY <1>5 DEF Touch, Exists, BoardInv, IssueRecords
  <2>2. issue \in Existing /\ issue.updated = t /\ issue.status = issues[i].status /\ issue.stamp = issues[i].stamp
        /\ issue.created = issues[i].created
    BY <1>2, <2>1 DEF Existing, IssueRecords
  <2>3. Exists(i) /\ Write(i, issue) /\ issues[i].updated <= t
    BY <1>2, <1>5 DEF Touch
  <2>. HIDE DEF issue
  <2>4. issue.created <= issue.stamp /\ issue.stamp <= t
    BY <1>2, <2>1, <2>2, <2>3 DEF BoardInv, IssueRecords
  <2>. QED
    BY <1>3, <2>2, <2>3, <2>4
<1>6. ASSUME NEW s \in Open \cup Terminal, Move(i, s, t)
      PROVE  \E issue \in Existing : Changed(i, issue)
  <2>. DEFINE issue == [issues[i] EXCEPT !.status = s, !.updated = t, !.stamp = t]
  <2>1. issues[i] \in IssueRecords
    BY DEF BoardInv
  <2>2. issue \in Existing /\ issue.updated = t /\ issue.stamp = t /\ issue.created = issues[i].created
    BY <1>2, <2>1 DEF Existing, IssueRecords
  <2>3. Write(i, issue) /\ issues[i].updated <= t
    BY <1>2, <1>6 DEF Move
  <2>. HIDE DEF issue
  <2>4. issue.created <= issue.stamp /\ issue.stamp <= t
    BY <1>2, <2>1, <2>2, <2>3 DEF BoardInv, IssueRecords
  <2>. QED
    BY <1>3, <2>2, <2>3, <2>4
<1>. QED
  BY <1>1, <1>4, <1>5, <1>6

\* Every step of the poller leaves the board alone.
Polls == Tick \/ StartReconcile \/ Pages \/ GiveUp

\* The poller only reads the board.
LEMMA PollsReads ==
  ASSUME Polls
  PROVE  UNCHANGED <<paperclip, writes>>
  BY DEF Polls, Tick, Bootstrap, ListOpen, SeedRow, EndBootstrap, StartPoll, StartReconcile, Pages, FetchPage, Emit, Upsert,
         Finish, GiveUp, history

\* A change of the board keeps the invariant.
LEMMA BoardKeepsTypes ==
  ASSUME Types, NEW i \in Issues, NEW issue \in Existing, Changed(i, issue)
  PROVE  Types'
<1>. USE PollerAssumption DEF Types, Changed
<1>1. now \in Nat /\ now' = now + 1 /\ \A j \in Issues : issues'[j] = IF j = i THEN issue ELSE issues[j]
  BY DEF BoardInv, Start
<1>2. BoardInv'
  <2>1. issue \in IssueRecords /\ issue.status # "none"
    BY DEF Existing, IssueRecords
  <2>2. issues' \in [Issues -> IssueRecords]
    BY <2>1 DEF BoardInv
  <2>3. ASSUME NEW j \in Issues
        PROVE  /\ issues'[j].created <= issues'[j].stamp /\ issues'[j].stamp <= issues'[j].updated
               /\ issues'[j].updated <= now'
               /\ ~Exists(j)' => issues'[j].updated = 0
    <3>1. issues[j].updated <= now => issues[j].updated <= now'
      BY <1>1 DEF BoardInv, IssueRecords
    <3>. QED
      BY <1>1, <2>1, <3>1 DEF BoardInv, Exists
  <2>. QED
    BY <2>2, <2>3 DEF BoardInv, Start
<1>3. StoreInv'
  <2>1. \A j \in Issues : issues[j].updated <= issues'[j].updated /\ issues[j].updated \in Nat /\ issues'[j].updated \in Nat
    BY <1>1, <1>2 DEF BoardInv, IssueRecords
  <2>2. \A j \in Issues : issue_state'[j].updated <= issues'[j].updated /\ issue_state'[j].ts <= now'
    BY <1>1, <2>1 DEF StoreInv, StateRecords, store
  <2>. QED
    BY <1>1, <2>2 DEF StoreInv, store
<1>4. PassInv'
  BY <1>1 DEF PassInv, Passing, poll_since, store
<1>5. PageInv'
  <2>1. ASSUME NEW r \in page
        PROVE  Exists(r.id)' /\ r.updated <= issues'[r.id].updated
    <3>1. r.id \in Issues /\ r.updated \in Nat /\ issues[r.id].updated \in Nat /\ issue.updated \in Nat
      BY DEF PageInv, PageRecords, BoardInv, IssueRecords, Existing
    <3>2. r.updated <= issues[r.id].updated /\ Exists(r.id)
      BY DEF PageInv
    <3>. QED
      BY <1>1, <3>1, <3>2 DEF Exists, Existing
  <2>. QED
    BY <2>1 DEF PageInv
<1>. QED
  BY <1>2, <1>3, <1>4, <1>5

\* A change is stamped no earlier than the delay before it is seen.
LEMMA BoardKeepsHistory ==
  ASSUME Types, HistoryInv, NEW i \in Issues, NEW issue \in Existing, Changed(i, issue)
  PROVE  HistoryInv'
<1>. USE PollerAssumption DEF Types, Changed
<1>1. now \in Nat /\ now' = now + 1 /\ first_seed \in 0..now /\ first_seed' = first_seed
      /\ \A j \in Issues : issues'[j] = IF j = i THEN issue ELSE issues[j]
  BY DEF BoardInv, StoreInv, Start
<1>2. \A j \in Issues \ {i} : Row(j)' = Row(j) /\ Exists(j)' = Exists(j)
  BY <1>1 DEF Row, Exists
<1>3. ASSUME NEW state \in StateRecords, Exists(i) => Newer(state, Row(i))
      PROVE  Newer(state, Row(i))'
  <2>. DEFINE new == [id |-> i, status |-> issue.status, created |-> issue.created, updated |-> issue.updated,
                      stamp |-> issue.stamp]
  <2>1. Row(i)' = new
    BY <1>1 DEF Row
  <2>2. issue.updated \in Nat /\ issue.stamp \in Nat /\ issue.updated >= first_seed - Delay
    BY <1>1 DEF Existing
  <2>3. SUFFICES ASSUME is_transition(state, new)
                 PROVE  terminal_ts(new) >= first_seed - Delay
    BY <1>1, <2>1 DEF Newer, is_transition, terminal_ts
  <2>4. CASE issue.stamp = issue.updated
    BY <2>2, <2>3, <2>4 DEF is_transition, terminal_ts
  <2>5. CASE Exists(i) /\ issue.status = issues[i].status /\ issue.stamp = issues[i].stamp
    <3>1. CASE terminal_ts(new) = issue.updated
      BY <2>2, <3>1
    <3>2. CASE terminal_ts(new) # issue.updated
      <4>1. terminal_ts(new) = issue.stamp /\ (issue.status = "done" \/ (issue.status = "blocked" /\ BlockedColumn))
        BY <2>3, <3>2 DEF is_transition, terminal_ts
      <4>2. terminal_ts(Row(i)) = issue.stamp
        BY <2>5, <4>1 DEF terminal_ts, Row
      <4>3. is_transition(state, Row(i))
        BY <2>3, <2>5, <4>1, <4>2 DEF is_transition, Row
      <4>. QED
        BY <1>3, <2>5, <4>1, <4>2, <4>3 DEF Newer
    <3>. QED
      BY <3>1, <3>2
  <2>. QED
    BY <2>4, <2>5
<1>4. ASSUME NEW j \in Issues, Exists(j)'
      PROVE  Newer(issue_state[j], Row(j))'
  <2>1. issue_state' = issue_state /\ issue_state[j] \in StateRecords
    BY DEF StoreInv, store
  <2>3. CASE j = i
    BY <1>3, <2>1, <2>3 DEF HistoryInv, Newer
  <2>4. CASE j # i
    BY <1>1, <1>2, <1>4, <2>1, <2>4 DEF HistoryInv, Newer, is_transition, terminal_ts
  <2>. QED
    BY <2>3, <2>4
<1>5. ASSUME NEW r \in page
      PROVE  Newer(issue_state[r.id], r)' /\ Newer(Recorded(r), Row(r.id))'
  <2>1. issue_state' = issue_state /\ r \in PageRecords /\ r.id \in Issues /\ Exists(r.id)
    BY DEF store, PageInv, PageRecords
  <2>2. Recorded(r) \in StateRecords
    BY <2>1, TerminalTime DEF Recorded, StateRecords, PageRecords
  <2>3. Newer(issue_state[r.id], r) /\ Newer(Recorded(r), Row(r.id))
    BY DEF HistoryInv
  <2>4. Newer(issue_state[r.id], r)'
    BY <1>1, <2>1, <2>3 DEF Newer
  <2>5. CASE r.id = i
    BY <1>3, <2>2, <2>3, <2>4, <2>5
  <2>6. CASE r.id # i
    <3>1. Row(r.id)' = Row(r.id)
      BY <1>2, <2>1, <2>6
    <3>. QED
      BY <1>1, <2>3, <2>4, <3>1 DEF Newer
  <2>. QED
    BY <2>5, <2>6
<1>6. NoHistoryReplay'
  BY <1>1 DEF HistoryInv, NoHistoryReplay, store
<1>7. page' = page /\ issue_state' = issue_state /\ cursor' = cursor /\ at' = at
  BY DEF store
<1>. QED
  BY <1>1, <1>4, <1>5, <1>6, <1>7 DEF HistoryInv

\* A change that becomes visible now is not behind what was read before.
LEMMA BoardKeepsCursor ==
  ASSUME Types, CursorInv, NEW i \in Issues, NEW issue \in Existing, Changed(i, issue)
  PROVE  CursorInv'
<1>. USE PollerAssumption DEF Types
<1>1. now \in Nat /\ now' = now + 1 /\ \A j \in Issues : issues'[j] = IF j = i THEN issue ELSE issues[j]
  BY DEF BoardInv, Start, Changed
<1>2. /\ page' = page /\ issue_state' = issue_state /\ cursor' = cursor /\ bootstrap_at' = bootstrap_at
      /\ latest' = latest /\ at' = at /\ mode' = mode /\ shifted' = shifted
      /\ changed' = (mode = "tick" /\ at \notin {"idle", "seed"})
  BY DEF Changed, store
<1>3. \A time \in Int : time <= now => issue.updated + Overlap >= time
  <2>1. issue.updated \in Nat /\ issue.updated >= now' - Delay /\ Delay <= Overlap /\ Delay \in Nat /\ Overlap \in Nat
    BY DEF Changed, Existing
  <2>. QED
    BY <1>1, <2>1
<1>4. cursor \in Int /\ cursor <= now /\ latest \in Int /\ latest <= now
  BY <1>1 DEF StoreInv, PassInv
<1>5. ASSUME NEW r \in page
      PROVE  r.id \in Issues /\ r.updated \in Int /\ r.updated <= now
  <2>1. r.id \in Issues /\ r.updated \in Nat /\ r.updated <= issues[r.id].updated
    BY DEF PageInv, PageRecords
  <2>2. issues[r.id].updated \in Nat /\ issues[r.id].updated <= now
    BY <2>1 DEF BoardInv, IssueRecords
  <2>. QED
    BY <1>1, <2>1, <2>2
<1>. SUFFICES ASSUME ~shifted
              PROVE  CursorInv'
  BY <1>2 DEF CursorInv
<1>6. ASSUME NEW j \in Issues, Unrecorded(j)'
      PROVE  NotBehind(j, cursor)' /\ NotBehind(j, latest)'
  <2>1. CASE j = i
    BY <1>1, <1>2, <1>3, <1>4, <2>1 DEF NotBehind
  <2>2. CASE j # i
    BY <1>1, <1>2, <1>6, <2>2 DEF NotBehind, Unrecorded, CursorInv
  <2>. QED
    BY <2>1, <2>2
<1>7. ASSUME NEW r \in page, r.updated # issues'[r.id].updated
      PROVE  /\ NotBehind(r.id, cursor)' /\ NotBehind(r.id, latest)'
             /\ \A q \in page : NotBehind(r.id, q.updated)'
  <2>1. CASE r.id = i
    BY <1>1, <1>2, <1>3, <1>4, <1>5, <2>1 DEF NotBehind
  <2>2. CASE r.id # i
    BY <1>1, <1>2, <1>5, <1>7, <2>2 DEF NotBehind, CursorInv
  <2>. QED
    BY <2>1, <2>2
<1>8. ASSUME mode = "tick", Passing, NEW j \in Issues, NEW r \in page, Unrecorded(j)'
      PROVE  \/ NotBehind(j, r.updated)'
             \/ \E q \in page : q.id = j /\ q.updated = issues'[j].updated /\ Before(q, r)
  <2>1. CASE j = i
    BY <1>1, <1>3, <1>5, <2>1 DEF NotBehind
  <2>2. CASE j # i
    <3>1. Unrecorded(j) /\ issues'[j] = issues[j]
      BY <1>1, <1>2, <1>8, <2>2 DEF Unrecorded
    <3>2. NotBehind(j, r.updated) \/ \E q \in page : q.id = j /\ q.updated = issues[j].updated /\ Before(q, r)
      BY <1>8, <3>1 DEF CursorInv
    <3>. QED
      BY <3>1, <3>2 DEF NotBehind
  <2>. QED
    BY <2>1, <2>2
<1>9. mode = "tick" /\ Passing => changed'
  BY <1>2 DEF Passing
<1>. QED
  BY <1>2, <1>6, <1>7, <1>8, <1>9 DEF CursorInv, Passing

\* A change of the board does not touch a row that was read before it.
LEMMA BoardKeepsAnnounced ==
  ASSUME AnnouncedInv, NEW i, NEW issue, Changed(i, issue)
  PROVE  AnnouncedInv'
<1>1. UNCHANGED <<at, page, events, mode, issue_state, bootstrap_at>>
  BY DEF Changed, store
<1>. QED
  BY <1>1 DEF AnnouncedInv, First, is_news, is_transition, late_terminal, fresh, terminal_ts

-----------------------------------------------------------------------------
\* The poller's steps keep the types.
LEMMA Resting ==
  ASSUME Types, Rest, UNCHANGED <<issues, writes, now, shifted>>
  PROVE  BoardInv' /\ PassInv' /\ PageInv'
<1>. USE PollerAssumption DEF Types, Rest
<1>1. BoardInv'
  BY DEF BoardInv, Exists, Start
<1>2. now \in Nat /\ shifted \in BOOLEAN
  BY DEF BoardInv, Start, PassInv
<1>3. at' = "idle" /\ mode' = "tick" /\ since' \in Int /\ offset' = 0 /\ latest' = 0 /\ changed' = FALSE /\ page' = {}
  OBVIOUS
<1>4. PassInv'
  <2>1. latest' \in 0..now' /\ since' \in Int /\ offset' \in Nat
    BY <1>2, <1>3
  <2>2. {changed', shifted'} \subseteq BOOLEAN
    BY <1>2, <1>3
  <2>. QED
    BY <1>3, <2>1, <2>2 DEF PassInv, Passing, Places
<1>5. PageInv'
  BY <1>3 DEF PageInv
<1>. QED
  BY <1>1, <1>4, <1>5

\* What is recorded of a row has the types of the store.
LEMMA RowTypes ==
  ASSUME Types, NEW row \in page
  PROVE  /\ Recorded(row) \in StateRecords /\ terminal_ts(row) \in 0..now
         /\ row.id \in Issues /\ row.updated \in 0..now /\ row.updated <= issues[row.id].updated
<1>1. row.id \in Issues /\ row.updated \in Nat /\ row.stamp \in Nat /\ row.status \in Statuses
  BY DEF Types, PageInv, PageRecords
<1>2. row.stamp <= row.updated /\ row.updated <= issues[row.id].updated
  BY DEF Types, PageInv
<1>3. issues[row.id].updated \in Nat /\ issues[row.id].updated <= now
  BY <1>1 DEF Types, BoardInv, IssueRecords
<1>5. now \in Nat
  BY PollerAssumption DEF Types, BoardInv, Start
<1>4. terminal_ts(row) \in {0, row.stamp, row.updated}
  BY <1>1, TerminalTime
<1>. QED
  BY <1>1, <1>2, <1>3, <1>4, <1>5 DEF Recorded, StateRecords

\* Recording a row keeps the types of the store.
LEMMA Recording ==
  ASSUME Types, NEW row \in page, upsert_issue_state(row), UNCHANGED <<now, issues, events, cursor, bootstrap_at, first_seed>>
  PROVE  /\ StoreInv' /\ issue_state'[row.id] = Recorded(row)
         /\ \A i \in Issues \ {row.id} : issue_state'[i] = issue_state[i]
<1>1. Recorded(row) \in StateRecords /\ terminal_ts(row) \in 0..now
      /\ row.id \in Issues /\ row.updated \in 0..now /\ row.updated <= issues[row.id].updated
  BY RowTypes
<1>2. issue_state' = [issue_state EXCEPT ![row.id] = Recorded(row)]
  BY DEF upsert_issue_state, Recorded
<1>3. issue_state' \in [Issues -> StateRecords] /\ issue_state'[row.id] = Recorded(row)
      /\ \A i \in Issues \ {row.id} : issue_state'[i] = issue_state[i]
  BY <1>1, <1>2 DEF Types, StoreInv
<1>4. Recorded(row).updated <= issues[row.id].updated /\ Recorded(row).ts <= now
  BY <1>1, PollerAssumption DEF Recorded, Types, BoardInv, Start
<1>. QED
  BY <1>3, <1>4 DEF Types, StoreInv

\* Every step of the poller keeps the types.
LEMMA PollsKeepsTypes ==
  ASSUME Types, Polls
  PROVE  Types'
<1>. USE PollerAssumption
<1>1. UNCHANGED <<now, issues, writes>>
  BY PollsReads DEF paperclip
<1>2. BoardInv' /\ now \in Nat /\ now # 0
  BY <1>1 DEF Types, BoardInv, Exists, Start
<1>3. ASSUME UNCHANGED <<store, first_seed>>
      PROVE  StoreInv'
  BY <1>1, <1>3 DEF Types, StoreInv, store
<1>4. CASE Bootstrap
  <2>1. StoreInv'
    BY <1>1, <1>2, <1>4 DEF Bootstrap, Types, StoreInv, store
  <2>2. PassInv'
    BY <1>1, <1>2, <1>4 DEF Bootstrap, Types, PassInv, StoreInv, Passing, Places, store, locals
  <2>3. page' = {}
    BY <1>4 DEF Bootstrap, Types, PassInv, locals
  <2>. QED
    BY <1>2, <2>1, <2>2, <2>3 DEF Types, PageInv
<1>4a. CASE ListOpen
  <2>1. StoreInv'
    BY <1>3, <1>4a DEF ListOpen, history
  <2>2. PassInv'
    BY <1>1, <1>2, <1>4a DEF ListOpen, history, Types, PassInv, Passing, store
  <2>3. PageInv'
    <3>1. ASSUME NEW i \in Issues, issues[i].status \in Open
          PROVE  Row(i) \in PageRecords /\ Row(i).id = i /\ Exists(i) /\ Row(i).created <= Row(i).stamp
                 /\ Row(i).stamp <= Row(i).updated /\ Row(i).updated <= issues[i].updated /\ Row(i).status \in Open
      BY <3>1 DEF Row, PageRecords, Exists, Types, BoardInv, IssueRecords
    <3>2. \A r \in page' : \E i \in Issues : r = Row(i) /\ issues[i].status \in Open
      BY <1>4a, ListedOpen
    <3>. QED
      BY <1>1, <3>1, <3>2 DEF PageInv, Exists
  <2>. QED
    BY <1>2, <2>1, <2>2, <2>3 DEF Types
<1>5. CASE SeedRow
  <2>1. PICK row \in page : upsert_issue_state(row) /\ page' = page \ {row}
    BY <1>5 DEF SeedRow
  <2>2. UNCHANGED <<events, cursor, bootstrap_at, first_seed>>
    BY <1>5 DEF SeedRow, history
  <2>3. StoreInv'
    BY <1>1, <2>1, <2>2, Recording
  <2>4. PassInv'
    BY <1>1, <1>5, <2>2 DEF SeedRow, history, Types, PassInv, Passing
  <2>5. PageInv'
    BY <1>1, <1>5, <2>1 DEF SeedRow, Types, PageInv, Exists
  <2>. QED
    BY <1>2, <2>3, <2>4, <2>5 DEF Types
<1>6. CASE EndBootstrap
  <2>1. StoreInv'
    BY <1>1, <1>2, <1>6 DEF EndBootstrap, history, Types, StoreInv, PassInv
  <2>2. PassInv' /\ PageInv'
    BY <1>1, <1>6, Resting DEF EndBootstrap, history
  <2>. QED
    BY <1>2, <2>1, <2>2 DEF Types
<1>7. CASE StartPoll
  <2>1. StoreInv'
    BY <1>3, <1>7 DEF StartPoll, history
  <2>2. poll_since \in Int
    BY <1>2 DEF poll_since, Types, StoreInv
  <2>3. PassInv'
    BY <1>1, <1>2, <1>7, <2>2 DEF StartPoll, history, store, Types, StoreInv, PassInv, Passing, Places, poll_since
  <2>4. PageInv'
    BY <1>1, <1>7 DEF StartPoll, Types, PageInv, Exists
  <2>. QED
    BY <1>2, <2>1, <2>3, <2>4 DEF Types
<1>8. CASE StartReconcile
  <2>1. StoreInv'
    BY <1>3, <1>8 DEF StartReconcile, history
  <2>2. since' \in Int
    BY <1>2, <1>8 DEF StartReconcile
  <2>3. PassInv'
    BY <1>1, <1>2, <1>8, <2>2 DEF StartReconcile, history, store, Types, StoreInv, PassInv, Passing, Places
  <2>4. PageInv'
    BY <1>1, <1>8 DEF StartReconcile, Types, PageInv, Exists
  <2>. QED
    BY <1>2, <2>1, <2>3, <2>4 DEF Types
<1>9. CASE FetchPage
  <2>1. StoreInv'
    BY <1>3, <1>9 DEF FetchPage
  <2>2. PassInv'
    BY <1>1, <1>2, <1>9 DEF FetchPage, store, Types, PassInv, Passing, Places, poll_since
  <2>3. PageInv'
    <3>1. since \in Int
      BY DEF Types, PassInv
    <3>2. page' \subseteq listing(since) /\ at' # "seed"
      BY <1>9 DEF FetchPage, issues_updated_since
    <3>3. ASSUME NEW r \in page'
          PROVE  r \in PageRecords /\ Exists(r.id) /\ r = Row(r.id) /\ r.id \in Issues
      BY <3>1, <3>2, Listed DEF Types
    <3>4. ASSUME NEW r \in page'
          PROVE  r.created <= r.stamp /\ r.stamp <= r.updated /\ r.updated <= issues[r.id].updated
      BY <3>3 DEF Row, Types, BoardInv, IssueRecords
    <3>. QED
      BY <1>1, <3>2, <3>3, <3>4 DEF PageInv, Exists
  <2>. QED
    BY <1>2, <2>1, <2>2, <2>3 DEF Types
<1>10. CASE Emit
  <2>1. PICK row \in page : events' = IF is_news(row) THEN events \cup {EventOf(row)} ELSE events
    BY <1>10 DEF Emit
  <2>2. is_news(row) => EventOf(row) \in Issues \X Terminal \X (0..now)
    BY RowTypes DEF is_news, is_transition, late_terminal, EventOf
  <2>3. StoreInv'
    BY <1>1, <1>10, <2>1, <2>2 DEF Emit, history, Types, StoreInv
  <2>4. PassInv' /\ PageInv'
    BY <1>1, <1>10 DEF Emit, locals, history, Types, PassInv, Passing, Places, PageInv, Exists, poll_since
  <2>. QED
    BY <1>2, <2>3, <2>4 DEF Types
<1>11. CASE Upsert
  <2>1. PICK row \in page : /\ upsert_issue_state(row) /\ page' = page \ {row}
                            /\ latest' = IF mode = "tick" /\ row.updated > latest THEN row.updated ELSE latest
    BY <1>11 DEF Upsert
  <2>2. UNCHANGED <<events, cursor, bootstrap_at, first_seed, mode, since, offset, changed, shifted>>
    BY <1>11 DEF Upsert, history
  <2>3. StoreInv'
    BY <1>1, <2>1, <2>2, Recording
  <2>4. row.updated \in 0..now /\ latest \in 0..now /\ cursor \in 0..now
    BY RowTypes DEF Types, PassInv, StoreInv
  <2>5. at' \in {"emit", "fetch", "finish"} /\ (at' = "emit" <=> page' # {})
    BY <1>11 DEF Upsert
  <2>6. PassInv'
    BY <1>1, <1>2, <1>11, <2>1, <2>2, <2>4, <2>5 DEF Upsert, Types, PassInv, Passing, Places, poll_since
  <2>7. PageInv'
    BY <1>1, <2>1, <2>5 DEF Types, PageInv, Exists
  <2>. QED
    BY <1>2, <2>3, <2>6, <2>7 DEF Types
<1>12. CASE Finish
  <2>1. StoreInv'
    BY <1>1, <1>2, <1>12 DEF Finish, history, Types, StoreInv, PassInv, Passing
  <2>2. PassInv' /\ PageInv'
    BY <1>1, <1>12, Resting DEF Finish, history
  <2>. QED
    BY <1>2, <2>1, <2>2 DEF Types
<1>13. CASE GiveUp
  <2>1. StoreInv'
    BY <1>3, <1>13 DEF GiveUp
  <2>2. PassInv' /\ PageInv'
    BY <1>1, <1>13, Resting DEF GiveUp
  <2>. QED
    BY <1>2, <2>1, <2>2 DEF Types
<1>. QED
  BY <1>4, <1>4a, <1>5, <1>6, <1>7, <1>8, <1>9, <1>10, <1>11, <1>12, <1>13 DEF Polls, Tick, Pages

-----------------------------------------------------------------------------
\* Processing a row records what its view was, and what differs from it is
\* newer than the baseline.
LEMMA RecordKeepsHistory ==
  ASSUME Types, HistoryInv, NEW row \in page, upsert_issue_state(row), page' = page \ {row},
         UNCHANGED <<paperclip, events, cursor, bootstrap_at, first_seed>>, at # "idle"
  PROVE  HistoryInv'
<1>. DEFINE id == row.id
<1>1. issue_state'[id] = Recorded(row) /\ id \in Issues /\ \A i \in Issues \ {id} : issue_state'[i] = issue_state[i]
  BY RowTypes, Recording DEF paperclip
<1>2. \A i \in Issues : Row(i)' = Row(i) /\ Exists(i)' = Exists(i)
  BY DEF Row, Exists, paperclip
<1>3. first_seed # 0
  BY DEF HistoryInv
<1>4. ASSUME NEW i \in Issues, Exists(i)
      PROVE  Newer(issue_state[i], Row(i))'
  <2>1. CASE i = id
    <3>1. Newer(Recorded(row), Row(i))
      BY <2>1 DEF HistoryInv
    <3>. QED
      BY <1>1, <1>2, <2>1, <3>1 DEF Newer
  <2>2. CASE i # id
    <3>1. Newer(issue_state[i], Row(i))
      BY <1>4 DEF HistoryInv
    <3>. QED
      BY <1>1, <1>2, <2>2, <3>1 DEF Newer
  <2>. QED
    BY <2>1, <2>2
<1>5. ASSUME NEW r \in page'
      PROVE  Newer(issue_state[r.id], r)' /\ Newer(Recorded(r), Row(r.id))'
  <2>1. r \in page /\ r.id # id /\ r.id \in Issues
    BY <1>5, RowTypes DEF Types, PageInv
  <2>2. Newer(issue_state[r.id], r) /\ Newer(Recorded(r), Row(r.id))
    BY <2>1 DEF HistoryInv
  <2>. QED
    BY <1>1, <1>2, <2>1, <2>2 DEF Newer
<1>6. NoHistoryReplay'
  BY DEF HistoryInv, NoHistoryReplay
<1>. HIDE DEF id
<1>. QED
  BY <1>2, <1>3, <1>4, <1>5, <1>6 DEF HistoryInv

\* Every step of the poller keeps history out of the events.
LEMMA PollsKeepsHistory ==
  ASSUME ~SlowBootstrap, Types, HistoryInv, Polls
  PROVE  HistoryInv'
<1>. USE PollerAssumption
<1>1. UNCHANGED paperclip
  BY PollsReads
<1>2. \A i \in Issues : Row(i)' = Row(i) /\ Exists(i)' = Exists(i)
  BY <1>1 DEF Row, Exists, paperclip
<1>3. ASSUME UNCHANGED <<issue_state, first_seed>>
      PROVE  /\ \A i \in Issues : Exists(i)' => Newer(issue_state[i], Row(i))'
             /\ \A r \in page : Newer(issue_state[r.id], r)' /\ Newer(Recorded(r), Row(r.id))'
  <2>1. \A r \in page : r.id \in Issues
    BY RowTypes
  <2>2. \A i \in Issues : Exists(i)' => Newer(issue_state[i], Row(i))'
    BY <1>2, <1>3 DEF HistoryInv, Newer
  <2>3. \A r \in page : Newer(issue_state[r.id], r)' /\ Newer(Recorded(r), Row(r.id))'
    BY <1>2, <1>3, <2>1 DEF HistoryInv, Newer
  <2>. QED
    BY <2>2, <2>3
<1>4. ASSUME UNCHANGED <<issue_state, first_seed, events>>, page' \subseteq page, cursor' = cursor,
             first_seed = 0 => at' = "idle"
      PROVE  HistoryInv'
  BY <1>3, <1>4 DEF HistoryInv, NoHistoryReplay
<1>5. CASE Bootstrap
  <2>1. UNCHANGED <<issue_state, events, cursor, bootstrap_at>> /\ first_seed' = IF first_seed = 0 THEN now ELSE first_seed
    BY <1>5 DEF Bootstrap, store
  <2>2. first_seed' # 0
    BY <2>1 DEF Types, BoardInv, Start
  <2>3. page' = {}
    BY <1>5 DEF Bootstrap, Types, PassInv, locals
  <2>4. ASSUME NEW i \in Issues, Exists(i)
        PROVE  Newer(issue_state[i], Row(i))'
    <3>1. CASE first_seed = 0
      BY <1>2, <2>1, <3>1 DEF HistoryInv, Newer, is_transition
    <3>2. CASE first_seed # 0
      BY <1>3, <2>1, <2>4, <1>2, <3>2
    <3>. QED
      BY <3>1, <3>2
  <2>6. NoHistoryReplay'
    <3>1. first_seed = 0 => events = {}
      BY DEF HistoryInv, NoHistoryReplay
    <3>. QED
      BY <2>1, <3>1 DEF HistoryInv, NoHistoryReplay
  <2>. QED
    BY <1>2, <2>2, <2>3, <2>4, <2>6 DEF HistoryInv
<1>5a. CASE ListOpen
  <2>1. UNCHANGED <<issue_state, first_seed, events, cursor>> /\ at # "idle"
    BY <1>5a DEF ListOpen, store, history
  <2>2. ASSUME NEW r \in page'
        PROVE  Newer(issue_state[r.id], r)' /\ Newer(Recorded(r), Row(r.id))'
    <3>1. PICK i \in Issues : r = Row(i) /\ issues[i].status \in Open
      BY <1>5a, <2>2, ListedOpen
    <3>2. r.id = i /\ r.status \notin Terminal
      BY <3>1 DEF Row
    <3>. QED
      BY <1>2, <3>1, <3>2 DEF Newer, is_transition
  <2>3. NoHistoryReplay'
    BY <2>1 DEF HistoryInv, NoHistoryReplay
  <2>. QED
    BY <1>3, <2>1, <2>2, <2>3 DEF HistoryInv
<1>6. CASE SeedRow
  <2>1. PICK row \in page : upsert_issue_state(row) /\ page' = page \ {row}
    BY <1>6 DEF SeedRow
  <2>2. UNCHANGED <<events, cursor, bootstrap_at, first_seed>> /\ at # "idle"
    BY <1>6 DEF SeedRow, history
  <2>. QED
    BY <1>1, <2>1, <2>2, RecordKeepsHistory
<1>7. CASE EndBootstrap
  <2>1. UNCHANGED <<issue_state, first_seed, events>> /\ page' = {} /\ first_seed # 0
    BY <1>7 DEF EndBootstrap, Rest, history, HistoryInv
  <2>2. NoHistoryReplay'
    BY <2>1 DEF HistoryInv, NoHistoryReplay
  <2>. QED
    BY <1>3, <2>1, <2>2 DEF HistoryInv
<1>8. CASE StartPoll \/ StartReconcile
  BY <1>4, <1>8 DEF StartPoll, StartReconcile, store, history, HistoryInv
<1>9. CASE FetchPage
  <2>1. UNCHANGED <<issue_state, first_seed, events, cursor>> /\ page' = issues_updated_since /\ at # "idle"
    BY <1>9 DEF FetchPage, store
  <2>2. ASSUME NEW r \in page'
        PROVE  Newer(issue_state[r.id], r)' /\ Newer(Recorded(r), Row(r.id))'
    <3>1. r \in listing(since) /\ since \in Int
      BY <2>1, <2>2 DEF issues_updated_since, Types, PassInv
    <3>2. r = Row(r.id) /\ r.id \in Issues /\ Exists(r.id)
      BY <3>1, Listed DEF Types
    <3>3. Newer(issue_state[r.id], r)
      BY <3>2 DEF HistoryInv
    <3>4. ~is_transition(Recorded(r), r)
      BY DEF is_transition, Recorded
    <3>. QED
      BY <1>2, <2>1, <3>2, <3>3, <3>4 DEF Newer
  <2>3. NoHistoryReplay' /\ first_seed' # 0
    BY <2>1 DEF HistoryInv, NoHistoryReplay
  <2>. QED
    BY <1>3, <2>1, <2>2, <2>3 DEF HistoryInv
<1>10. CASE Emit
  <2>1. PICK row \in page : events' = IF is_news(row) THEN events \cup {EventOf(row)} ELSE events
    BY <1>10 DEF Emit
  <2>2. UNCHANGED <<issue_state, first_seed, cursor, bootstrap_at, page>> /\ first_seed # 0
    BY <1>10 DEF Emit, locals, history, HistoryInv
  <2>3. is_news(row) => terminal_ts(row) >= first_seed - Delay
    <3>1. first_seed \in Nat /\ bootstrap_at \in Nat /\ (bootstrap_at # 0 => bootstrap_at >= first_seed)
      BY DEF Types, StoreInv, BoardInv, Start
    <3>2. row.created \in Nat /\ row.stamp \in Nat /\ row.updated \in Nat /\ row.created <= row.stamp /\ row.stamp <= row.updated
      BY DEF Types, PageInv, PageRecords
    <3>3. is_transition(issue_state[row.id], row) => terminal_ts(row) >= first_seed - Delay
      BY DEF HistoryInv, Newer
    <3>4. late_terminal(issue_state[row.id], row) => terminal_ts(row) >= first_seed - Delay
      BY <3>1, <3>2, TerminalRow DEF late_terminal
    <3>5. terminal_ts(row) \in Nat
      BY <3>2, TerminalTime
    <3>6. mode = "reconcile" => bootstrap_at # 0
      BY DEF Types, PassInv, StoreInv
    <3>7. mode # "tick" /\ fresh(row) => terminal_ts(row) >= first_seed - Delay
      BY <3>1, <3>5, <3>6 DEF fresh, Types, PassInv
    <3>. QED
      BY <3>3, <3>4, <3>7 DEF is_news
  <2>4. NoHistoryReplay'
    BY <2>1, <2>2, <2>3 DEF HistoryInv, NoHistoryReplay, EventOf
  <2>. QED
    BY <1>3, <2>2, <2>4 DEF HistoryInv
<1>11. CASE Upsert
  <2>1. PICK row \in page : upsert_issue_state(row) /\ page' = page \ {row}
    BY <1>11 DEF Upsert
  <2>2. UNCHANGED <<events, cursor, bootstrap_at, first_seed>> /\ at # "idle"
    BY <1>11 DEF Upsert, history
  <2>. QED
    BY <1>1, <2>1, <2>2, RecordKeepsHistory
<1>12. CASE Finish
  <2>1. UNCHANGED <<issue_state, first_seed, events>> /\ page' = {} /\ first_seed # 0
    BY <1>12 DEF Finish, Rest, history, HistoryInv
  <2>2. NoHistoryReplay'
    BY <2>1 DEF HistoryInv, NoHistoryReplay
  <2>. QED
    BY <1>3, <2>1, <2>2 DEF HistoryInv
<1>13. CASE GiveUp
  BY <1>4, <1>13 DEF GiveUp, Rest, store
<1>. QED
  BY <1>5, <1>5a, <1>6, <1>7, <1>8, <1>9, <1>10, <1>11, <1>12, <1>13 DEF Polls, Tick, Pages

-----------------------------------------------------------------------------
\* At the end of a pass there is nothing left to read.
LEMMA RestKeepsCursor ==
  ASSUME Rest, \A i \in Issues : Unrecorded(i)' => NotBehind(i, cursor)' /\ NotBehind(i, latest)'
  PROVE  CursorInv'
<1>1. page' = {} /\ at' = "idle"
  BY DEF Rest
<1>. QED
  BY <1>1 DEF CursorInv, Passing

\* A page has all rows of its part of the listing, and those it leaves out
\* come before or after it.
LEMMA PageOfListing ==
  ASSUME Types, at = "fetch", NEW i \in Issues, Exists(i), issues[i].updated >= since,
         NEW r \in issues_updated_since
  PROVE  \/ Position(Row(i), listing(since)) < offset
         \/ Row(i) \in issues_updated_since /\ (Before(Row(i), r) \/ issues[i].updated >= r.updated)
         \/ issues[i].updated >= r.updated
<1>. DEFINE rows == listing(since)
            a == Row(i)
<1>1. since \in Int /\ offset \in Nat
  BY DEF Types, PassInv
<1>2. IsFiniteSet(rows) /\ rows \in SUBSET PageRecords
  BY <1>1, Listed DEF Types
<1>3. a \in rows /\ r \in rows /\ a.updated = issues[i].updated
  BY DEF listing, issues_updated_since, Row
<1>4. Position(r, rows) \in offset..(offset + PageSize - 1)
  BY DEF issues_updated_since
<1>5. Position(a, rows) \in Nat /\ (Position(r, rows) < Position(a, rows) => ~Before(a, r))
  BY <1>2, <1>3, Positions
<1>6. a \in PageRecords /\ r \in PageRecords
  BY <1>2, <1>3
<1>7. ~Before(a, r) => a.updated >= r.updated
  <2>1. a.updated \in Nat /\ r.updated \in Nat
    BY <1>6 DEF PageRecords
  <2>. QED
    BY <2>1 DEF Before
<1>8. a \in issues_updated_since <=> Position(a, rows) \in offset..(offset + PageSize - 1)
  BY <1>3 DEF issues_updated_since
<1>. HIDE DEF rows, a
<1>9. CASE Position(a, rows) >= offset + PageSize
  BY <1>1, <1>3, <1>4, <1>5, <1>7, <1>9, PollerAssumption DEF a
<1>10. CASE Position(a, rows) < offset
  BY <1>10 DEF a, rows
<1>11. CASE Position(a, rows) \in offset..(offset + PageSize - 1)
  BY <1>3, <1>7, <1>8, <1>11 DEF a
<1>. QED
  BY <1>1, <1>5, <1>9, <1>10, <1>11, PollerAssumption

\* A page that is read continues where the ones before it ended.
LEMMA FetchKeepsCursor ==
  ASSUME Types, CursorInv, FetchPage
  PROVE  CursorInv'
<1>. SUFFICES ASSUME ~shifted'
              PROVE  CursorInv'
  BY DEF CursorInv
<1>1. UNCHANGED <<now, issues, issue_state, cursor, bootstrap_at, latest, since, mode, changed>>
      /\ page' = issues_updated_since /\ offset' = offset + PageSize /\ at = "fetch" /\ at' # "seed"
  BY DEF FetchPage, paperclip, store
<1>2. ~shifted /\ ~(mode = "tick" /\ offset > 0 /\ changed)
  BY DEF FetchPage
<1>3. since \in Int /\ offset \in Nat /\ page = {} /\ Passing
  BY <1>1 DEF Types, PassInv, Passing
<1>4. \A i \in Issues : Unrecorded(i)' => Unrecorded(i)
  BY <1>1 DEF Unrecorded
<1>5. \A i \in Issues : Row(i)' = Row(i) /\ Exists(i)' = Exists(i)
  BY <1>1 DEF Row, Exists
<1>6. listing(since)' = listing(since)
  BY <1>1 DEF listing, Row, Exists
<1>7. \A i \in Issues : issues[i].updated \in Nat /\ (issues[i].updated > 0 => Exists(i))
  BY DEF Types, BoardInv, IssueRecords
<1>8. \A r \in page' : r.id \in Issues /\ r = Row(r.id) /\ r.updated = issues[r.id].updated
  <2>1. page' \subseteq listing(since)
    BY <1>1 DEF issues_updated_since
  <2>. QED
    BY <1>3, <2>1, Listed DEF Types, Row
<1>9. ASSUME NEW i \in Issues, Unrecorded(i)'
      PROVE  NotBehind(i, cursor)' /\ NotBehind(i, latest)'
  BY <1>1, <1>2, <1>4, <1>9 DEF CursorInv, NotBehind
<1>10. ASSUME mode = "tick", NEW i \in Issues, NEW r \in page', Unrecorded(i)
       PROVE  \/ NotBehind(i, r.updated)
              \/ \E q \in page' : q.id = i /\ q.updated = issues[i].updated /\ Before(q, r)
  <2>1. since = poll_since /\ cursor \in Nat /\ bootstrap_at \in Nat
    BY <1>3, <1>10, PollerAssumption DEF Types, PassInv, StoreInv, BoardInv, Start
  <2>2. NotBehind(i, cursor)
    BY <1>2, <1>10 DEF CursorInv
  <2>3. issues[i].updated >= since
    BY <1>7, <2>1, <2>2, PollerAssumption DEF NotBehind, poll_since
  <2>4. Exists(i)
    BY <1>7, <1>10, <2>1 DEF Unrecorded
  <2>5. Position(Row(i), listing(since)) \in Nat
    <3>1. Row(i) \in listing(since)
      BY <2>3, <2>4 DEF listing
    <3>. QED
      BY <1>3, <3>1, Listed, Positions DEF Types
  <2>6. ~(Position(Row(i), listing(since)) < offset)
    <3>1. CASE offset = 0
      BY <2>5, <3>1
    <3>2. CASE offset # 0
      <4>1. ~changed
        BY <1>2, <1>3, <1>10, <3>2 DEF Types, PassInv
      <4>2. Position(Row(i), listing(since)) < offset => issue_state[i].updated = issues[i].updated
        BY <1>1, <1>2, <1>3, <1>10, <2>3, <2>4, <4>1 DEF CursorInv
      <4>. QED
        BY <1>10, <4>2 DEF Unrecorded
    <3>. QED
      BY <3>1, <3>2
  <2>7. issues[i].updated >= r.updated => NotBehind(i, r.updated)
    BY <1>7, <1>8, PollerAssumption DEF NotBehind
  <2>8. CASE Row(i) \in page' /\ Before(Row(i), r)
    BY <2>8 DEF Row
  <2>. QED
    BY <1>1, <2>3, <2>4, <2>6, <2>7, <2>8, PageOfListing
<1>11. ASSUME mode = "tick", ~changed, NEW i \in Issues, Exists(i), issues[i].updated >= since,
              Position(Row(i), listing(since)) < offset + PageSize
       PROVE  issue_state[i].updated = issues[i].updated \/ Row(i) \in page'
  <2>1. Row(i) \in listing(since)
    BY <1>11 DEF listing
  <2>2. Position(Row(i), listing(since)) \in Nat
    BY <1>3, <2>1, Listed, Positions DEF Types
  <2>3. CASE Position(Row(i), listing(since)) < offset
    BY <1>1, <1>2, <1>3, <1>11, <2>3 DEF CursorInv
  <2>4. CASE ~(Position(Row(i), listing(since)) < offset)
    <3>1. Position(Row(i), listing(since)) \in offset..(offset + PageSize - 1)
      BY <1>3, <1>11, <2>2, <2>4, PollerAssumption
    <3>. QED
      BY <1>1, <2>1, <3>1 DEF issues_updated_since
  <2>. QED
    BY <2>3, <2>4
<1>12. \A r \in page' : r = Row(r.id)' /\ r.updated = issues'[r.id].updated
  BY <1>1, <1>5, <1>8
<1>13. ASSUME mode' = "tick", NEW i \in Issues, NEW r \in page', Unrecorded(i)'
       PROVE  \/ NotBehind(i, r.updated)'
              \/ \E q \in page' : q.id = i /\ q.updated = issues'[i].updated /\ Before(q, r)
  BY <1>1, <1>4, <1>10, <1>13 DEF NotBehind
<1>14. ASSUME mode' = "tick", ~changed', NEW i \in Issues, Exists(i)', issues'[i].updated >= since',
              Position(Row(i), listing(since))' < offset'
       PROVE  issue_state'[i].updated = issues'[i].updated \/ Row(i)' \in page'
  <2>1. Position(Row(i), listing(since))' = Position(Row(i), listing(since))
    BY <1>5, <1>6 DEF Position, Before
  <2>. QED
    BY <1>1, <1>5, <1>11, <1>14, <2>1
<1>. QED
  BY <1>9, <1>12, <1>13, <1>14 DEF CursorInv

\* The rows of a page are taken in order, so what is left is not behind.
LEMMA UpsertKeepsCursor ==
  ASSUME Types, CursorInv, Upsert
  PROVE  CursorInv'
<1>. SUFFICES ASSUME ~shifted'
              PROVE  CursorInv'
  BY DEF CursorInv
<1>1. PICK row \in page : /\ First(row) /\ upsert_issue_state(row) /\ page' = page \ {row}
                          /\ latest' = IF mode = "tick" /\ row.updated > latest THEN row.updated ELSE latest
  BY DEF Upsert
<1>2. UNCHANGED <<now, issues, events, cursor, bootstrap_at, first_seed, mode, since, offset, changed>> /\ at = "upsert" /\ ~shifted
  BY DEF Upsert, paperclip, history
<1>. DEFINE id == row.id
<1>3. issue_state'[id] = Recorded(row) /\ id \in Issues /\ \A i \in Issues \ {id} : issue_state'[i] = issue_state[i]
  BY <1>1, <1>2, RowTypes, Recording
<1>4. issue_state'[id].updated = row.updated
  BY <1>3 DEF Recorded
<1>5. \A r \in page : r \in PageRecords /\ r.id \in Issues /\ (r.id = id => r = row)
  BY DEF Types, PageInv, PageRecords
<1>. HIDE DEF id
<1>6. Passing /\ \A i \in Issues : Row(i)' = Row(i) /\ Exists(i)' = Exists(i)
  BY <1>2 DEF Passing, Row, Exists
<1>7. listing(since)' = listing(since)
  BY <1>2 DEF listing, Row, Exists
<1>8. ASSUME NEW i \in Issues, Unrecorded(i)'
      PROVE  NotBehind(i, cursor) /\ NotBehind(i, latest) /\ (mode = "tick" => NotBehind(i, row.updated))
  <2>1. CASE i = id
    <3>1. row.updated # issues[id].updated
      BY <1>2, <1>4, <1>8, <2>1 DEF Unrecorded
    <3>. QED
      BY <1>2, <2>1, <3>1 DEF CursorInv, id
  <2>2. CASE i # id
    <3>1. Unrecorded(i)
      BY <1>2, <1>3, <1>8, <2>2 DEF Unrecorded
    <3>2. ASSUME NEW q \in page, q.id = i
          PROVE  ~Before(q, row)
      <4>1. Before(row, q)
        BY <1>1, <2>2, <3>2 DEF First, id
      <4>. QED
        BY <1>5, <2>2, <3>2, <4>1, Ordered DEF id
    <3>. QED
      BY <1>2, <1>6, <3>1, <3>2 DEF CursorInv
  <2>. QED
    BY <2>1, <2>2
<1>9. ASSUME NEW i \in Issues, Unrecorded(i)'
      PROVE  NotBehind(i, cursor)' /\ NotBehind(i, latest)'
  BY <1>1, <1>2, <1>8, <1>9 DEF NotBehind
<1>10. ASSUME NEW r \in page', r.updated # issues'[r.id].updated
       PROVE  /\ NotBehind(r.id, cursor)' /\ NotBehind(r.id, latest)'
              /\ \A q \in page' : NotBehind(r.id, q.updated)'
  <2>1. r \in page /\ NotBehind(r.id, cursor) /\ NotBehind(r.id, latest) /\ \A q \in page : NotBehind(r.id, q.updated)
    BY <1>1, <1>2, <1>10 DEF CursorInv
  <2>. QED
    BY <1>1, <1>2, <2>1 DEF NotBehind
<1>11. ASSUME mode' = "tick", NEW i \in Issues, NEW r \in page', Unrecorded(i)'
       PROVE  \/ NotBehind(i, r.updated)'
              \/ \E q \in page' : q.id = i /\ q.updated = issues'[i].updated /\ Before(q, r)
  <2>1. r \in page
    BY <1>1, <1>11
  <2>2. CASE i = id
    <3>1. row.updated # issues[id].updated
      BY <1>2, <1>4, <1>11, <2>2 DEF Unrecorded
    <3>2. NotBehind(i, r.updated)
      BY <1>2, <2>1, <2>2, <3>1 DEF CursorInv, id
    <3>. QED
      BY <1>2, <3>2 DEF NotBehind
  <2>3. CASE i # id
    <3>1. Unrecorded(i)
      BY <1>2, <1>3, <1>11, <2>3 DEF Unrecorded
    <3>2. NotBehind(i, r.updated) \/ \E q \in page : q.id = i /\ q.updated = issues[i].updated /\ Before(q, r)
      BY <1>2, <1>6, <1>11, <2>1, <3>1 DEF CursorInv
    <3>3. \A q \in page : q.id = i => q \in page'
      BY <1>1, <2>3 DEF id
    <3>. QED
      BY <1>2, <3>2, <3>3 DEF NotBehind
  <2>. QED
    BY <2>2, <2>3
<1>12. ASSUME mode' = "tick", ~changed'
       PROVE  /\ \A r \in page' : r = Row(r.id)'
              /\ \A i \in Issues :
                   /\ Exists(i)' /\ issues'[i].updated >= since' /\ Position(Row(i), listing(since))' < offset'
                   => issue_state'[i].updated = issues'[i].updated \/ Row(i)' \in page'
  <2>1. \A r \in page : r = Row(r.id)
    BY <1>2, <1>6, <1>12 DEF CursorInv
  <2>2. row.updated = issues[id].updated
    BY <1>1, <2>1 DEF Row, id
  <2>3. ASSUME NEW i \in Issues, Exists(i)', issues'[i].updated >= since', Position(Row(i), listing(since))' < offset'
        PROVE  issue_state'[i].updated = issues'[i].updated \/ Row(i)' \in page'
    <3>1. Position(Row(i), listing(since))' = Position(Row(i), listing(since))
      BY <1>6, <1>7 DEF Position, Before
    <3>2. issue_state[i].updated = issues[i].updated \/ Row(i) \in page
      BY <1>2, <1>6, <1>12, <2>3, <3>1 DEF CursorInv
    <3>3. CASE i = id
      BY <1>2, <1>4, <2>2, <3>3
    <3>4. CASE i # id
      BY <1>1, <1>2, <1>3, <1>6, <3>2, <3>4 DEF Row, id
    <3>. QED
      BY <3>3, <3>4
  <2>4. \A r \in page' : r = Row(r.id)'
    BY <1>1, <1>5, <1>6, <2>1
  <2>. QED
    BY <2>3, <2>4
<1>. QED
  BY <1>9, <1>10, <1>11, <1>12 DEF CursorInv

\* Every step of the poller keeps what is not recorded ahead of the cursor.
LEMMA PollsKeepsCursor ==
  ASSUME Types, CursorInv, Polls
  PROVE  CursorInv'
<1>0. shifted => shifted'
  <2>1. CASE FetchPage
    BY <2>1 DEF FetchPage
  <2>2. ASSUME ~FetchPage
        PROVE  UNCHANGED shifted
    BY <2>2 DEF Polls, Tick, Bootstrap, ListOpen, SeedRow, EndBootstrap, StartPoll, StartReconcile, Pages, Emit, Upsert,
                Finish, GiveUp, history
  <2>. QED
    BY <2>1, <2>2
<1>. SUFFICES ASSUME ~shifted', ~shifted
              PROVE  CursorInv'
  BY <1>0 DEF CursorInv
<1>1. UNCHANGED <<now, issues>>
  BY PollsReads DEF paperclip
<1>2. \A i \in Issues : issues[i].updated \in Nat /\ issues[i].updated <= now
  BY DEF Types, BoardInv, IssueRecords
<1>3. \A i \in Issues : NotBehind(i, 0)
  BY <1>2, PollerAssumption DEF NotBehind
<1>4. \A i \in Issues : Unrecorded(i) => NotBehind(i, cursor) /\ NotBehind(i, latest)
  BY DEF CursorInv
<1>5. CASE Bootstrap \/ ListOpen
  <2>1. UNCHANGED <<issue_state, cursor, bootstrap_at, latest, mode>> /\ at' = "seed"
    BY <1>5 DEF Bootstrap, ListOpen, store, locals
  <2>2. ASSUME NEW r \in page'
        PROVE  r.updated = issues'[r.id].updated
    <3>1. page' = {} \/ ListOpen
      BY <1>5 DEF Bootstrap, locals, Types, PassInv
    <3>2. PICK i \in Issues : r = Row(i)
      BY <2>2, <3>1, ListedOpen
    <3>. QED
      BY <1>1, <3>2 DEF Row
  <2>. QED
    BY <1>1, <1>4, <2>1, <2>2 DEF CursorInv, Passing, Unrecorded, NotBehind
<1>6. CASE SeedRow
  <2>1. PICK row \in page : upsert_issue_state(row) /\ page' = page \ {row}
    BY <1>6 DEF SeedRow
  <2>2. UNCHANGED <<cursor, bootstrap_at, latest, at>> /\ at = "seed" /\ latest = 0 /\ cursor = 0
    BY <1>6 DEF SeedRow, Types, PassInv
  <2>3. \A r \in page : r.updated # issues[r.id].updated => \A q \in page : NotBehind(r.id, q.updated)
    BY DEF CursorInv
  <2>4. \A r \in page : r.id \in Issues
    BY RowTypes
  <2>5. \A r \in page' : r.updated # issues'[r.id].updated => \A q \in page' : NotBehind(r.id, q.updated)'
    BY <1>1, <2>1, <2>3 DEF NotBehind
  <2>6. \A i \in Issues : NotBehind(i, cursor)' /\ NotBehind(i, latest)'
    BY <1>1, <1>3, <2>2 DEF NotBehind
  <2>. QED
    BY <2>1, <2>2, <2>4, <2>5, <2>6 DEF CursorInv, Passing
<1>7. CASE EndBootstrap
  <2>1. bootstrap_at' = now /\ Rest
    BY <1>7 DEF EndBootstrap
  <2>2. \A i \in Issues : ~Unrecorded(i)'
    <3>1. now \in Nat
      BY PollerAssumption DEF Types, BoardInv, Start
    <3>. QED
      BY <1>1, <1>2, <2>1, <3>1 DEF Unrecorded
  <2>. QED
    BY <2>1, <2>2, RestKeepsCursor
<1>8. CASE StartPoll
  <2>1. UNCHANGED <<issue_state, cursor, bootstrap_at, offset, page>> /\ latest' = cursor /\ since' = poll_since
        /\ at = "idle" /\ at' = "fetch"
    BY <1>8 DEF StartPoll, store
  <2>2. page' = {} /\ offset' = 0
    BY <2>1 DEF Types, PassInv
  <2>3. poll_since \in Int
    BY PollerAssumption DEF poll_since, Types, StoreInv, BoardInv, Start
  <2>4. ASSUME NEW i \in Issues, Exists(i)', issues'[i].updated >= since'
        PROVE  ~(Position(Row(i), listing(since))' < offset')
    <3>1. Exists(i) /\ issues[i].updated >= poll_since
      BY <1>1, <2>1, <2>4 DEF Exists
    <3>2. Row(i) \in listing(poll_since)
      BY <3>1 DEF listing
    <3>3. Position(Row(i), listing(poll_since)) \in Nat
      BY <2>3, <3>2, Listed, Positions DEF Types
    <3>4. Row(i)' = Row(i) /\ listing(since)' = listing(poll_since)
      BY <1>1, <2>1 DEF Row, listing, Exists
    <3>5. Position(Row(i), listing(since))' = Position(Row(i), listing(poll_since))
      BY <3>4 DEF Position, Before
    <3>. QED
      BY <2>2, <3>3, <3>5
  <2>5. \A i \in Issues : Unrecorded(i)' => NotBehind(i, cursor)' /\ NotBehind(i, latest)'
    BY <1>1, <1>4, <2>1 DEF Unrecorded, NotBehind
  <2>. QED
    BY <2>2, <2>4, <2>5 DEF CursorInv
<1>9. CASE StartReconcile
  <2>1. UNCHANGED <<issue_state, cursor, bootstrap_at, latest, page>> /\ at = "idle" /\ mode' = "reconcile"
    BY <1>9 DEF StartReconcile, store
  <2>2. page' = {}
    BY <2>1 DEF Types, PassInv
  <2>3. \A i \in Issues : Unrecorded(i)' => NotBehind(i, cursor)' /\ NotBehind(i, latest)'
    BY <1>1, <1>4, <2>1 DEF Unrecorded, NotBehind
  <2>. QED
    BY <2>1, <2>2, <2>3 DEF CursorInv
<1>10. CASE FetchPage
  BY <1>10, FetchKeepsCursor
<1>11. CASE Emit
  <2>1. UNCHANGED <<issue_state, cursor, bootstrap_at, page, latest, mode, since, offset, changed>>
        /\ at = "emit" /\ at' = "upsert"
    BY <1>11 DEF Emit, locals
  <2>2. \A i \in Issues : Row(i)' = Row(i) /\ Exists(i)' = Exists(i)
    BY <1>1 DEF Row, Exists
  <2>3. listing(since)' = listing(since)
    BY <1>1, <2>1 DEF listing, Row, Exists
  <2>4. \A i \in Issues : Position(Row(i), listing(since))' = Position(Row(i), listing(since))
    BY <2>2, <2>3 DEF Position, Before
  <2>5. \A r \in page : r.id \in Issues
    BY RowTypes
  <2>6. \A i \in Issues : Unrecorded(i)' = Unrecorded(i)
    BY <1>1, <2>1 DEF Unrecorded
  <2>. QED
    BY <1>1, <2>1, <2>2, <2>4, <2>5, <2>6 DEF CursorInv, Passing, NotBehind
<1>12. CASE Upsert
  BY <1>12, UpsertKeepsCursor
<1>13. CASE Finish
  <2>1. cursor' = IF mode = "tick" THEN latest ELSE cursor
    BY <1>13 DEF Finish
  <2>2. UNCHANGED <<issue_state, bootstrap_at>> /\ Rest /\ latest' = 0
    BY <1>13 DEF Finish, Rest
  <2>3. \A i \in Issues : Unrecorded(i)' => NotBehind(i, cursor)' /\ NotBehind(i, latest)'
    BY <1>1, <1>3, <1>4, <2>1, <2>2 DEF Unrecorded, NotBehind
  <2>. QED
    BY <2>2, <2>3, RestKeepsCursor
<1>14. CASE GiveUp
  <2>1. UNCHANGED <<issue_state, cursor, bootstrap_at>> /\ Rest /\ latest' = 0
    BY <1>14 DEF GiveUp, Rest, store
  <2>2. \A i \in Issues : Unrecorded(i)' => NotBehind(i, cursor)' /\ NotBehind(i, latest)'
    BY <1>1, <1>3, <1>4, <2>1 DEF Unrecorded, NotBehind
  <2>. QED
    BY <2>1, <2>2, RestKeepsCursor
<1>. QED
  BY <1>5, <1>6, <1>7, <1>8, <1>9, <1>10, <1>11, <1>12, <1>13, <1>14 DEF Polls, Tick, Pages

\* An end is announced before it is recorded, by whatever pass sees it.
LEMMA PollsKeepsAnnounced ==
  ASSUME Types, Polls
  PROVE  AnnouncedInv'
<1>1. CASE Emit
  <2>1. PICK row \in page : First(row) /\ events' = IF is_news(row) THEN events \cup {EventOf(row)} ELSE events
    BY <1>1 DEF Emit
  <2>2. UNCHANGED <<issues, issue_state, bootstrap_at, mode, page>>
    BY <1>1 DEF Emit, paperclip, locals
  <2>3. ASSUME NEW r \in page, First(r)
        PROVE  r = row
    <3>1. r \in PageRecords /\ row \in PageRecords /\ (r.id = row.id => r = row)
      BY DEF Types, PageInv
    <3>2. r # row => Before(r, row) /\ Before(row, r)
      BY <2>1, <2>3 DEF First
    <3>. QED
      BY <3>1, <3>2, Ordered
  <2>4. ASSUME NEW r \in page, First(r)', is_news(r)'
        PROVE  EventOf(r)' \in events'
    <3>1. First(r) /\ is_news(r) /\ EventOf(r)' = EventOf(r)
      BY <2>2, <2>4 DEF First, Before, is_news, is_transition, late_terminal, fresh, terminal_ts, EventOf
    <3>. QED
      BY <2>1, <2>3, <3>1
  <2>. QED
    BY <2>2, <2>4 DEF AnnouncedInv
<1>2. ASSUME ~Emit
      PROVE  at' # "upsert"
  <2>1. CASE SeedRow
    BY <2>1 DEF SeedRow
  <2>2. CASE Upsert
    BY <2>2 DEF Upsert
  <2>3. CASE FetchPage
    BY <2>3 DEF FetchPage
  <2>. QED
    BY <1>2, <2>1, <2>2, <2>3
    DEF Polls, Tick, Bootstrap, ListOpen, EndBootstrap, StartPoll, StartReconcile, Pages, Finish, GiveUp, Rest
<1>. QED
  BY <1>1, <1>2 DEF AnnouncedInv

\* A step that changes nothing keeps the invariant.
LEMMA StutterKeepsInv ==
  ASSUME PollerInv, UNCHANGED vars
  PROVE  PollerInv'
<1>. USE DEF vars, paperclip, store, locals, history
<1>1. Types'
  BY DEF PollerInv, Types, BoardInv, StoreInv, PassInv, PageInv, Passing, poll_since, Exists
<1>2. CursorInv'
  BY DEF PollerInv, CursorInv, Unrecorded, NotBehind, Passing, Row, Exists, listing, Position, Before
<1>3. HistoryInv => HistoryInv'
  BY DEF HistoryInv, NoHistoryReplay, Newer, Row, Exists, Recorded, is_transition, terminal_ts
<1>4. AnnouncedInv'
  BY DEF PollerInv, AnnouncedInv, First, is_news, is_transition, late_terminal, fresh, terminal_ts
<1>. QED
  BY <1>1, <1>2, <1>3, <1>4 DEF PollerInv

\* Every step keeps the invariant.
LEMMA InvStep == PollerInv /\ [Next]_vars => PollerInv'
<1>. SUFFICES ASSUME PollerInv, [Next]_vars
              PROVE  PollerInv'
  OBVIOUS
<1>0. Types /\ (~SlowBootstrap => HistoryInv) /\ CursorInv /\ AnnouncedInv
  BY DEF PollerInv
<1>1. CASE Polls
  BY <1>0, <1>1, PollsKeepsTypes, PollsKeepsHistory, PollsKeepsCursor, PollsKeepsAnnounced DEF PollerInv
<1>2. CASE Board
  <2>1. BoardInv
    BY <1>0 DEF Types
  <2>2. PICK i \in Issues, issue \in Existing : Changed(i, issue)
    BY <1>2, <2>1, BoardStep
  <2>. QED
    BY <1>0, <2>2, BoardKeepsTypes, BoardKeepsHistory, BoardKeepsCursor, BoardKeepsAnnounced DEF PollerInv
<1>3. CASE UNCHANGED vars
  BY <1>3, StutterKeepsInv
<1>. QED
  BY <1>1, <1>2, <1>3 DEF Next, Polls

-----------------------------------------------------------------------------
\* The inductive invariant of the poller, whatever the board does and however
\* often a pass is given up.
THEOREM Invariance == Spec => []PollerInv
<1>. QED
  BY InvInit, InvStep, PTL DEF Spec

\* The store, the thread's locals and the page keep their types, and what the
\* poller recorded of an issue is never newer than the board.
THEOREM TypeCorrect == Spec => []TypeOK
<1>1. PollerInv => TypeOK
  <2>. SUFFICES ASSUME BoardInv, StoreInv, PassInv, PageInv
                PROVE  TypeOK
    BY DEF PollerInv, Types
  <2>1. now \in Nat /\ now \in Times /\ 0..now \subseteq Times
    BY PollerAssumption DEF BoardInv, Times, Start
  <2>2. ASSUME NEW i \in Issues
        PROVE  /\ issues[i].status \in {"none"} \cup Open \cup Terminal
               /\ issues[i].created <= issues[i].updated /\ issues[i].updated <= now
               /\ issue_state[i].status \in {"none"} \cup Open \cup Terminal
               /\ issue_state[i].updated <= issues[i].updated
    <3>1. issues[i] \in IssueRecords /\ issue_state[i] \in StateRecords
      BY DEF BoardInv, StoreInv
    <3>2. issues[i].created <= issues[i].stamp /\ issues[i].stamp <= issues[i].updated
      BY DEF BoardInv
    <3>3. issues[i].created <= issues[i].updated
      BY <3>1, <3>2 DEF IssueRecords
    <3>4. issues[i].updated <= now /\ issue_state[i].updated <= issues[i].updated
      BY DEF BoardInv, StoreInv
    <3>. QED
      BY <3>1, <3>3, <3>4 DEF IssueRecords, StateRecords
  <2>3. events \subseteq Issues \X Terminal \X Times
    BY <2>1 DEF StoreInv
  <2>4. latest \in Times /\ cursor \in Times /\ bootstrap_at \in Times
    BY <2>1 DEF StoreInv, PassInv
  <2>5. (cursor = 0 <=> bootstrap_at = 0) /\ at \in Places /\ mode \in {"tick", "reconcile"}
        /\ (at \in {"emit", "upsert"} => page # {})
    BY DEF StoreInv, PassInv
  <2>. QED
    BY <2>1, <2>2, <2>3, <2>4, <2>5 DEF TypeOK
<1>. QED
  BY <1>1, Invariance, PTL

\* The baseline holds for ever: with a baseline that is taken before the
\* first reconcile is due, no end from before the bridge is delivered.
THEOREM NoHistoryReplayHolds ==
  ASSUME ~SlowBootstrap
  PROVE  Spec => []NoHistoryReplay
<1>1. PollerInv => NoHistoryReplay
  BY DEF PollerInv, HistoryInv
<1>. QED
  BY <1>1, Invariance, PTL

\* No change is left behind the cursor, unless a page of a tick was read
\* after the board had changed under the pages before it.
THEOREM NothingBehindCursorHolds == Spec => []NothingBehindCursor
<1>1. PollerInv => NothingBehindCursor
  <2>. SUFFICES ASSUME Types, CursorInv, ~shifted, NEW i \in Issues, Unrecorded(i)
                PROVE  issues[i].updated >= poll_since
    BY DEF PollerInv, NothingBehindCursor, Unrecorded
  <2>1. NotBehind(i, cursor)
    BY DEF CursorInv
  <2>2. issues[i].updated \in Nat /\ cursor \in Int
    BY PollerAssumption DEF Types, BoardInv, StoreInv, IssueRecords, Start
  <2>. QED
    BY <2>1, <2>2, PollerAssumption DEF NotBehind, poll_since
<1>. QED
  BY <1>1, Invariance, PTL

\* A step that records the end of an issue known as open.
Recorded_is_announced ==
  \A i \in Issues :
    /\ issue_state[i].status \in Open
    /\ issue_state'[i].status \in Terminal
    /\ issue_state'[i].ts > bootstrap_at
    => <<i, issue_state'[i].status, issue_state'[i].ts>> \in events

\* An end that is recorded is in the event store already, wherever a pass was
\* given up: the event is stored first, and a row recorded without one is no
\* news.
THEOREM RecordedIsAnnouncedHolds == Spec => RecordedIsAnnounced
<1>1. PollerInv /\ [Next]_vars => [Recorded_is_announced]_vars
  <2>. SUFFICES ASSUME Types, AnnouncedInv, Next, NEW i \in Issues,
                       issue_state[i].status \in Open, issue_state'[i].status \in Terminal,
                       issue_state'[i].ts > bootstrap_at
                PROVE  <<i, issue_state'[i].status, issue_state'[i].ts>> \in events
    BY DEF PollerInv, Recorded_is_announced
  <2>1. issue_state' # issue_state
    OBVIOUS
  <2>2. SeedRow \/ Upsert
    BY <2>1 DEF Next, Tick, Bootstrap, ListOpen, EndBootstrap, StartPoll, StartReconcile, Pages, FetchPage, Emit, Finish,
                GiveUp, Board, Create, Touch, Move, Write, store
  <2>3. PICK row \in page : upsert_issue_state(row) /\ (Upsert => First(row))
    BY <2>2 DEF SeedRow, Upsert
  <2>4. UNCHANGED <<now, issues, events, cursor, bootstrap_at, first_seed>>
    BY <2>2 DEF SeedRow, Upsert, paperclip, history
  <2>5. row.id = i /\ issue_state'[i] = Recorded(row)
    <3>1. /\ issue_state'[row.id] = Recorded(row)
          /\ \A j \in Issues \ {row.id} : issue_state'[j] = issue_state[j]
      BY <2>3, <2>4, Recording
    <3>. QED
      BY <3>1
  <2>6. row.status \in Terminal /\ terminal_ts(row) > bootstrap_at
        /\ EventOf(row) = <<i, issue_state'[i].status, issue_state'[i].ts>>
    BY <2>5 DEF Recorded, EventOf
  <2>7. Upsert
    BY <2>2, <2>6 DEF SeedRow, Types, PageInv
  <2>8. is_news(row)
    BY <2>5, <2>6 DEF is_news, is_transition, fresh
  <2>. QED
    BY <2>3, <2>6, <2>7, <2>8 DEF AnnouncedInv, Upsert
<1>2. RecordedIsAnnounced <=> [][Recorded_is_announced]_vars
  BY DEF RecordedIsAnnounced, Recorded_is_announced
<1>. QED
  BY <1>1, <1>2, Invariance, PTL DEF Spec
=============================================================================
