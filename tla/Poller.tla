------------------------------- MODULE Poller -------------------------------
(***************************************************************************)
(* How the bridge turns Paperclip's issue table into events (poller.py):   *)
(* the cut-over baseline, the cursor-driven poll of every tick, and the    *)
(* periodic reconcile pass.  All three run in one thread; Paperclip        *)
(* changes underneath them, also between two pages of one listing.         *)
(*                                                                         *)
(* Time is a counter.  Paperclip may make a change visible up to Delay     *)
(* ticks after the time it stamps it with.  A killed process and a failed  *)
(* request look the same from here: the pass is given up and the next one  *)
(* starts from what the store holds.                                       *)
(***************************************************************************)
EXTENDS Integers, FiniteSets, Sequences

CONSTANTS
  Issues,         \* issue ids, numbers
  PageSize,       \* PAGE_SIZE
  MaxPages,       \* MAX_PAGES
  Overlap,        \* POLL_OVERLAP_SECONDS
  Lookback,       \* reconcile_lookback_hours
  Delay,          \* how late a stamped change may become visible
  Past,           \* statuses an issue may have when the bridge is installed
  BlockedColumn,  \* TRUE: issue rows carry blockedTransitionAt
  SlowBootstrap,  \* TRUE: the baseline may still fail when a reconcile is due
  MaxWrites,      \* bound on the changes made on the board
  MaxFaults       \* bound on the passes given up

ASSUME PollerAssumption ==
  /\ Issues \subseteq Nat /\ IsFiniteSet(Issues)
  /\ PageSize \in Nat \ {0} /\ MaxPages \in Nat \ {0}
  /\ Lookback \in Nat /\ Overlap \in Nat
  /\ Delay \in 0..Overlap
  /\ Past \subseteq {"todo", "blocked", "done"}
  /\ BlockedColumn \in BOOLEAN /\ SlowBootstrap \in BOOLEAN
  /\ {MaxWrites, MaxFaults} \subseteq Nat

VARIABLES
  \* Paperclip
  now, issues,
  \* the bridge's store; 0 stands for a time that is not set
  cursor, bootstrap_at, issue_state, events,
  \* the poller thread
  at, mode, since, offset, pages,
  page,          \* the rows of the page that are left
  full, latest,
  changed,       \* history: Paperclip changed since the poll began
  \* history
  writes, faults,
  first_seed,    \* when the first baseline began
  shifted        \* a later page was read after such a change

paperclip == <<now, issues>>
store == <<cursor, bootstrap_at, issue_state, events>>
locals == <<mode, since, offset, pages, page, full, latest, changed>>
history == <<writes, faults, first_seed, shifted>>
vars == <<paperclip, store, at, locals, history>>

\* Two stand for the four statuses of an open issue.
OpenStatuses == <<"todo", "in_progress">>
Open == {"todo", "in_progress"}
Terminal == {"blocked", "done"}
Places == {"idle", "seed", "fetch", "emit", "upsert", "finish"}

Exists(i) == issues[i].status # "none"

(* --- events.py ---------------------------------------------------------- *)

\* The timestamp that makes a terminal observation unique.
terminal_ts(issue) ==
  CASE issue.status = "done" -> issue.stamp
    [] issue.status = "blocked" -> IF BlockedColumn THEN issue.stamp ELSE issue.updated
    [] OTHER -> 0

\* Deliberate bug: a blocked issue is not taken for an end.
is_transition_BUG(previous, issue) ==
  previous.status \notin {"none", "done"} /\ issue.status = "done"

\* The event a tick derives from the state it recorded last.
is_transition(previous, issue) ==
  /\ previous.status # "none"
  /\ issue.status \in Terminal
  /\ \/ issue.status # previous.status
     \/ issue.status = "blocked" /\ terminal_ts(issue) # previous.ts

(* --- poller.py ---------------------------------------------------------- *)

\* Deliberate bugs: the watermark is not looked at; the poll asks for what is
\* newer than the cursor.
late_terminal_BUG(previous, issue) == previous.status = "none" /\ issue.status \in Terminal
poll_since_BUG == cursor + 1

\* First observation of an issue that is terminal already: news only when it
\* was created after the baseline.
late_terminal(previous, issue) ==
  /\ previous.status = "none"
  /\ issue.status \in Terminal
  /\ bootstrap_at # 0 /\ issue.created > bootstrap_at

\* What a reconcile pass takes for news.
fresh(issue) == bootstrap_at = 0 \/ terminal_ts(issue) > bootstrap_at

is_news(issue) ==
  IF mode = "tick"
    THEN LET previous == issue_state[issue.id]
         IN  is_transition(previous, issue) \/ late_terminal(previous, issue)
    ELSE issue.status \in Terminal /\ fresh(issue)

poll_since == cursor - Overlap

EventOf(issue) == <<issue.id, issue.status, terminal_ts(issue)>>

\* GET /issues?updatedSince&sortField=updated&sortDir=asc
Row(i) == [id |-> i, status |-> issues[i].status, created |-> issues[i].created,
           updated |-> issues[i].updated, stamp |-> issues[i].stamp]

listing(from) == {Row(i) : i \in {j \in Issues : Exists(j) /\ issues[j].updated >= from}}

\* Sorted by the time of the update; ties are broken the same way every time.
Before(a, b) == a.updated < b.updated \/ (a.updated = b.updated /\ a.id < b.id)

Position(row, rows) == Cardinality({o \in rows : Before(o, row)})

issues_updated_since ==
  {row \in listing(since) : Position(row, listing(since)) \in offset..(offset + PageSize - 1)}

\* GET /issues?status&limit, which is not paged: any PageSize of them.
issues_with_status(s) ==
  LET found == {Row(i) : i \in {j \in Issues : issues[j].status = s}}
  IN  {rows \in SUBSET found :
         Cardinality(rows) = PageSize \/ (rows = found /\ Cardinality(found) < PageSize)}

\* The row the loop over the page has come to.
First(row) == row \in page /\ \A o \in page : o = row \/ Before(row, o)

upsert_issue_state(issue) ==
  issue_state' = [issue_state EXCEPT ![issue.id] =
                    [status |-> issue.status, ts |-> terminal_ts(issue), updated |-> issue.updated]]

-----------------------------------------------------------------------------
NoIssue == [status |-> "none", created |-> 0, updated |-> 0, stamp |-> 0]

Start == Delay + 2

\* Before the bridge is installed the board already has a past.
Init ==
  /\ now = Start
  /\ issues \in [Issues -> {NoIssue} \cup
       {[status |-> s, created |-> 1, updated |-> 1, stamp |-> 1] : s \in Past}]
  /\ cursor = 0 /\ bootstrap_at = 0 /\ events = {}
  /\ issue_state = [i \in Issues |-> [status |-> "none", ts |-> 0, updated |-> 0]]
  /\ at = "idle" /\ mode = "tick" /\ since = 0 /\ offset = 0 /\ pages = 0
  /\ page = {} /\ full = FALSE /\ latest = 0
  /\ writes = 0 /\ faults = 0 /\ first_seed = 0 /\ changed = FALSE /\ shifted = FALSE

\* A pass is over; its locals are gone.
Rest ==
  /\ at' = "idle" /\ mode' = "tick" /\ since' = 0 /\ offset' = 0 /\ pages' = 0
  /\ page' = {} /\ full' = FALSE /\ latest' = 0 /\ changed' = FALSE

(* --- bootstrap ---------------------------------------------------------- *)

Bootstrap ==
  /\ at = "idle" /\ cursor = 0
  /\ at' = "seed"
  /\ first_seed' = IF first_seed = 0 THEN now ELSE first_seed
  /\ UNCHANGED <<paperclip, store, locals, writes, faults, shifted>>

\* One request per status, one after the other.  The board may move between
\* them: an issue may be listed by two of them, or by none.
ListOpen ==
  /\ at = "seed" /\ page = {}
  /\ \E k \in 1..Len(OpenStatuses) :
       /\ k = pages + 1
       /\ page' \in issues_with_status(OpenStatuses[k])
  /\ pages' = pages + 1
  /\ UNCHANGED <<paperclip, store, at, mode, since, offset, full, latest, changed, history>>

SeedRow ==
  /\ at = "seed"
  /\ \E row \in page :
       /\ upsert_issue_state(row)
       /\ page' = page \ {row}
  /\ UNCHANGED <<paperclip, cursor, bootstrap_at, events, at, mode, since, offset, pages, full, latest, changed, history>>

\* Deliberate bug: the watermark is not stored.
EndBootstrap_BUG ==
  /\ at = "seed" /\ page = {} /\ pages = Len(OpenStatuses)
  /\ cursor' = now
  /\ Rest
  /\ UNCHANGED <<paperclip, bootstrap_at, issue_state, events, history>>

EndBootstrap ==
  /\ at = "seed" /\ page = {} /\ pages = Len(OpenStatuses)
  /\ cursor' = now /\ bootstrap_at' = now
  /\ Rest
  /\ UNCHANGED <<paperclip, issue_state, events, history>>

(* --- tick and reconcile ------------------------------------------------- *)

StartPoll ==
  /\ at = "idle" /\ cursor # 0
  /\ at' = "fetch" /\ mode' = "tick"
  /\ since' = poll_since /\ latest' = cursor
  /\ UNCHANGED <<paperclip, store, offset, pages, page, full, changed, history>>

\* Deliberate bug: a reconcile is only due as long as there is no baseline.
StartReconcile_BUG ==
  /\ at = "idle" /\ cursor = 0 /\ SlowBootstrap
  /\ at' = "fetch" /\ mode' = "reconcile" /\ since' = 0
  /\ UNCHANGED <<paperclip, store, offset, pages, page, full, latest, changed, history>>

\* The loop runs the tick first, but a tick that failed does not keep the
\* reconcile from running when its time has come.
StartReconcile ==
  /\ at = "idle"
  /\ cursor # 0 \/ (SlowBootstrap /\ faults > 0)
  /\ at' = "fetch" /\ mode' = "reconcile"
  /\ since' = IF now > Lookback THEN now - Lookback ELSE 0
  /\ UNCHANGED <<paperclip, store, offset, pages, page, full, latest, changed, history>>

FetchPage ==
  /\ at = "fetch"
  /\ page' = issues_updated_since
  /\ full' = (Cardinality(page') = PageSize)
  /\ pages' = pages + 1 /\ offset' = offset + PageSize
  /\ at' = IF page' = {} THEN "finish" ELSE "emit"
  /\ shifted' = (shifted \/ (mode = "tick" /\ offset > 0 /\ changed))
  /\ UNCHANGED <<paperclip, store, mode, since, latest, writes, faults, first_seed, changed>>

\* The event is stored before the state it was derived from is replaced.
Emit ==
  /\ at = "emit"
  /\ \E row \in page :
       /\ First(row)
       /\ events' = IF is_news(row) THEN events \cup {EventOf(row)} ELSE events
  /\ at' = "upsert"
  /\ UNCHANGED <<paperclip, cursor, bootstrap_at, issue_state, locals, history>>

Upsert ==
  /\ at = "upsert"
  /\ \E row \in page :
       /\ First(row)
       /\ upsert_issue_state(row)
       /\ latest' = IF mode = "tick" /\ row.updated > latest THEN row.updated ELSE latest
       /\ page' = page \ {row}
  /\ at' = IF page' # {} THEN "emit"
           ELSE IF full /\ pages < MaxPages THEN "fetch" ELSE "finish"
  /\ UNCHANGED <<paperclip, cursor, bootstrap_at, events, mode, since, offset, pages, full, changed, history>>

\* Only a poll moves the cursor, and only when it has gone through.
Finish ==
  /\ at = "finish"
  /\ cursor' = IF mode = "tick" THEN latest ELSE cursor
  /\ Rest
  /\ UNCHANGED <<paperclip, bootstrap_at, issue_state, events, history>>

GiveUp ==
  /\ at # "idle" /\ faults < MaxFaults
  /\ faults' = faults + 1
  /\ Rest
  /\ UNCHANGED <<paperclip, store, writes, first_seed, shifted>>

(* --- Paperclip ---------------------------------------------------------- *)

\* The clock only matters when something is stamped, so it moves with the
\* changes.
Write(i, issue) ==
  /\ writes < MaxWrites /\ writes' = writes + 1
  /\ issues' = [issues EXCEPT ![i] = issue]
  /\ changed' = (mode = "tick" /\ at \notin {"idle", "seed"})
  /\ UNCHANGED <<store, at, mode, since, offset, pages, page, full, latest, faults, first_seed, shifted>>

Create(i, t) ==
  /\ ~Exists(i)
  /\ Write(i, [status |-> "todo", created |-> t, updated |-> t, stamp |-> t])

\* A comment, a label, an assignment.
Touch(i, t) ==
  /\ Exists(i) /\ t > issues[i].updated
  /\ Write(i, [issues[i] EXCEPT !.updated = t])

Move(i, s, t) ==
  /\ Exists(i) /\ issues[i].status # s /\ t >= issues[i].updated
  /\ Write(i, [issues[i] EXCEPT !.status = s, !.updated = t, !.stamp = t])

-----------------------------------------------------------------------------
Tick == Bootstrap \/ ListOpen \/ SeedRow \/ EndBootstrap \/ StartPoll
Pages == FetchPage \/ Emit \/ Upsert \/ Finish

Board ==
  /\ now' = now + 1
  /\ \E i \in Issues, t \in (now' - Delay)..now' :
       Create(i, t) \/ Touch(i, t) \/ \E s \in Open \cup Terminal : Move(i, s, t)

Next == Tick \/ StartReconcile \/ Pages \/ GiveUp \/ Board

Spec == Init /\ [][Next]_vars

\* The loop ticks for ever, a reconcile comes round again and again, and a
\* pass that is not interrupted comes to its end.
FairSpec ==
  /\ Spec
  /\ WF_vars(Tick) /\ WF_vars(Pages) /\ SF_vars(StartReconcile)
-----------------------------------------------------------------------------
Times == 0..(Start + MaxWrites)

TypeOK ==
  /\ now \in Times
  /\ \A i \in Issues :
       /\ issues[i].status \in {"none"} \cup Open \cup Terminal
       /\ issues[i].created <= issues[i].updated /\ issues[i].updated <= now
       /\ issue_state[i].status \in {"none"} \cup Open \cup Terminal
       /\ issue_state[i].updated <= issues[i].updated
  /\ cursor \in Times /\ bootstrap_at \in Times
  /\ cursor = 0 <=> bootstrap_at = 0
  /\ events \subseteq Issues \X Terminal \X Times
  /\ at \in Places /\ mode \in {"tick", "reconcile"}
  /\ at \in {"emit", "upsert"} => page # {}
  /\ latest \in Times

\* The baseline: whatever ended before the bridge first looked at the board
\* is observed, not delivered - even when the first baselines fail half-way,
\* and whatever happens to an old issue later.
NoHistoryReplay == \A e \in events : first_seed # 0 /\ e[3] >= first_seed - Delay

\* No change is left behind the cursor: the next tick lists whatever has not
\* been recorded yet.  The exception is a listing read across several pages
\* while the board changed, whose offset may have skipped a row.
NothingBehindCursor ==
  ~shifted => \A i \in Issues :
    bootstrap_at < issues[i].updated /\ issue_state[i].updated # issues[i].updated
      => issues[i].updated >= poll_since

\* A tick or a reconcile that records the end of an issue it knew as open has
\* stored the event for it, wherever the process was killed.
RecordedIsAnnounced ==
  [][\A i \in Issues :
       /\ issue_state[i].status \in Open
       /\ issue_state'[i].status \in Terminal
       /\ issue_state'[i].ts > bootstrap_at
       => <<i, issue_state'[i].status, issue_state'[i].ts>> \in events]_vars

\* Every end after the baseline is announced, unless the issue moves on
\* first: skipped rows, unseeded issues and abandoned passes are made up for.
Owed(i) ==
  /\ issues[i].status \in Terminal
  /\ bootstrap_at # 0 /\ terminal_ts(issues[i]) > bootstrap_at

Announced(i) == <<i, issues[i].status, terminal_ts(issues[i])>> \in events

EveryEndAnnounced == \A i \in Issues : []<>(Owed(i) => Announced(i))
=============================================================================
