------------------------------- MODULE RunSweep ------------------------------
(***************************************************************************)
(* opc_bridge/poller.py, _sweep_runs: failed runs become events.  Each     *)
(* sweep reads the newest runs, looks at those that finished since its     *)
(* cursor less an overlap, and moves the cursor to the newest finish it    *)
(* saw.  The first sweep that sees a finished run only sets the cursor.    *)
(***************************************************************************)
EXTENDS Integers, FiniteSets

CONSTANTS
    RunIds,       \* runs, 1..n in the order they start
    Limit,        \* run_sweep_limit: how many of the newest runs a sweep reads
    Overlap,      \* run_sweep_overlap_seconds
    NoCursor,     \* no cursor yet, or the run has not finished
    MaxMoment,    \* bound on the clock
    MaxErrors     \* bound on failed requests for a ticket

ASSUME SweepAssumption ==
    /\ RunIds \subseteq Nat
    /\ Limit \in Nat /\ Overlap \in Nat
    /\ NoCursor \notin Int

VARIABLES
    moment,
    begun,      \* how many runs have started
    finishedAt, \* when each run finished
    failed,     \* runs that failed, or were refused (agent_not_invokable), and
                \* whose ticket is in no quiet status
    visible,    \* runs whose end the run list shows
    cursor,     \* run_sweep_cursor
    page,       \* the runs a running sweep has still to look at
    latest,     \* the newest finish that sweep has seen
    reported,   \* runs whose event is in the outbox
    excused,    \* history: runs a sweep passed over for a named reason
    errors

sweepVars == <<moment, begun, finishedAt, failed, visible, cursor, page, latest,
               reported, excused, errors>>

SweepInit ==
    /\ moment = 0
    /\ begun = 0
    /\ finishedAt = [r \in RunIds |-> NoCursor]
    /\ failed = {}
    /\ visible = {}
    /\ cursor = NoCursor
    /\ page = {}
    /\ latest = NoCursor
    /\ reported = {}
    /\ excused = {}
    /\ errors = 0

----------------------------------------------------------------------------
(* Paperclip (external): runs start in order, finish in any, and the list  *)
(* may show an end a moment after its time stamp.                          *)

Begin ==
    /\ begun < Cardinality(RunIds)
    /\ begun' = begun + 1
    /\ UNCHANGED <<moment, finishedAt, failed, visible, cursor, page, latest,
                   reported, excused, errors>>

Finish(r, reportable) ==
    /\ r <= begun /\ finishedAt[r] = NoCursor
    /\ finishedAt' = [finishedAt EXCEPT ![r] = moment]
    /\ failed' = IF reportable THEN failed \cup {r} ELSE failed
    /\ UNCHANGED <<moment, begun, visible, cursor, page, latest, reported,
                   excused, errors>>

Show(r) ==
    /\ finishedAt[r] # NoCursor /\ r \notin visible
    /\ visible' = visible \cup {r}
    /\ UNCHANGED <<moment, begun, finishedAt, failed, cursor, page, latest,
                   reported, excused, errors>>

\* The list never lags by more than the overlap.
Pass ==
    /\ moment < MaxMoment
    /\ \A r \in RunIds : finishedAt[r] # NoCursor /\ r \notin visible =>
                            moment < finishedAt[r] + Overlap
    /\ moment' = moment + 1
    /\ UNCHANGED <<begun, finishedAt, failed, visible, cursor, page, latest,
                   reported, excused, errors>>

----------------------------------------------------------------------------

Listed == {r \in RunIds : r <= begun /\ r > begun - Limit}
Ended(rs) == {finishedAt[r] : r \in rs \cap visible}
Newest(times) == CHOOSE t \in times : \A u \in times : u <= t

\* What a sweep passes over for good: ends older than its overlap reaches.
InReach_BUG(r) == finishedAt[r] > cursor
InReach(r) == finishedAt[r] >= cursor - Overlap

Baseline ==
    /\ page = {} /\ cursor = NoCursor
    /\ Ended(Listed) # {}
    /\ cursor' = Newest(Ended(Listed))
    /\ excused' = excused \cup {r \in RunIds : finishedAt[r] # NoCursor /\ finishedAt[r] <= cursor'}
    /\ UNCHANGED <<moment, begun, finishedAt, failed, visible, page, latest,
                   reported, errors>>

\* A run off the page is out of the sweep's sight.
SweepBegins ==
    /\ page = {} /\ cursor # NoCursor
    /\ page' = {r \in Listed \cap visible : InReach(r)}
    /\ page' # {}
    /\ latest' = cursor
    /\ excused' = excused \cup {r \in visible \ Listed : finishedAt[r] # NoCursor}
    /\ UNCHANGED <<moment, begun, finishedAt, failed, visible, cursor, reported,
                   errors>>

\* The failing run's ticket is fetched; when that fails the run is skipped
\* like one whose ticket is quiet.
Look(r) ==
    /\ r \in page
    /\ page' = page \ {r}
    /\ LET newest == IF finishedAt[r] > latest THEN finishedAt[r] ELSE latest
       IN IF page' = {} THEN cursor' = newest /\ latest' = NoCursor
                        ELSE latest' = newest /\ UNCHANGED cursor
    /\ \/ /\ r \notin failed
          /\ excused' = excused \cup {r}
          /\ UNCHANGED <<reported, errors>>
       \/ /\ r \in failed
          /\ reported' = reported \cup {r}
          /\ UNCHANGED <<excused, errors>>
       \/ /\ r \in failed /\ errors < MaxErrors
          /\ errors' = errors + 1
          /\ excused' = excused \cup {r}
          /\ UNCHANGED reported
    /\ UNCHANGED <<moment, begun, finishedAt, failed, visible>>

\* A crash in mid-sweep leaves the cursor where it was.
SweepDies ==
    /\ page # {}
    /\ page' = {}
    /\ latest' = NoCursor
    /\ UNCHANGED <<moment, begun, finishedAt, failed, visible, cursor, reported, excused,
                   errors>>

SweepNext ==
    \/ Begin \/ Pass \/ Baseline \/ SweepBegins \/ SweepDies
    \/ \E r \in RunIds :
          \/ Show(r) \/ Look(r)
          \/ \E reportable \in BOOLEAN : Finish(r, reportable)

SweepSpec == SweepInit /\ [][SweepNext]_sweepVars

----------------------------------------------------------------------------

\* No failed run slips past the cursor: one that no later sweep will look at
\* was reported, or passed over because it finished before the baseline, was
\* off the page, had a quiet ticket, or its ticket could not be read.
SweepCovers ==
    cursor # NoCursor =>
        \A r \in RunIds :
            finishedAt[r] # NoCursor /\ ~InReach(r) => r \in reported \cup excused
=============================================================================
