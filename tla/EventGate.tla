----------------------------- MODULE EventGate -----------------------------
(***************************************************************************)
(* The gate in front of an agent (opc-event-gate.patch in buzz-acp): of    *)
(* the messages that carry the opc-event tag it lets those of the bridge   *)
(* start a turn, each event id once.  The ids it has seen are a bounded    *)
(* FIFO in memory with a text file behind it, one id per line.             *)
(*                                                                         *)
(* A line is written by two write calls, the id and the newline, so a line *)
(* is modelled as the sequence of ids that ended up on it: <<e>> when it   *)
(* is well formed, longer when a newline between two ids is missing.  Such *)
(* a line is read back as one, unknown, id.                                *)
(***************************************************************************)
EXTENDS Naturals, FiniteSets, Sequences, SequencesExt

CONSTANTS
  Events,         \* event ids
  Limit,          \* SEEN_LIMIT
  WriteFaults,    \* TRUE: writing the file may fail
  TornLines,      \* TRUE: a line's newline may be missing after a crash
  MaxRestarts,    \* bound on the number of crashes
  MaxInserts      \* bound on the number of ids recorded

ASSUME GateAssumption ==
  /\ Limit \in Nat \ {0}
  /\ WriteFaults \in BOOLEAN /\ TornLines \in BOOLEAN
  /\ MaxRestarts \in Nat /\ MaxInserts \in Nat

VARIABLES
  alive,      \* the harness is running
  life,       \* how often it was restarted
  ids,        \* SeenSet.ids, oldest first; SeenSet.set is its range
  file,       \* the lines of the seen file
  open,       \* the last line lacks its newline
  log,        \* history: every id recorded, and whether its turn began
  damaged     \* history: a line was lost or left without its newline

gvars == <<alive, life, ids, file, open, log, damaged>>

Authors == {"bridge", "other"}

\* Deliberate bugs: the author is not looked at, the seen set is not looked
\* at, a start forgets the file, nothing is ever evicted.
admits_anyone_BUG(author, e) == ~Contains(ids, <<e>>)
admits_again_BUG(author, e) == author = "bridge"
loaded_BUG == <<>>
pushed_BUG(e) == Append(ids, <<e>>)

seen(e) == Contains(ids, <<e>>)

\* Gate::check for a message carrying the event tag.
admits(author, e) == author = "bridge" /\ ~seen(e)

\* SeenSet::new: the newest Limit lines in their order, each where it first
\* occurs.
newest == SubSeq(file, IF Len(file) > Limit THEN Len(file) - Limit + 1 ELSE 1, Len(file))

firsts(lines) == {i \in DOMAIN lines : \A j \in 1..i-1 : lines[j] # lines[i]}

loaded ==
  LET place(i) == Cardinality({j \in firsts(newest) : j <= i})
  IN  [k \in 1..Cardinality(firsts(newest)) |->
         newest[CHOOSE i \in firsts(newest) : place(i) = k]]

\* SeenSet::insert, in memory.
pushed(e) ==
  LET longer == Append(ids, <<e>>)
  IN  IF Len(longer) > Limit THEN Tail(longer) ELSE longer

compacts(e) == Len(pushed(e)) > Limit \div 2

withId(e) ==
  IF open THEN [file EXCEPT ![Len(file)] = Append(@, e)] ELSE Append(file, <<e>>)

\* SeenSet::insert, on disk: rewrite the file through a temporary one, or
\* append a line.
Written(e) ==
  /\ file' = IF compacts(e) THEN pushed(e) ELSE withId(e)
  /\ open' = FALSE
  /\ UNCHANGED damaged

NotWritten == UNCHANGED <<file, open>>

NewlineMissing(e) ==
  /\ ~compacts(e)
  /\ file' = withId(e) /\ open' = TRUE
  /\ damaged' = TRUE

Record(e, ran) == log' = Append(log, [id |-> e, ran |-> ran, life |-> life])

-----------------------------------------------------------------------------
Init ==
  /\ alive = TRUE /\ life = 0
  /\ ids = <<>> /\ file = <<>> /\ open = FALSE
  /\ log = <<>> /\ damaged = FALSE

\* A tagged message is admitted, remembered, and its turn starts.  A message
\* that is not admitted changes nothing.
Check(author, e) ==
  /\ alive /\ Len(log) < MaxInserts
  /\ admits(author, e)
  /\ ids' = pushed(e)
  /\ \/ Written(e)
     \/ WriteFaults /\ NotWritten /\ damaged' = TRUE
     \/ WriteFaults /\ NewlineMissing(e)
  /\ Record(e, TRUE)
  /\ UNCHANGED <<alive, life>>

Die ==
  /\ life < MaxRestarts
  /\ alive' = FALSE /\ life' = life + 1
  /\ ids' = <<>>

\* Killed inside check: the file may have the id, part of its line, or
\* nothing; the turn never starts.
CrashInCheck(author, e) ==
  /\ alive /\ Len(log) < MaxInserts
  /\ admits(author, e)
  /\ Die
  /\ \/ Written(e)
     \/ NotWritten /\ UNCHANGED damaged
     \/ TornLines /\ NewlineMissing(e)
  /\ Record(e, FALSE)

Crash ==
  /\ alive
  /\ Die
  /\ UNCHANGED <<file, open, log, damaged>>

Start ==
  /\ ~alive
  /\ alive' = TRUE
  /\ ids' = loaded
  /\ UNCHANGED <<life, file, open, log, damaged>>

Restarts == Crash \/ Start

Next ==
  \/ \E author \in Authors, e \in Events : Check(author, e) \/ CrashInCheck(author, e)
  \/ Restarts

Spec == Init /\ [][Next]_gvars

-----------------------------------------------------------------------------
Lines == Seq(Events) \ {<<>>}

TypeOK ==
  /\ alive \in BOOLEAN
  /\ life \in 0..MaxRestarts
  /\ ids \in Seq(Lines) /\ Len(ids) <= Limit
  /\ file \in Seq(Lines)
  /\ damaged \in BOOLEAN
  /\ open \in BOOLEAN /\ (open => file # <<>>)
  /\ log \in Seq([id : Events, ran : BOOLEAN, life : 0..MaxRestarts])

\* Two turns for one event, and how many other ids were recorded in between.
Turns(e) == {i \in DOMAIN log : log[i].id = e /\ log[i].ran}

Between(i, j) == Cardinality({log[k].id : k \in i+1..j-1})

\* A message repeated or reordered by the relay, re-posted by the bridge
\* after a lost acknowledgement, or posted again for a re-opened row starts
\* no second turn within the window the gate remembers.  As long as the
\* process lives it forgets an id only after Limit newer ones, whatever
\* happens to the file.
NoReplayInLife ==
  \A e \in Events : \A i, j \in Turns(e) :
    i < j /\ log[i].life = log[j].life => Between(i, j) >= Limit

\* "A replayed event id never produces a second turn, across restarts": so
\* far as the window reaches, and as long as no line was lost or torn.
NoReplayInWindow ==
  ~damaged => \A e \in Events : \A i, j \in Turns(e) : i < j => Between(i, j) >= Limit
=============================================================================
