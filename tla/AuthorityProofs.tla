--------------------------- MODULE AuthorityProofs ---------------------------
(***************************************************************************)
(* Proofs about the commands of the operator: a message is carried out at  *)
(* most once (OneCommand), and the resolver never widens what the rows     *)
(* allow (NoWidening).                                                     *)
(***************************************************************************)
EXTENDS Authority, FiniteSetTheorems, WellFoundedInduction, TLAPS

Steps == {"idle", "verified", "act", "cancel", "settle"}

Row == [verb : {"grant", "override"}, scope : DOMAIN ScopeRank, value : BOOLEAN,
        at : Nat, live : BOOLEAN]

AuthorityTypes ==
    /\ time \in Nat
    /\ used \subseteq Order
    /\ rows \in Seq(Row)
    /\ status \in [Runs -> {"running", "succeeded", "cancelled", "interrupted"}]
    /\ stopped \subseteq Runs /\ cancelling \subseteq Runs
    /\ executed \in [Order -> Nat]
    /\ step \in [Handler -> Steps]
    /\ msg \in [Handler -> Order \cup {NoCall}]
    /\ cmd \in [Handler -> Commands \cup {NoCall}]

\* No row is newer than the present.
RowsPast == \A i \in DOMAIN rows : rows[i].at <= time

\* A handler that serves a call does what a message of the operator says; one
\* that is past its INSERT has taken the message out of use.
Warranted(h) ==
    /\ msg[h] \in Order /\ cmd[h] \in Says[msg[h]] \cap Commands
    /\ SignedBy[msg[h]] = Operator
    /\ step[h] # "verified" => msg[h] \in used
    /\ step[h] \in {"cancel", "settle"} => cmd[h] \in Stops /\ executed[msg[h]] = 1

Warrants == \A h \in Handler : step[h] # "idle" => Warranted(h)

\* At most one handler acts on a message, and none after it was carried out.
OneActor ==
    \A h \in Handler : step[h] = "act" =>
        /\ executed[msg[h]] = 0
        /\ \A g \in Handler : step[g] = "act" /\ msg[g] = msg[h] => g = h

\* A message was carried out at most once, and was out of use before that.
SpentOnce ==
    \A m \in Order : executed[m] # 0 => executed[m] = 1 /\ m \in used /\ SignedBy[m] = Operator

\* What force_stop reported is true; what it asked for and reported was ordered.
StoppedByOrder ==
    /\ \A r \in stopped : status[r] \in {"cancelled", "interrupted"}
    /\ \A r \in stopped \cup cancelling :
        \E m \in Order : executed[m] = 1 /\ [verb |-> "stop", run |-> r] \in Says[m]

AuthorityInv ==
    /\ AuthorityTypes
    /\ RowsPast
    /\ Warrants
    /\ OneActor
    /\ SpentOnce
    /\ StoppedByOrder

----------------------------------------------------------------------------
(* The resolver.                                                           *)

\* A measure that takes natural values on a set has a least one.
LEMMA LeastExists ==
    ASSUME NEW T, T # {}, NEW f \in [T -> Nat]
    PROVE  \E t \in T : \A u \in T : f[t] <= f[u]
<1>. DEFINE D == {f[t] : t \in T}
<1>1. D \subseteq Nat /\ D # {}
  OBVIOUS
<1>2. PICK d \in D : \A c \in D : ~(<<c, d>> \in OpToRel(<, Nat))
  <2>. HIDE DEF D
  <2>. QED
    BY <1>1, NatLessThanWellFounded, WFMin, Zenon
<1>3. \A c \in D : d <= c
  <2>1. \A c, b \in Nat : c < b => <<c, b>> \in OpToRel(<, Nat)
    BY DEF OpToRel
  <2>. HIDE DEF D
  <2>2. \A c \in D : ~(c < d)
    BY <1>1, <1>2, <2>1, Zenon
  <2>. QED
    BY <1>1, <2>2
<1>. QED
  BY <1>3

Rows == Row \cup {Default}

\* The measures the resolver compares are numbers.
LEMMA MeasureFacts ==
    ASSUME NEW r \in Rows
    PROVE  Priority(r) \in Nat /\ ScopeRank[r.scope] \in 1..3 /\ r.at \in Nat
<1>1. r.scope \in {"company", "track", "project"} /\ r.at \in Nat
  BY DEF Rows, Row, Default, ScopeRank
<1>. QED
  BY <1>1 DEF Priority, ScopeRank

\* Among rows not made after some time one wins against all, or ties.
LEMMA BestExists ==
    ASSUME NEW cs \in SUBSET Rows, cs # {}, NEW now \in Nat, \A r \in cs : r.at <= now
    PROVE  Best(cs) # {}
<1>1. PICK p \in cs : \A r \in cs : Priority(p) <= Priority(r)
  <2>. DEFINE f == [r \in cs |-> Priority(r)]
  <2>1. f \in [cs -> Nat]
    BY MeasureFacts
  <2>. HIDE DEF f
  <2>2. \E p \in cs : \A r \in cs : f[p] <= f[r]
    BY <2>1, LeastExists
  <2>. QED
    BY <2>2 DEF f
<1>. DEFINE P == {r \in cs : Priority(r) = Priority(p)}
<1>2. PICK s \in P : \A r \in P : ScopeRank[r.scope] <= ScopeRank[s.scope]
  <2>. DEFINE f == [r \in P |-> 3 - ScopeRank[r.scope]]
  <2>1. f \in [P -> Nat] /\ P # {}
    BY MeasureFacts
  <2>2. \A r \in P : f[r] = 3 - ScopeRank[r.scope] /\ ScopeRank[r.scope] \in 1..3
    BY MeasureFacts
  <2>. HIDE DEF f, P
  <2>3. \E s \in P : \A r \in P : f[s] <= f[r]
    BY <2>1, LeastExists
  <2>. QED
    BY <2>2, <2>3
<1>. DEFINE S == {r \in P : ScopeRank[r.scope] = ScopeRank[s.scope]}
<1>3. PICK b \in S : \A r \in S : r.at <= b.at
  <2>. DEFINE f == [r \in S |-> now - r.at]
  <2>1. f \in [S -> Nat] /\ S # {}
    BY MeasureFacts
  <2>2. \A r \in S : f[r] = now - r.at /\ r.at \in Nat
    BY MeasureFacts
  <2>. HIDE DEF f, S, P
  <2>3. \E b \in S : \A r \in S : f[b] <= f[r]
    BY <2>1, LeastExists
  <2>. QED
    BY <2>2, <2>3
<1>4. \A r \in cs : AtLeast(b, r)
  <2>. TAKE r \in cs
  <2>1. r \in Rows /\ b \in Rows /\ b \in cs
    OBVIOUS
  <2>2. Priority(b) = Priority(p) /\ ScopeRank[b.scope] = ScopeRank[s.scope]
    OBVIOUS
  <2>3. /\ Priority(r) \in Nat /\ Priority(b) \in Nat
        /\ ScopeRank[r.scope] \in 1..3 /\ ScopeRank[b.scope] \in 1..3
        /\ r.at \in Nat /\ b.at \in Nat
    BY <2>1, MeasureFacts
  <2>4. CASE Priority(r) # Priority(p)
    BY <1>1, <2>2, <2>3, <2>4 DEF AtLeast
  <2>5. CASE Priority(r) = Priority(p) /\ ScopeRank[r.scope] # ScopeRank[s.scope]
    BY <1>2, <2>2, <2>3, <2>5 DEF AtLeast
  <2>6. CASE Priority(r) = Priority(p) /\ ScopeRank[r.scope] = ScopeRank[s.scope]
    BY <1>3, <2>2, <2>3, <2>6 DEF AtLeast
  <2>. QED
    BY <2>4, <2>5, <2>6
<1>. QED
  BY <1>4 DEF Best

\* Of rows no newer than the present, only a live one that allows can make
\* the resolver allow, and no live override that forbids, of a scope at least
\* as narrow and made no earlier, can lose to it.
LEMMA ResolverNarrows == AuthorityTypes /\ RowsPast => NoWidening
<1>. SUFFICES ASSUME AuthorityTypes, RowsPast, Effective(rows)
              PROVE  \E i \in DOMAIN rows :
                       /\ rows[i].live /\ rows[i].value
                       /\ ~\E j \in DOMAIN rows :
                             /\ rows[j].live /\ rows[j].verb = "override" /\ ~rows[j].value
                             /\ ScopeRank[rows[j].scope] >= ScopeRank[rows[i].scope]
                             /\ rows[j].at >= rows[i].at
  BY DEF NoWidening
<1>. DEFINE cs == Candidates(rows)
<1>1. \A i \in DOMAIN rows : rows[i] \in Rows /\ rows[i].verb \in {"grant", "override"}
  <2>1. \A i \in DOMAIN rows : rows[i] \in Row
    BY DEF AuthorityTypes
  <2>. QED
    BY <2>1 DEF Rows, Row
<1>2. cs \subseteq Rows /\ cs # {} /\ time \in Nat
  BY <1>1 DEF Candidates, Rows, AuthorityTypes
<1>3. \A r \in cs : r.at <= time
  <2>1. Default.at = 0 /\ \A i \in DOMAIN rows : rows[i].at <= time
    BY DEF Default, RowsPast
  <2>. QED
    BY <1>2, <2>1 DEF Candidates
<1>. HIDE DEF cs
<1>4. PICK b \in Best(cs) : TRUE
  BY <1>2, <1>3, BestExists
<1>5. b \in cs /\ b.value
  BY <1>4 DEF Best, Effective, cs
<1>6. b # Default
  BY <1>5 DEF Default
<1>7. PICK i \in DOMAIN rows : rows[i].live /\ rows[i] = b
  BY <1>5, <1>6 DEF cs, Candidates
<1>8. ASSUME NEW j \in DOMAIN rows,
             rows[j].live, rows[j].verb = "override", ~rows[j].value,
             ScopeRank[rows[j].scope] >= ScopeRank[b.scope], rows[j].at >= b.at
      PROVE  FALSE
  <2>1. rows[j] \in cs
    BY <1>8 DEF cs, Candidates
  <2>2. AtLeast(b, rows[j]) /\ \A r \in cs : AtLeast(b, r)
    BY <1>4, <2>1 DEF Best
  <2>3. b.verb \in {"grant", "override"} /\ b \in Rows /\ rows[j] \in Rows
    BY <1>1, <1>7
  <2>4. /\ Priority(b) \in Nat /\ ScopeRank[b.scope] \in 1..3 /\ b.at \in Nat
        /\ ScopeRank[rows[j].scope] \in 1..3 /\ rows[j].at \in Nat
    BY <2>3, MeasureFacts
  <2>5. Priority(rows[j]) = 20 /\ (b.verb = "grant" => Priority(b) = 30)
    BY <1>8 DEF Priority
  <2>6. Priority(b) = 20
    BY <2>3, <2>5, <2>2 DEF AtLeast, Priority
  <2>7. ScopeRank[rows[j].scope] = ScopeRank[b.scope] /\ rows[j].at = b.at
    BY <1>8, <2>2, <2>4, <2>5, <2>6 DEF AtLeast
  <2>8. \A r \in cs : AtLeast(rows[j], r)
    BY <2>2, <2>5, <2>6, <2>7 DEF AtLeast
  <2>9. rows[j] \in Best(cs)
    BY <2>1, <2>8 DEF Best
  <2>. QED
    BY <1>8, <2>9 DEF Effective, cs
<1>. QED
  BY <1>5, <1>7, <1>8

----------------------------------------------------------------------------
(* The commands.                                                           *)

\* What a command of each verb carries.
LEMMA CommandFacts ==
    ASSUME NEW c \in Commands
    PROVE  /\ c.verb = "stop" => /\ c \in Stops /\ c.run \in Runs
                                 /\ c = [verb |-> "stop", run |-> c.run]
           /\ c.verb \in {"grant", "override"} =>
                  c.scope \in DOMAIN ScopeRank /\ c.value \in BOOLEAN
<1>1. CASE c \in Grants \cup Overrides
  BY <1>1, AuthorityAssumption DEF Settings
<1>2. CASE c \in Revokes \cup Stops
  BY <1>2 DEF Revokes, Stops
<1>. QED
  BY <1>1, <1>2 DEF Commands

\* A handler goes on.
LEMMA HandlerMoves ==
    ASSUME AuthorityTypes, NEW h \in Handler, NEW where \in Steps, Proceed(h, where)
    PROVE  /\ step' \in [Handler -> Steps]
           /\ msg' \in [Handler -> Order \cup {NoCall}]
           /\ cmd' \in [Handler -> Commands \cup {NoCall}]
           /\ step'[h] = where
           /\ where # "idle" => msg'[h] = msg[h] /\ cmd'[h] = cmd[h]
           /\ \A g \in Handler \ {h} :
                 step'[g] = step[g] /\ msg'[g] = msg[g] /\ cmd'[g] = cmd[g]
  BY DEF AuthorityTypes, Proceed

\* A command is taken up.
LEMMA AskStep ==
    ASSUME AuthorityInv, NEW h \in Handler, NEW m \in Order, NEW c \in Commands, Ask(h, m, c)
    PROVE  AuthorityInv'
<1>1. /\ step' = [step EXCEPT ![h] = "verified"]
      /\ msg' = [msg EXCEPT ![h] = m] /\ cmd' = [cmd EXCEPT ![h] = c]
      /\ c \in Says[m] /\ SignedBy[m] = Operator /\ step[h] = "idle"
      /\ UNCHANGED <<time, used, rows, status, cancelling, stopped, executed>>
  BY DEF Ask, Authorises
<1>2. /\ step'[h] = "verified" /\ msg'[h] = m /\ cmd'[h] = c
      /\ \A g \in Handler \ {h} :
            step'[g] = step[g] /\ msg'[g] = msg[g] /\ cmd'[g] = cmd[g]
  BY <1>1 DEF AuthorityInv, AuthorityTypes
<1>3. AuthorityTypes'
  BY <1>1 DEF AuthorityInv, AuthorityTypes, Steps
<1>4. Warrants'
  BY <1>1, <1>2 DEF AuthorityInv, Warrants, Warranted
<1>5. OneActor'
  BY <1>1, <1>2 DEF AuthorityInv, OneActor
<1>6. (RowsPast /\ SpentOnce /\ StoppedByOrder)'
  BY <1>1 DEF AuthorityInv, RowsPast, SpentOnce, StoppedByOrder
<1>. QED
  BY <1>3, <1>4, <1>5, <1>6 DEF AuthorityInv

\* The INSERT that takes a message out of use succeeds for one handler.
LEMMA UseAuthStep ==
    ASSUME AuthorityInv, NEW h \in Handler, UseAuth(h)
    PROVE  AuthorityInv'
<1>. DEFINE where == IF msg[h] \in used THEN "idle" ELSE "act"
<1>1. /\ step[h] = "verified" /\ used' = used \cup {msg[h]} /\ Proceed(h, where)
      /\ where \in Steps
      /\ UNCHANGED <<time, rows, status, cancelling, stopped, executed>>
  BY DEF UseAuth, Steps
<1>2. /\ msg[h] \in Order /\ cmd[h] \in Says[msg[h]] \cap Commands
      /\ SignedBy[msg[h]] = Operator
  BY <1>1 DEF AuthorityInv, Warrants, Warranted
<1>3. where \in {"idle", "act"} /\ (where = "act" => msg[h] \notin used)
  OBVIOUS
<1>. HIDE DEF where
<1>4. /\ step' \in [Handler -> Steps]
      /\ msg' \in [Handler -> Order \cup {NoCall}]
      /\ cmd' \in [Handler -> Commands \cup {NoCall}]
      /\ step'[h] = where
      /\ where # "idle" => msg'[h] = msg[h] /\ cmd'[h] = cmd[h]
      /\ \A g \in Handler \ {h} :
            step'[g] = step[g] /\ msg'[g] = msg[g] /\ cmd'[g] = cmd[g]
  BY <1>1, HandlerMoves DEF AuthorityInv
<1>5. AuthorityTypes'
  BY <1>1, <1>2, <1>4 DEF AuthorityInv, AuthorityTypes
<1>6. Warrants'
  BY <1>1, <1>2, <1>3, <1>4 DEF AuthorityInv, Warrants, Warranted
<1>7. OneActor'
  <2>1. where = "act" => executed[msg[h]] = 0
    BY <1>2, <1>3 DEF AuthorityInv, SpentOnce
  <2>2. where = "act" => \A g \in Handler : step[g] = "act" => msg[g] # msg[h]
    BY <1>3 DEF AuthorityInv, Warrants, Warranted
  <2>. QED
    BY <1>1, <1>3, <1>4, <2>1, <2>2 DEF AuthorityInv, OneActor
<1>8. (RowsPast /\ SpentOnce /\ StoppedByOrder)'
  BY <1>1 DEF AuthorityInv, RowsPast, SpentOnce, StoppedByOrder
<1>. QED
  BY <1>5, <1>6, <1>7, <1>8 DEF AuthorityInv

\* What carrying a command out does to the invariant, whatever it writes.
LEMMA ExecuteMoves ==
    ASSUME AuthorityInv, NEW h \in Handler, step[h] = "act",
           NEW where \in {"idle", "cancel"}, Execute(h, where),
           where = "cancel" => cmd[h] \in Stops,
           UNCHANGED <<status, cancelling, stopped>>, rows' \in Seq(Row), RowsPast'
    PROVE  AuthorityInv'
<1>1. /\ Proceed(h, where) /\ where \in Steps
      /\ executed' = [executed EXCEPT ![msg[h]] = @ + 1]
      /\ UNCHANGED <<time, used>>
  BY DEF Execute, Steps
<1>2. /\ msg[h] \in Order /\ cmd[h] \in Says[msg[h]] \cap Commands
      /\ SignedBy[msg[h]] = Operator /\ msg[h] \in used
  BY DEF AuthorityInv, Warrants, Warranted
<1>3. /\ executed[msg[h]] = 0
      /\ \A g \in Handler : step[g] = "act" /\ msg[g] = msg[h] => g = h
  BY DEF AuthorityInv, OneActor
<1>4. /\ executed' \in [Order -> Nat] /\ executed'[msg[h]] = 1
      /\ \A m \in Order : m # msg[h] => executed'[m] = executed[m]
  BY <1>1, <1>2, <1>3 DEF AuthorityInv, AuthorityTypes
<1>5. /\ step' \in [Handler -> Steps]
      /\ msg' \in [Handler -> Order \cup {NoCall}]
      /\ cmd' \in [Handler -> Commands \cup {NoCall}]
      /\ step'[h] = where
      /\ where # "idle" => msg'[h] = msg[h] /\ cmd'[h] = cmd[h]
      /\ \A g \in Handler \ {h} :
            step'[g] = step[g] /\ msg'[g] = msg[g] /\ cmd'[g] = cmd[g]
  BY <1>1, HandlerMoves DEF AuthorityInv
<1>6. AuthorityTypes'
  BY <1>1, <1>4, <1>5 DEF AuthorityInv, AuthorityTypes
<1>7. Warrants'
  BY <1>1, <1>2, <1>4, <1>5 DEF AuthorityInv, Warrants, Warranted
<1>8. OneActor'
  <2>. SUFFICES ASSUME NEW g \in Handler, step'[g] = "act"
                PROVE  /\ executed'[msg'[g]] = 0
                       /\ \A k \in Handler : step'[k] = "act" /\ msg'[k] = msg'[g] => k = g
    BY DEF OneActor
  <2>1. g # h /\ step[g] = "act" /\ msg'[g] = msg[g] /\ msg[g] # msg[h]
    BY <1>3, <1>5
  <2>2. msg[g] \in Order /\ executed[msg[g]] = 0
    BY <2>1 DEF AuthorityInv, OneActor, Warrants, Warranted
  <2>3. executed'[msg'[g]] = 0
    BY <1>4, <2>1, <2>2
  <2>4. \A k \in Handler : step'[k] = "act" /\ msg'[k] = msg[g] => k = g
    BY <1>5, <2>1 DEF AuthorityInv, OneActor
  <2>. QED
    BY <2>1, <2>3, <2>4
<1>9. SpentOnce'
  BY <1>1, <1>2, <1>4 DEF AuthorityInv, SpentOnce
<1>10. StoppedByOrder'
  BY <1>3, <1>4 DEF AuthorityInv, StoppedByOrder
<1>. QED
  BY <1>6, <1>7, <1>8, <1>9, <1>10 DEF AuthorityInv

\* The commands that write rows, and the check that begins a stop.
LEMMA ExecuteSteps ==
    ASSUME AuthorityInv, NEW h \in Handler, WriteRow(h) \/ RevokeRow(h) \/ StopCheck(h)
    PROVE  AuthorityInv'
<1>0. step[h] = "act" /\ cmd[h] \in Commands
  <2>1. step[h] = "act"
    BY DEF WriteRow, RevokeRow, StopCheck
  <2>. QED
    BY <2>1 DEF AuthorityInv, Warrants, Warranted
<1>1. CASE WriteRow(h)
  <2>. DEFINE new == [verb |-> cmd[h].verb, scope |-> cmd[h].scope, value |-> cmd[h].value,
                      at |-> time, live |-> TRUE]
  <2>1. /\ cmd[h].verb \in {"grant", "override"} /\ Execute(h, "idle")
        /\ rows' = Append(rows, new) /\ UNCHANGED <<status, cancelling, stopped>>
    BY <1>1 DEF WriteRow
  <2>2. time \in Nat /\ time' = time /\ rows \in Seq(Row)
    BY <2>1 DEF Execute, AuthorityInv, AuthorityTypes
  <2>3. new \in Row /\ new.at = time
    BY <1>0, <2>1, <2>2, CommandFacts DEF Row
  <2>. HIDE DEF new
  <2>4. rows' \in Seq(Row) /\ \A i \in DOMAIN rows' : (i \in DOMAIN rows /\ rows'[i] = rows[i]) \/ rows'[i] = new
    BY <2>1, <2>2, <2>3
  <2>5. RowsPast'
    BY <2>2, <2>3, <2>4 DEF RowsPast, AuthorityInv
  <2>. QED
    BY <1>0, <2>1, <2>4, <2>5, ExecuteMoves
<1>2. CASE RevokeRow(h)
  <2>1. /\ Execute(h, "idle") /\ UNCHANGED <<status, cancelling, stopped>>
        /\ rows' = IF cmd[h].row \in DOMAIN rows
                   THEN [rows EXCEPT ![cmd[h].row].live = FALSE] ELSE rows
    BY <1>2 DEF RevokeRow
  <2>2. time' = time /\ rows \in Seq(Row) /\ RowsPast
    BY <2>1 DEF Execute, AuthorityInv, AuthorityTypes
  <2>3. CASE cmd[h].row \in DOMAIN rows
    <3>1. PICK i \in DOMAIN rows : rows' = [rows EXCEPT ![i].live = FALSE]
      BY <2>1, <2>3
    <3>2. rows[i] \in Row /\ [rows[i] EXCEPT !.live = FALSE] \in Row
          /\ [rows[i] EXCEPT !.live = FALSE].at = rows[i].at
      <4>1. rows[i] \in Row
        BY <2>2, <3>1
      <4>2. \A r \in Row : [r EXCEPT !.live = FALSE] \in Row /\ [r EXCEPT !.live = FALSE].at = r.at
        BY DEF Row
      <4>. QED
        BY <4>1, <4>2
    <3>3. rows' \in Seq(Row) /\ DOMAIN rows' = DOMAIN rows
      BY <2>2, <3>1, <3>2
    <3>4. \A j \in DOMAIN rows : rows'[j].at = rows[j].at
      BY <2>2, <3>1, <3>2
    <3>5. RowsPast'
      BY <2>2, <3>3, <3>4 DEF RowsPast
    <3>. QED
      BY <1>0, <2>1, <3>3, <3>5, ExecuteMoves
  <2>4. CASE cmd[h].row \notin DOMAIN rows
    <3>1. rows' \in Seq(Row) /\ RowsPast'
      BY <2>1, <2>2, <2>4 DEF RowsPast
    <3>. QED
      BY <1>0, <2>1, <3>1, ExecuteMoves
  <2>. QED
    BY <2>3, <2>4
<1>3. CASE StopCheck(h)
  <2>1. /\ cmd[h] \in Stops /\ UNCHANGED <<rows, status, cancelling, stopped>>
        /\ Execute(h, "cancel") \/ Execute(h, "idle")
    BY <1>0, <1>3, CommandFacts DEF StopCheck
  <2>2. rows' \in Seq(Row) /\ RowsPast'
    BY <2>1 DEF Execute, AuthorityInv, AuthorityTypes, RowsPast
  <2>. QED
    BY <1>0, <2>1, <2>2, ExecuteMoves
<1>. QED
  BY <1>1, <1>2, <1>3

\* A stop is asked of Paperclip and waited for.
LEMMA StopSteps ==
    ASSUME AuthorityInv, NEW h \in Handler, StopCancel(h) \/ StopSettle(h)
    PROVE  AuthorityInv'
<1>1. /\ step[h] \in {"cancel", "settle"}
      /\ Proceed(h, "settle") \/ Proceed(h, "idle")
      /\ UNCHANGED <<time, used, rows, status, executed>>
      /\ \/ stopped' = stopped
         \/ stopped' = stopped \cup {cmd[h].run} /\ status[cmd[h].run] \in {"cancelled", "interrupted"}
      /\ cancelling' \in {cancelling, cancelling \cup {cmd[h].run}}
  BY DEF StopCancel, StopSettle, Stopped
<1>2. PICK where \in {"settle", "idle"} : Proceed(h, where)
  BY <1>1
<1>3. /\ msg[h] \in Order /\ cmd[h] \in Says[msg[h]] \cap Commands
      /\ cmd[h] \in Stops /\ executed[msg[h]] = 1
  BY <1>1 DEF AuthorityInv, Warrants, Warranted
<1>4. cmd[h].run \in Runs /\ cmd[h] = [verb |-> "stop", run |-> cmd[h].run]
  BY <1>3 DEF Stops
<1>5. /\ step' \in [Handler -> Steps]
      /\ msg' \in [Handler -> Order \cup {NoCall}]
      /\ cmd' \in [Handler -> Commands \cup {NoCall}]
      /\ step'[h] = where
      /\ where # "idle" => msg'[h] = msg[h] /\ cmd'[h] = cmd[h]
      /\ \A g \in Handler \ {h} :
            step'[g] = step[g] /\ msg'[g] = msg[g] /\ cmd'[g] = cmd[g]
  <2>1. where \in Steps
    BY DEF Steps
  <2>. QED
    BY <1>2, <2>1, HandlerMoves DEF AuthorityInv
<1>6. AuthorityTypes'
  BY <1>1, <1>4, <1>5 DEF AuthorityInv, AuthorityTypes
<1>7. Warrants'
  BY <1>1, <1>5 DEF AuthorityInv, Warrants, Warranted
<1>8. OneActor'
  BY <1>1, <1>5 DEF AuthorityInv, OneActor
<1>9. RowsPast' /\ SpentOnce'
  BY <1>1 DEF AuthorityInv, RowsPast, SpentOnce
<1>10. StoppedByOrder'
  <2>1. /\ \A r \in stopped : status[r] \in {"cancelled", "interrupted"}
        /\ \A r \in stopped \cup cancelling :
              \E m \in Order : executed[m] = 1 /\ [verb |-> "stop", run |-> r] \in Says[m]
    BY DEF AuthorityInv, StoppedByOrder
  <2>2. \E m \in Order : executed[m] = 1 /\ [verb |-> "stop", run |-> cmd[h].run] \in Says[m]
    BY <1>3, <1>4
  <2>. QED
    BY <1>1, <2>1, <2>2 DEF StoppedByOrder
<1>. QED
  BY <1>6, <1>7, <1>8, <1>9, <1>10 DEF AuthorityInv

\* What the others do: the runs, the clock, a crash of the bridge.
LEMMA WorldSteps ==
    ASSUME AuthorityInv, (\E r \in Runs : RunEnds(r)) \/ TimePasses \/ Restart
    PROVE  AuthorityInv'
<1>1. ASSUME NEW r \in Runs, RunEnds(r)
      PROVE  AuthorityInv'
  <2>1. /\ status[r] = "running"
        /\ \E s \in {"succeeded", "cancelled", "interrupted"} : status' = [status EXCEPT ![r] = s]
        /\ UNCHANGED <<time, used, rows, cancelling, stopped, executed, step, msg, cmd>>
    BY <1>1 DEF RunEnds
  <2>2. AuthorityTypes'
    BY <2>1 DEF AuthorityInv, AuthorityTypes
  <2>3. StoppedByOrder'
    <3>1. \A q \in stopped : q \in Runs /\ q # r /\ status'[q] = status[q]
      BY <2>1 DEF AuthorityInv, StoppedByOrder, AuthorityTypes
    <3>. QED
      BY <2>1, <3>1 DEF AuthorityInv, StoppedByOrder
  <2>4. (RowsPast /\ Warrants /\ OneActor /\ SpentOnce)'
    BY <2>1 DEF AuthorityInv, RowsPast, Warrants, Warranted, OneActor, SpentOnce
  <2>. QED
    BY <2>2, <2>3, <2>4 DEF AuthorityInv
<1>2. CASE TimePasses
  <2>1. time' = time + 1 /\ UNCHANGED <<used, rows, status, cancelling, stopped, executed, step, msg, cmd>>
    BY <1>2 DEF TimePasses
  <2>2. AuthorityTypes'
    BY <2>1 DEF AuthorityInv, AuthorityTypes
  <2>3. RowsPast'
    <3>1. \A i \in DOMAIN rows : rows[i] \in Row /\ rows[i].at <= time
      BY DEF AuthorityInv, AuthorityTypes, RowsPast
    <3>2. \A i \in DOMAIN rows : rows[i].at \in Nat /\ rows[i].at <= time
      BY <3>1 DEF Row
    <3>. QED
      BY <2>1, <3>2 DEF RowsPast, AuthorityInv, AuthorityTypes
  <2>4. (Warrants /\ OneActor /\ SpentOnce /\ StoppedByOrder)'
    BY <2>1 DEF AuthorityInv, Warrants, Warranted, OneActor, SpentOnce, StoppedByOrder
  <2>. QED
    BY <2>2, <2>3, <2>4 DEF AuthorityInv
<1>3. CASE Restart
  <2>1. /\ step' = [h \in Handler |-> "idle"] /\ msg' = [h \in Handler |-> NoCall]
        /\ cmd' = [h \in Handler |-> NoCall]
        /\ UNCHANGED <<time, used, rows, status, cancelling, stopped, executed>>
    BY <1>3 DEF Restart
  <2>2. AuthorityTypes'
    BY <2>1 DEF AuthorityInv, AuthorityTypes, Steps
  <2>3. (RowsPast /\ Warrants /\ OneActor /\ SpentOnce /\ StoppedByOrder)'
    BY <2>1 DEF AuthorityInv, RowsPast, Warrants, Warranted, OneActor, SpentOnce, StoppedByOrder
  <2>. QED
    BY <2>2, <2>3 DEF AuthorityInv
<1>. QED
  BY <1>1, <1>2, <1>3

\* The invariant of the commands.
LEMMA AuthorityInvariance == AuthoritySpec => []AuthorityInv
<1>1. AuthorityInit => AuthorityInv
  <2>. SUFFICES ASSUME AuthorityInit PROVE AuthorityInv
    OBVIOUS
  <2>1. AuthorityTypes
    BY DEF AuthorityInit, AuthorityTypes, Steps
  <2>. QED
    BY <2>1 DEF AuthorityInit, AuthorityInv, RowsPast, Warrants, OneActor, SpentOnce, StoppedByOrder
<1>2. AuthorityInv /\ [AuthorityNext]_authorityVars => AuthorityInv'
  <2>. SUFFICES ASSUME AuthorityInv, [AuthorityNext]_authorityVars
                PROVE  AuthorityInv'
    OBVIOUS
  <2>1. CASE AuthorityNext
    BY <2>1, AskStep, UseAuthStep, ExecuteSteps, StopSteps, WorldSteps DEF AuthorityNext
  <2>2. CASE UNCHANGED authorityVars
    BY <2>2 DEF authorityVars, AuthorityInv, AuthorityTypes, RowsPast, Warrants, Warranted,
       OneActor, SpentOnce, StoppedByOrder
  <2>. QED
    BY <2>1, <2>2
<1>. QED
  BY <1>1, <1>2, PTL DEF AuthoritySpec

\* A message of the operator is carried out at most once, and never one of
\* anybody else's; only runs such a message names are asked to be cancelled or
\* reported as stopped, and the latter ended cancelled or interrupted.
THEOREM OneCommandHolds == AuthoritySpec => []OneCommand
<1>1. AuthorityInv => OneCommand
  <2>. SUFFICES ASSUME AuthorityInv, NEW m \in Order
                PROVE  /\ executed[m] + Cardinality({h \in Handler : step[h] = "act" /\ msg[h] = m}) <= 1
                       /\ executed[m] > 0 => m \in used /\ SignedBy[m] = Operator
    BY DEF OneCommand, AuthorityInv, StoppedByOrder
  <2>. DEFINE Acting == {h \in Handler : step[h] = "act" /\ msg[h] = m}
  <2>1. executed[m] \in {0, 1} /\ (executed[m] > 0 => m \in used /\ SignedBy[m] = Operator)
    BY DEF AuthorityInv, AuthorityTypes, SpentOnce
  <2>2. CASE Acting = {}
    BY <2>1, <2>2, FS_EmptySet
  <2>3. CASE Acting # {}
    <3>1. PICK h \in Handler : step[h] = "act" /\ msg[h] = m
      BY <2>3
    <3>2. executed[m] = 0 /\ Acting = {h}
      BY <3>1 DEF AuthorityInv, OneActor
    <3>. QED
      BY <2>1, <3>2, FS_Singleton
  <2>. QED
    BY <2>2, <2>3
<1>. QED
  BY <1>1, AuthorityInvariance, PTL

\* Whatever rows there are, the resolver allows follow-ups only if a live row
\* does that no live override at least as narrow and as new forbids.
THEOREM NoWideningHolds == AuthoritySpec => []NoWidening
<1>1. AuthorityInv => NoWidening
  BY ResolverNarrows DEF AuthorityInv
<1>. QED
  BY <1>1, AuthorityInvariance, PTL
=============================================================================
