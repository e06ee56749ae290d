------------------------ MODULE EventPipelineProofs ------------------------
(***************************************************************************)
(* What starts a turn was sent by the bridge, and an event starts one turn *)
(* within the gate's window: proved for any set of events, any size of the *)
(* window, and with failing and torn writes of its file.                   *)
(***************************************************************************)
EXTENDS EventPipeline, FiniteSetTheorems, TLAPS

Entries == [id : Events, ran : BOOLEAN, life : Nat]

\* The bridge only posts what it recorded, and the gate only records what
\* was posted.
PostedInv ==
  /\ life \in Nat
  /\ log \in Seq(Entries)
  /\ status \in [Events -> Bridge!Statuses]
  /\ heard \subseteq Events
  /\ \A e \in heard : status[e] # "absent"
  /\ \A i \in DOMAIN log : log[i].id \in heard

\* Nothing is recorded at first.
LEMMA PostedInit == PipelineInit => PostedInv
  BY DEF PipelineInit, Bridge!PInit, Bridge!Statuses, Init, PostedInv

\* An entry for a posted event may be added to the log.
LEMMA RecordStep ==
  ASSUME PostedInv, NEW e \in heard, NEW ran \in BOOLEAN, Record(e, ran), life' \in Nat, UNCHANGED promise
  PROVE  PostedInv'
<1>. DEFINE entry == [id |-> e, ran |-> ran, life |-> life]
<1>1. entry \in Entries /\ entry.id = e
  BY DEF PostedInv, Entries
<1>2. log' = Append(log, entry) /\ log \in Seq(Entries)
  BY DEF Record, PostedInv
<1>. HIDE DEF entry
<1>3. log' \in Seq(Entries)
  BY <1>1, <1>2
<1>4. \A i \in DOMAIN log' : log'[i].id \in heard
  <2>1. \A i \in DOMAIN log' : (i \in DOMAIN log /\ log'[i] = log[i]) \/ log'[i] = entry
    BY <1>1, <1>2
  <2>. QED
    BY <1>1, <2>1 DEF PostedInv
<1>. QED
  BY <1>3, <1>4 DEF PostedInv, promise

\* Every step keeps it so.
LEMMA PostedStep == PostedInv /\ [PipelineNext]_pipe => PostedInv'
<1>. SUFFICES ASSUME PostedInv, [PipelineNext]_pipe
              PROVE  PostedInv'
  OBVIOUS
<1>1. ASSUME NEW e \in Events,
             \/ Bridge!Record(e) \/ Bridge!Post(e) \/ Bridge!Tell(e) \/ Bridge!Drop(e) \/ Bridge!Reopen(e),
             UNCHANGED gvars
      PROVE  PostedInv'
  BY <1>1 DEF Bridge!Record, Bridge!Post, Bridge!Tell, Bridge!Drop, Bridge!Reopen, Bridge!Become, Bridge!Statuses,
              gvars, PostedInv
<1>2. ASSUME NEW author, NEW e \in Events, Reaches(author, e), Check(author, e) \/ CrashInCheck(author, e), UNCHANGED promise
      PROVE  PostedInv'
  <2>1. e \in heard
    BY <1>2 DEF Reaches, Check, CrashInCheck, admits
  <2>2. Record(e, TRUE) \/ Record(e, FALSE)
    BY <1>2 DEF Check, CrashInCheck
  <2>3. life' \in Nat
    <3>1. life' = life \/ life' = life + 1
      BY <1>2 DEF Check, CrashInCheck, Die
    <3>. QED
      BY <3>1 DEF PostedInv
  <2>. QED
    BY <1>2, <2>1, <2>2, <2>3, RecordStep
<1>3. ASSUME Restarts, UNCHANGED promise
      PROVE  PostedInv'
  BY <1>3 DEF Restarts, Crash, Die, Start, promise, PostedInv
<1>4. CASE UNCHANGED pipe
  BY <1>4 DEF pipe, promise, gvars, PostedInv
<1>. QED
  BY <1>1, <1>2, <1>3, <1>4 DEF PipelineNext, Bridge!PNext

\* A turn, and a place in the seen set, is only ever given to an event that
\* the bridge recorded and posted.
THEOREM OnlyPostedEventsHolds == PipelineSpec => []OnlyPostedEvents
  <1>1. PostedInv => OnlyPostedEvents
    BY DEF PostedInv, OnlyPostedEvents
  <1>. QED
    BY <1>1, PostedInit, PostedStep, PTL DEF PipelineSpec
-----------------------------------------------------------------------------
(***************************************************************************)
(* Once per window.  A turn is covered by a list of ids as long as its id  *)
(* is in the list and only ids recorded after it stand behind it; it may   *)
(* leave the list only when Limit other ids were recorded after it.        *)
(***************************************************************************)
Distinct(s) == \A p, q \in DOMAIN s : s[p] = s[q] => p = q

Later(lg, i) == {lg[k].id : k \in i+1..Len(lg)}

Behind(s, p, X) == \A q \in p+1..Len(s) : \E x \in X : s[q] = <<x>>

Covers(lg, s, i) ==
  \/ Cardinality(Later(lg, i)) >= Limit
  \/ \E p \in DOMAIN s : s[p] = <<lg[i].id>> /\ Behind(s, p, Later(lg, i))

MemoryInv ==
  /\ Distinct(ids)
  /\ \A i \in DOMAIN log : log[i].life <= life /\ (~alive => log[i].life < life)
  /\ \A i \in DOMAIN log : alive /\ log[i].ran /\ log[i].life = life => Covers(log, ids, i)

\* As long as no line was lost or torn the file is what the harness had in
\* memory, and covers the turns of every life.
FileInv ==
  ~damaged =>
    /\ ~open /\ Distinct(file) /\ Len(file) <= Limit
    /\ alive => ids = file
    /\ \A i \in DOMAIN log : log[i].ran => Covers(log, file, i)

GateInv == TypeOK /\ MemoryInv /\ FileInv /\ NoReplayInLife /\ NoReplayInWindow

-----------------------------------------------------------------------------
(* The seen set.                                                           *)

\* What insert leaves in memory: the id comes last, and the oldest goes when
\* the window is full.
LEMMA PushedFacts ==
  ASSUME TypeOK, NEW e \in Events
  PROVE  /\ pushed(e) \in Seq(Lines)
         /\ Len(ids) < Limit => pushed(e) = Append(ids, <<e>>)
         /\ Len(ids) = Limit => /\ Len(pushed(e)) = Limit
                               /\ \A k \in 1..Limit : pushed(e)[k] = Append(ids, <<e>>)[k+1]
         /\ Len(pushed(e)) <= Limit
<1>. DEFINE longer == Append(ids, <<e>>)
<1>1. <<e>> \in Lines
  BY DEF Lines
<1>2. ids \in Seq(Lines) /\ Len(ids) \in 0..Limit /\ Limit \in Nat \ {0}
  BY GateAssumption DEF TypeOK
<1>3. longer \in Seq(Lines) /\ Len(longer) = Len(ids) + 1
  BY <1>1, <1>2
<1>4. pushed(e) = IF Len(longer) > Limit THEN Tail(longer) ELSE longer
  BY DEF pushed
<1>. HIDE DEF longer
<1>5. CASE Len(ids) < Limit
  BY <1>2, <1>3, <1>4, <1>5 DEF longer
<1>6. CASE Len(ids) = Limit
  <2>1. pushed(e) = Tail(longer) /\ longer # <<>>
    BY <1>2, <1>3, <1>4, <1>6
  <2>2. Tail(longer) \in Seq(Lines) /\ Len(Tail(longer)) = Limit
    BY <1>2, <1>3, <1>6, <2>1
  <2>3. \A k \in 1..Limit : Tail(longer)[k] = longer[k+1]
    BY <1>2, <1>3, <1>6, <2>1, <2>2
  <2>. QED
    BY <1>2, <1>6, <2>1, <2>2, <2>3 DEF longer
<1>. QED
  BY <1>2, <1>5, <1>6

\* An id that was not in the list keeps it free of repetitions.
LEMMA PushedDistinct ==
  ASSUME TypeOK, NEW e \in Events, Distinct(ids), ~seen(e)
  PROVE  Distinct(pushed(e)) /\ Distinct(Append(ids, <<e>>))
<1>. DEFINE longer == Append(ids, <<e>>)
<1>1. ids \in Seq(Lines) /\ <<e>> \in Lines /\ Len(ids) \in 0..Limit
  BY GateAssumption DEF TypeOK, Lines
<1>2. \A k \in DOMAIN ids : ids[k] # <<e>>
  BY <1>1 DEF seen, Contains
<1>3. Distinct(longer)
  BY <1>1, <1>2 DEF Distinct
<1>4. CASE Len(ids) < Limit
  BY <1>3, <1>4, PushedFacts, Zenon
<1>5. CASE Len(ids) = Limit
  <2>1. DOMAIN longer = 1..Limit+1 /\ Limit \in Nat
    BY <1>1, <1>5, GateAssumption
  <2>2. DOMAIN pushed(e) = 1..Limit /\ \A k \in 1..Limit : pushed(e)[k] = longer[k+1]
    BY <1>5, PushedFacts, GateAssumption
  <2>3. \A p, q \in 1..Limit : longer[p+1] = longer[q+1] => p = q
    <3>. HIDE DEF longer
    <3>. QED
      BY <1>3, <2>1 DEF Distinct
  <2>. QED
    BY <1>3, <2>2, <2>3 DEF Distinct
<1>6. Len(ids) < Limit \/ Len(ids) = Limit
  BY <1>1, GateAssumption
<1>. QED
  BY <1>3, <1>4, <1>5, <1>6, Zenon

-----------------------------------------------------------------------------
(* Reading the file back.                                                  *)

\* The newest lines.
LEMMA NewestFacts ==
  ASSUME TypeOK
  PROVE  /\ newest \in Seq(Lines) /\ Len(newest) <= Limit
         /\ Len(file) <= Limit => newest = file
<1>1. file \in Seq(Lines) /\ Len(file) \in Nat /\ Limit \in Nat \ {0}
  BY GateAssumption DEF TypeOK
<1>2. CASE Len(file) > Limit
  BY <1>1, <1>2 DEF newest
<1>3. CASE Len(file) <= Limit
  <2>1. ~(Len(file) > Limit)
    BY <1>1, <1>3
  <2>2. newest = SubSeq(file, 1, Len(file))
    BY <2>1, Zenon DEF newest
  <2>. QED
    BY <1>1, <1>3, <2>2
<1>. QED
  BY <1>1, <1>2, <1>3

\* Of any set of places in a list, each has its rank, and the ranks have no gap.
LEMMA RankFacts ==
  ASSUME NEW F, NEW n \in Nat, F \subseteq 1..n
  PROVE  /\ IsFiniteSet(F) /\ Cardinality(F) \in 0..n
         /\ \A k \in 1..Cardinality(F) : \E i \in F : Cardinality({j \in F : j <= i}) = k
<1>. DEFINE upto(i) == {j \in F : j <= i}
            c == Cardinality(F)
            rank == [i \in F |-> Cardinality(upto(i))]
<1>1. IsFiniteSet(1..n) /\ Cardinality(1..n) = n
  BY FS_Interval
<1>2. IsFiniteSet(F) /\ c \in 0..n
  <2>1. IsFiniteSet(F) /\ c <= n
    BY <1>1, FS_Subset
  <2>. QED
    BY <2>1, FS_CardinalityType
<1>3. \A i \in F : IsFiniteSet(upto(i)) /\ Cardinality(upto(i)) \in 1..c
  <2>. TAKE i \in F
  <2>1. IsFiniteSet(upto(i)) /\ Cardinality(upto(i)) <= c
    BY <1>2, FS_Subset
  <2>2. i \in upto(i)
    OBVIOUS
  <2>3. Cardinality(upto(i)) # 0
    BY <2>1, <2>2, FS_EmptySet
  <2>. QED
    BY <1>2, <2>1, <2>3, FS_CardinalityType
<1>4. \A i, j \in F : i < j => Cardinality(upto(i)) # Cardinality(upto(j))
  <2>. SUFFICES ASSUME NEW i \in F, NEW j \in F, i < j, Cardinality(upto(i)) = Cardinality(upto(j))
                PROVE  FALSE
    OBVIOUS
  <2>1. upto(i) \in SUBSET upto(j)
    <3>1. \A k \in F : k \in Int
      OBVIOUS
    <3>2. \A k \in F : k <= i => k <= j
      BY <3>1
    <3>. QED
      BY <3>2
  <2>2. upto(j) = upto(i)
    BY <1>3, <2>1, FS_Subset
  <2>3. j \in upto(j) /\ j \notin upto(i)
    OBVIOUS
  <2>. QED
    BY <2>2, <2>3
<1>5. rank \in [F -> 1..c]
  BY <1>3
<1>6. \A i, j \in F : rank[i] = rank[j] => i = j
  BY <1>4
<1>7. rank \in Injection(F, 1..c)
  BY <1>5, <1>6 DEF Injection, IsInjective
<1>8. IsFiniteSet(1..c) /\ Cardinality(1..c) = c
  BY <1>2, FS_Interval
<1>9. rank \in Surjection(F, 1..c)
  BY <1>7, <1>8, FS_Injection
<1>10. \A k \in 1..c : \E i \in F : rank[i] = k
  BY <1>9 DEF Surjection
<1>. QED
  BY <1>2, <1>10

\* What a start reads fits the window and repeats nothing.
LEMMA LoadedFacts ==
  ASSUME TypeOK
  PROVE  loaded \in Seq(Lines) /\ Len(loaded) <= Limit /\ Distinct(loaded)
<1>. DEFINE F == firsts(newest)
            c == Cardinality(F)
            rank(i) == Cardinality({j \in F : j <= i})
            ith == [k \in 1..c |-> CHOOSE i \in F : rank(i) = k]
<1>1. newest \in Seq(Lines) /\ Len(newest) \in Nat /\ Len(newest) <= Limit /\ Limit \in Nat
  BY NewestFacts, GateAssumption
<1>2. F \subseteq 1..Len(newest)
  BY <1>1 DEF firsts
<1>3. c \in 0..Len(newest)
  BY <1>1, <1>2, RankFacts
<1>4. \A k \in 1..c : \E i \in F : rank(i) = k
  BY <1>1, <1>2, RankFacts
<1>5. \A k \in 1..c : ith[k] \in F /\ rank(ith[k]) = k
  BY <1>4
<1>6. \A i, j \in F : newest[i] = newest[j] => i = j
  <2>. SUFFICES ASSUME NEW i \in F, NEW j \in F, i < j, newest[i] = newest[j]
                PROVE  FALSE
    BY <1>2
  <2>. QED
    BY <1>2 DEF firsts
<1>7. loaded = [k \in 1..c |-> newest[ith[k]]]
  BY DEF loaded
<1>. HIDE DEF F, c, rank, ith
<1>8. \A k \in 1..c : newest[ith[k]] \in Lines
  <2>. TAKE k \in 1..c
  <2>1. ith[k] \in 1..Len(newest)
    BY <1>2, <1>5
  <2>. QED
    BY <1>1, <2>1
<1>9. loaded \in Seq(Lines) /\ Len(loaded) = c
  BY <1>1, <1>3, <1>7, <1>8
<1>10. Distinct(loaded)
  <2>. SUFFICES ASSUME NEW p \in 1..c, NEW q \in 1..c, loaded[p] = loaded[q]
                PROVE  p = q
    BY <1>7 DEF Distinct
  <2>1. ith[p] = ith[q]
    BY <1>5, <1>6, <1>7
  <2>. QED
    BY <1>5, <2>1
<1>. QED
  BY <1>1, <1>3, <1>9, <1>10

\* A file within the window that repeats nothing is read back as it is.
LEMMA LoadedIsFile ==
  ASSUME TypeOK, Len(file) <= Limit, Distinct(file)
  PROVE  loaded = file
<1>. DEFINE n == Len(file)
            F == firsts(newest)
            rank(i) == Cardinality({j \in F : j <= i})
<1>1. newest = file /\ file \in Seq(Lines) /\ n \in Nat
  BY NewestFacts DEF TypeOK
<1>2. F = 1..n
  BY <1>1 DEF firsts, Distinct
<1>3. Cardinality(F) = n
  BY <1>1, <1>2, FS_Interval
<1>4. \A i \in 1..n : rank(i) = i
  <2>. TAKE i \in 1..n
  <2>. HIDE DEF F
  <2>1. {j \in F : j <= i} = 1..i
    BY <1>1, <1>2
  <2>2. Cardinality(1..i) = i
    BY <1>1, FS_Interval
  <2>. QED
    BY <2>1, <2>2
<1>5. \A k \in 1..n : (CHOOSE i \in F : rank(i) = k) = k
  <2>. HIDE DEF rank
  <2>. QED
    BY <1>2, <1>4
<1>6. loaded = [k \in 1..Cardinality(F) |-> newest[CHOOSE i \in F : rank(i) = k]]
  BY DEF loaded
<1>. HIDE DEF F, rank
<1>7. \A k \in 1..n : newest[CHOOSE i \in F : rank(i) = k] = file[k]
  BY <1>1, <1>5
<1>8. loaded = [k \in 1..n |-> file[k]]
  BY <1>3, <1>6, <1>7
<1>. QED
  BY <1>1, <1>8

-----------------------------------------------------------------------------
(* Turns stay covered.                                                     *)

\* Only finitely many ids come later.
LEMMA LaterFinite ==
  ASSUME NEW lg \in Seq(Entries), NEW i \in Nat
  PROVE  IsFiniteSet(Later(lg, i))
<1>. DEFINE f == [k \in i+1..Len(lg) |-> lg[k].id]
<1>1. f \in Surjection(i+1..Len(lg), Later(lg, i))
  BY DEF Surjection, Later
<1>2. IsFiniteSet(i+1..Len(lg))
  BY FS_Interval
<1>. QED
  BY <1>1, <1>2, FS_Surjection

\* A new entry comes later than all others.
LEMMA LaterGrows ==
  ASSUME NEW lg \in Seq(Entries), NEW x \in Entries, NEW i \in DOMAIN lg
  PROVE  /\ Later(Append(lg, x), i) = Later(lg, i) \cup {x.id}
         /\ Cardinality(Later(lg, i)) <= Cardinality(Later(Append(lg, x), i))
<1>. DEFINE longer == Append(lg, x)
            n == Len(lg)
<1>1. n \in Nat /\ i \in 1..n /\ Len(longer) = n + 1
  OBVIOUS
<1>2. \A k \in 1..n : longer[k] = lg[k]
  OBVIOUS
<1>3. longer[n+1] = x
  OBVIOUS
<1>. HIDE DEF longer
<1>4. i+1..n+1 = (i+1..n) \cup {n+1}
  BY <1>1
<1>5. \A k \in i+1..n : k \in 1..n
  BY <1>1
<1>6. Later(longer, i) = Later(lg, i) \cup {x.id}
  BY <1>1, <1>2, <1>3, <1>4, <1>5 DEF Later
<1>7. IsFiniteSet(Later(lg, i)) /\ Cardinality(Later(lg, i)) \in Nat
  BY LaterFinite, FS_CardinalityType
<1>8. Cardinality(Later(longer, i)) \in {Cardinality(Later(lg, i)), Cardinality(Later(lg, i)) + 1}
  BY <1>6, <1>7, FS_AddElement
<1>. QED
  BY <1>6, <1>7, <1>8 DEF longer

\* Places of a list that repeats nothing, each with an id of a set, are no
\* more than the set has ids.
LEMMA PlacesBound ==
  ASSUME NEW s, NEW n \in Nat, DOMAIN s = 1..n, NEW m \in 0..n,
         Distinct(s), NEW X, IsFiniteSet(X), \A q \in m+1..n : \E x \in X : s[q] = <<x>>
  PROVE  n - m <= Cardinality(X)
<1>. DEFINE f == [q \in m+1..n |-> s[q][1]]
<1>1. \A q \in m+1..n : q \in DOMAIN s /\ f[q] \in X /\ s[q] = <<f[q]>>
  OBVIOUS
<1>2. f \in [m+1..n -> X]
  BY <1>1
<1>3. \A p, q \in m+1..n : f[p] = f[q] => p = q
  <2>. HIDE DEF f
  <2>. QED
    BY <1>1 DEF Distinct
<1>4. f \in Injection(m+1..n, X)
  BY <1>2, <1>3 DEF Injection, IsInjective
<1>5. Cardinality(m+1..n) = n - m
  <2>1. m+1 \in Int /\ n \in Int
    OBVIOUS
  <2>2. Cardinality(m+1..n) = IF m+1 > n THEN 0 ELSE n-(m+1)+1
    BY <2>1, FS_Interval
  <2>. QED
    BY <2>2
<1>. QED
  BY <1>4, <1>5, FS_Injection

\* A list that does not change covers what it covered.
LEMMA CoversStay ==
  ASSUME NEW s, NEW lg \in Seq(Entries), NEW x \in Entries, NEW i \in DOMAIN lg, Covers(lg, s, i)
  PROVE  Covers(Append(lg, x), s, i)
<1>1. Later(lg, i) \subseteq Later(Append(lg, x), i)
  BY LaterGrows
<1>2. Append(lg, x)[i] = lg[i]
  OBVIOUS
<1>3. CASE Cardinality(Later(lg, i)) >= Limit
  <2>1. Cardinality(Later(Append(lg, x), i)) >= Limit
    <3>1. IsFiniteSet(Later(lg, i)) /\ IsFiniteSet(Later(Append(lg, x), i))
      <4>1. i \in Nat /\ Append(lg, x) \in Seq(Entries)
        OBVIOUS
      <4>. QED
        BY <4>1, LaterFinite
    <3>2. Cardinality(Later(lg, i)) \in Nat /\ Cardinality(Later(Append(lg, x), i)) \in Nat
      BY <3>1, FS_CardinalityType
    <3>. QED
      BY <1>3, <3>2, LaterGrows, GateAssumption
  <2>. QED
    BY <2>1 DEF Covers
<1>4. CASE \E p \in DOMAIN s : s[p] = <<lg[i].id>> /\ Behind(s, p, Later(lg, i))
  <2>1. \A p : Behind(s, p, Later(lg, i)) => Behind(s, p, Later(Append(lg, x), i))
    BY <1>1 DEF Behind
  <2>. QED
    BY <1>2, <1>4, <2>1 DEF Covers
<1>. QED
  BY <1>3, <1>4 DEF Covers

\* An insert moves a turn's id one place towards the oldest; the id leaves
\* only when as many as the window holds came later.
LEMMA CoversPush ==
  ASSUME TypeOK, Distinct(ids), NEW e \in Events, ~seen(e), log \in Seq(Entries),
         NEW x \in Entries, x.id = e, NEW i \in DOMAIN log, Covers(log, ids, i)
  PROVE  Covers(Append(log, x), pushed(e), i)
<1>. DEFINE after == Append(log, x)
            longer == Append(ids, <<e>>)
            X == Later(after, i)
            n == Len(ids)
<1>1. ids \in Seq(Lines) /\ n \in 0..Limit /\ Limit \in Nat \ {0}
  BY GateAssumption DEF TypeOK
<1>2. X = Later(log, i) \cup {e} /\ IsFiniteSet(X) /\ after[i] = log[i]
  <2>1. after \in Seq(Entries) /\ after[i] = log[i] /\ i \in Nat
    OBVIOUS
  <2>2. X = Later(log, i) \cup {e}
    BY LaterGrows
  <2>. QED
    BY <2>1, <2>2, LaterFinite
<1>3. Len(longer) = n + 1 /\ longer[n+1] = <<e>> /\ \A k \in 1..n : longer[k] = ids[k]
  BY <1>1
<1>4. CASE Cardinality(Later(log, i)) >= Limit
  <2>1. Covers(after, <<>>, i)
    BY <1>4, CoversStay DEF Covers
  <2>. QED
    BY <2>1 DEF Covers
<1>5. ASSUME NEW p \in DOMAIN ids, ids[p] = <<log[i].id>>, Behind(ids, p, Later(log, i))
      PROVE  Covers(after, pushed(e), i)
  <2>1. p \in 1..n
    BY <1>1
  <2>2. \A q \in p+1..n+1 : \E y \in X : longer[q] = <<y>>
    <3>. TAKE q \in p+1..n+1
    <3>1. CASE q = n + 1
      BY <1>2, <1>3, <3>1
    <3>2. CASE q # n + 1
      <4>1. q \in p+1..n /\ q \in 1..n
        BY <2>1, <3>2
      <4>2. PICK y \in Later(log, i) : ids[q] = <<y>>
        BY <1>5, <4>1 DEF Behind
      <4>. QED
        BY <1>2, <1>3, <4>1, <4>2
    <3>. QED
      BY <3>1, <3>2
  <2>3. longer[p] = <<after[i].id>>
    BY <1>2, <1>3, <1>5, <2>1
  <2>. HIDE DEF longer, X, after
  <2>4. n = Limit => /\ DOMAIN pushed(e) = 1..Limit /\ Len(pushed(e)) = Limit
                     /\ \A k \in 1..Limit : pushed(e)[k] = longer[k+1]
    <3>1. pushed(e) \in Seq(Lines)
      BY PushedFacts, Zenon
    <3>2. n = Limit => Len(pushed(e)) = Limit /\ \A k \in 1..Limit : pushed(e)[k] = longer[k+1]
      BY PushedFacts, Zenon DEF longer
    <3>. QED
      BY <3>1, <3>2
  <2>5. CASE n < Limit
    <3>1. pushed(e) = longer /\ DOMAIN longer = 1..n+1
      <4>1. pushed(e) = Append(ids, <<e>>)
        BY <2>5, PushedFacts, Zenon
      <4>. QED
        BY <1>1, <4>1 DEF longer
    <3>2. Behind(longer, p, X)
      BY <1>3, <2>2 DEF Behind
    <3>3. p \in DOMAIN longer
      BY <2>1, <3>1
    <3>4. Covers(after, longer, i)
      BY <2>3, <3>2, <3>3 DEF Covers, X
    <3>. QED
      BY <3>1, <3>4
  <2>6. CASE n = Limit /\ p > 1
    <3>1. DOMAIN pushed(e) = 1..Limit /\ Len(pushed(e)) = Limit /\ \A k \in 1..Limit : pushed(e)[k] = longer[k+1]
      BY <1>1, <2>4, <2>6
    <3>2. p-1 \in 1..Limit /\ p-1+1 = p
      BY <1>1, <2>1, <2>6
    <3>3. pushed(e)[p-1] = <<after[i].id>>
      BY <2>3, <3>1, <3>2
    <3>4. \A q \in (p-1)+1..Limit : \E y \in X : pushed(e)[q] = <<y>>
      <4>. TAKE q \in (p-1)+1..Limit
      <4>1. q \in 1..Limit /\ q+1 \in p+1..n+1
        BY <1>1, <2>1, <2>6
      <4>. QED
        BY <2>2, <3>1, <4>1
    <3>. QED
      BY <3>1, <3>2, <3>3, <3>4 DEF Covers, Behind, X
  <2>7. CASE n = Limit /\ p = 1
    <3>1. Distinct(longer)
      BY PushedDistinct DEF longer
    <3>2. DOMAIN longer = 1..n+1 /\ Len(longer) = n+1
      BY <1>1 DEF longer
    <3>3. (n+1) - p <= Cardinality(X)
      <4>1. n+1 \in Nat /\ p \in 0..n+1
        BY <1>1, <2>1
      <4>2. IsFiniteSet(X)
        BY <1>2
      <4>. HIDE DEF n
      <4>. QED
        BY <2>2, <3>1, <3>2, <4>1, <4>2, PlacesBound, Zenon
    <3>. QED
      BY <1>1, <1>2, <2>7, <3>3, FS_CardinalityType DEF Covers, X
  <2>. QED
    BY <1>1, <2>1, <2>5, <2>6, <2>7
<1>. QED
  BY <1>4, <1>5 DEF Covers

\* The new entry itself is covered.
LEMMA CoversNew ==
  ASSUME TypeOK, NEW e \in Events, log \in Seq(Entries), NEW x \in Entries, x.id = e
  PROVE  Covers(Append(log, x), pushed(e), Len(log) + 1)
<1>1. ids \in Seq(Lines) /\ Len(ids) \in 0..Limit /\ Limit \in Nat \ {0}
  BY GateAssumption DEF TypeOK
<1>2. Append(log, x)[Len(log)+1] = x
  OBVIOUS
<1>. DEFINE n == Len(pushed(e))
<1>3. n \in Nat \ {0} /\ pushed(e)[n] = <<e>> /\ DOMAIN pushed(e) = 1..n
  <2>1. CASE Len(ids) < Limit
    <3>1. pushed(e) = Append(ids, <<e>>)
      BY <2>1, PushedFacts
    <3>. QED
      BY <1>1, <3>1
  <2>2. CASE Len(ids) = Limit
    <3>1. pushed(e) \in Seq(Lines) /\ Len(pushed(e)) = Limit
      BY <2>2, PushedFacts, Zenon
    <3>2. \A k \in 1..Limit : pushed(e)[k] = Append(ids, <<e>>)[k+1]
      BY <2>2, PushedFacts, Zenon
    <3>3. pushed(e)[Limit] = Append(ids, <<e>>)[Limit+1]
      <4>1. Limit \in 1..Limit
        BY <1>1
      <4>. QED
        BY <3>2, <4>1, Zenon
    <3>. QED
      BY <1>1, <2>2, <3>1, <3>3
  <2>. QED
    BY <1>1, <2>1, <2>2
<1>4. Behind(pushed(e), n, Later(Append(log, x), Len(log) + 1))
  BY <1>3 DEF Behind
<1>5. n \in DOMAIN pushed(e)
  BY <1>3
<1>. QED
  BY <1>2, <1>3, <1>4, <1>5 DEF Covers

-----------------------------------------------------------------------------
(* Types.                                                                  *)

LogEntries == [id : Events, ran : BOOLEAN, life : 0..MaxRestarts]

\* An appended id makes a line of its own, or the last line longer.
LEMMA WithIdType ==
  ASSUME TypeOK, NEW e \in Events
  PROVE  withId(e) \in Seq(Lines) /\ withId(e) # <<>> /\ (~open => withId(e) = Append(file, <<e>>))
<1>1. file \in Seq(Lines) /\ open \in BOOLEAN /\ (open => file # <<>>) /\ <<e>> \in Lines
  BY DEF TypeOK, Lines
<1>2. CASE open
  <2>1. Len(file) \in 1..Len(file) /\ file[Len(file)] \in Seq(Events)
    BY <1>1, <1>2 DEF Lines
  <2>2. Append(file[Len(file)], e) \in Lines
    BY <2>1 DEF Lines
  <2>. QED
    BY <1>1, <1>2, <2>1, <2>2 DEF withId
<1>3. CASE ~open
  BY <1>1, <1>3 DEF withId
<1>. QED
  BY <1>2, <1>3

\* An empty file has no lines.
LEMMA NoLines ==
  ASSUME NEW S PROVE <<>> \in Seq(S) /\ Len(<<>>) = 0
  OBVIOUS

\* Whatever becomes of the write, the file is made of lines.
LEMMA DiskType ==
  ASSUME TypeOK, NEW e \in Events, Written(e) \/ NotWritten \/ NewlineMissing(e)
  PROVE  file' \in Seq(Lines) /\ open' \in BOOLEAN /\ (open' => file' # <<>>)
<1>1. CASE Written(e)
  BY <1>1, WithIdType, PushedFacts DEF Written
<1>2. CASE NotWritten
  BY <1>2 DEF NotWritten, TypeOK
<1>3. CASE NewlineMissing(e)
  BY <1>3, WithIdType DEF NewlineMissing
<1>. QED
  BY <1>1, <1>2, <1>3

\* What the log is made of.
LEMMA LogType == TypeOK => log \in Seq(Entries)
<1>. SUFFICES ASSUME TypeOK PROVE log \in Seq(Entries)
  OBVIOUS
<1>1. log \in Seq(LogEntries)
  BY DEF TypeOK, LogEntries
<1>2. LogEntries \subseteq Entries
  BY GateAssumption DEF LogEntries, Entries
<1>. HIDE DEF Entries
<1>3. \A i \in DOMAIN log : log[i] \in Entries
  BY <1>1, <1>2
<1>. QED
  BY <1>1, <1>3

\* An entry's life is a number.
LEMMA LifeType ==
  ASSUME NEW lg \in Seq(Entries), NEW i \in DOMAIN lg
  PROVE  lg[i].life \in Nat
<1>1. lg[i] \in Entries
  OBVIOUS
<1>. QED
  BY <1>1 DEF Entries

\* What a recorded id adds to the log.
LEMMA RecordFacts ==
  ASSUME TypeOK, NEW e \in Events, NEW ran \in BOOLEAN, Record(e, ran)
  PROVE  /\ log \in Seq(Entries)
         /\ \E x \in Entries : x.id = e /\ x.ran = ran /\ x.life = life /\ log' = Append(log, x)
         /\ log' \in Seq(LogEntries)
<1>. DEFINE x == [id |-> e, ran |-> ran, life |-> life]
<1>1. x \in LogEntries /\ x \in Entries
  BY DEF TypeOK, LogEntries, Entries
<1>2. log \in Seq(LogEntries) /\ log' = Append(log, x)
  BY DEF TypeOK, LogEntries, Record
<1>3. log \in Seq(Entries)
  BY LogType
<1>4. log' \in Seq(LogEntries)
  <2>. HIDE DEF x, LogEntries
  <2>. QED
    BY <1>1, <1>2
<1>5. x.id = e /\ x.ran = ran /\ x.life = life
  OBVIOUS
<1>. QED
  BY <1>1, <1>2, <1>3, <1>4, <1>5

\* Every step keeps the types.
LEMMA TypeStep == TypeOK /\ [Next]_gvars => TypeOK'
<1>. SUFFICES ASSUME TypeOK, [Next]_gvars
              PROVE  TypeOK'
  OBVIOUS
<1>1. ASSUME NEW author, NEW e \in Events, Check(author, e)
      PROVE  TypeOK'
  <2>1. file' \in Seq(Lines) /\ open' \in BOOLEAN /\ (open' => file' # <<>>)
    BY <1>1, DiskType DEF Check
  <2>2. ids' \in Seq(Lines) /\ Len(ids') <= Limit
    BY <1>1, PushedFacts DEF Check
  <2>3. log' \in Seq(LogEntries)
    BY <1>1, RecordFacts DEF Check
  <2>4. alive' = alive /\ life' = life /\ damaged' \in BOOLEAN
    BY <1>1 DEF Check, Written, NewlineMissing, TypeOK
  <2>. QED
    BY <2>1, <2>2, <2>3, <2>4 DEF TypeOK, LogEntries
<1>2. ASSUME Die
      PROVE  /\ alive' \in BOOLEAN /\ life' \in 0..MaxRestarts
             /\ ids' \in Seq(Lines) /\ Len(ids') <= Limit
  <2>1. alive' = FALSE /\ ids' = <<>> /\ life' \in 0..MaxRestarts
    BY <1>2, GateAssumption DEF Die, TypeOK
  <2>2. ids' \in Seq(Lines)
    BY <2>1, NoLines, Zenon
  <2>3. Len(ids') = 0
    BY <2>1, NoLines, Zenon
  <2>4. Len(ids') <= Limit
    <3>1. 0 <= Limit
      BY GateAssumption
    <3>. QED
      BY <2>3, <3>1, Zenon
  <2>5. alive' \in BOOLEAN
    BY <2>1
  <2>. QED
    BY <2>1, <2>2, <2>4, <2>5, Zenon
<1>3. ASSUME NEW author, NEW e \in Events, CrashInCheck(author, e)
      PROVE  TypeOK'
  <2>1. file' \in Seq(Lines) /\ open' \in BOOLEAN /\ (open' => file' # <<>>)
    BY <1>3, DiskType DEF CrashInCheck
  <2>2. log' \in Seq(LogEntries)
    BY <1>3, RecordFacts DEF CrashInCheck
  <2>3. damaged' \in BOOLEAN
    BY <1>3 DEF CrashInCheck, Written, NewlineMissing, TypeOK
  <2>. QED
    BY <1>2, <1>3, <2>1, <2>2, <2>3 DEF TypeOK, LogEntries, CrashInCheck
<1>4. CASE Crash
  BY <1>2, <1>4 DEF Crash, TypeOK
<1>5. CASE Start
  BY <1>5, LoadedFacts DEF Start, TypeOK
<1>6. CASE UNCHANGED gvars
  BY <1>6 DEF gvars, TypeOK
<1>. QED
  BY <1>1, <1>3, <1>4, <1>5, <1>6 DEF Next, Restarts

-----------------------------------------------------------------------------
(* The invariant.                                                          *)

\* What a write that went through leaves, when nothing was damaged before.
LEMMA WrittenIsPushed ==
  ASSUME TypeOK, FileInv, alive, ~damaged, NEW e \in Events, Written(e)
  PROVE  file' = pushed(e) /\ ids = file
<1>1. ~open /\ ids = file
  BY DEF FileInv
<1>2. CASE compacts(e)
  BY <1>1, <1>2 DEF Written
<1>3. CASE ~compacts(e)
  <2>1. file' = Append(ids, <<e>>)
    BY <1>1, <1>3, WithIdType DEF Written
  <2>2. Len(ids) < Limit
    <3>1. Len(ids) = Limit => Len(pushed(e)) = Limit
      BY PushedFacts, Zenon
    <3>2. ~(Len(pushed(e)) > Limit \div 2)
      BY <1>3 DEF compacts
    <3>3. Limit > Limit \div 2 /\ Limit \in Nat /\ Len(ids) \in 0..Limit
      BY GateAssumption DEF TypeOK
    <3>. QED
      BY <3>1, <3>2, <3>3
  <2>3. pushed(e) = Append(ids, <<e>>)
    BY <2>2, PushedFacts, Zenon
  <2>. QED
    BY <1>1, <2>1, <2>3
<1>. QED
  BY <1>2, <1>3

\* The turns a list covers, once an id was recorded and pushed onto it.
LEMMA CoversRecorded ==
  ASSUME TypeOK, Distinct(ids), NEW e \in Events, ~seen(e), log \in Seq(Entries),
         NEW x \in Entries, x.id = e, NEW i \in DOMAIN Append(log, x),
         i \in DOMAIN log => Covers(log, ids, i)
  PROVE  Covers(Append(log, x), pushed(e), i)
<1>1. i \in DOMAIN log \/ i = Len(log) + 1
  OBVIOUS
<1>2. CASE i \in DOMAIN log
  BY <1>2, CoversPush, Zenon
<1>3. CASE i = Len(log) + 1
  BY <1>3, CoversNew, Zenon
<1>. QED
  BY <1>1, <1>2, <1>3

\* What a check that admits an id does to log and memory.
LEMMA MemoryStep == TypeOK /\ MemoryInv /\ [Next]_gvars => MemoryInv'
<1>. SUFFICES ASSUME TypeOK, MemoryInv, [Next]_gvars
              PROVE  MemoryInv'
  OBVIOUS
<1>0. life \in Nat
  BY GateAssumption DEF TypeOK
<1>1. ASSUME NEW author, NEW e \in Events, Check(author, e)
      PROVE  MemoryInv'
  <2>1. ids' = pushed(e) /\ ~seen(e) /\ alive /\ alive' /\ life' = life /\ Record(e, TRUE)
    BY <1>1 DEF Check, admits
  <2>2. log \in Seq(Entries) /\ \E x \in Entries : x.id = e /\ x.ran = TRUE /\ x.life = life /\ log' = Append(log, x)
    BY <2>1, RecordFacts
  <2>3. PICK x \in Entries : x.id = e /\ x.life = life /\ log' = Append(log, x)
    BY <2>2
  <2>4. Distinct(ids')
    BY <2>1, PushedDistinct DEF MemoryInv
  <2>5. ASSUME NEW i \in DOMAIN log'
        PROVE  (i \in DOMAIN log /\ log'[i] = log[i]) \/ log'[i] = x
    BY <2>2, <2>3
  <2>6. \A i \in DOMAIN log' : log'[i].life <= life
    BY <1>0, <2>3, <2>5 DEF MemoryInv
  <2>7. ASSUME NEW i \in DOMAIN log', log'[i].ran, log'[i].life = life
        PROVE  Covers(log', ids', i)
    <3>1. i \in DOMAIN log => Covers(log, ids, i)
      <4>1. i \in DOMAIN log => log'[i] = log[i]
        BY <2>2, <2>3
      <4>. QED
        BY <2>1, <2>7, <4>1 DEF MemoryInv
    <3>2. Distinct(ids) /\ i \in DOMAIN Append(log, x)
      BY <2>3 DEF MemoryInv
    <3>3. Covers(Append(log, x), pushed(e), i)
      BY <2>1, <2>2, <2>3, <3>1, <3>2, CoversRecorded, Zenon
    <3>. QED
      BY <2>1, <2>3, <3>3, Zenon
  <2>. QED
    BY <2>1, <2>4, <2>6, <2>7 DEF MemoryInv
<1>2. Distinct(<<>>)
  BY DEF Distinct
<1>3. ASSUME NEW author, NEW e \in Events, CrashInCheck(author, e)
      PROVE  MemoryInv'
  <2>1. ids' = <<>> /\ alive' = FALSE /\ life' = life + 1 /\ Record(e, FALSE)
    BY <1>3 DEF CrashInCheck, Die
  <2>2. log \in Seq(Entries) /\ \E x \in Entries : x.life = life /\ log' = Append(log, x)
    BY <2>1, RecordFacts
  <2>3. \A i \in DOMAIN log' : log'[i].life <= life
    BY <1>0, <2>2 DEF MemoryInv
  <2>4. \A i \in DOMAIN log' : log'[i].life \in Nat
    <3>1. log' \in Seq(Entries)
      BY <2>2
    <3>. QED
      BY <3>1, LifeType
  <2>5. \A i \in DOMAIN log' : log'[i].life <= life' /\ log'[i].life < life'
    BY <1>0, <2>1, <2>3, <2>4
  <2>. QED
    BY <1>2, <2>1, <2>5 DEF MemoryInv
<1>4. CASE Crash
  <2>1. \A i \in DOMAIN log : log[i].life \in Nat
    BY LogType, LifeType
  <2>. QED
    BY <1>0, <1>2, <1>4, <2>1 DEF Crash, Die, MemoryInv
<1>5. CASE Start
  <2>1. \A i \in DOMAIN log : log[i].life \in Nat
    BY LogType, LifeType
  <2>. QED
    BY <1>0, <1>5, <2>1, LoadedFacts DEF Start, MemoryInv
<1>6. CASE UNCHANGED gvars
  BY <1>6 DEF gvars, MemoryInv
<1>. QED
  BY <1>1, <1>3, <1>4, <1>5, <1>6 DEF Next, Restarts

\* The file covers every turn, as long as nothing is damaged.
LEMMA FileStep == TypeOK /\ MemoryInv /\ FileInv /\ [Next]_gvars => FileInv'
<1>. SUFFICES ASSUME TypeOK, MemoryInv, FileInv, [Next]_gvars, ~damaged'
              PROVE  /\ ~open' /\ Distinct(file') /\ Len(file') <= Limit
                     /\ alive' => ids' = file'
                     /\ \A i \in DOMAIN log' : log'[i].ran => Covers(log', file', i)
  BY DEF FileInv
\* An id that was recorded and written.
<1>1. ASSUME NEW e \in Events, NEW ran \in BOOLEAN, alive, ~seen(e), Record(e, ran), Written(e)
      PROVE  /\ ~open' /\ Distinct(file') /\ Len(file') <= Limit
             /\ file' = pushed(e)
             /\ \A i \in DOMAIN log' : log'[i].ran => Covers(log', file', i)
  <2>1. ~damaged /\ ~open'
    BY <1>1 DEF Written
  <2>2. file' = pushed(e) /\ ids = file
    BY <1>1, <2>1, WrittenIsPushed
  <2>3. Distinct(ids)
    BY DEF MemoryInv
  <2>4. Distinct(pushed(e)) /\ Len(pushed(e)) <= Limit
    BY <1>1, <2>3, PushedFacts, PushedDistinct
  <2>5. log \in Seq(Entries) /\ \E x \in Entries : x.id = e /\ log' = Append(log, x)
    BY <1>1, RecordFacts
  <2>6. PICK x \in Entries : x.id = e /\ log' = Append(log, x)
    BY <2>5
  <2>7. ASSUME NEW i \in DOMAIN log', log'[i].ran
        PROVE  Covers(log', file', i)
    <3>1. i \in DOMAIN log => Covers(log, ids, i)
      <4>1. i \in DOMAIN log => log'[i] = log[i]
        BY <2>5, <2>6
      <4>. QED
        BY <2>1, <2>2, <2>7, <4>1 DEF FileInv
    <3>2. i \in DOMAIN Append(log, x)
      BY <2>6
    <3>3. Covers(Append(log, x), pushed(e), i)
      BY <1>1, <2>3, <2>5, <2>6, <3>1, <3>2, CoversRecorded, Zenon
    <3>. QED
      BY <2>2, <2>6, <3>3, Zenon
  <2>8. Distinct(file')
    BY <2>2, <2>4, Zenon
  <2>. QED
    BY <2>1, <2>2, <2>4, <2>7, <2>8
<1>2. ASSUME NEW author, NEW e \in Events, Check(author, e)
      PROVE  FileInv'
  <2>1. alive /\ ~seen(e) /\ Record(e, TRUE) /\ Written(e) /\ ids' = pushed(e)
    BY <1>2 DEF Check, admits, NewlineMissing
  <2>. QED
    BY <1>1, <2>1 DEF FileInv
<1>3. ASSUME NEW author, NEW e \in Events, CrashInCheck(author, e)
      PROVE  FileInv'
  <2>1. alive /\ ~seen(e) /\ Record(e, FALSE) /\ alive' = FALSE
    BY <1>3 DEF CrashInCheck, admits, Die
  <2>2. CASE Written(e)
    BY <1>1, <2>1, <2>2 DEF FileInv
  <2>3. CASE NotWritten /\ UNCHANGED damaged
    <3>1. file' = file /\ open' = open /\ ~damaged
      BY <2>3 DEF NotWritten
    <3>2. log \in Seq(Entries) /\ \E x \in Entries : x.ran = FALSE /\ log' = Append(log, x)
      BY <2>1, RecordFacts
    <3>3. PICK x \in Entries : x.ran = FALSE /\ log' = Append(log, x)
      BY <3>2
    <3>4. ASSUME NEW i \in DOMAIN log', log'[i].ran
          PROVE  Covers(log', file', i)
      <4>1. i \in DOMAIN log /\ log'[i] = log[i]
        BY <3>2, <3>3, <3>4
      <4>2. Covers(log, file, i)
        BY <3>1, <3>4, <4>1 DEF FileInv
      <4>3. Covers(Append(log, x), file, i)
        BY <3>2, <4>1, <4>2, CoversStay, Zenon
      <4>. QED
        BY <3>1, <3>3, <4>3, Zenon
    <3>. QED
      BY <2>1, <3>1, <3>4 DEF FileInv
  <2>. QED
    BY <1>3, <2>2, <2>3 DEF CrashInCheck, NewlineMissing
<1>4. CASE Crash
  BY <1>4 DEF Crash, Die, FileInv
<1>5. CASE Start
  BY <1>5, LoadedIsFile DEF Start, FileInv
<1>6. CASE UNCHANGED gvars
  BY <1>6 DEF gvars, FileInv
<1>. QED
  BY <1>2, <1>3, <1>4, <1>5, <1>6 DEF Next, Restarts, FileInv

\* A covered turn's id is refused, or the window has passed.
LEMMA CoveredIsSeen ==
  ASSUME TypeOK, NEW i \in DOMAIN log, Covers(log, ids, i), ~seen(log[i].id)
  PROVE  Cardinality(Later(log, i)) >= Limit
<1>1. \A p \in DOMAIN ids : p \in 1..Len(ids)
  BY DEF TypeOK
<1>. QED
  BY <1>1 DEF Covers, seen, Contains

\* What happened between two old entries does not change; between an old one
\* and the new one are those that come later than the old one.
LEMMA BetweenFacts ==
  ASSUME log \in Seq(Entries), NEW x \in Entries, log' = Append(log, x), NEW i \in DOMAIN log
  PROVE  /\ \A j \in DOMAIN log : Between(i, j)' = Between(i, j)
         /\ \A j : j = Len(log) + 1 => Between(i, j)' = Cardinality(Later(log, i))
<1>1. \A k \in 1..Len(log) : log'[k] = log[k]
  OBVIOUS
<1>2. \A j \in DOMAIN log : {log'[k].id : k \in i+1..j-1} = {log[k].id : k \in i+1..j-1}
  <2>. TAKE j \in DOMAIN log
  <2>1. \A k \in i+1..j-1 : k \in 1..Len(log)
    OBVIOUS
  <2>. QED
    BY <1>1, <2>1
<1>3. {log'[k].id : k \in i+1..(Len(log)+1)-1} = {log[k].id : k \in i+1..Len(log)}
  <2>1. (Len(log)+1)-1 = Len(log)
    OBVIOUS
  <2>2. \A k \in i+1..Len(log) : k \in 1..Len(log)
    OBVIOUS
  <2>. QED
    BY <1>1, <2>1, <2>2
<1>4. \A j \in DOMAIN log : Between(i, j)' = Between(i, j)
  BY <1>2, Zenon DEF Between
<1>5. \A j : j = Len(log) + 1 => Between(i, j)' = Cardinality(Later(log, i))
  <2>. TAKE j
  <2>1. Between(i, j)' = Cardinality({log'[k].id : k \in i+1..j-1})
    BY DEF Between
  <2>2. Later(log, i) = {log[k].id : k \in i+1..Len(log)}
    BY DEF Later
  <2>. QED
    BY <1>3, <2>1, <2>2, Zenon
<1>. QED
  BY <1>4, <1>5

\* No step gives an event a second turn too soon.
LEMMA ReplayStep ==
  TypeOK /\ MemoryInv /\ FileInv /\ NoReplayInLife /\ NoReplayInWindow /\ [Next]_gvars
    => NoReplayInLife' /\ NoReplayInWindow'
<1>. SUFFICES ASSUME TypeOK, MemoryInv, FileInv, NoReplayInLife, NoReplayInWindow, [Next]_gvars
              PROVE  NoReplayInLife' /\ NoReplayInWindow'
  OBVIOUS
<1>1. ASSUME NEW e \in Events, NEW ran \in BOOLEAN, Record(e, ran), alive, ~seen(e), damaged => damaged'
      PROVE  NoReplayInLife' /\ NoReplayInWindow'
  <2>1. log \in Seq(Entries) /\ \E x \in Entries : x.id = e /\ x.life = life /\ log' = Append(log, x)
    BY <1>1, RecordFacts
  <2>2. PICK x \in Entries : x.id = e /\ x.life = life /\ log' = Append(log, x)
    BY <2>1
  <2>3. \A i \in DOMAIN log' : (i \in DOMAIN log /\ log'[i] = log[i]) \/ (i = Len(log) + 1 /\ log'[i] = x)
    BY <2>1, <2>2
  <2>4. \A i \in DOMAIN log : i \in 1..Len(log)
    BY <2>1
  <2>5. ASSUME NEW i \in DOMAIN log, NEW j \in DOMAIN log', i < j, log'[i].id = log'[j].id, log'[i].ran, log'[j].ran
        PROVE  /\ log'[i].life = log'[j].life => Between(i, j)' >= Limit
               /\ ~damaged' => Between(i, j)' >= Limit
    <3>1. log'[i] = log[i]
      <4>1. i \in 1..Len(log) /\ Len(log) \in Nat
        BY <2>1, <2>4
      <4>2. i # Len(log) + 1 /\ i \in DOMAIN log'
        BY <2>1, <2>2, <4>1
      <4>. QED
        BY <2>3, <4>2, Zenon
    <3>2. CASE j \in DOMAIN log
      <4>1. log'[j] = log[j]
        BY <2>3, <2>4, <3>2
      <4>2. Between(i, j)' = Between(i, j)
        BY <2>1, <2>2, <3>2, BetweenFacts
      <4>3. log[i].id \in Events
        <5>1. log[i] \in Entries
          BY <2>1
        <5>. QED
          BY <5>1 DEF Entries
      <4>4. i \in Turns(log[i].id) /\ j \in Turns(log[i].id)
        BY <2>5, <3>1, <3>2, <4>1 DEF Turns
      <4>. QED
        BY <1>1, <2>5, <3>1, <4>1, <4>2, <4>3, <4>4 DEF NoReplayInLife, NoReplayInWindow
    <3>3. CASE j = Len(log) + 1 /\ log'[j] = x
      <4>1. Between(i, j)' = Cardinality(Later(log, i))
        BY <2>1, <2>2, <3>3, BetweenFacts
      <4>2. ~seen(log[i].id)
        BY <1>1, <2>2, <2>5, <3>1, <3>3
      <4>3. Covers(log, ids, i) => Cardinality(Later(log, i)) >= Limit
        BY <4>2, CoveredIsSeen
      <4>4. log'[i].life = log'[j].life => Covers(log, ids, i)
        BY <1>1, <2>2, <2>5, <3>1, <3>3 DEF MemoryInv
      <4>5. ~damaged' => Covers(log, ids, i)
        BY <1>1, <2>5, <3>1 DEF FileInv
      <4>. QED
        BY <4>1, <4>3, <4>4, <4>5
    <3>. QED
      BY <2>3, <3>2, <3>3
  <2>6. ASSUME NEW i \in DOMAIN log', NEW j \in DOMAIN log', i < j
        PROVE  i \in DOMAIN log
    <3>1. DOMAIN log' = 1..Len(log)+1 /\ DOMAIN log = 1..Len(log) /\ Len(log) \in Nat
      BY <2>1, <2>2
    <3>. QED
      BY <2>6, <3>1
  <2>7. ASSUME NEW f \in Events, NEW i \in Turns(f)', NEW j \in Turns(f)', i < j
        PROVE  /\ log'[i].life = log'[j].life => Between(i, j)' >= Limit
               /\ ~damaged' => Between(i, j)' >= Limit
    <3>1. /\ i \in DOMAIN log' /\ log'[i].id = f /\ log'[i].ran
          /\ j \in DOMAIN log' /\ log'[j].id = f /\ log'[j].ran
      BY DEF Turns
    <3>. QED
      BY <2>5, <2>6, <2>7, <3>1
  <2>. QED
    BY <2>7 DEF NoReplayInLife, NoReplayInWindow
<1>2. ASSUME UNCHANGED log, damaged => damaged'
      PROVE  NoReplayInLife' /\ NoReplayInWindow'
  BY <1>2 DEF NoReplayInLife, NoReplayInWindow, Turns, Between
<1>3. ASSUME NEW author, NEW e \in Events, Check(author, e)
      PROVE  NoReplayInLife' /\ NoReplayInWindow'
  <2>1. alive /\ ~seen(e) /\ Record(e, TRUE)
    BY <1>3 DEF Check, admits
  <2>2. damaged => damaged'
    BY <1>3 DEF Check, Written, NewlineMissing
  <2>. QED
    BY <1>1, <2>1, <2>2, TRUE \in BOOLEAN
<1>4. ASSUME NEW author, NEW e \in Events, CrashInCheck(author, e)
      PROVE  NoReplayInLife' /\ NoReplayInWindow'
  <2>1. alive /\ ~seen(e) /\ Record(e, FALSE)
    BY <1>4 DEF CrashInCheck, admits
  <2>2. damaged => damaged'
    BY <1>4 DEF CrashInCheck, Written, NewlineMissing
  <2>. QED
    BY <1>1, <2>1, <2>2, FALSE \in BOOLEAN
<1>5. CASE Restarts \/ UNCHANGED gvars
  BY <1>2, <1>5 DEF Restarts, Crash, Start, gvars
<1>. QED
  BY <1>3, <1>4, <1>5 DEF Next

\* The gate's invariant.
LEMMA GateInit == Init => GateInv
<1>. SUFFICES ASSUME Init PROVE GateInv
  OBVIOUS
<1>1. DOMAIN log = {} /\ DOMAIN ids = {} /\ DOMAIN file = {}
  BY DEF Init
<1>2. TypeOK
  <2>1. ids \in Seq(Lines) /\ Len(ids) = 0 /\ file \in Seq(Lines) /\ log \in Seq(LogEntries)
    BY NoLines, Zenon DEF Init
  <2>2. alive = TRUE /\ life = 0 /\ open = FALSE /\ damaged = FALSE
    BY DEF Init
  <2>3. 0 <= Limit /\ 0 \in 0..MaxRestarts /\ FALSE \in BOOLEAN /\ TRUE \in BOOLEAN
    BY GateAssumption
  <2>4. open => file # <<>>
    BY <2>2
  <2>. QED
    BY <2>1, <2>2, <2>3, <2>4, Zenon DEF TypeOK, LogEntries
<1>3. MemoryInv /\ FileInv
  BY <1>1, GateAssumption DEF Init, MemoryInv, FileInv, Distinct
<1>4. NoReplayInLife /\ NoReplayInWindow
  BY <1>1 DEF NoReplayInLife, NoReplayInWindow, Turns
<1>. QED
  BY <1>2, <1>3, <1>4 DEF GateInv

\* Every step of the gate keeps its invariant, part by part.
LEMMA GateStep == GateInv /\ [Next]_gvars => GateInv'
  BY TypeStep, MemoryStep, FileStep, ReplayStep DEF GateInv

\* A step of the pipeline is a step of the gate, or none.
LEMMA PipelineIsGate == [PipelineNext]_pipe => [Next]_gvars
  BY DEF PipelineNext, pipe, Next

\* The gate's invariant holds of the composition.
LEMMA GateInvariance == PipelineSpec => []GateInv
<1>1. PipelineInit => GateInv
  BY GateInit DEF PipelineInit
<1>2. GateInv /\ [PipelineNext]_pipe => GateInv'
  BY GateStep, PipelineIsGate
<1>. QED
  BY <1>1, <1>2, PTL DEF PipelineSpec

\* The gate's types.
THEOREM GateTypeCorrect == PipelineSpec => []TypeOK
  BY GateInvariance, PTL DEF GateInv

\* While the harness lives, an event's second turn comes only when Limit
\* other ids were recorded after its first, whatever happens to the file.
THEOREM NoReplayInLifeHolds == PipelineSpec => []NoReplayInLife
  BY GateInvariance, PTL DEF GateInv

\* Across restarts the same, as long as no line of the file is lost or torn.
THEOREM NoReplayInWindowHolds == PipelineSpec => []NoReplayInWindow
  BY GateInvariance, PTL DEF GateInv
=============================================================================
