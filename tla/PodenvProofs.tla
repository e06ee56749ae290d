---------------------------- MODULE PodenvProofs ----------------------------
(***************************************************************************)
(* Proofs about the leases of podenv: where commands on one key do not     *)
(* overlap, the address in a .env is backed by its own lease and served by *)
(* no other key's container (AddressBacked), and a container without a row *)
(* comes from a removal that failed (NoOrphan).                            *)
(***************************************************************************)
EXTENDS Podenv, TLAPS

Ports == Pool \cup {NoPort}

Boxes == [port : Ports, up : BOOLEAN]

\* The stages of a provision before and after its row exists.
Unleased == {"insert", "realloc"}
Raising == {"check", "probe", "stop", "start", "verify", "run", "settle", "write", "undo"}
Stages == {"idle", "look", "remove", "forget"} \cup Unleased \cup Raising

PodenvTypes ==
    /\ lease \in [Key -> Ports]
    /\ box \in [Key -> Boxes]
    /\ address \in [Key -> Ports]
    /\ stage \in [Caller -> Stages]
    /\ holds \in [Caller -> [key : Key \cup {NoKey}, port : Ports, created : BOOLEAN]]
    /\ leftover \subseteq Key /\ stale \subseteq Key

\* Commands on one key do not overlap.
Exclusive ==
    /\ \A c \in Caller : stage[c] = "idle" <=> holds[c].key = NoKey
    /\ \A c, d \in Caller : holds[c].key # NoKey /\ holds[c].key = holds[d].key => c = d

\* What a command on key k, whose port is p, knows at each stage.
Knows(where, k, p, created) ==
    /\ where = "look" => p \in Pool /\ lease[k] \in {p, NoPort} /\ created = FALSE
    /\ where \in Unleased => p \in Pool /\ lease[k] = NoPort
    /\ where \in Raising => p \in Pool /\ lease[k] = p
    /\ where = "forget" => box[k].port = NoPort \/ k \in leftover

Standing ==
    \A c \in Caller : stage[c] # "idle" =>
        Knows(stage[c], holds[c].key, holds[c].port, holds[c].created)

\* A key's address, row and container belong together.
Matched(k) ==
    /\ address[k] # NoPort /\ k \notin stale => lease[k] = address[k]
    /\ box[k].up = TRUE => box[k].port # NoPort
    /\ box[k].port # NoPort /\ k \notin leftover => box[k].port = lease[k]

LeasesApart == \A j, k \in Key : lease[k] # NoPort /\ lease[j] = lease[k] => j = k

Orderly ==
    /\ Exclusive
    /\ Standing
    /\ \A k \in Key : Matched(k)
    /\ LeasesApart

PodenvInv == ~Concurrent => PodenvTypes /\ Orderly

\* A step of a command on one key, which no other command is busy with, keeps
\* the invariant when it leaves its own key and its own knowledge in order.
LEMMA StepOnKey ==
    ASSUME ~Concurrent, Orderly,
           NEW c \in Caller, NEW k \in Key,
           \A d \in Caller \ {c} : holds[d].key # k,
           PodenvTypes, PodenvTypes',
           \A d \in Caller \ {c} : stage'[d] = stage[d] /\ holds'[d] = holds[d],
           IF stage'[c] = "idle" THEN holds'[c].key = NoKey ELSE holds'[c].key = k,
           \A j \in Key \ {k} :
               /\ lease'[j] = lease[j] /\ box'[j] = box[j]
              /\ address'[j] = address[j] /\ (j \in stale' <=> j \in stale),
           leftover \subseteq leftover', leftover' \subseteq leftover \cup {k},
           stage'[c] # "idle" => Knows(stage[c], k, holds[c].port, holds[c].created)',
           Matched(k)',
           \A j \in Key \ {k} : lease'[k] # NoPort => lease'[k] # lease[j]
    PROVE  Orderly'
<1>1. NoKey \notin Key
  BY PodenvAssumption
<1>2. Exclusive'
  <2>1. \A d \in Caller : stage'[d] = "idle" <=> holds'[d].key = NoKey
    BY <1>1 DEF Orderly, Exclusive
  <2>2. \A d \in Caller \ {c} : holds'[d].key # k
    OBVIOUS
  <2>3. \A d, e \in Caller : holds'[d].key # NoKey /\ holds'[d].key = holds'[e].key => d = e
    BY <2>2 DEF Orderly, Exclusive
  <2>. QED
    BY <2>1, <2>3 DEF Exclusive
<1>3. Standing'
  <2>. SUFFICES ASSUME NEW d \in Caller, stage'[d] # "idle"
                PROVE  Knows(stage[d], holds[d].key, holds[d].port, holds[d].created)'
    BY DEF Standing
  <2>1. CASE d = c
    BY <2>1 DEF Knows
  <2>2. CASE d # c
    <3>1. /\ stage'[d] = stage[d] /\ holds'[d] = holds[d] /\ holds[d].key # k
          /\ stage[d] # "idle"
      BY <2>2
    <3>2. holds[d].key \in Key \ {k}
      BY <3>1 DEF Orderly, Exclusive, PodenvTypes
    <3>3. Knows(stage[d], holds[d].key, holds[d].port, holds[d].created)
      BY <3>1 DEF Orderly, Standing
    <3>. QED
      BY <3>1, <3>2, <3>3 DEF Knows
  <2>. QED
    BY <2>1, <2>2
<1>4. \A j \in Key : Matched(j)'
  <2>. TAKE j \in Key
  <2>1. CASE j # k
    BY <2>1 DEF Orderly, Matched
  <2>. QED
    BY <2>1 DEF Matched
<1>5. LeasesApart'
  BY DEF Orderly, LeasesApart
<1>. QED
  BY <1>2, <1>3, <1>4, <1>5 DEF Orderly

\* What a caller that is busy knows about its key.
LEMMA BusyFacts ==
    ASSUME PodenvTypes, Orderly, NEW c \in Caller, stage[c] # "idle"
    PROVE  /\ holds[c].key \in Key
           /\ holds[c].port \in Ports
           /\ \A d \in Caller \ {c} : holds[d].key # holds[c].key
           /\ Knows(stage[c], holds[c].key, holds[c].port, holds[c].created)
           /\ Matched(holds[c].key)
           /\ \A j \in Key \ {holds[c].key} :
                 lease[holds[c].key] # NoPort => lease[holds[c].key] # lease[j]
<1>1. holds[c].key \in Key /\ holds[c].key # NoKey /\ holds[c].port \in Ports
  BY DEF PodenvTypes, Orderly, Exclusive
<1>. QED
  BY <1>1 DEF Orderly, Exclusive, Standing, LeasesApart

\* A caller moves within its command, or ends it.
LEMMA CallerMoves ==
    ASSUME PodenvTypes, NEW c \in Caller, NEW where \in Stages \ {"idle"},
           At(c, where) \/ Done(c)
    PROVE  /\ stage' \in [Caller -> Stages]
           /\ holds' \in [Caller -> [key : Key \cup {NoKey}, port : Ports, created : BOOLEAN]]
           /\ \A d \in Caller \ {c} : stage'[d] = stage[d] /\ holds'[d] = holds[d]
           /\ \/ stage'[c] = "idle" /\ holds'[c].key = NoKey
              \/ stage'[c] = where /\ holds'[c] = holds[c]
<1>1. AtRest \in [key : Key \cup {NoKey}, port : Ports, created : BOOLEAN] /\ AtRest.key = NoKey
  BY DEF AtRest, Ports
<1>2. "idle" \in Stages
  BY DEF Stages
<1>. QED
  BY <1>1, <1>2 DEF PodenvTypes, At, Done

\* A step that moves a command on and leaves rows, addresses and ports alone.
LEMMA QuietStep ==
    ASSUME ~Concurrent, PodenvTypes, Orderly, NEW c \in Caller, stage[c] # "idle",
           NEW where \in Stages \ {"idle"}, At(c, where) \/ Done(c),
           {where, stage[c]} \subseteq Raising \/ where = stage[c],
           UNCHANGED <<lease, address, stale, leftover>>,
           box' \in [Key -> Boxes],
           \A j \in Key \ {holds[c].key} : box'[j] = box[j],
           \/ box'[holds[c].key].port = box[holds[c].key].port
           \/ stage[c] \in Raising /\ box'[holds[c].key].port = holds[c].port,
           box'[holds[c].key].up = TRUE => box'[holds[c].key].port # NoPort
    PROVE  PodenvTypes' /\ Orderly'
<1>0. PICK k \in Key : k = holds[c].key
  BY BusyFacts
<1>1. /\ stage' \in [Caller -> Stages]
      /\ holds' \in [Caller -> [key : Key \cup {NoKey}, port : Ports, created : BOOLEAN]]
      /\ \A d \in Caller \ {c} : stage'[d] = stage[d] /\ holds'[d] = holds[d]
      /\ \/ stage'[c] = "idle" /\ holds'[c].key = NoKey
         \/ stage'[c] = where /\ holds'[c] = holds[c]
  BY CallerMoves
<1>2. PodenvTypes'
  BY <1>1 DEF PodenvTypes
<1>3. /\ k \in Key /\ \A d \in Caller \ {c} : holds[d].key # k
      /\ Knows(stage[c], k, holds[c].port, holds[c].created) /\ Matched(k)
      /\ \A j \in Key \ {k} : lease[k] # NoPort => lease[k] # lease[j]
  BY <1>0, BusyFacts
<1>4. stage[c] \in Raising => lease[k] = holds[c].port /\ holds[c].port \in Pool
  BY <1>0, <1>3 DEF Knows
<1>5. NoPort \notin Pool
  BY PodenvAssumption
<1>6. Matched(k)'
  BY <1>0, <1>3, <1>4, <1>5 DEF Matched
<1>7. stage'[c] # "idle" => Knows(stage[c], k, holds[c].port, holds[c].created)'
  <2>. SUFFICES ASSUME stage'[c] # "idle"
                PROVE  Knows(stage[c], k, holds[c].port, holds[c].created)'
    OBVIOUS
  <2>1. stage'[c] = where /\ holds'[c] = holds[c]
    BY <1>1
  <2>. QED
    BY <1>0, <1>3, <1>4, <2>1 DEF Knows, Raising, Unleased
<1>8. IF stage'[c] = "idle" THEN holds'[c].key = NoKey ELSE holds'[c].key = k
  BY <1>0, <1>1
<1>9. /\ leftover \subseteq leftover' /\ leftover' \subseteq leftover \cup {k}
      /\ \A j \in Key \ {k} : lease'[k] # NoPort => lease'[k] # lease[j]
      /\ \A j \in Key \ {k} :
             lease'[j] = lease[j] /\ address'[j] = address[j] /\ (j \in stale' <=> j \in stale) /\ box'[j] = box[j]
  BY <1>0, <1>3
<1>10. Orderly'
  BY <1>1, <1>2, <1>3, <1>6, <1>7, <1>8, <1>9, StepOnKey
<1>. QED
  BY <1>2, <1>10

\* Boxes that are rewritten for one key.
LEMMA BoxFacts ==
    ASSUME PodenvTypes, NEW k \in Key
    PROVE  /\ [box EXCEPT ![k].up = TRUE] \in [Key -> Boxes]
           /\ [box EXCEPT ![k].up = FALSE] \in [Key -> Boxes]
           /\ [box EXCEPT ![k] = NoBox] \in [Key -> Boxes]
           /\ \A p \in Pool : [box EXCEPT ![k].port = p] \in [Key -> Boxes]
           /\ \A p \in Pool : [box EXCEPT ![k] = [port |-> p, up |-> TRUE]] \in [Key -> Boxes]
           /\ box[k].port = NoPort /\ box[k].up # TRUE => box[k] = NoBox
           /\ NoBox.port = NoPort /\ NoBox.up = FALSE
           /\ [box[k] EXCEPT !.up = TRUE].port = box[k].port
           /\ [box[k] EXCEPT !.up = FALSE].port = box[k].port
           /\ [box[k] EXCEPT !.up = FALSE].up = FALSE
           /\ \A p : [box[k] EXCEPT !.port = p].port = p
<1>1. \A b \in Boxes : /\ [b EXCEPT !.up = TRUE] \in Boxes
                       /\ [b EXCEPT !.up = FALSE] \in Boxes
                       /\ \A p \in Pool : [b EXCEPT !.port = p] \in Boxes
                       /\ [b EXCEPT !.up = TRUE].port = b.port
                       /\ [b EXCEPT !.up = FALSE].port = b.port
                       /\ [b EXCEPT !.up = FALSE].up = FALSE
                       /\ \A p : [b EXCEPT !.port = p].port = p
  BY DEF Boxes, Ports
<1>2. NoBox \in Boxes /\ NoBox.port = NoPort /\ NoBox.up = FALSE
      /\ \A p \in Pool : [port |-> p, up |-> TRUE] \in Boxes
  BY DEF Boxes, Ports, NoBox
<1>3. box[k] \in Boxes
  BY DEF PodenvTypes
<1>4. \A b \in Boxes : b.port = NoPort /\ b.up # TRUE => b = NoBox
  <2>. TAKE b \in Boxes
  <2>1. b = [port |-> b.port, up |-> b.up] /\ b.up \in BOOLEAN
    BY DEF Boxes
  <2>2. b.up = TRUE \/ b.up = FALSE
    BY <2>1, Zenon
  <2>. QED
    BY <2>1, <2>2 DEF NoBox
<1>. QED
  BY <1>1, <1>2, <1>3, <1>4 DEF PodenvTypes

\* The steps of a provision that leave its row alone, a rollback with nothing
\* to take back, and a kill.
LEMMA RaisingSteps ==
    ASSUME ~Concurrent, PodenvTypes, Orderly, NEW c \in Caller,
           \/ CheckContainer(c) \/ ProbeLease(c) \/ StopContainer(c) \/ StartContainer(c)
           \/ VerifyLease(c) \/ RunContainer(c) \/ Settle(c) \/ Killed(c)
           \/ Rollback(c) /\ holds[c].created = FALSE
    PROVE  PodenvTypes' /\ Orderly'
<1>1. stage[c] # "idle" /\ stage[c] \in Stages /\ stage[c] \in Stages \ {"idle"}
  <2>1. stage[c] # "idle"
    BY DEF CheckContainer, ProbeLease, StopContainer, StartContainer, VerifyLease,
       RunContainer, Settle, Killed, Rollback
  <2>. QED
    BY <2>1 DEF PodenvTypes
<1>2. PICK k \in Key : k = holds[c].key
  BY <1>1, BusyFacts
<1>3. Raising \subseteq Stages \ {"idle"}
  BY DEF Raising, Stages
<1>4. box \in [Key -> Boxes] /\ (box[k].up = TRUE => box[k].port # NoPort)
  BY <1>1, <1>2, BusyFacts DEF PodenvTypes, Matched
<1>5. CASE CheckContainer(c) \/ ProbeLease(c) \/ VerifyLease(c) \/ Settle(c)
  <2>1. /\ stage[c] \in Raising /\ UNCHANGED <<lease, address, stale, leftover, box>>
        /\ \E w \in Raising : At(c, w)
    BY <1>5 DEF CheckContainer, ProbeLease, VerifyLease, Settle, Raising
  <2>2. PICK w \in Raising : At(c, w)
    BY <2>1
  <2>. QED
    BY <1>1, <1>2, <1>3, <1>4, <2>1, <2>2, QuietStep
<1>6. CASE StopContainer(c)
  <2>1. /\ stage[c] \in Raising /\ UNCHANGED <<lease, address, stale, leftover>>
        /\ At(c, "start") /\ "start" \in Raising
        /\ box' = box \/ box' = [box EXCEPT ![k].up = FALSE]
    BY <1>2, <1>6 DEF StopContainer, Raising
  <2>2. /\ box' \in [Key -> Boxes] /\ \A j \in Key \ {k} : box'[j] = box[j]
        /\ box'[k].port = box[k].port /\ (box'[k].up = TRUE => box'[k].port # NoPort)
    <3>1. CASE box' = box
      BY <1>4, <3>1
    <3>2. CASE box' = [box EXCEPT ![k].up = FALSE]
      <4>1. box'[k] = [box[k] EXCEPT !.up = FALSE] /\ \A j \in Key \ {k} : box'[j] = box[j]
        BY <1>4, <3>2
      <4>. QED
        BY <3>2, <4>1, BoxFacts
    <3>. QED
      BY <2>1, <3>1, <3>2
  <2>. QED
    BY <1>1, <1>2, <1>3, <2>1, <2>2, QuietStep
<1>7. CASE StartContainer(c)
  <2>1. /\ stage[c] \in Raising /\ UNCHANGED <<lease, address, stale, leftover>>
        /\ \E w \in Raising : At(c, w)
        /\ \/ box' = box
           \/ box' = [box EXCEPT ![k].up = TRUE] /\ box[k] # NoBox
    BY <1>2, <1>7 DEF StartContainer, Startable, Raising
  <2>2. /\ box' \in [Key -> Boxes] /\ \A j \in Key \ {k} : box'[j] = box[j]
        /\ box'[k].port = box[k].port /\ (box'[k].up = TRUE => box'[k].port # NoPort)
    <3>1. CASE box' = box
      BY <1>4, <3>1
    <3>2. CASE box' = [box EXCEPT ![k].up = TRUE] /\ box[k] # NoBox
      <4>1. box[k].port # NoPort
        BY <1>4, <3>2, BoxFacts
      <4>2. box'[k] = [box[k] EXCEPT !.up = TRUE] /\ \A j \in Key \ {k} : box'[j] = box[j]
        BY <1>4, <3>2
      <4>. QED
        BY <3>2, <4>1, <4>2, BoxFacts
    <3>. QED
      BY <2>1, <3>1, <3>2
  <2>3. PICK w \in Raising : At(c, w)
    BY <2>1
  <2>. QED
    BY <1>1, <1>2, <1>3, <2>1, <2>2, <2>3, QuietStep
<1>8. CASE RunContainer(c)
  <2>1. PICK p \in Pool : p = holds[c].port
    BY <1>1, <1>8, BusyFacts DEF RunContainer, Knows, Raising
  <2>2. /\ stage[c] \in Raising /\ UNCHANGED <<lease, address, stale, leftover>>
        /\ \E w \in Raising : At(c, w)
        /\ \/ box' = box
           \/ box' = [box EXCEPT ![k] = [port |-> p, up |-> TRUE]]
           \/ box' = [box EXCEPT ![k].port = p] /\ box[k] = NoBox
    BY <1>2, <1>8, <2>1 DEF RunContainer, Raising
  <2>3. NoPort \notin Pool
    BY PodenvAssumption
  <2>4. /\ box' \in [Key -> Boxes] /\ \A j \in Key \ {k} : box'[j] = box[j]
        /\ box'[k].port = box[k].port \/ box'[k].port = p
        /\ box'[k].up = TRUE => box'[k].port # NoPort
    <3>1. CASE box' = box
      BY <1>4, <3>1
    <3>2. CASE box' = [box EXCEPT ![k] = [port |-> p, up |-> TRUE]]
      BY <1>4, <2>3, <3>2, BoxFacts
    <3>3. CASE box' = [box EXCEPT ![k].port = p]
      <4>1. box'[k] = [box[k] EXCEPT !.port = p] /\ \A j \in Key \ {k} : box'[j] = box[j]
        BY <1>4, <3>3
      <4>2. box' \in [Key -> Boxes]
        BY <3>3, BoxFacts
      <4>3. box'[k].port = p
        BY <4>1, BoxFacts
      <4>. QED
        BY <2>3, <4>1, <4>2, <4>3
    <3>. QED
      BY <2>2, <3>1, <3>2, <3>3
  <2>5. PICK w \in Raising : At(c, w)
    BY <2>2
  <2>. QED
    BY <1>1, <1>2, <1>3, <2>1, <2>2, <2>4, <2>5, QuietStep
<1>9. CASE Killed(c) \/ (Rollback(c) /\ holds[c].created = FALSE)
  <2>1. /\ Done(c) \/ (stage[c] \in Raising /\ At(c, "undo"))
        /\ UNCHANGED <<lease, address, stale, leftover, box>>
    BY <1>9 DEF Killed, Rollback, Trapped, Raising
  <2>2. CASE Done(c)
    BY <1>1, <1>2, <1>4, <2>1, <2>2, QuietStep
  <2>3. CASE stage[c] \in Raising /\ At(c, "undo")
    <3>1. "undo" \in Raising
      BY DEF Raising
    <3>. QED
      BY <1>1, <1>2, <1>3, <1>4, <2>1, <2>3, <3>1, QuietStep
  <2>. QED
    BY <2>1, <2>2, <2>3
<1>. QED
  BY <1>5, <1>6, <1>7, <1>8, <1>9

\* A process starts on a key that no other is busy with.
LEMMA EnterSteps ==
    ASSUME ~Concurrent, PodenvTypes, Orderly, NEW c \in Caller, NEW k \in Key,
           Provision(c, k) \/ Release(c, k)
    PROVE  PodenvTypes' /\ Orderly'
<1>1. PICK p \in Pool, where \in {"look", "remove"} :
         /\ Enter(c, k, p, where)
         /\ UNCHANGED <<lease, box, address, stale, leftover>>
         /\ where = "look" => lease[k] \in {p, NoPort}
  <2>1. lease[k] \in Pool \cup {NoPort}
    BY DEF PodenvTypes, Ports
  <2>2. CASE Provision(c, k)
    <3>1. PICK p \in Allocs(k) : Enter(c, k, p, "look")
      BY <2>2 DEF Provision
    <3>2. p \in Pool /\ lease[k] \in {p, NoPort}
      BY <2>1, <3>1 DEF Allocs
    <3>. QED
      BY <2>2, <3>1, <3>2 DEF Provision
  <2>3. CASE Release(c, k)
    BY <2>1, <2>3 DEF Release
  <2>. QED
    BY <2>2, <2>3
<1>2. /\ stage[c] = "idle"
      /\ stage' = [stage EXCEPT ![c] = where]
      /\ holds' = [holds EXCEPT ![c] = [key |-> k, port |-> p, created |-> FALSE]]
      /\ \A d \in Caller \ {c} : holds[d].key # k
  BY <1>1 DEF Enter
<1>3. PodenvTypes'
  BY <1>1, <1>2 DEF PodenvTypes, Stages, Ports
<1>4. /\ stage'[c] = where /\ holds'[c] = [key |-> k, port |-> p, created |-> FALSE]
      /\ \A d \in Caller \ {c} : stage'[d] = stage[d] /\ holds'[d] = holds[d]
  BY <1>2 DEF PodenvTypes
<1>5. /\ lease'[k] = lease[k] /\ box'[k] = box[k]
      /\ \A j \in Key \ {k} :
            lease'[j] = lease[j] /\ address'[j] = address[j] /\ (j \in stale' <=> j \in stale) /\ box'[j] = box[j]
  BY <1>1 DEF PodenvTypes
<1>6. Matched(k)'
  BY <1>1, <1>5 DEF Orderly, Matched
<1>7. Knows(stage[c], k, holds[c].port, holds[c].created)'
  BY <1>1, <1>4, <1>5 DEF Knows, Unleased, Raising
<1>8. \A j \in Key \ {k} : lease'[k] # NoPort => lease'[k] # lease[j]
  BY <1>5 DEF Orderly, LeasesApart
<1>9. /\ IF stage'[c] = "idle" THEN holds'[c].key = NoKey ELSE holds'[c].key = k
      /\ leftover \subseteq leftover' /\ leftover' \subseteq leftover \cup {k}
  BY <1>1, <1>4
<1>10. Orderly'
  BY <1>2, <1>3, <1>4, <1>5, <1>6, <1>7, <1>8, <1>9, StepOnKey
<1>. QED
  BY <1>3, <1>10

\* A provision finds out whether the key has a row, and writes one.
LEMMA LeasingSteps ==
    ASSUME ~Concurrent, PodenvTypes, Orderly, NEW c \in Caller,
           LookUp(c) \/ Insert(c) \/ Realloc(c)
    PROVE  PodenvTypes' /\ Orderly'
<1>1. stage[c] \in {"look", "insert", "realloc"}
  BY DEF LookUp, Insert, Realloc
<1>2. PICK k \in Key : k = holds[c].key
  BY <1>1, BusyFacts
<1>3. /\ \A d \in Caller \ {c} : holds[d].key # k
      /\ Knows(stage[c], k, holds[c].port, holds[c].created) /\ Matched(k)
      /\ \A j \in Key \ {k} : lease[k] # NoPort => lease[k] # lease[j]
      /\ holds[c] \in [key : Key \cup {NoKey}, port : Ports, created : BOOLEAN]
      /\ holds[c].port \in Pool
  BY <1>1, <1>2, BusyFacts DEF PodenvTypes, Knows, Unleased
<1>4. NoPort \notin Pool
  BY PodenvAssumption
<1>5. CASE LookUp(c)
  <2>1. PICK new \in BOOLEAN :
          /\ new <=> lease[k] = NoPort
          /\ stage' = [stage EXCEPT ![c] = IF new THEN "insert" ELSE "check"]
          /\ holds' = [holds EXCEPT ![c].created = new]
          /\ UNCHANGED <<lease, box, address, stale, leftover>>
    BY <1>2, <1>5 DEF LookUp
  <2>2. /\ [holds[c] EXCEPT !.created = new] \in [key : Key \cup {NoKey}, port : Ports, created : BOOLEAN]
        /\ [holds[c] EXCEPT !.created = new].key = k
        /\ [holds[c] EXCEPT !.created = new].port = holds[c].port
        /\ [holds[c] EXCEPT !.created = new].created = new
    BY <1>2, <1>3
  <2>3. PodenvTypes'
    BY <2>1, <2>2 DEF PodenvTypes, Stages, Unleased, Raising
  <2>4. /\ stage'[c] = (IF new THEN "insert" ELSE "check")
        /\ holds'[c] = [holds[c] EXCEPT !.created = new]
        /\ \A d \in Caller \ {c} : stage'[d] = stage[d] /\ holds'[d] = holds[d]
    BY <2>1 DEF PodenvTypes
  <2>5. Matched(k)'
    BY <1>3, <2>1 DEF Matched
  <2>6. Knows(stage[c], k, holds[c].port, holds[c].created)'
    <3>1. new = TRUE \/ new = FALSE
      BY Zenon
    <3>2. lease[k] \in {holds[c].port, NoPort}
      BY <1>3, <1>5 DEF Knows, LookUp
    <3>3. new = TRUE => lease[k] = NoPort
      BY <2>1
    <3>4. new = FALSE => lease[k] = holds[c].port
      BY <2>1, <3>2
    <3>5. holds'[c].port = holds[c].port /\ holds'[c].created = new
      BY <2>2, <2>4
    <3>6. CASE new = TRUE
      BY <1>3, <2>1, <2>4, <3>3, <3>5, <3>6 DEF Knows, Unleased, Raising
    <3>7. CASE new = FALSE
      BY <1>3, <2>1, <2>4, <3>4, <3>5, <3>7 DEF Knows, Unleased, Raising
    <3>. QED
      BY <3>1, <3>6, <3>7
  <2>7. /\ IF stage'[c] = "idle" THEN holds'[c].key = NoKey ELSE holds'[c].key = k
        /\ \A j \in Key \ {k} :
              /\ lease'[j] = lease[j] /\ box'[j] = box[j]
              /\ address'[j] = address[j] /\ (j \in stale' <=> j \in stale)
        /\ \A j \in Key \ {k} : lease'[k] # NoPort => lease'[k] # lease[j]
        /\ leftover \subseteq leftover' /\ leftover' \subseteq leftover \cup {k}
    BY <1>3, <2>1, <2>2, <2>4
  <2>8. Orderly'
    BY <1>3, <2>3, <2>4, <2>5, <2>6, <2>7, StepOnKey
  <2>. QED
    BY <2>3, <2>8
<1>6. CASE Insert(c) /\ lease' # lease
  <2>1. /\ lease' = [lease EXCEPT ![k] = holds[c].port] /\ holds[c].port \notin Leased
        /\ At(c, "check") /\ stage[c] = "insert"
        /\ UNCHANGED <<box, address, stale, leftover>>
    BY <1>2, <1>6 DEF Insert
  <2>2. /\ stage' \in [Caller -> Stages]
        /\ holds' \in [Caller -> [key : Key \cup {NoKey}, port : Ports, created : BOOLEAN]]
        /\ \A d \in Caller \ {c} : stage'[d] = stage[d] /\ holds'[d] = holds[d]
        /\ stage'[c] = "check" /\ holds'[c] = holds[c]
    BY <2>1 DEF At, PodenvTypes, Stages, Raising
  <2>3. PodenvTypes'
    BY <1>3, <2>1, <2>2 DEF PodenvTypes, Ports
  <2>4. lease'[k] = holds[c].port /\ \A j \in Key \ {k} : lease'[j] = lease[j]
    BY <2>1 DEF PodenvTypes
  <2>5. lease[k] = NoPort
    BY <1>3, <2>1 DEF Knows, Unleased
  <2>6. Matched(k)'
    BY <1>3, <2>1, <2>4, <2>5 DEF Matched
  <2>7. Knows(stage[c], k, holds[c].port, holds[c].created)'
    BY <1>3, <2>1, <2>2, <2>4 DEF Knows, Unleased, Raising
  <2>8. \A j \in Key \ {k} : lease'[k] # lease[j]
    BY <1>3, <1>4, <2>1, <2>4 DEF Leased
  <2>9. /\ IF stage'[c] = "idle" THEN holds'[c].key = NoKey ELSE holds'[c].key = k
        /\ leftover \subseteq leftover' /\ leftover' \subseteq leftover \cup {k}
        /\ address' = address /\ stale' = stale /\ box' = box
    BY <1>2, <2>1, <2>2
  <2>10. Orderly'
    BY <1>3, <2>2, <2>3, <2>4, <2>6, <2>7, <2>8, <2>9, StepOnKey
  <2>. QED
    BY <2>3, <2>10
<1>7. CASE (Insert(c) /\ lease' = lease) \/ Realloc(c)
  <2>1. /\ stage[c] \in Unleased /\ UNCHANGED <<lease, box, address, stale, leftover>>
        /\ \/ stage' = [stage EXCEPT ![c] = "idle"] /\ holds' = [holds EXCEPT ![c] = AtRest]
           \/ /\ stage' = [stage EXCEPT ![c] = "realloc"]
              /\ holds' = holds
           \/ /\ stage' = [stage EXCEPT ![c] = "insert"]
              /\ \E p \in Allocs(k) : holds' = [holds EXCEPT ![c].port = p]
    <3>1. CASE Realloc(c)
      BY <1>2, <3>1 DEF Realloc, Done, Unleased
    <3>2. CASE Insert(c) /\ lease' = lease
      <4>1. lease[k] = NoPort /\ holds[c].port # NoPort
        BY <1>3, <1>4, <3>2 DEF Insert, Knows, Unleased
      <4>2. lease' # [lease EXCEPT ![k] = holds[c].port]
        BY <3>2, <4>1 DEF PodenvTypes
      <4>. QED
        BY <1>2, <3>2, <4>2 DEF Insert, Done, Unleased
    <3>. QED
      BY <1>7, <3>1, <3>2
  <2>2. lease[k] = NoPort /\ Allocs(k) \subseteq Pool
    BY <1>3, <2>1 DEF Knows, Allocs
  <2>3. PICK p \in Pool, where \in {"idle", "insert", "realloc"} :
          /\ stage' = [stage EXCEPT ![c] = where]
          /\ where = "idle" => holds' = [holds EXCEPT ![c] = AtRest]
          /\ where # "idle" => holds' = [holds EXCEPT ![c].port = p]
    <3>1. [holds EXCEPT ![c].port = holds[c].port] = holds
      BY <1>3 DEF PodenvTypes
    <3>. QED
      BY <1>3, <2>1, <2>2, <3>1
  <2>4. /\ [holds[c] EXCEPT !.port = p] \in [key : Key \cup {NoKey}, port : Ports, created : BOOLEAN]
        /\ [holds[c] EXCEPT !.port = p].key = k
        /\ [holds[c] EXCEPT !.port = p].port = p
        /\ [holds[c] EXCEPT !.port = p].created = holds[c].created
        /\ AtRest \in [key : Key \cup {NoKey}, port : Ports, created : BOOLEAN]
        /\ AtRest.key = NoKey
    BY <1>2, <1>3 DEF Ports, AtRest
  <2>5. PodenvTypes'
    <3>1. stage' \in [Caller -> Stages]
      BY <2>3 DEF PodenvTypes, Stages, Unleased
    <3>2. holds' \in [Caller -> [key : Key \cup {NoKey}, port : Ports, created : BOOLEAN]]
      BY <2>3, <2>4 DEF PodenvTypes
    <3>. QED
      BY <2>1, <3>1, <3>2 DEF PodenvTypes
  <2>6. /\ stage'[c] = where
        /\ where = "idle" => holds'[c] = AtRest
        /\ where # "idle" => holds'[c] = [holds[c] EXCEPT !.port = p]
        /\ \A d \in Caller \ {c} : stage'[d] = stage[d] /\ holds'[d] = holds[d]
    BY <2>3 DEF PodenvTypes
  <2>7. Matched(k)'
    BY <1>3, <2>1 DEF Matched
  <2>8. stage'[c] # "idle" => Knows(stage[c], k, holds[c].port, holds[c].created)'
    <3>. SUFFICES ASSUME where # "idle"
                  PROVE  Knows(stage[c], k, holds[c].port, holds[c].created)'
      BY <2>6
    <3>1. holds'[c].port = p /\ holds'[c].created = holds[c].created
      BY <2>4, <2>6
    <3>. QED
      BY <1>3, <2>1, <2>2, <2>6, <3>1 DEF Knows, Unleased, Raising
  <2>9. /\ IF stage'[c] = "idle" THEN holds'[c].key = NoKey ELSE holds'[c].key = k
        /\ \A j \in Key \ {k} :
              /\ lease'[j] = lease[j] /\ box'[j] = box[j]
              /\ address'[j] = address[j] /\ (j \in stale' <=> j \in stale)
        /\ \A j \in Key \ {k} : lease'[k] # NoPort => lease'[k] # lease[j]
        /\ leftover \subseteq leftover' /\ leftover' \subseteq leftover \cup {k}
    BY <2>1, <2>2, <2>4, <2>6
  <2>10. Orderly'
    BY <1>3, <2>5, <2>6, <2>7, <2>8, <2>9, StepOnKey
  <2>. QED
    BY <2>5, <2>10
<1>. QED
  BY <1>5, <1>6, <1>7

\* The steps that write the address, take the container away, and the row.
LEMMA ClosingSteps ==
    ASSUME ~Concurrent, PodenvTypes, Orderly, NEW c \in Caller,
           \/ WriteEnv(c) \/ Forget(c) \/ RemoveContainer(c)
           \/ Rollback(c) /\ holds[c].created # FALSE
    PROVE  PodenvTypes' /\ Orderly'
<1>1. stage[c] \in {"write", "forget", "remove", "undo"}
  BY DEF WriteEnv, Forget, RemoveContainer, Rollback
<1>2. PICK k \in Key : k = holds[c].key
  BY <1>1, BusyFacts
<1>3. /\ \A d \in Caller \ {c} : holds[d].key # k
      /\ Knows(stage[c], k, holds[c].port, holds[c].created) /\ Matched(k)
      /\ \A j \in Key \ {k} : lease[k] # NoPort => lease[k] # lease[j]
      /\ holds[c] \in [key : Key \cup {NoKey}, port : Ports, created : BOOLEAN]
  BY <1>1, <1>2, BusyFacts DEF PodenvTypes
<1>4. CASE WriteEnv(c)
  <2>1. /\ stage[c] = "write" /\ lease[k] = holds[c].port /\ holds[c].port \in Pool
        /\ UNCHANGED <<lease, box, leftover>> /\ (Done(c) \/ At(c, "undo"))
        /\ \/ /\ address' = [address EXCEPT ![k] = holds[c].port] /\ stale' = stale \ {k}
           \/ /\ At(c, "undo") /\ UNCHANGED <<address, stale>>
    BY <1>2, <1>3, <1>4 DEF WriteEnv, Knows, Raising
  <2>2. {"undo", "write"} \subseteq Raising /\ "undo" \in Stages \ {"idle"}
    BY DEF Raising, Stages
  <2>3. CASE At(c, "undo") /\ UNCHANGED <<address, stale>>
    <3>1. /\ box' \in [Key -> Boxes] /\ \A j \in Key \ {k} : box'[j] = box[j]
          /\ box'[k].port = box[k].port /\ (box'[k].up = TRUE => box'[k].port # NoPort)
      BY <1>3, <2>1 DEF PodenvTypes, Matched
    <3>. QED
      BY <1>2, <2>1, <2>2, <2>3, <3>1, QuietStep
  <2>4. CASE address' = [address EXCEPT ![k] = holds[c].port] /\ stale' = stale \ {k}
    <3>1. /\ stage' \in [Caller -> Stages]
          /\ holds' \in [Caller -> [key : Key \cup {NoKey}, port : Ports, created : BOOLEAN]]
          /\ \A d \in Caller \ {c} : stage'[d] = stage[d] /\ holds'[d] = holds[d]
          /\ \/ stage'[c] = "idle" /\ holds'[c].key = NoKey
             \/ stage'[c] = "undo" /\ holds'[c] = holds[c]
      BY <2>1, <2>2, CallerMoves
    <3>2. /\ address'[k] = lease[k]
          /\ \A j \in Key \ {k} : address'[j] = address[j] /\ (j \in stale' <=> j \in stale)
      BY <2>1, <2>4 DEF PodenvTypes
    <3>3. PodenvTypes'
      BY <1>3, <2>1, <2>4, <3>1 DEF PodenvTypes
    <3>4. Matched(k)'
      BY <1>3, <2>1, <3>2 DEF Matched
    <3>5. stage'[c] # "idle" => Knows(stage[c], k, holds[c].port, holds[c].created)'
      BY <2>1, <3>1 DEF Knows, Raising, Unleased
    <3>6. /\ IF stage'[c] = "idle" THEN holds'[c].key = NoKey ELSE holds'[c].key = k
          /\ leftover \subseteq leftover' /\ leftover' \subseteq leftover \cup {k}
          /\ \A j \in Key \ {k} : /\ lease'[j] = lease[j] /\ box'[j] = box[j]
                                  /\ address'[j] = address[j] /\ (j \in stale' <=> j \in stale)
          /\ \A j \in Key \ {k} : lease'[k] # NoPort => lease'[k] # lease[j]
      BY <1>2, <1>3, <2>1, <3>1, <3>2
    <3>7. Orderly'
      BY <1>3, <3>1, <3>3, <3>4, <3>5, <3>6, StepOnKey
    <3>. QED
      BY <3>3, <3>7
  <2>. QED
    BY <2>1, <2>3, <2>4
<1>6. CASE Forget(c)
  <2>1. /\ Done(c) /\ stage' = [stage EXCEPT ![c] = "idle"] /\ holds' = [holds EXCEPT ![c] = AtRest]
        /\ UNCHANGED <<box, leftover, address>>
        /\ lease' = [lease EXCEPT ![k] = NoPort]
        /\ stale' = IF address[k] = NoPort THEN stale ELSE stale \cup {k}
        /\ box[k].port = NoPort \/ k \in leftover
    BY <1>2, <1>3, <1>6 DEF Forget, Done, Knows
  <2>2. /\ stage' \in [Caller -> Stages]
        /\ holds' \in [Caller -> [key : Key \cup {NoKey}, port : Ports, created : BOOLEAN]]
        /\ \A d \in Caller \ {c} : stage'[d] = stage[d] /\ holds'[d] = holds[d]
        /\ stage'[c] = "idle" /\ holds'[c].key = NoKey
    BY <2>1, AtRest \in [key : Key \cup {NoKey}, port : Ports, created : BOOLEAN],
       AtRest.key = NoKey DEF PodenvTypes, Stages, AtRest, Ports
  <2>3. /\ lease'[k] = NoPort
        /\ \A j \in Key \ {k} : lease'[j] = lease[j]
    BY <2>1 DEF PodenvTypes
  <2>4. PodenvTypes'
    BY <2>1, <2>2 DEF PodenvTypes, Ports
  <2>5. Matched(k)'
    BY <1>3, <2>1, <2>3 DEF Matched
  <2>6. /\ leftover \subseteq leftover' /\ leftover' \subseteq leftover \cup {k}
        /\ \A j \in Key \ {k} : /\ lease'[j] = lease[j] /\ box'[j] = box[j]
                                /\ address'[j] = address[j] /\ (j \in stale' <=> j \in stale)
    BY <2>1, <2>3
  <2>7. Orderly'
    BY <1>3, <2>2, <2>3, <2>4, <2>5, <2>6, StepOnKey
  <2>. QED
    BY <2>4, <2>7
<1>5. CASE RemoveContainer(c) \/ (Rollback(c) /\ holds[c].created # FALSE)
  <2>0. holds[c].created = TRUE \/ holds[c].created = FALSE
    <3>1. holds[c].created \in BOOLEAN
      BY <1>3
    <3>. QED
      BY <3>1, Zenon
  <2>1. /\ Removes(k) /\ At(c, "forget") /\ UNCHANGED <<lease, address, stale>>
        /\ stage[c] = "remove" \/ holds[c].created = TRUE
    <3>1. CASE RemoveContainer(c)
      BY <1>2, <3>1 DEF RemoveContainer
    <3>2. CASE Rollback(c) /\ holds[c].created = TRUE
      BY <1>2, <3>2 DEF Rollback
    <3>. QED
      BY <1>5, <2>0, <3>1, <3>2
  <2>2. /\ \/ box' = [box EXCEPT ![k] = NoBox] /\ leftover' = leftover
           \/ box' = box /\ leftover' = leftover \cup {k}
           \/ box' = box /\ leftover' = leftover /\ box[k] = NoBox
    BY <2>1 DEF Removes
  <2>4. /\ stage' \in [Caller -> Stages]
        /\ holds' \in [Caller -> [key : Key \cup {NoKey}, port : Ports, created : BOOLEAN]]
        /\ \A d \in Caller \ {c} : stage'[d] = stage[d] /\ holds'[d] = holds[d]
        /\ stage'[c] = "forget" /\ holds'[c] = holds[c]
    BY <2>1 DEF At, PodenvTypes, Stages
  <2>5. /\ box' \in [Key -> Boxes] /\ leftover' \subseteq Key
        /\ \A j \in Key \ {k} : box'[j] = box[j]
        /\ leftover \subseteq leftover' /\ leftover' \subseteq leftover \cup {k}
        /\ box'[k].port = NoPort \/ k \in leftover'
        /\ box'[k] = box[k] \/ box'[k] = NoBox
    <3>1. CASE box' = [box EXCEPT ![k] = NoBox] /\ leftover' = leftover
      <4>1. box'[k] = NoBox /\ \A j \in Key \ {k} : box'[j] = box[j]
        BY <3>1 DEF PodenvTypes
      <4>. QED
        BY <3>1, <4>1, BoxFacts DEF PodenvTypes
    <3>2. CASE box' = box /\ leftover' = leftover \cup {k}
      BY <3>2 DEF PodenvTypes
    <3>3. CASE box' = box /\ leftover' = leftover /\ box[k] = NoBox
      BY <3>3, BoxFacts DEF PodenvTypes
    <3>. QED
      BY <2>2, <3>1, <3>2, <3>3
  <2>6. PodenvTypes'
    BY <2>1, <2>4, <2>5 DEF PodenvTypes
  <2>7. Matched(k)'
    BY <1>3, <2>1, <2>5, BoxFacts DEF Matched
  <2>8. Knows(stage[c], k, holds[c].port, holds[c].created)'
    BY <2>1, <2>4, <2>5 DEF Knows, Raising, Unleased
  <2>9. /\ IF stage'[c] = "idle" THEN holds'[c].key = NoKey ELSE holds'[c].key = k
        /\ \A j \in Key \ {k} : lease'[j] = lease[j] /\ address'[j] = address[j] /\ (j \in stale' <=> j \in stale)
        /\ \A j \in Key \ {k} : lease'[k] # NoPort => lease'[k] # lease[j]
    BY <1>2, <1>3, <2>1, <2>4
  <2>10. Orderly'
    BY <1>3, <2>4, <2>5, <2>6, <2>7, <2>8, <2>9, StepOnKey
  <2>. QED
    BY <2>6, <2>10
<1>. QED
  BY <1>4, <1>5, <1>6

\* The runtime and its restarts switch containers on and off.
LEMMA RuntimeSteps ==
    ASSUME ~Concurrent, PodenvTypes, Orderly,
           RuntimeDies \/ RuntimeBack \/ \E k \in Key : Revive(k) \/ DaemonExits(k)
    PROVE  PodenvTypes' /\ Orderly'
<1>1. /\ UNCHANGED <<lease, address, stale, stage, holds, leftover>>
      /\ box' \in [Key -> Boxes]
      /\ \A j \in Key : box'[j].port = box[j].port
      /\ \A j \in Key : box'[j].up = TRUE => box'[j].port # NoPort
  <2>1. \A j \in Key : box[j] \in Boxes /\ (box[j].up = TRUE => box[j].port # NoPort)
    BY DEF PodenvTypes, Orderly, Matched
  <2>2. \A b \in Boxes : /\ [b EXCEPT !.up = FALSE] \in Boxes
                         /\ [b EXCEPT !.up = FALSE].port = b.port
                         /\ [b EXCEPT !.up = FALSE].up = FALSE
    BY DEF Boxes
  <2>3. CASE RuntimeDies
    <3>1. /\ box' = [k \in Key |-> [box[k] EXCEPT !.up = FALSE]]
          /\ UNCHANGED <<lease, address, stale, stage, holds, leftover>>
      BY <2>3 DEF RuntimeDies
    <3>. QED
      BY <2>1, <2>2, <3>1
  <2>4. CASE RuntimeBack
    BY <2>1, <2>4 DEF RuntimeBack, PodenvTypes
  <2>5. ASSUME NEW k \in Key, Revive(k) \/ DaemonExits(k)
        PROVE  /\ UNCHANGED <<lease, address, stale, stage, holds, leftover>>
               /\ box' \in [Key -> Boxes]
               /\ \A j \in Key : box'[j].port = box[j].port
               /\ \A j \in Key : box'[j].up = TRUE => box'[j].port # NoPort
    <3>1. /\ UNCHANGED <<lease, address, stale, stage, holds, leftover>>
          /\ \/ box' = [box EXCEPT ![k].up = TRUE] /\ box[k] # NoBox
             \/ box' = [box EXCEPT ![k].up = FALSE]
             \/ box' = box
      BY <2>5 DEF Revive, DaemonExits
    <3>2. box' = box \/ \A j \in Key \ {k} : box'[j] = box[j]
      BY <3>1 DEF PodenvTypes
    <3>3. CASE box' = [box EXCEPT ![k].up = TRUE] /\ box[k] # NoBox
      <4>1. box[k].port # NoPort
        BY <2>1, <3>3, BoxFacts
      <4>2. box'[k] = [box[k] EXCEPT !.up = TRUE] /\ \A j \in Key \ {k} : box'[j] = box[j]
        BY <3>3 DEF PodenvTypes
      <4>. QED
        BY <2>1, <3>1, <3>3, <4>1, <4>2, BoxFacts
    <3>4. CASE box' = [box EXCEPT ![k].up = FALSE]
      <4>1. box'[k] = [box[k] EXCEPT !.up = FALSE] /\ \A j \in Key \ {k} : box'[j] = box[j]
        BY <3>4 DEF PodenvTypes
      <4>. QED
        BY <2>1, <3>1, <3>4, <4>1, BoxFacts
    <3>5. CASE box' = box
      BY <2>1, <3>1, <3>5 DEF PodenvTypes
    <3>. QED
      BY <3>1, <3>3, <3>4, <3>5
  <2>. QED
    BY <2>3, <2>4, <2>5
<1>2. PodenvTypes'
  BY <1>1 DEF PodenvTypes
<1>3. Exclusive' /\ LeasesApart'
  BY <1>1 DEF Orderly, Exclusive, LeasesApart
<1>4. Standing'
  <2>. SUFFICES ASSUME NEW c \in Caller, stage'[c] # "idle"
                PROVE  Knows(stage[c], holds[c].key, holds[c].port, holds[c].created)'
    BY DEF Standing
  <2>1. stage[c] # "idle" /\ holds[c].key \in Key
    BY <1>1, BusyFacts
  <2>2. Knows(stage[c], holds[c].key, holds[c].port, holds[c].created)
    BY <2>1 DEF Orderly, Standing
  <2>. QED
    BY <1>1, <2>1, <2>2 DEF Knows
<1>5. \A k \in Key : Matched(k)'
  BY <1>1 DEF Orderly, Matched
<1>. QED
  BY <1>2, <1>3, <1>4, <1>5 DEF Orderly

\* The invariant of the leases.
LEMMA PodenvInvariance == PodenvSpec => []PodenvInv
<1>1. PodenvInit => PodenvInv
  <2>. SUFFICES ASSUME PodenvInit, ~Concurrent
                PROVE  PodenvTypes /\ Orderly
    BY DEF PodenvInv
  <2>1. NoBox \in Boxes /\ NoBox.port = NoPort /\ NoBox.up = FALSE
        /\ AtRest \in [key : Key \cup {NoKey}, port : Ports, created : BOOLEAN]
        /\ AtRest.key = NoKey
    BY DEF NoBox, Boxes, AtRest, Ports
  <2>2. PodenvTypes
    BY <2>1 DEF PodenvInit, PodenvTypes, Ports, Stages
  <2>3. \A k \in Key : Matched(k)
    BY <2>1 DEF PodenvInit, Matched
  <2>4. Exclusive /\ Standing /\ LeasesApart
    BY <2>1 DEF PodenvInit, Exclusive, Standing, LeasesApart
  <2>. QED
    BY <2>2, <2>3, <2>4 DEF Orderly
<1>2. PodenvInv /\ [PodenvNext]_podenvVars => PodenvInv'
  <2>. SUFFICES ASSUME ~Concurrent, PodenvTypes, Orderly, [PodenvNext]_podenvVars
                PROVE  PodenvTypes' /\ Orderly'
    BY DEF PodenvInv
  <2>1. ASSUME NEW c \in Caller,
               \/ LookUp(c) \/ Insert(c) \/ Realloc(c)
               \/ CheckContainer(c) \/ ProbeLease(c) \/ StopContainer(c) \/ StartContainer(c)
               \/ VerifyLease(c) \/ RunContainer(c) \/ Settle(c) \/ WriteEnv(c)
               \/ Rollback(c) \/ Forget(c) \/ RemoveContainer(c) \/ Killed(c)
        PROVE  PodenvTypes' /\ Orderly'
    BY <2>1, LeasingSteps, RaisingSteps, ClosingSteps
  <2>2. CASE UNCHANGED podenvVars
    BY <2>2 DEF podenvVars, PodenvTypes, Orderly, Exclusive, Standing, Knows, Matched, LeasesApart
  <2>. QED
    BY <2>1, <2>2, EnterSteps, RuntimeSteps DEF PodenvNext
<1>. QED
  BY <1>1, <1>2, PTL DEF PodenvSpec

\* The address in a project's .env is its own, and no other key's container
\* serves it, unless commands on one key overlap or a container was left over.
THEOREM AddressBackedHolds == PodenvSpec => []AddressBacked
<1>1. PodenvInv => AddressBacked
  <2>. SUFFICES ASSUME PodenvTypes, Orderly, NEW k \in Key, leftover = {}, address[k] # NoPort, k \notin stale
                PROVE  /\ lease[k] = address[k]
                       /\ \A j \in Key \ {k} : ~(box[j].up /\ box[j].port = address[k])
    BY DEF PodenvInv, AddressBacked
  <2>1. lease[k] = address[k]
    BY DEF Orderly, Matched
  <2>2. ASSUME NEW j \in Key \ {k}, box[j].port = address[k]
        PROVE  FALSE
    <3>1. box[j].port = lease[j]
      BY <2>2 DEF Orderly, Matched
    <3>. QED
      BY <2>1, <2>2, <3>1 DEF Orderly, LeasesApart
  <2>. QED
    BY <2>1, <2>2
<1>. QED
  BY <1>1, PodenvInvariance, PTL

\* A container without a row comes from a removal that failed, unless
\* commands on one key overlap.
THEOREM NoOrphanHolds == PodenvSpec => []NoOrphan
<1>1. PodenvInv => NoOrphan
  <2>. SUFFICES ASSUME PodenvTypes, Orderly,
                       NEW k \in Key, box[k] # NoBox, lease[k] = NoPort
                PROVE  k \in leftover
    BY DEF PodenvInv, NoOrphan
  <2>1. box[k].up # TRUE \/ box[k].port # NoPort
    BY DEF Orderly, Matched
  <2>2. box[k].port # NoPort
    BY <2>1, BoxFacts
  <2>. QED
    BY <2>2 DEF Orderly, Matched
<1>. QED
  BY <1>1, PodenvInvariance, PTL
=============================================================================
