------------------------------ MODULE MCParts -------------------------------
(***************************************************************************)
(* One run of parts that share no state: the gateway, the snapshot ledger  *)
(* and the captures of the memory provider; the commands, the health       *)
(* monitor and the run sweep of the bridge; the leases of podenv.  `part`  *)
(* says which one moves; the others stay as they start.                    *)
(***************************************************************************)
EXTENDS MCMemory, MemorySnapshot, MemoryCapture, Authority, HealthMonitor, RunSweep, Podenv,
        TLC

VARIABLE part

Parts == {"gateway", "snapshot", "capture", "authority", "health", "sweep",
          "podenv"}

\* Messages of a channel: the owner's, a stranger's, a broken one.
CONSTANTS owner, stranger, mOwner, mStranger, mBroken

Posts == {mOwner, mStranger, mBroken}
PostAuthor ==
    mOwner :> owner @@ mStranger :> stranger @@ mBroken :> NoAuthor

\* Orders: two overrides, a copy of one by a stranger, a grant, a revocation
\* and a stop.
CONSTANTS oFirst, oSecond, oForged, oGrant, oUndo, oStop

Orders == {oFirst, oSecond, oForged, oGrant, oUndo, oStop}
Allow == [verb |-> "override", scope |-> "track", value |-> TRUE]
Forbid == [verb |-> "override", scope |-> "track", value |-> FALSE]
GrantLab == [verb |-> "grant", scope |-> "track", value |-> TRUE]
Undo == [verb |-> "revoke", row |-> 1]
Stop == [verb |-> "stop", run |-> 1]

GrantSet == {GrantLab}
OverrideSet == {Allow, Forbid}

\* The text of an override names its scope and key, not its value, so it has
\* the tokens of both.
OrderText ==
    oFirst :> OverrideSet @@ oSecond :> OverrideSet @@ oForged :> OverrideSet
        @@ oGrant :> GrantSet @@ oUndo :> {Undo} @@ oStop :> {Stop}
OrderAuthor == [o \in Orders |-> IF o = oForged THEN stranger ELSE owner]
OrderTime == [o \in Orders |-> IF o \in {oFirst, oForged} THEN 0 ELSE 1]

partVars ==
    <<vars, snapshotVars, captureVars, authorityVars, healthVars, sweepVars, podenvVars, part>>

Others(p) ==
    /\ p # "gateway" => UNCHANGED vars
    /\ p # "snapshot" => UNCHANGED snapshotVars
    /\ p # "capture" => UNCHANGED captureVars
    /\ p # "authority" => UNCHANGED authorityVars
    /\ p # "health" => UNCHANGED healthVars
    /\ p # "sweep" => UNCHANGED sweepVars
    /\ p # "podenv" => UNCHANGED podenvVars

\* Gateways, handlers, and keys with their callers are alike, each among
\* themselves: a state and the one with all of them exchanged are the same.
CONSTANTS s1, s2, c1, c2, h1, h2, ka, kb, ca, cb

Swap == c1 :> c2 @@ c2 :> c1 @@ h1 :> h2 @@ h2 :> h1
            @@ ka :> kb @@ kb :> ka @@ ca :> cb @@ cb :> ca

PartSymmetry ==
    {[x \in DOMAIN Swap |-> IF swapped THEN Swap[x] ELSE x] : swapped \in BOOLEAN}

\* So are sync threads and callers that do nothing: a step takes the first
\* thread that is free, and, as commands on one key never overlap, the key's
\* own caller.
FirstFree ==
    /\ part = "gateway" => (pc[s2] = "off" /\ pc'[s2] # "off" => pc[s1] # "off")
    /\ part = "podenv" => holds'[ca].key # kb /\ holds'[cb].key # ka

\* The parts that do not move start in one state.
MCInit ==
    /\ part \in Parts
    /\ Init /\ SnapshotInit /\ CaptureInit
    /\ AuthorityInit /\ HealthInit /\ SweepInit /\ PodenvInit
    /\ part # "gateway" => foreign = {} /\ command
    /\ part # "capture" => mode = "full"

MCNext ==
    /\ UNCHANGED part
    /\ \/ part = "gateway" /\ Next
       \/ part = "snapshot" /\ SnapshotNext
       \/ part = "capture" /\ CaptureNext
       \/ part = "authority" /\ AuthorityNext
       \/ part = "health" /\ HealthNext
       \/ part = "sweep" /\ SweepNext
       \/ part = "podenv" /\ PodenvNext
    /\ FirstFree
    /\ Others(part)

MCSpec == MCInit /\ [][MCNext]_partVars
=============================================================================
