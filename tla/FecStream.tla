------------------------------- MODULE FecStream -------------------------------
(***************************************************************************)
(* One FEC stream, as far as every kind of stream shares it: the sender's  *)
(* Packetizer, the QUIC datagrams in flight, the state of the receiver's   *)
(* Depacketizer and its methods.  Depacketizer is the receiver of video    *)
(* and of messages, AudioDepacketizer that of audio.                       *)
(*                                                                         *)
(* Every group of shards carries, beside its uint8 group id, a ghost       *)
(* generation number counted from 1 that never wraps.  A shard's content   *)
(* is the generation it was cut from.  The code never reads a generation:  *)
(* the properties do.                                                      *)
(***************************************************************************)
EXTENDS SerialNumbers, FiniteSets

CONSTANTS
    Kind,            \* "audio", "video" or "message": how the sender cuts data
    Half8,           \* half the ring of group ids (128 in the program)
    Half16,          \* half the ring of sequence numbers (32768)
    DataShards,
    ParityShards,
    BlocksPerFrame,  \* groups per video frame
    Cooldown,        \* SPECULATIVE_RFI_COOLDOWN_PERIOD_US, in generations
    MaxGroups,       \* bound: how many groups the sender sends
    Window,          \* bound: a datagram is lost once the sender is this far
    Reliable,        \* TRUE: QUIC loses no datagram in this run
    Duplication,     \* TRUE: a datagram may arrive more than once
    NoGroup          \* an id that is not in the map Depacketizer.Groups

TotalShards == DataShards + ParityShards
GroupIds == Unsigned(Half8)
Sequences == Unsigned(Half16)
Shards == 0 .. TotalShards - 1
Slots == 0 .. DataShards - 1        \* the data shards of a group
Generations == 1 .. MaxGroups

Nil == 0                            \* a shard that is not there
Zeroes == -1                        \* make([]byte, ShardDataLength)
Contents == {Nil, Zeroes} \cup Generations

Packets == [gen : 0 .. MaxGroups, group : GroupIds, shard : Shards,
            seq : Sequences, idr : BOOLEAN, block : 0 .. BlocksPerFrame - 1,
            frame : 0 .. MaxGroups]

NoPacket == [gen |-> 0, group |-> 0, shard |-> 0, seq |-> 0, idr |-> FALSE,
             block |-> 0, frame |-> 0]

FecGroups == [header : Packets, shards : [Shards -> 0 .. MaxGroups],
              received : 0 .. TotalShards, hasParity : BOOLEAN,
              start : Sequences, max : Sequences]

Depacketizers == [groups : [GroupIds -> FecGroups \cup {NoGroup}],
                  current : GroupIds, block : 0 .. BlocksPerFrame - 1,
                  frame : Nat, startFrame : Nat, nextSeq : Sequences,
                  missing : Sequences, oos : BOOLEAN, lastOos : Nat,
                  reported : BOOLEAN]

Packetizers == [sent : 0 .. MaxGroups, group : GroupIds, seq : Sequences,
                block : 0 .. BlocksPerFrame - 1, frame : 0 .. MaxGroups,
                idr : BOOLEAN]

Outputs == [gen : 0 .. MaxGroups, shards : [Slots -> Contents],
            decoded : BOOLEAN]

ConstantsAssumption ==
    /\ Kind \in {"audio", "video", "message"}
    /\ Half8 \in Nat \ {0} /\ Half16 \in Nat \ {0}
    /\ DataShards \in Nat \ {0} /\ ParityShards \in Nat
    /\ DataShards + ParityShards < 2 * Half16
    /\ BlocksPerFrame \in Nat \ {0}
    /\ Kind # "video" => BlocksPerFrame = 1
    /\ Cooldown \in Nat
    /\ MaxGroups \in Nat \ {0} /\ MaxGroups < 2 * Half16
    /\ Window \in Nat \ {0}
    /\ Reliable \in BOOLEAN /\ Duplication \in BOOLEAN

ASSUME FecStreamAssumption == ConstantsAssumption

ASSUME NoGroupAssumption == NoGroup \notin FecGroups

VARIABLES
    packetizer,   \* the sender's Packetizer and the counters of its caller
    net,          \* datagrams in flight
    depacketizer, \* StreamChannel.Depacketizers[ssrc]
    pc,           \* where the datagram goroutine is
    packet,       \* the packet FecDecode was called with
    output        \* the last group handed to StreamChannel.Channel

IsBefore8(a, b) == IsBefore(a, b, Half8)
IsBefore16(a, b) == IsBefore(a, b, Half16)

-----------------------------------------------------------------------------
(* Socket.SendFecDatagram.                                                 *)

NewPacketizer == [sent |-> 0, group |-> 0, seq |-> 0, block |-> 0,
                  frame |-> 0, idr |-> FALSE]

\* The packetizer after it numbered one more group; idr is the key-frame
\* flag the encoder put on the data, and a frame keeps the flag of its
\* first block.
NextGroupOf(z, idr) ==
    [sent |-> z.sent + 1,
     group |-> Wrap(z.group + 1, Half8),
     seq |-> CASE Kind = "audio" -> Wrap(z.seq + DataShards, Half16)
               [] Kind = "video" -> Wrap(z.seq + TotalShards, Half16)
               [] OTHER -> z.frame + 1,
     block |-> IF z.block + 1 = BlocksPerFrame THEN 0 ELSE z.block + 1,
     frame |-> IF z.block = 0 THEN z.frame + 1 ELSE z.frame,
     idr |-> IF z.block = 0 THEN idr ELSE z.idr]

\* The datagram of shard i.  Audio and video shards are numbered one after
\* the other, parity last; every shard of a message carries its frame index.
PacketOf(z, idr, i) ==
    LET n == NextGroupOf(z, idr)
    IN  [gen |-> n.sent, group |-> n.group, shard |-> i,
         seq |-> IF Kind = "message" THEN n.seq ELSE Wrap(z.seq + i, Half16),
         idr |-> n.idr, block |-> z.block, frame |-> n.frame]

\* The datagrams that are still under way when the sender is at generation n.
UnderWay(n) == {p \in net : p.gen + Window > n}

Send(idr) ==
    /\ packetizer.sent < MaxGroups
    /\ idr => Kind = "video" /\ packetizer.block = 0
    /\ Reliable => UnderWay(packetizer.sent + 1) = net
    /\ packetizer' = NextGroupOf(packetizer, idr)
    /\ net' = UnderWay(packetizer.sent + 1)
                \cup {PacketOf(packetizer, idr, i) : i \in Shards}
    /\ UNCHANGED <<depacketizer, pc, packet, output>>

-----------------------------------------------------------------------------
(* The methods of Depacketizer.                                            *)

NewDepacketizer ==
    [groups |-> [g \in GroupIds |-> NoGroup], current |-> 1, block |-> 0,
     frame |-> 0, startFrame |-> 0, nextSeq |-> 0, missing |-> 0,
     oos |-> FALSE, lastOos |-> 0, reported |-> FALSE]

Present(d, g) == d.groups[g] # NoGroup

\* Slip: the loop runs to "i <= target".
Target_OneMore(current, g) ==
    IF g < current THEN g + 2 * Half8 ELSE g + 1

\* Where a jump to group g stops deleting.  When the ring wraps, that is the
\* id plus MaxUint8 (not plus 256).
Target(current, g) == IF g < current THEN g + (2 * Half8 - 1) ELSE g

\* The ids the loop "for i := current; i < target; i++" deletes.
Discarded(current, g) ==
    {Wrap(i, Half8) : i \in current .. Target(current, g) - 1}

DropGroups(d, ids) ==
    [g \in GroupIds |-> IF g \in ids THEN NoGroup ELSE d.groups[g]]

\* Slip: CurrentBlockIndex is not reset.
JumpToNextIdrPacket_BlockKept(d, p) ==
    IF p.block = 0 /\ IsBefore8(d.current, p.group)
    THEN [d EXCEPT !.groups = DropGroups(d, Discarded(d.current, p.group)),
                   !.current = p.group, !.frame = p.frame, !.missing = 0]
    ELSE d

JumpToNextIdrPacket(d, p) ==
    IF p.block = 0 /\ IsBefore8(d.current, p.group)
    THEN [d EXCEPT !.groups = DropGroups(d, Discarded(d.current, p.group)),
                   !.current = p.group, !.frame = p.frame,
                   !.block = 0, !.missing = 0]
    ELSE d

\* Slips: the delivered group is not deleted; the id is not advanced.
DoNextGroup_Keeps(d) ==
    [d EXCEPT !.current = Wrap(d.current + 1, Half8), !.missing = 0]
DoNextGroup_Stays(d) ==
    [d EXCEPT !.groups = DropGroups(d, {d.current}), !.missing = 0]

DoNextGroup(d) ==
    LET frameEnds == d.block + 1 >= BlocksPerFrame
    IN  [d EXCEPT !.groups = DropGroups(d, {d.current}),
                  !.current = Wrap(d.current + 1, Half8),
                  !.block = IF frameEnds THEN 0 ELSE d.block + 1,
                  !.frame = IF frameEnds THEN d.frame + 1 ELSE d.frame,
                  !.missing = 0]

NewFecGroup(p) ==
    [header |-> p, shards |-> [i \in Shards |-> Nil], received |-> 0,
     hasParity |-> FALSE, start |-> 0, max |-> 0]

\* Slip: the start is one too low.
StoreShard_LowStart(group, p) ==
    [group EXCEPT !.shards[p.shard] = p.gen, !.max = p.seq,
                  !.start = Wrap(p.seq - p.shard - 1, Half16),
                  !.received = group.received + 1]

\* The group with packet p put in its slot.
StoreShard(group, p) ==
    [group EXCEPT
        !.shards[p.shard] = p.gen,
        !.hasParity = group.hasParity \/ p.shard >= DataShards,
        !.start = IF group.received = 0 THEN Wrap(p.seq - p.shard, Half16)
                  ELSE group.start,
        !.max = IF group.received = 0 \/ IsBefore16(group.max, p.seq)
                THEN p.seq ELSE group.max,
        !.received = group.received + 1]

\* Slip: MissingPackets is lowered without a look at its value.
CountPacket_Unguarded(d, p) ==
    IF IsBefore16(p.seq, d.nextSeq) THEN [d EXCEPT !.missing = d.missing - 1]
    ELSE [d EXCEPT !.nextSeq = Wrap(p.seq + 1, Half16)]

\* The loss statistics, brought up to date with a packet of the current
\* group.  Its presentation time is its generation.
CountPacket(d, p) ==
    LET late == IsBefore16(p.seq, d.nextSeq)
    IN  IF p.seq = d.nextSeq
        THEN [d EXCEPT !.nextSeq = Wrap(d.nextSeq + 1, Half16),
                       !.oos = d.oos /\ p.gen <= d.lastOos + Cooldown]
        ELSE [d EXCEPT
                !.missing = IF late THEN IF d.missing > 0 THEN d.missing - 1
                                         ELSE d.missing
                            ELSE Wrap(d.missing + Wrap(p.seq - d.nextSeq, Half16),
                                      Half16),
                !.nextSeq = IF late THEN d.nextSeq ELSE Wrap(p.seq + 1, Half16),
                !.oos = TRUE, !.lastOos = p.gen]

\* The packet's group, with the packet in it if it is not a copy.
GroupFor(d, p) == IF Present(d, p.group) THEN d.groups[p.group]
                  ELSE NewFecGroup(p)
IsCopy(d, p) == GroupFor(d, p).shards[p.shard] # Nil
PutPacket(d, p) ==
    IF IsCopy(d, p) THEN d
    ELSE [d EXCEPT !.groups[p.group] = StoreShard(GroupFor(d, p), p)]

\* Slip: a copy of a packet is not recognised, and is counted again.
RtpAddPacket_CountsCopies(d, p) ==
    LET e == [d EXCEPT !.groups[p.group] = StoreShard(GroupFor(d, p), p)]
    IN  IF p.group = d.current THEN CountPacket(e, p) ELSE e

RtpAddPacket(d, p) ==
    IF ~IsCopy(d, p) /\ p.group = d.current
    THEN CountPacket(PutPacket(d, p), p)
    ELSE PutPacket(d, p)

\* Socket.GetFecDecodeInfo drops a packet of a group already passed.
Outdated(d, p) == IsBefore8(p.group, d.current)

-----------------------------------------------------------------------------
(* What StreamChannel.FecDecode works with.                                *)

Current(d) == d.groups[d.current]
Short(d) == Present(d, d.current) /\ Current(d).received < DataShards

Break == pc' = "idle" /\ packet' = NoPacket
Panic == pc' = "crashed" /\ packet' = NoPacket

\* The shards of a group as they are handed over: the absent ones as zeroes.
ZeroFill(shards) == [i \in Shards |-> IF i \in Slots /\ shards[i] = Nil
                                      THEN Zeroes ELSE shards[i]]

\* reedsolomon.Encoder.ReconstructData: a shard is missing when its slice is
\* empty; with every data shard there, nothing is done.
ReconstructData(shards, gen) ==
    IF \A i \in Slots : shards[i] # Nil THEN shards
    ELSE [i \in Shards |-> IF i \in Slots /\ shards[i] = Nil THEN gen
                           ELSE shards[i]]

\* The shards delivered when enough arrived.  Missing data shards are given
\* zero-valued slices before ReconstructData is called.
Decoded(group) ==
    IF group.hasParity
    THEN ReconstructData(ZeroFill(group.shards), group.header.gen)
    ELSE group.shards

\* What StreamChannel.Channel gets of a group.
Handed(group, shards, decoded) ==
    [gen |-> group.header.gen, shards |-> [i \in Slots |-> shards[i]],
     decoded |-> decoded]

\* The state of a stream nobody has sent on.
NewStream ==
    /\ packetizer = NewPacketizer
    /\ net = {}
    /\ pc = "idle"
    /\ packet = NoPacket
    /\ output = [gen |-> 0, shards |-> [i \in Slots |-> Nil], decoded |-> FALSE]

\* The datagram of p is taken from the network, or a copy of it is.
Take(p) == net' \in {net \ {p}} \cup (IF Duplication THEN {net} ELSE {})

-----------------------------------------------------------------------------
(* Properties of every kind of stream.                                     *)

\* Every variable of the stream has its type.
StreamTypeOK ==
    /\ packetizer \in Packetizers
    /\ net \subseteq Packets
    /\ depacketizer \in Depacketizers
    /\ packet \in Packets
    /\ output \in Outputs

\* The slots of a FecGroup only ever hold shards of one generation: reusing
\* the 256 group ids never mixes the shards of two groups in one decode.
GroupsPure ==
    \A g \in GroupIds : Present(depacketizer, g) =>
        LET group == depacketizer.groups[g]
        IN  \A i \in Shards : group.shards[i] \in {Nil, group.header.gen}

\* A group waiting in Groups is newer than all that was delivered: filter,
\* jump and delete together leave no group behind to be delivered late.
BufferedIsNewer ==
    \A g \in GroupIds : Present(depacketizer, g) =>
        depacketizer.groups[g].header.gen > output.gen

\* FecDecode neither reads a group that is gone nor indexes past Packets.
NoPanic == pc # "crashed"

=============================================================================
