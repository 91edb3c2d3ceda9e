---------------------------- MODULE FecStreamProofs ---------------------------
(***************************************************************************)
(* Proofs about FecStream, for every kind of stream: arithmetic on serial  *)
(* numbers, the methods of Depacketizer and their types, the sender, and   *)
(* what is handed over.  DepacketizerProofs and AudioDepacketizerProofs    *)
(* rest on them.                                                           *)
(***************************************************************************)
EXTENDS FecStream, FiniteSetTheorems, TLAPS

USE FecStreamAssumption DEF ConstantsAssumption

-----------------------------------------------------------------------------
(* Unsigned arithmetic.                                                    *)

\* A conversion that is at most one ring off lands in the type.
LEMMA WrapType ==
    ASSUME NEW half \in Nat \ {0}, NEW x \in Int,
           -(2 * half) <= x, x < 4 * half
    PROVE  Wrap(x, half) \in Unsigned(half)
BY DEF Wrap, Unsigned

\* The sum and the difference of two values of a type convert to the type.
LEMMA WrapSum ==
    ASSUME NEW half \in Nat \ {0}, NEW a \in Unsigned(half),
           NEW b \in Unsigned(half)
    PROVE  /\ Wrap(a + b, half) \in Unsigned(half)
           /\ Wrap(a - b, half) \in Unsigned(half)
           /\ Wrap(a + 1, half) \in Unsigned(half)
BY DEF Wrap, Unsigned

LEMMA GroupIdFacts == /\ 1 \in GroupIds /\ 0 \in GroupIds /\ 0 \in Sequences
                      /\ 0 \in 0 .. BlocksPerFrame - 1
                      /\ \A g \in GroupIds : Wrap(g + 1, Half8) \in GroupIds
BY WrapSum DEF GroupIds, Sequences, Unsigned

-----------------------------------------------------------------------------
(* Comparison, jumps and successors within one lap of the ring of ids.    *)

\* An id less than half a ring ahead of b is not taken for an older one.
LEMMA BeforeIsLess ==
    ASSUME NEW a \in GroupIds, NEW b \in GroupIds, a - b < Half8,
           IsBefore8(a, b)
    PROVE  a < b
BY DEF IsBefore8, IsBefore, Wrap, GroupIds, Unsigned

\* An id up to half a ring behind b is taken for an older one.
LEMMA LessIsBefore ==
    ASSUME NEW a \in GroupIds, NEW b \in GroupIds, a < b, b - a <= Half8
    PROVE  IsBefore8(a, b)
BY DEF IsBefore8, IsBefore, Wrap, GroupIds, Unsigned

\* A jump forward within the lap deletes exactly the ids jumped over.
LEMMA DiscardedInLap ==
    ASSUME NEW a \in GroupIds, NEW b \in GroupIds, a <= b, NEW x \in GroupIds
    PROVE  x \in Discarded(a, b) <=> a <= x /\ x < b
<1>1. Discarded(a, b) = {Wrap(i, Half8) : i \in a .. b - 1}
  BY DEF Discarded, Target, GroupIds, Unsigned
<1>2. \A i \in a .. b - 1 : Wrap(i, Half8) = i
  BY DEF Wrap, GroupIds, Unsigned
<1>3. x \in a .. b - 1 <=> a <= x /\ x < b
  BY DEF GroupIds, Unsigned
<1> QED BY <1>1, <1>2, <1>3

\* Within the lap the next id is the successor.
LEMMA NextIdInLap ==
    ASSUME MaxGroups < 2 * Half8 - 1, NEW n \in Nat, n <= MaxGroups
    PROVE  Wrap(n + 1, Half8) = n + 1 /\ n + 1 \in GroupIds
BY DEF Wrap, GroupIds, Unsigned

-----------------------------------------------------------------------------
(* The shards of a group are counted: Received is the number of filled     *)
(* slots, hence never more than the group has.                             *)

Arrived(group) == {i \in Shards : group.shards[i] # Nil}

Counted(d) == \A g \in GroupIds :
    Present(d, g) => d.groups[g].received = Cardinality(Arrived(d.groups[g]))

LEMMA ShardsFinite == IsFiniteSet(Shards) /\ Cardinality(Shards) = TotalShards
<1>1. TotalShards \in Nat /\ TotalShards > 0
  BY DEF TotalShards
<1>2. IsFiniteSet(0 .. TotalShards - 1)
      /\ Cardinality(0 .. TotalShards - 1) =
           IF 0 > TotalShards - 1 THEN 0 ELSE (TotalShards - 1) - 0 + 1
  BY <1>1, FS_Interval
<1> QED BY <1>1, <1>2 DEF Shards

\* A packet put in an empty slot keeps the count right.
LEMMA StoreShardCounts ==
    ASSUME NEW group \in FecGroups, NEW p \in Packets, p.gen # 0,
           group.received = Cardinality(Arrived(group)),
           group.shards[p.shard] = Nil
    PROVE  /\ StoreShard(group, p) \in FecGroups
           /\ StoreShard(group, p).received =
                Cardinality(Arrived(StoreShard(group, p)))
           /\ StoreShard(group, p).received > 0
           /\ StoreShard(group, p).header = group.header
<1> DEFINE h == StoreShard(group, p)
<1>1. p.shard \in Shards /\ p.gen \in 0 .. MaxGroups /\ p.seq \in Sequences
  BY DEF Packets
<1>2. group.shards \in [Shards -> 0 .. MaxGroups] /\ group.received \in Nat
  BY DEF FecGroups
<1>3. h.shards = [group.shards EXCEPT ![p.shard] = p.gen]
      /\ h.received = group.received + 1
  BY DEF StoreShard, FecGroups
<1>4. Arrived(h) = Arrived(group) \cup {p.shard} /\ p.shard \notin Arrived(group)
  BY <1>1, <1>2, <1>3 DEF Arrived, Nil
<1>5. Arrived(group) \subseteq Shards /\ Arrived(h) \subseteq Shards
  BY DEF Arrived
<1>6. IsFiniteSet(Arrived(group)) /\ IsFiniteSet(Arrived(h))
  BY <1>5, ShardsFinite, FS_Subset
<1>7. Cardinality(Arrived(h)) = Cardinality(Arrived(group)) + 1
  BY <1>4, <1>6, FS_AddElement
<1>8. Cardinality(Arrived(h)) <= TotalShards
  BY <1>5, <1>6, ShardsFinite, FS_Subset
<1>9. p.shard \in Unsigned(Half16)
  BY <1>1 DEF Shards, TotalShards, Unsigned
<1>10. Wrap(p.seq - p.shard, Half16) \in Sequences
  BY <1>1, <1>9, WrapSum DEF Sequences
<1>11. h \in FecGroups
  <2>1. h.received \in 0 .. TotalShards
    BY <1>2, <1>3, <1>7, <1>8 DEF TotalShards
  <2>2. h.shards \in [Shards -> 0 .. MaxGroups]
    BY <1>1, <1>2, <1>3
  <2> QED BY <1>1, <1>3, <1>10, <2>1, <2>2 DEF StoreShard, FecGroups
<1> QED BY <1>2, <1>3, <1>7, <1>11 DEF StoreShard, FecGroups

-----------------------------------------------------------------------------
(* The methods of Depacketizer keep the type and the count.               *)

Good(d) == d \in Depacketizers /\ Counted(d)

\* Deleting groups and moving on.
LEMMA DropGroupsGood ==
    ASSUME NEW d, Good(d), NEW ids, NEW e \in Depacketizers,
           e.groups = DropGroups(d, ids)
    PROVE  Good(e)
<1>1. \A g \in GroupIds : Present(e, g) =>
        Present(d, g) /\ e.groups[g] = d.groups[g]
  BY DEF DropGroups, Present
<1> QED BY <1>1 DEF Good, Counted

LEMMA DropGroupsType ==
    ASSUME NEW d \in Depacketizers, NEW ids
    PROVE  DropGroups(d, ids) \in [GroupIds -> FecGroups \cup {NoGroup}]
BY DEF DropGroups, Depacketizers

LEMMA CountPacketGood ==
    ASSUME NEW d, Good(d), NEW p \in Packets
    PROVE  /\ Good(CountPacket(d, p))
           /\ CountPacket(d, p).groups = d.groups
           /\ CountPacket(d, p).current = d.current
<1> DEFINE e == CountPacket(d, p)
<1>1. /\ d.nextSeq \in Unsigned(Half16) /\ d.missing \in Unsigned(Half16)
      /\ p.seq \in Unsigned(Half16) /\ p.gen \in Nat /\ d.lastOos \in Nat
      /\ d.oos \in BOOLEAN
  BY DEF Good, Depacketizers, Packets, Sequences
<1>2. Wrap(p.seq - d.nextSeq, Half16) \in Unsigned(Half16)
  BY <1>1, WrapSum
<1>3. /\ Wrap(d.missing + Wrap(p.seq - d.nextSeq, Half16), Half16) \in Unsigned(Half16)
      /\ Wrap(d.nextSeq + 1, Half16) \in Unsigned(Half16)
      /\ Wrap(p.seq + 1, Half16) \in Unsigned(Half16)
  BY <1>1, <1>2, WrapSum
<1>4. d.missing > 0 => d.missing - 1 \in Unsigned(Half16)
  BY <1>1 DEF Unsigned
<1>5. e.groups = d.groups /\ e.current = d.current
  BY DEF CountPacket, Good, Depacketizers
<1>6. e \in Depacketizers
  <2>1. CASE p.seq = d.nextSeq
    <3>1. (d.oos /\ p.gen <= d.lastOos + Cooldown) \in BOOLEAN
      OBVIOUS
    <3> QED BY <2>1, <1>1, <1>3, <3>1 DEF CountPacket, Good, Depacketizers, Sequences
  <2>2. CASE p.seq # d.nextSeq
    BY <2>2, <1>1, <1>3, <1>4 DEF CountPacket, Good, Depacketizers, Sequences
  <2> QED BY <2>1, <2>2
<1> QED BY <1>5, <1>6 DEF Good, Counted, Present

LEMMA GroupForGood ==
    ASSUME NEW d, Good(d), NEW p \in Packets
    PROVE  /\ GroupFor(d, p) \in FecGroups
           /\ GroupFor(d, p).received = Cardinality(Arrived(GroupFor(d, p)))
<1>1. p.group \in GroupIds
  BY DEF Packets
<1>2. CASE Present(d, p.group)
  BY <1>1, <1>2 DEF GroupFor, Good, Counted, Present, Depacketizers
<1>3. CASE ~Present(d, p.group)
  <2>1. NewFecGroup(p) \in FecGroups
    BY GroupIdFacts DEF NewFecGroup, FecGroups, Nil, TotalShards
  <2>2. Arrived(NewFecGroup(p)) = {} /\ NewFecGroup(p).received = 0
    BY DEF Arrived, NewFecGroup
  <2> QED BY <1>3, <2>1, <2>2, FS_EmptySet DEF GroupFor
<1> QED BY <1>2, <1>3

\* PutPacket leaves the packet's group in the buffer, with the packet in it,
\* and changes nothing else.
LEMMA PutPacketGood ==
    ASSUME NEW d, Good(d), NEW p \in Packets, p.gen # 0
    PROVE  LET e == PutPacket(d, p)
           IN  /\ Good(e)
               /\ Present(e, p.group)
               /\ e.groups[p.group] = IF IsCopy(d, p) THEN GroupFor(d, p)
                                      ELSE StoreShard(GroupFor(d, p), p)
               /\ \A g \in GroupIds \ {p.group} : e.groups[g] = d.groups[g]
               /\ \A f \in {"current", "block", "frame", "reported", "oos",
                            "missing", "nextSeq", "lastOos", "startFrame"} :
                    e[f] = d[f]
<1> DEFINE group == GroupFor(d, p)
           h == StoreShard(group, p)
           e == [d EXCEPT !.groups[p.group] = h]
<1>1. /\ p.group \in GroupIds /\ p.shard \in Shards
      /\ group \in FecGroups /\ group.received = Cardinality(Arrived(group))
  BY GroupForGood DEF Packets
<1>2. CASE IsCopy(d, p)
  <2>1. Present(d, p.group)
    BY <1>1, <1>2 DEF IsCopy, GroupFor, NewFecGroup
  <2> QED BY <1>2, <2>1 DEF GroupFor, PutPacket
<1>3. CASE ~IsCopy(d, p)
  <2> HIDE DEF group
  <2>1. /\ h \in FecGroups /\ h # NoGroup
        /\ h.received = Cardinality(Arrived(h))
    BY <1>1, <1>3, StoreShardCounts, NoGroupAssumption DEF IsCopy, group
  <2>2. d \in Depacketizers /\ d.groups \in [GroupIds -> FecGroups \cup {NoGroup}]
    BY DEF Good, Depacketizers
  <2> HIDE DEF h
  <2>3. /\ e.groups = [d.groups EXCEPT ![p.group] = h]
        /\ \A f \in {"current", "block", "frame", "reported", "oos", "missing",
                     "nextSeq", "lastOos", "startFrame"} : e[f] = d[f]
    BY <2>2 DEF Depacketizers
  <2>4. e \in Depacketizers
    BY <1>1, <2>1, <2>2 DEF Depacketizers
  <2>5. PutPacket(d, p) = e
    BY <1>3 DEF PutPacket, group, h
  <2> HIDE DEF e
  <2>6. \A g \in GroupIds : e.groups[g] = IF g = p.group THEN h ELSE d.groups[g]
    BY <1>1, <2>2, <2>3
  <2>7. Good(e)
    BY <2>1, <2>4, <2>6 DEF Good, Counted, Present
  <2> QED BY <1>1, <1>3, <2>1, <2>3, <2>5, <2>6, <2>7 DEF Present, group, h
<1> QED BY <1>2, <1>3

LEMMA RtpAddPacketGood ==
    ASSUME NEW d, Good(d), NEW p \in Packets, p.gen # 0
    PROVE  Good(RtpAddPacket(d, p))
<1>1. Good(PutPacket(d, p))
  BY PutPacketGood
<1>2. Good(CountPacket(PutPacket(d, p), p))
  BY <1>1, CountPacketGood
<1> QED BY <1>1, <1>2 DEF RtpAddPacket

\* RtpAddPacket does what PutPacket does, but for the loss statistics.
LEMMA RtpAddPacketGroups ==
    ASSUME NEW d, Good(d), NEW p \in Packets, p.gen # 0
    PROVE  LET e == RtpAddPacket(d, p)
           IN  /\ Present(e, p.group)
               /\ e.groups[p.group] = IF IsCopy(d, p) THEN GroupFor(d, p)
                                      ELSE StoreShard(GroupFor(d, p), p)
               /\ \A g \in GroupIds \ {p.group} : e.groups[g] = d.groups[g]
               /\ \A f \in {"current", "block", "frame", "reported"} : e[f] = d[f]
<1> DEFINE e == PutPacket(d, p)
<1>1. e \in Depacketizers
  BY PutPacketGood DEF Good
<1>2. \A f \in {"groups", "current", "block", "frame", "reported"} :
        CountPacket(e, p)[f] = e[f]
  <2> HIDE DEF e
  <2> QED BY <1>1 DEF CountPacket, Depacketizers
<1>3. \A f \in {"groups", "current", "block", "frame", "reported"} :
        RtpAddPacket(d, p)[f] = e[f]
  BY <1>2 DEF RtpAddPacket
<1>4. /\ Present(e, p.group)
      /\ e.groups[p.group] = IF IsCopy(d, p) THEN GroupFor(d, p)
                             ELSE StoreShard(GroupFor(d, p), p)
      /\ \A g \in GroupIds \ {p.group} : e.groups[g] = d.groups[g]
      /\ \A f \in {"current", "block", "frame", "reported"} : e[f] = d[f]
  BY PutPacketGood
<1> HIDE DEF e
<1> QED BY <1>3, <1>4 DEF Present

-----------------------------------------------------------------------------
(* The sender, and the type of all a stream has.                          *)

\* The groups and the packets that Socket.SendFecDatagram numbers.
LEMMA SendType ==
    ASSUME NEW z \in Packetizers, z.sent < MaxGroups, z.frame <= z.sent,
           NEW idr \in BOOLEAN
    PROVE  /\ NextGroupOf(z, idr) \in Packetizers
           /\ NextGroupOf(z, idr).frame <= NextGroupOf(z, idr).sent
           /\ \A i \in Shards : PacketOf(z, idr, i) \in Packets
                               /\ PacketOf(z, idr, i).gen # 0
<1> DEFINE n == NextGroupOf(z, idr)
<1>1. /\ z.sent \in 0 .. MaxGroups /\ z.frame \in 0 .. MaxGroups
      /\ z.group \in GroupIds /\ z.seq \in Unsigned(Half16)
      /\ z.block \in 0 .. BlocksPerFrame - 1 /\ z.idr \in BOOLEAN
  BY DEF Packetizers, Sequences
<1>2. DataShards \in Unsigned(Half16) /\ TotalShards \in Unsigned(Half16)
      /\ Shards \subseteq Unsigned(Half16)
  BY DEF Unsigned, TotalShards, Shards
<1>3. /\ Wrap(z.seq + DataShards, Half16) \in Sequences
      /\ Wrap(z.seq + TotalShards, Half16) \in Sequences
      /\ \A i \in Shards : Wrap(z.seq + i, Half16) \in Sequences
  BY <1>1, <1>2, WrapSum DEF Sequences
<1>4. z.frame + 1 \in Sequences /\ z.frame + 1 \in 0 .. MaxGroups
      /\ z.sent + 1 \in 0 .. MaxGroups /\ z.frame + 1 <= z.sent + 1
  BY <1>1 DEF Sequences, Unsigned
<1>5. (IF z.block + 1 = BlocksPerFrame THEN 0 ELSE z.block + 1)
        \in 0 .. BlocksPerFrame - 1
  BY <1>1
<1>6. (CASE Kind = "audio" -> Wrap(z.seq + DataShards, Half16)
         [] Kind = "video" -> Wrap(z.seq + TotalShards, Half16)
         [] OTHER -> z.frame + 1) \in Sequences
  BY <1>3, <1>4
<1>7. n \in Packetizers
  BY <1>1, <1>4, <1>5, <1>6, GroupIdFacts DEF NextGroupOf, Packetizers
<1>8. n.sent = z.sent + 1 /\ n.frame <= z.sent + 1
  BY <1>1, <1>4 DEF NextGroupOf
<1>9. ASSUME NEW i \in Shards
      PROVE  PacketOf(z, idr, i) \in Packets /\ PacketOf(z, idr, i).gen # 0
  <2>1. (IF Kind = "message" THEN n.seq ELSE Wrap(z.seq + i, Half16)) \in Sequences
    BY <1>3, <1>7 DEF Packetizers
  <2> HIDE DEF n
  <2>2. PacketOf(z, idr, i) =
          [gen |-> n.sent, group |-> n.group, shard |-> i,
           seq |-> IF Kind = "message" THEN n.seq ELSE Wrap(z.seq + i, Half16),
           idr |-> n.idr, block |-> z.block, frame |-> n.frame]
    BY DEF PacketOf, n
  <2> QED BY <1>1, <1>7, <1>8, <2>1, <2>2 DEF Packets, Packetizers
<1> QED BY <1>7, <1>8, <1>9

(***************************************************************************)
(* StreamTypeOK is not inductive: Received stays in its type because it    *)
(* counts the filled slots, the frame number of a packet because a frame   *)
(* has at least one group, and a slot is filled by a packet only because   *)
(* packets carry a generation.                                             *)
(***************************************************************************)
StreamInv ==
    /\ StreamTypeOK
    /\ Counted(depacketizer)
    /\ packetizer.frame <= packetizer.sent
    /\ \A p \in net : p.gen # 0

LEMMA NewStreamType ==
    ASSUME NewStream, Good(depacketizer)
    PROVE  StreamInv
<1>1. packetizer \in Packetizers /\ packetizer.frame <= packetizer.sent
  BY GroupIdFacts DEF NewStream, NewPacketizer, Packetizers
<1>2. NoPacket \in Packets
  BY GroupIdFacts DEF NoPacket, Packets, Shards, TotalShards
<1>3. output \in Outputs
  BY DEF NewStream, Outputs, Contents
<1> QED BY <1>1, <1>2, <1>3 DEF NewStream, StreamInv, StreamTypeOK, Good

LEMMA NewDepacketizerGood == Good(NewDepacketizer)
BY GroupIdFacts DEF NewDepacketizer, Depacketizers, Good, Counted, Present

LEMMA SendKeepsStream ==
    ASSUME StreamInv, NEW idr \in BOOLEAN, Send(idr)
    PROVE  StreamInv'
<1>1. packetizer \in Packetizers /\ packetizer.sent < MaxGroups
      /\ packetizer.frame <= packetizer.sent
  BY DEF StreamInv, StreamTypeOK, Send
<1>2. packetizer' \in Packetizers /\ packetizer'.frame <= packetizer'.sent
  BY <1>1, SendType DEF Send
<1>3. \A p \in net' : p \in Packets /\ p.gen # 0
  BY <1>1, SendType DEF Send, UnderWay, StreamInv, StreamTypeOK
<1> QED BY <1>2, <1>3 DEF Send, StreamInv, StreamTypeOK, Counted, Present

\* What is handed to the consumer has a generation and D shards.
LEMMA DeliveredType ==
    ASSUME NEW group \in FecGroups
    PROVE  /\ group.header.gen \in 0 .. MaxGroups
           /\ ZeroFill(group.shards) \in [Shards -> Contents]
           /\ Decoded(group) \in [Shards -> Contents]
           /\ Slots \subseteq Shards
<1>1. group.header.gen \in 0 .. MaxGroups /\ group.shards \in [Shards -> 0 .. MaxGroups]
  BY DEF FecGroups, Packets
<1>2. 0 .. MaxGroups \subseteq Contents /\ Zeroes \in Contents
  BY DEF Contents, Generations, Nil
<1>3. ZeroFill(group.shards) \in [Shards -> Contents]
  BY <1>1, <1>2 DEF ZeroFill
<1>4. Slots \subseteq Shards
  BY DEF Slots, Shards, TotalShards
<1>5. ReconstructData(ZeroFill(group.shards), group.header.gen) \in [Shards -> Contents]
  BY <1>1, <1>2, <1>3 DEF ReconstructData
<1> QED BY <1>1, <1>2, <1>3, <1>4, <1>5 DEF Decoded

LEMMA HandedType ==
    ASSUME NEW group \in FecGroups, NEW shards \in [Shards -> Contents],
           NEW decoded \in BOOLEAN
    PROVE  Handed(group, shards, decoded) \in Outputs
BY DeliveredType DEF Handed, Outputs

-----------------------------------------------------------------------------
(* What a step does to the groups that are buffered.                      *)

\* Nothing is buffered in e that was not buffered in d.
NothingAdded(d, e) == \A g \in GroupIds : Present(e, g) =>
    Present(d, g) /\ e.groups[g] = d.groups[g]

LEMMA DropAddsNothing ==
    ASSUME NEW d, NEW ids, NEW e, e.groups = DropGroups(d, ids)
    PROVE  NothingAdded(d, e)
BY DEF DropGroups, NothingAdded, Present

-----------------------------------------------------------------------------
(* Groups of one lap, and what is delivered of them.                      *)

\* Group g holds shards of generation g only, and knows of its parity.
Pure(group, g) ==
    /\ group.header.gen = g
    /\ \A i \in Shards : group.shards[i] \in {Nil, g}
    /\ ~group.hasParity => \A i \in Shards \ Slots : group.shards[i] = Nil

\* A packet of this lap.
OfLap(p, sent) == p.group = p.gen /\ 1 <= p.gen /\ p.gen <= sent

\* The sender's ids are the generations it counts, and a datagram under way
\* is at most Window behind.
NetInLap ==
    /\ packetizer.group = packetizer.sent
    /\ \A p \in net : /\ OfLap(p, packetizer.sent)
                      /\ p.gen + Window > packetizer.sent

LEMMA SendKeepsNetInLap ==
    ASSUME MaxGroups < 2 * Half8 - 1, StreamInv, NetInLap,
           NEW idr \in BOOLEAN, Send(idr)
    PROVE  NetInLap' /\ packetizer'.sent = packetizer.sent + 1
<1> DEFINE s == packetizer.sent
<1>1. packetizer \in Packetizers /\ s \in Nat /\ s < MaxGroups
  BY DEF StreamInv, StreamTypeOK, Send, Packetizers
<1>2. packetizer'.sent = s + 1 /\ packetizer'.group = s + 1
  BY <1>1, NextIdInLap DEF Send, NextGroupOf, NetInLap
<1>3. ASSUME NEW p \in net'
      PROVE  OfLap(p, s + 1) /\ p.gen + Window > s + 1
  <2>1. CASE p \in UnderWay(s + 1)
    BY <1>1, <2>1 DEF UnderWay, NetInLap, OfLap, StreamInv, StreamTypeOK, Packets
  <2>2. ASSUME NEW i \in Shards, p = PacketOf(packetizer, idr, i)
        PROVE  OfLap(p, s + 1) /\ p.gen + Window > s + 1
    <3>1. p.gen = s + 1 /\ p.group = s + 1
      BY <1>1, <1>2, <2>2, NextIdInLap DEF PacketOf, NextGroupOf, NetInLap
    <3> QED BY <1>1, <3>1 DEF OfLap
  <2> QED BY <2>1, <2>2 DEF Send
<1> QED BY <1>2, <1>3 DEF NetInLap

\* A packet of generation g keeps group g pure.
LEMMA PutPacketPure ==
    ASSUME NEW d, Good(d), NEW p \in Packets, p.gen # 0, p.group = p.gen,
           Present(d, p.group) => Pure(d.groups[p.group], p.group)
    PROVE  Pure(PutPacket(d, p).groups[p.group], p.group)
<1> DEFINE group == GroupFor(d, p)
           h == StoreShard(group, p)
<1>1. p.shard \in Shards /\ group \in FecGroups
  BY GroupForGood DEF Packets
<1>2. Pure(group, p.group)
  BY DEF GroupFor, NewFecGroup, Pure
<1>3. CASE IsCopy(d, p)
  BY <1>2, <1>3, PutPacketGood
<1>4. CASE ~IsCopy(d, p)
  <2> HIDE DEF group
  <2>1. /\ h.header = group.header
        /\ h.shards = [group.shards EXCEPT ![p.shard] = p.gen]
        /\ h.hasParity = (group.hasParity \/ p.shard >= DataShards)
        /\ group.shards \in [Shards -> 0 .. MaxGroups]
    BY <1>1 DEF StoreShard, FecGroups
  <2> HIDE DEF h
  <2>2. p.shard \notin Slots => p.shard >= DataShards
    BY <1>1 DEF Slots, Shards, TotalShards
  <2>3. \A i \in Shards : h.shards[i] \in {Nil, p.group}
    BY <1>1, <1>2, <2>1 DEF Pure
  <2>4. ASSUME ~h.hasParity
        PROVE  \A i \in Shards \ Slots : h.shards[i] = Nil
    <3>1. ~group.hasParity /\ p.shard \in Slots
      BY <2>1, <2>2, <2>4
    <3> QED BY <1>2, <2>1, <3>1 DEF Pure
  <2>5. Pure(h, p.group)
    BY <1>2, <2>1, <2>3, <2>4 DEF Pure
  <2> QED BY <1>4, <2>5, PutPacketGood DEF h, group
<1> QED BY <1>3, <1>4

\* A group with enough shards and no parity has all its data.
LEMMA EnoughIsAll ==
    ASSUME NEW group \in FecGroups, NEW g, Pure(group, g),
           group.received = Cardinality(Arrived(group)),
           ~(group.received < DataShards), ~group.hasParity
    PROVE  \A i \in Slots : group.shards[i] # Nil
<1>1. Arrived(group) \subseteq Slots
  BY DEF Arrived, Pure
<1>2. IsFiniteSet(Slots) /\ Cardinality(Slots) = DataShards
  <2>1. IsFiniteSet(0 .. DataShards - 1) /\ Cardinality(0 .. DataShards - 1) =
          IF 0 > DataShards - 1 THEN 0 ELSE (DataShards - 1) - 0 + 1
    BY FS_Interval
  <2> QED BY <2>1 DEF Slots
<1>3. Cardinality(Arrived(group)) <= Cardinality(Slots)
      /\ (Cardinality(Slots) = Cardinality(Arrived(group)) => Slots = Arrived(group))
  BY <1>1, <1>2, FS_Subset
<1>4. group.received \in Nat
  BY DEF FecGroups, TotalShards
<1>5. Slots = Arrived(group)
  BY <1>2, <1>3, <1>4
<1> QED BY <1>5 DEF Arrived

\* What is delivered of a pure group is its own data or zeroes.
LEMMA DeliveredData ==
    ASSUME NEW group \in FecGroups, NEW g, Pure(group, g)
    PROVE  /\ [i \in Slots |-> ZeroFill(group.shards)[i]] \in [Slots -> {g, Zeroes}]
           /\ /\ group.received = Cardinality(Arrived(group))
              /\ ~(group.received < DataShards)
              => [i \in Slots |-> Decoded(group)[i]] \in [Slots -> {g, Zeroes}]
<1>1. Slots \subseteq Shards
  BY DeliveredType
<1>2. \A i \in Slots : ZeroFill(group.shards)[i] \in {g, Zeroes}
                       /\ ZeroFill(group.shards)[i] # Nil
  <2>1. \A i \in Slots : group.shards[i] # Nil => group.shards[i] = g
    BY <1>1 DEF Pure
  <2> QED BY <1>1, <2>1 DEF ZeroFill, Nil, Zeroes
<1>3. CASE group.hasParity
  BY <1>2, <1>3 DEF Decoded, ReconstructData
<1>4. CASE ~group.hasParity
  <2>1. ASSUME group.received = Cardinality(Arrived(group)),
               ~(group.received < DataShards)
        PROVE  \A i \in Slots : Decoded(group)[i] = g
    BY <1>1, <1>4, <2>1, EnoughIsAll DEF Decoded, Pure
  <2> QED BY <1>2, <2>1
<1> QED BY <1>3, <1>4

=============================================================================
