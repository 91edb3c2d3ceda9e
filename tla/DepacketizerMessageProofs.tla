----------------------- MODULE DepacketizerMessageProofs -----------------------
(***************************************************************************)
(* Proofs about message streams over a network that loses nothing, across  *)
(* laps of the group ids (messages are numbered in 16 bits, so there are   *)
(* MaxGroups < 2 * Half16 of them): messages come out one after the other, *)
(* none is left out or stranded, and none is mixed with another.           *)
(***************************************************************************)
EXTENDS DepacketizerProofs

USE FecStreamAssumption, NotAudioAssumption DEF ConstantsAssumption

\* The datagrams under way span at most half the ring of group ids.
ReliableMessages ==
    /\ Kind = "message"
    /\ Reliable
    /\ Window <= Half8

-----------------------------------------------------------------------------
(* Generations and their ids.                                              *)

\* The id of generation n, reckoned back from the sender's.
IdOf(z, n) == Wrap(z.group + (n - z.sent), Half8)

\* The generations whose ids one ring can tell apart, and the next one.
Recent(z) == z.sent + 1 - 2 * Half8 .. z.sent + 1

LEMMA IdType ==
    ASSUME NEW z \in Packetizers, NEW n \in Recent(z)
    PROVE  IdOf(z, n) \in GroupIds
BY DEF Recent, IdOf, Wrap, Packetizers, GroupIds, Unsigned

\* Sending a group renames no generation.
LEMMA IdStays ==
    ASSUME NEW z \in Packetizers, NEW y, y.sent = z.sent + 1,
           y.group = Wrap(z.group + 1, Half8),
           NEW n \in Recent(y), n <= y.sent
    PROVE  IdOf(y, n) = IdOf(z, n)
BY DEF Recent, IdOf, Wrap, Packetizers, GroupIds, Unsigned

LEMMA IdNext ==
    ASSUME NEW z \in Packetizers, NEW n \in Recent(z), n <= z.sent
    PROVE  IdOf(z, n + 1) = Wrap(IdOf(z, n) + 1, Half8)
BY DEF Recent, IdOf, Wrap, Packetizers, GroupIds, Unsigned

LEMMA IdUnique ==
    ASSUME NEW z \in Packetizers, NEW m \in Recent(z), NEW n \in Recent(z),
           m - n < 2 * Half8, n - m < 2 * Half8, IdOf(z, m) = IdOf(z, n)
    PROVE  m = n
BY DEF Recent, IdOf, Wrap, Packetizers, GroupIds, Unsigned

\* The comparison of ids is that of the generations, for half a ring.
LEMMA IdOrder ==
    ASSUME NEW z \in Packetizers, NEW m \in Recent(z), NEW n \in Recent(z),
           n - m <= Half8, m - n < Half8
    PROVE  IsBefore8(IdOf(z, m), IdOf(z, n)) <=> m < n
BY DEF IsBefore8, IsBefore, Recent, IdOf, Wrap, Packetizers, GroupIds, Unsigned

-----------------------------------------------------------------------------
(* The inductive invariant.                                                *)

\* The next message the consumer waits for.
Awaited == output.gen + 1

InFlight(datagrams, n, i) == \E p \in datagrams : p.gen = n /\ p.shard = i

Stored(d, g, i) == Present(d, g) /\ d.groups[g].shards[i] # Nil

\* The current group cannot be decoded yet.
Wanting(d) == ~Present(d, d.current) \/ Short(d)

\* Every message is a frame; the receiver's current group is the next one, and
\* the sender is less than two windows ahead of it.
MsgPlace ==
    /\ packetizer.frame = packetizer.sent /\ packetizer.block = 0
    /\ depacketizer.current = IdOf(packetizer, Awaited)
    /\ Awaited <= packetizer.sent + 1
    /\ packetizer.sent < Awaited + 2 * Window

MsgNet == \A p \in net :
    /\ 1 <= p.gen /\ p.gen <= packetizer.sent
    /\ p.gen + Window > packetizer.sent
    /\ p.group = IdOf(packetizer, p.gen)
    /\ p.seq = p.gen

\* A group buffered under id g, while message n is awaited from sender z.
MsgGroup(group, g, z, n) ==
    /\ n <= group.header.gen /\ group.header.gen <= z.sent
    /\ g = IdOf(z, group.header.gen)
    /\ group.header.seq = group.header.gen /\ ~group.header.idr
    /\ Pure(group, group.header.gen)
    /\ Indexed(group)

MsgBuffer == \A g \in GroupIds : Present(depacketizer, g) =>
    MsgGroup(depacketizer.groups[g], g, packetizer, Awaited)

\* No shard of a message that is still to come is lost.
MsgKept == \A n \in Awaited .. packetizer.sent, i \in Shards :
    InFlight(net, n, i) \/ Stored(depacketizer, IdOf(packetizer, n), i)

\* Between two datagrams the next message is incomplete, or not sent yet.
MsgIdle == pc = "idle" => Awaited > packetizer.sent \/ Wanting(depacketizer)

(***************************************************************************)
(* While the decode loop runs for a packet, the messages before the        *)
(* packet's that could be delivered already are; nothing sent a window     *)
(* after the packet has been read, which holds the sender back.            *)
(***************************************************************************)
MsgLoop == pc = "decode" =>
    /\ 1 <= packet.gen /\ packet.gen <= packetizer.sent
    /\ packet.gen <= Awaited \/ Wanting(depacketizer)
    /\ packetizer.sent < packet.gen + 2 * Window
    /\ \A n \in packet.gen + Window .. packetizer.sent, i \in Shards : InFlight(net, n, i)

MsgInv ==
    /\ TypeInv /\ IdrInv /\ NoPanic
    /\ MsgPlace /\ MsgNet /\ MsgBuffer /\ MsgKept /\ MsgIdle /\ MsgLoop

-----------------------------------------------------------------------------
(* What the invariant says at once.                                        *)

LEMMA MsgFacts ==
    ASSUME ReliableMessages, MsgInv
    PROVE  LET z == packetizer
           IN  /\ z \in Packetizers /\ z.sent \in 0 .. MaxGroups
               /\ Good(depacketizer) /\ depacketizer \in Depacketizers
               /\ depacketizer.current \in GroupIds
               /\ Awaited \in Int /\ Window \in Int
               /\ \A n \in Awaited .. z.sent + 1 : n \in Recent(z)
               /\ \A p \in net : /\ p \in Packets /\ p.gen # 0 /\ ~p.idr
                                 /\ p.gen \in Recent(z) /\ p.gen <= z.sent
                                 /\ p.group \in GroupIds /\ p.shard \in Shards
<1> DEFINE z == packetizer
<1>1. /\ z \in Packetizers /\ z.sent \in 0 .. MaxGroups
      /\ Good(depacketizer) /\ depacketizer \in Depacketizers
      /\ depacketizer.current \in GroupIds
      /\ output.gen \in Nat
  BY TypeFacts DEF MsgInv
<1>2. Awaited \in Int /\ Window \in Int
  BY <1>1 DEF Awaited
<1>3. \A n \in Awaited .. z.sent + 1 : n \in Recent(z)
  <2>1. z.sent < Awaited + 2 * Window /\ Window <= Half8
    BY DEF MsgInv, MsgPlace, ReliableMessages
  <2> QED BY <1>1, <1>2, <2>1 DEF Recent
<1>4. ASSUME NEW p \in net
      PROVE  /\ p \in Packets /\ p.gen # 0 /\ ~p.idr
             /\ p.gen \in Recent(z) /\ p.gen <= z.sent
             /\ p.group \in GroupIds /\ p.shard \in Shards
  <2>1. p \in Packets /\ p.gen # 0 /\ p.gen \in Int /\ p.group \in GroupIds
        /\ p.shard \in Shards
    BY TypeFacts DEF MsgInv, Packets
  <2>2. ~p.idr
    BY DEF MsgInv, IdrInv, NoIdr, ReliableMessages
  <2>3. 1 <= p.gen /\ p.gen <= z.sent /\ p.gen + Window > z.sent /\ Window <= Half8
    BY DEF MsgInv, MsgNet, ReliableMessages
  <2> QED BY <1>1, <2>1, <2>2, <2>3 DEF Recent
<1> QED BY <1>1, <1>2, <1>3, <1>4

\* A group that cannot be decoded lacks a shard.
LEMMA WantingLacks ==
    ASSUME NEW d, Good(d), d.current \in GroupIds, Wanting(d)
    PROVE  \E i \in Shards : ~Stored(d, d.current, i)
<1>1. 0 \in Shards
  BY DEF Shards, TotalShards
<1>2. CASE ~Present(d, d.current)
  BY <1>1, <1>2 DEF Stored
<1>3. CASE Short(d)
  <2> SUFFICES ASSUME \A i \in Shards : Stored(d, d.current, i) PROVE FALSE
    OBVIOUS
  <2>1. Arrived(Current(d)) = Shards
    BY DEF Arrived, Stored, Current
  <2>2. Current(d).received = TotalShards
    BY <1>3, <2>1, ShardsFinite DEF Short, Good, Counted, Current
  <2> QED BY <1>3, <2>2 DEF Short, TotalShards
<1> QED BY <1>2, <1>3 DEF Wanting

\* The next message, while it is incomplete, is still under way.
LEMMA WantedIsInFlight ==
    ASSUME ReliableMessages, MsgInv, Wanting(depacketizer), Awaited <= packetizer.sent
    PROVE  /\ \E i \in Shards : InFlight(net, Awaited, i)
           /\ packetizer.sent < Awaited + Window
<1>1. PICK i \in Shards : ~Stored(depacketizer, depacketizer.current, i)
  BY MsgFacts, WantingLacks
<1>2. Awaited \in Awaited .. packetizer.sent
  BY MsgFacts
<1>3. InFlight(net, Awaited, i)
  BY <1>1, <1>2 DEF MsgInv, MsgKept, MsgPlace
<1>4. PICK p \in net : p.gen = Awaited
  BY <1>3 DEF InFlight
<1>5. p.gen + Window > packetizer.sent
  BY DEF MsgInv, MsgNet
<1> QED BY <1>3, <1>4, <1>5, MsgFacts

-----------------------------------------------------------------------------
(* Every step keeps the invariant.                                         *)

LEMMA InitMsg == ReliableMessages /\ Init => MsgInv
<1> SUFFICES ASSUME ReliableMessages, Init PROVE MsgInv
  OBVIOUS
<1>1. TypeInv /\ IdrInv /\ NoPanic
  BY InitType, IdrSteps DEF Init, NewStream, NoPanic
<1>2. MsgPlace
  BY DEF Init, NewStream, NewPacketizer, NewDepacketizer, MsgPlace, Awaited, IdOf, Wrap
<1>3. MsgNet /\ MsgBuffer /\ MsgKept /\ MsgIdle /\ MsgLoop
  BY DEF Init, NewStream, NewPacketizer, NewDepacketizer, MsgNet, MsgBuffer, MsgKept, MsgIdle,
     MsgLoop, Awaited, Present
<1> QED BY <1>1, <1>2, <1>3 DEF MsgInv

\* The sender goes on: no datagram is dropped, and it stays within two
\* windows of the receiver.
LEMMA SendKeepsMsg ==
    ASSUME ReliableMessages, MsgInv, NEW idr \in BOOLEAN, Send(idr)
    PROVE  MsgInv'
<1> DEFINE z == packetizer
           new == {PacketOf(z, idr, i) : i \in Shards}
<1>1. /\ z \in Packetizers /\ z.sent \in Nat /\ z.sent < MaxGroups
      /\ z.group \in GroupIds
      /\ Awaited \in Int /\ Window \in Nat \ {0} /\ Window <= Half8
      /\ Kind = "message" /\ BlocksPerFrame = 1
  BY MsgFacts DEF Send, Packetizers, ReliableMessages
<1>2. /\ net' = net \cup new
      /\ \A p \in net : p.gen + Window > z.sent + 1
  <2>1. UnderWay(z.sent + 1) = net
    BY DEF Send, ReliableMessages
  <2> QED BY <2>1 DEF Send, UnderWay
<1>3. /\ z'.sent = z.sent + 1 /\ z'.group = Wrap(z.group + 1, Half8)
      /\ z'.frame = z'.sent /\ z'.block = 0 /\ z' \in Packetizers
  BY <1>1, SendKeepsType DEF Send, NextGroupOf, MsgInv, MsgPlace, TypeInv, StreamInv,
     StreamTypeOK
<1>4. UNCHANGED <<depacketizer, pc, packet, output>> /\ Awaited' = Awaited
  BY DEF Send, Awaited
<1>5. z'.sent < Awaited + 2 * Window
  <2>1. CASE Awaited > z.sent
    BY <1>1, <1>3, <2>1
  <2>2. CASE Awaited <= z.sent /\ Wanting(depacketizer)
    <3>1. PICK i \in Shards : InFlight(net, Awaited, i)
      BY <2>2, WantedIsInFlight
    <3>2. Awaited + Window > z.sent + 1
      BY <1>2, <3>1 DEF InFlight
    <3> QED BY <1>1, <1>3, <3>2
  <2>3. CASE Awaited <= z.sent /\ ~Wanting(depacketizer)
    <3>1. pc = "decode"
      BY <1>1, <2>3 DEF MsgInv, MsgIdle, NoPanic, TypeInv
    <3>2. /\ packet.gen \in Int /\ packet.gen <= Awaited
          /\ \A n \in packet.gen + Window .. z.sent, i \in Shards : InFlight(net, n, i)
      BY <2>3, <3>1, TypeFacts DEF MsgInv, MsgLoop, Packets
    <3>3. CASE packet.gen + Window <= z.sent
      <4>1. 0 \in Shards /\ packet.gen + Window \in packet.gen + Window .. z.sent
        BY <1>1, <3>2, <3>3 DEF Shards, TotalShards
      <4>2. InFlight(net, packet.gen + Window, 0)
        BY <3>2, <4>1
      <4>3. packet.gen + Window + Window > z.sent + 1
        BY <1>2, <4>2 DEF InFlight
      <4> QED BY <1>1, <1>3, <3>2, <4>3
    <3>4. CASE ~(packet.gen + Window <= z.sent)
      BY <1>1, <1>3, <3>2, <3>4
    <3> QED BY <3>3, <3>4
  <2> QED BY <1>1, <2>1, <2>2, <2>3
<1>6. \A n \in Awaited .. z.sent + 1 : n \in Recent(z') /\ IdOf(z', n) = IdOf(z, n)
  <2>1. \A n \in Awaited .. z.sent + 1 : n \in Recent(z') /\ n <= z'.sent
    BY <1>1, <1>3, <1>5 DEF Recent
  <2> QED BY <1>1, <1>3, <2>1, IdStays
<1>7. MsgPlace'
  <2>1. Awaited \in Awaited .. z.sent + 1
    BY <1>1 DEF MsgInv, MsgPlace
  <2>2. depacketizer.current = IdOf(z', Awaited)
    BY <1>6, <2>1 DEF MsgInv, MsgPlace
  <2>3. Awaited <= z'.sent + 1
    BY <1>1, <1>3 DEF MsgInv, MsgPlace
  <2> QED BY <1>3, <1>4, <1>5, <2>2, <2>3 DEF MsgPlace
<1>8. \A p \in new : /\ p.gen = z'.sent /\ p.group = z'.group /\ p.seq = z'.sent
                     /\ p.shard \in Shards
  BY <1>1, <1>3 DEF PacketOf, NextGroupOf, Send, MsgInv, MsgPlace
<1>9. MsgNet'
  <2>1. ASSUME NEW p \in net
        PROVE  /\ 1 <= p.gen /\ p.gen <= z'.sent /\ p.gen + Window > z'.sent
               /\ p.group = IdOf(z', p.gen) /\ p.seq = p.gen
    <3>1. p.gen \in Int /\ p.gen <= z.sent /\ p.gen + Window > z.sent + 1
      BY <1>2, MsgFacts DEF Recent
    <3>2. p.gen \in Recent(z')
      BY <1>1, <1>3, <3>1 DEF Recent
    <3>3. IdOf(z', p.gen) = IdOf(z, p.gen)
      BY <1>1, <1>3, <3>1, <3>2, IdStays
    <3> QED BY <1>1, <1>3, <3>1, <3>3 DEF MsgInv, MsgNet
  <2>2. ASSUME NEW p \in new
        PROVE  /\ 1 <= p.gen /\ p.gen <= z'.sent /\ p.gen + Window > z'.sent
               /\ p.group = IdOf(z', p.gen) /\ p.seq = p.gen
    <3>1. IdOf(z', z'.sent) = z'.group
      BY <1>1, <1>3 DEF IdOf, Wrap, Packetizers, GroupIds, Unsigned
    <3> QED BY <1>1, <1>3, <1>8, <3>1
  <2> QED BY <1>2, <2>1, <2>2 DEF MsgNet
<1>10. MsgBuffer'
  <2> SUFFICES ASSUME NEW g \in GroupIds, Present(depacketizer, g)
               PROVE  MsgGroup(depacketizer.groups[g], g, z', Awaited)
    BY <1>4 DEF MsgBuffer, Present, MsgGroup
  <2> DEFINE n == depacketizer.groups[g].header.gen
  <2>1. MsgGroup(depacketizer.groups[g], g, z, Awaited)
    BY DEF MsgInv, MsgBuffer
  <2>2. n \in Int
    <3>1. depacketizer.groups[g] \in FecGroups
      BY MsgFacts DEF Depacketizers, Present
    <3> QED BY <3>1 DEF FecGroups, Packets
  <2>3. n \in Awaited .. z.sent + 1 /\ n <= z'.sent
    BY <1>1, <1>3, <2>1, <2>2 DEF MsgGroup
  <2> QED BY <1>4, <1>6, <2>1, <2>3 DEF MsgGroup
<1>11. \A n, i : InFlight(net, n, i) => InFlight(net', n, i)
  BY <1>2 DEF InFlight
<1>12. \A i \in Shards : InFlight(net', z'.sent, i)
  <2>1. \A i \in Shards : PacketOf(z, idr, i).gen = z'.sent
                          /\ PacketOf(z, idr, i).shard = i
    BY <1>8 DEF PacketOf
  <2> QED BY <1>2, <2>1 DEF InFlight
<1>13. MsgKept'
  <2> SUFFICES ASSUME NEW n \in Awaited .. z'.sent, NEW i \in Shards
               PROVE  InFlight(net', n, i) \/ Stored(depacketizer, IdOf(z', n), i)
    BY <1>4 DEF MsgKept, Stored, Present
  <2>1. CASE n = z'.sent
    BY <1>12, <2>1
  <2>2. CASE n # z'.sent
    <3>1. n \in Awaited .. z.sent /\ n \in Awaited .. z.sent + 1
      BY <1>1, <1>3, <2>2
    <3>2. InFlight(net, n, i) \/ Stored(depacketizer, IdOf(z, n), i)
      BY <3>1 DEF MsgInv, MsgKept
    <3> QED BY <1>6, <1>11, <3>1, <3>2
  <2> QED BY <2>1, <2>2
<1>14. MsgIdle'
  <2>1. CASE Awaited <= z.sent
    BY <1>1, <1>4, <2>1 DEF MsgInv, MsgIdle, Wanting, Present, Short, Current
  <2>2. CASE Awaited > z.sent
    <3>1. \A g \in GroupIds : ~Present(depacketizer, g)
      <4> SUFFICES ASSUME NEW g \in GroupIds, Present(depacketizer, g) PROVE FALSE
        OBVIOUS
      <4>1. depacketizer.groups[g] \in FecGroups
        BY MsgFacts DEF Depacketizers, Present
      <4>2. depacketizer.groups[g].header.gen \in Int
        BY <4>1 DEF FecGroups, Packets
      <4> QED BY <1>1, <2>2, <4>2 DEF MsgInv, MsgBuffer, MsgGroup
    <3>2. Wanting(depacketizer)
      BY <3>1, MsgFacts DEF Wanting
    <3> QED BY <1>4, <3>2 DEF MsgIdle, Wanting, Present, Short, Current
  <2> QED BY <1>1, <2>1, <2>2
<1>15. MsgLoop'
  <2> SUFFICES ASSUME pc = "decode"
               PROVE  /\ 1 <= packet.gen /\ packet.gen <= z'.sent
                      /\ packet.gen <= Awaited \/ Wanting(depacketizer)
                      /\ z'.sent < packet.gen + 2 * Window
                      /\ \A n \in packet.gen + Window .. z'.sent, i \in Shards :
                           InFlight(net', n, i)
    BY <1>4 DEF MsgLoop, Wanting, Present, Short, Current
  <2>1. /\ packet.gen \in Int /\ 1 <= packet.gen /\ packet.gen <= z.sent
        /\ packet.gen <= Awaited \/ Wanting(depacketizer)
        /\ \A n \in packet.gen + Window .. z.sent, i \in Shards : InFlight(net, n, i)
    BY TypeFacts DEF MsgInv, MsgLoop, Packets
  <2>2. ASSUME NEW n \in packet.gen + Window .. z'.sent, NEW i \in Shards
        PROVE  InFlight(net', n, i)
    <3>1. n = z'.sent \/ n \in packet.gen + Window .. z.sent
      BY <1>1, <1>3, <2>1
    <3> QED BY <1>11, <1>12, <2>1, <3>1
  <2>3. z'.sent < packet.gen + 2 * Window
    <3>1. CASE packet.gen + Window <= z.sent
      <4>1. 0 \in Shards /\ packet.gen + Window \in packet.gen + Window .. z.sent
        BY <1>1, <2>1, <3>1 DEF Shards, TotalShards
      <4>2. InFlight(net, packet.gen + Window, 0)
        BY <2>1, <4>1
      <4>3. packet.gen + Window + Window > z.sent + 1
        BY <1>2, <4>2 DEF InFlight
      <4> QED BY <1>1, <1>3, <2>1, <4>3
    <3>2. CASE ~(packet.gen + Window <= z.sent)
      BY <1>1, <1>3, <2>1, <3>2
    <3> QED BY <3>1, <3>2
  <2> QED BY <1>1, <1>3, <2>1, <2>2, <2>3
<1>16. TypeInv' /\ IdrInv' /\ NoPanic'
  <2>1. [Next]_vars
    BY DEF Next
  <2> QED BY <1>4, <2>1, NextType, IdrSteps DEF MsgInv, NoPanic
<1> QED BY <1>7, <1>9, <1>10, <1>13, <1>14, <1>15, <1>16 DEF MsgInv

\* The filter drops a datagram only when its message has been delivered.
LEMMA FilterInTurn ==
    ASSUME ReliableMessages, MsgInv, pc = "idle", NEW p \in net
    PROVE  Outdated(depacketizer, p) <=> p.gen < Awaited
<1> DEFINE z == packetizer
<1>1. /\ z \in Packetizers /\ z.sent \in Nat /\ Awaited \in Int /\ Window \in Nat \ {0}
      /\ Half8 \in Nat /\ Window <= Half8 /\ Awaited <= z.sent + 1
      /\ Awaited \in Recent(z) /\ p.gen \in Recent(z)
      /\ p.gen \in Int /\ p.gen <= z.sent /\ p.gen + Window > z.sent
  BY MsgFacts DEF ReliableMessages, Recent, MsgInv, MsgPlace, MsgNet
<1>2. p.gen - Awaited < Half8
  <2>1. CASE p.gen < Awaited
    BY <1>1, <2>1
  <2>2. CASE Awaited <= p.gen
    <3>1. Wanting(depacketizer)
      BY <1>1, <2>2 DEF MsgInv, MsgIdle
    <3>2. z.sent < Awaited + Window
      BY <1>1, <2>2, <3>1, WantedIsInFlight
    <3> QED BY <1>1, <3>2
  <2> QED BY <1>1, <2>1, <2>2
<1>3. Awaited - p.gen <= Half8
  BY <1>1
<1>4. p.group = IdOf(z, p.gen) /\ depacketizer.current = IdOf(z, Awaited)
  BY DEF MsgInv, MsgNet, MsgPlace
<1> QED BY <1>1, <1>2, <1>3, <1>4, IdOrder DEF Outdated

\* A shard put in a group of its own message.
LEMMA StoreMessage ==
    ASSUME Kind = "message", NEW group \in FecGroups, NEW p \in Packets,
           p.gen # 0, p.seq = p.gen, ~p.idr, group.shards[p.shard] = Nil,
           \/ group = NewFecGroup(p)
           \/ /\ group.header.gen = p.gen /\ group.header.seq = p.gen
              /\ ~group.header.idr /\ Pure(group, p.gen) /\ Indexed(group)
    PROVE  LET s == StoreShard(group, p)
           IN  /\ s.header.gen = p.gen /\ s.header.seq = p.gen /\ ~s.header.idr
               /\ Pure(s, p.gen) /\ Indexed(s)
               /\ s.shards[p.shard] = p.gen
               /\ \A i \in Shards \ {p.shard} : s.shards[i] = group.shards[i]
<1> DEFINE s == StoreShard(group, p)
<1>1. /\ group.shards \in [Shards -> 0 .. MaxGroups] /\ p.shard \in Shards
      /\ p.gen \in 1 .. MaxGroups
  BY DEF FecGroups, Packets
<1>2. /\ s.header = group.header
      /\ s.shards = [group.shards EXCEPT ![p.shard] = p.gen]
      /\ s.hasParity = (group.hasParity \/ p.shard >= DataShards)
  BY DEF StoreShard, FecGroups
<1>3. group.header.gen = p.gen /\ group.header.seq = p.gen /\ ~group.header.idr
  BY DEF NewFecGroup
<1>4. Pure(group, p.gen)
  BY DEF NewFecGroup, Pure
<1>5. Pure(s, p.gen)
  <2>1. \A i \in Shards : s.shards[i] \in {Nil, p.gen}
    BY <1>1, <1>2, <1>4 DEF Pure
  <2>2. ~s.hasParity => \A i \in Shards \ Slots : s.shards[i] = Nil
    <3>1. p.shard \notin Slots => p.shard >= DataShards
      BY <1>1 DEF Shards, Slots, TotalShards
    <3> QED BY <1>1, <1>2, <1>4, <3>1 DEF Pure
  <2> QED BY <1>2, <1>3, <2>1, <2>2 DEF Pure
<1>6. Indexed(s)
  <2>1. CASE group = NewFecGroup(p)
    BY <2>1, FirstShardIndexed
  <2>2. CASE Indexed(group)
    <3>1. group.header.idr = p.idr
      BY <1>3 DEF FecGroups, Packets
    <3>2. Kin(group.header, p)
      BY <1>3, <3>1 DEF Kin
    <3> QED BY <1>3, <2>2, <3>2, NextShardIndexed
  <2> QED BY <2>1, <2>2
<1> QED BY <1>1, <1>2, <1>3, <1>5, <1>6

\* A datagram of a message to come is put in its group.
LEMMA BufferedMessage ==
    ASSUME ReliableMessages, MsgInv, NEW p \in net, Awaited <= p.gen
    PROVE  LET d == depacketizer
               e == RtpAddPacket(depacketizer, p)
           IN  /\ Present(e, p.group)
               /\ MsgGroup(e.groups[p.group], p.group, packetizer, Awaited)
               /\ e.groups[p.group].shards[p.shard] # Nil
               /\ \A g \in GroupIds \ {p.group} : e.groups[g] = d.groups[g]
               /\ \A g \in GroupIds, i \in Shards : Stored(d, g, i) => Stored(e, g, i)
               /\ e.current = d.current
<1> DEFINE d == depacketizer
           z == packetizer
           e == RtpAddPacket(d, p)
           group == GroupFor(d, p)
           g == p.group
<1>1. /\ Kind = "message" /\ Good(d) /\ d \in Depacketizers /\ z \in Packetizers
      /\ p \in Packets /\ p.gen # 0 /\ ~p.idr /\ g \in GroupIds /\ p.shard \in Shards
      /\ p.gen \in Recent(z) /\ p.gen \in Int /\ p.gen <= z.sent
      /\ Awaited \in Int /\ z.sent \in Int /\ Window \in Int
      /\ z.sent < Awaited + 2 * Window /\ Window <= Half8
      /\ p.seq = p.gen /\ g = IdOf(z, p.gen)
      /\ \A n \in Awaited .. z.sent + 1 : n \in Recent(z)
  BY MsgFacts DEF ReliableMessages, Recent, MsgInv, MsgPlace, MsgNet
<1>2. /\ Present(e, g)
      /\ e.groups[g] = IF IsCopy(d, p) THEN group ELSE StoreShard(group, p)
      /\ \A x \in GroupIds \ {g} : e.groups[x] = d.groups[x]
      /\ e.current = d.current
  BY <1>1, RtpAddPacketGroups
<1>3. group \in FecGroups
  BY <1>1, GroupForGood
<1>4. ASSUME Present(d, g)
      PROVE  /\ group = d.groups[g] /\ MsgGroup(group, g, z, Awaited)
             /\ group.header.gen = p.gen
  <2>1. group = d.groups[g] /\ MsgGroup(group, g, z, Awaited)
    BY <1>1, <1>4 DEF GroupFor, MsgInv, MsgBuffer
  <2>2. /\ group.header.gen \in Int
        /\ Awaited <= group.header.gen /\ group.header.gen <= z.sent
        /\ g = IdOf(z, group.header.gen)
    <3>1. group.header.gen \in Int
      BY <1>3 DEF FecGroups, Packets
    <3> QED BY <2>1, <3>1 DEF MsgGroup
  <2>3. group.header.gen \in Awaited .. z.sent + 1
    BY <1>1, <2>2
  <2>4. group.header.gen - p.gen < 2 * Half8 /\ p.gen - group.header.gen < 2 * Half8
    BY <1>1, <2>2
  <2>5. group.header.gen = p.gen
    BY <1>1, <2>2, <2>3, <2>4, IdUnique
  <2> QED BY <2>1, <2>5
<1>5. CASE group.shards[p.shard] # Nil
  <2>1. Present(d, g) /\ IsCopy(d, p)
    BY <1>1, <1>5 DEF IsCopy, GroupFor, NewFecGroup
  <2>2. e.groups[g] = d.groups[g]
    BY <1>2, <1>4, <1>5, <2>1
  <2>3. \A x \in GroupIds : e.groups[x] = d.groups[x]
    BY <1>2, <2>2
  <2> QED BY <1>2, <1>4, <1>5, <2>1, <2>2, <2>3 DEF Stored, Present
<1>6. CASE group.shards[p.shard] = Nil
  <2> DEFINE s == StoreShard(group, p)
  <2>1. e.groups[g] = s
    BY <1>2, <1>6 DEF IsCopy
  <2>2. \/ group = NewFecGroup(p)
        \/ /\ group.header.gen = p.gen /\ group.header.seq = p.gen
           /\ ~group.header.idr /\ Pure(group, p.gen) /\ Indexed(group)
    BY <1>4 DEF GroupFor, MsgGroup
  <2>3. /\ s.header.gen = p.gen /\ s.header.seq = p.gen /\ ~s.header.idr
        /\ Pure(s, p.gen) /\ Indexed(s) /\ s.shards[p.shard] = p.gen
        /\ \A i \in Shards \ {p.shard} : s.shards[i] = group.shards[i]
    BY <1>1, <1>3, <1>6, <2>2, StoreMessage
  <2>4. MsgGroup(s, g, z, Awaited)
    BY <1>1, <2>3 DEF MsgGroup
  <2>5. ASSUME NEW x \in GroupIds, NEW i \in Shards, Stored(d, x, i)
        PROVE  Stored(e, x, i)
    <3>1. CASE x = g
      BY <1>1, <1>2, <1>4, <2>1, <2>3, <2>5, <3>1 DEF Stored, Nil
    <3>2. CASE x # g
      BY <1>2, <2>5, <3>2 DEF Stored, Present
    <3> QED BY <3>1, <3>2
  <2> QED BY <1>1, <1>2, <2>1, <2>3, <2>4, <2>5 DEF Nil
<1> QED BY <1>5, <1>6

\* A datagram arrives: what is lost of it was needed no more, or is stored.
LEMMA ReceiveKeepsMsg ==
    ASSUME ReliableMessages, MsgInv, NEW p \in net, Receive(p)
    PROVE  MsgInv'
<1> DEFINE z == packetizer
           d == depacketizer
           e == RtpAddPacket(d, p)
<1>1. /\ pc = "idle" /\ net' \subseteq net /\ \A q \in net : q # p => q \in net'
      /\ UNCHANGED <<packetizer, output>>
      /\ Awaited' = Awaited
  BY DEF Receive, Take, Awaited
<1>2. TypeInv' /\ IdrInv' /\ NoPanic'
  <2>1. [Next]_vars
    BY DEF Next
  <2>2. pc' \in {"idle", "decode"}
    BY <1>1 DEF Receive
  <2> QED BY <2>1, <2>2, NextType, IdrSteps DEF MsgInv, NoPanic
<1>3. MsgNet'
  BY <1>1 DEF MsgInv, MsgNet
<1>4. CASE Outdated(d, p)
  <2>1. UNCHANGED <<depacketizer, pc, packet>>
    BY <1>4 DEF Receive
  <2>2. p.gen < Awaited /\ p.gen \in Int
    BY <1>1, <1>4, FilterInTurn, MsgFacts DEF Recent
  <2>3. ASSUME NEW n \in Awaited .. z.sent, NEW i, InFlight(net, n, i)
        PROVE  InFlight(net', n, i)
    BY <1>1, <2>2, <2>3, MsgFacts DEF InFlight
  <2>4. MsgKept'
    BY <1>1, <2>1, <2>3 DEF MsgInv, MsgKept, Stored, Present
  <2>5. MsgPlace' /\ MsgBuffer' /\ MsgIdle' /\ MsgLoop'
    BY <1>1, <2>1 DEF MsgInv, MsgPlace, MsgBuffer, MsgIdle, MsgLoop, Wanting, Short,
       Present, Current
  <2> QED BY <1>2, <1>3, <2>4, <2>5 DEF MsgInv
<1>5. CASE ~Outdated(d, p)
  <2>1. /\ p.gen \in Int /\ Awaited \in Int /\ z.sent \in Int /\ Awaited <= p.gen
        /\ z \in Packetizers /\ 1 <= p.gen /\ p.gen <= z.sent /\ p.gen + Window > z.sent
        /\ Window \in Nat \ {0} /\ Window <= Half8 /\ z.sent < Awaited + 2 * Window
        /\ p.group = IdOf(z, p.gen) /\ p.group \in GroupIds /\ p.shard \in Shards
        /\ d.current = IdOf(z, Awaited) /\ d.current \in GroupIds
        /\ \A n \in Awaited .. z.sent + 1 : n \in Recent(z)
    BY <1>1, <1>5, FilterInTurn, MsgFacts
       DEF ReliableMessages, Recent, MsgInv, MsgPlace, MsgNet
  <2>2. depacketizer' = e /\ pc' = "decode" /\ packet' = p
    BY <1>5, MsgFacts DEF Receive, GetFecDecodeInfo
  <2>3. /\ Present(e, p.group)
        /\ MsgGroup(e.groups[p.group], p.group, z, Awaited)
        /\ e.groups[p.group].shards[p.shard] # Nil
        /\ \A g \in GroupIds \ {p.group} : e.groups[g] = d.groups[g]
        /\ \A g \in GroupIds, i \in Shards : Stored(d, g, i) => Stored(e, g, i)
        /\ e.current = d.current
    BY <2>1, BufferedMessage
  <2>4. MsgPlace'
    BY <1>1, <2>2, <2>3 DEF MsgInv, MsgPlace
  <2>5. MsgBuffer'
    <3> SUFFICES ASSUME NEW g \in GroupIds, Present(e, g)
                 PROVE  MsgGroup(e.groups[g], g, z, Awaited)
      BY <1>1, <2>2 DEF MsgBuffer
    <3> QED BY <2>3 DEF MsgInv, MsgBuffer, Present
  <2>6. MsgKept'
    <3> SUFFICES ASSUME NEW n \in Awaited .. z.sent, NEW i \in Shards
                 PROVE  InFlight(net', n, i) \/ Stored(e, IdOf(z, n), i)
      BY <1>1, <2>2 DEF MsgKept
    <3>1. IdOf(z, n) \in GroupIds
      BY <2>1, IdType
    <3>2. CASE Stored(d, IdOf(z, n), i)
      BY <2>3, <3>1, <3>2
    <3>3. CASE InFlight(net, n, i)
      <4>1. PICK q \in net : q.gen = n /\ q.shard = i
        BY <3>3 DEF InFlight
      <4>2. CASE q = p
        BY <2>1, <2>3, <4>1, <4>2 DEF Stored
      <4>3. CASE q # p
        BY <1>1, <4>1, <4>3 DEF InFlight
      <4> QED BY <4>2, <4>3
    <3> QED BY <3>2, <3>3 DEF MsgInv, MsgKept
  <2>7. MsgIdle'
    BY <2>2 DEF MsgIdle
  <2>8. MsgLoop'
    <3>1. ASSUME Awaited < p.gen
          PROVE  Wanting(e)
      <4>1. Wanting(d)
        BY <1>1, <2>1, <3>1 DEF MsgInv, MsgIdle
      <4>2. d.current # p.group
        <5>1. Awaited \in Recent(z) /\ p.gen \in Recent(z)
          BY <2>1
        <5>2. Awaited - p.gen < 2 * Half8 /\ p.gen - Awaited < 2 * Half8
          BY <2>1
        <5> QED BY <2>1, <3>1, <5>1, <5>2, IdUnique
      <4>3. e.groups[e.current] = d.groups[d.current]
        BY <2>1, <2>3, <4>2
      <4> QED BY <4>1, <4>3 DEF Wanting, Short, Present, Current
    <3>2. z.sent < p.gen + 2 * Window /\ p.gen + Window .. z.sent = {}
      BY <2>1
    <3> QED BY <1>1, <2>1, <2>2, <3>1, <3>2 DEF MsgLoop
  <2> QED BY <1>2, <1>3, <2>4, <2>5, <2>6, <2>7, <2>8 DEF MsgInv
<1> QED BY <1>4, <1>5

\* A step that neither moves the stream nor changes what is buffered; when it
\* ends the loop, the next message is incomplete.
LEMMA StayKeepsMsg ==
    ASSUME ReliableMessages, MsgInv, TypeInv', IdrInv', NoPanic',
           UNCHANGED <<packetizer, net, output>>,
           \/ UNCHANGED <<pc, packet>>
           \/ pc' = "idle" /\ Wanting(depacketizer),
           depacketizer'.current = depacketizer.current,
           NothingAdded(depacketizer, depacketizer'),
           \A g \in GroupIds : Present(depacketizer, g) => Present(depacketizer', g)
    PROVE  MsgInv'
<1> DEFINE z == packetizer
           d == depacketizer
           e == depacketizer'
<1>1. Awaited' = Awaited
  BY DEF Awaited
<1>2. /\ d.current \in GroupIds /\ z \in Packetizers
      /\ \A n \in Awaited .. z.sent : IdOf(z, n) \in GroupIds
  <2>1. \A n \in Awaited .. z.sent : n \in Recent(z)
    BY MsgFacts
  <2> QED BY <2>1, MsgFacts, IdType
<1>3. MsgPlace' /\ MsgNet'
  BY <1>1 DEF MsgInv, MsgPlace, MsgNet
<1>4. MsgBuffer'
  <2> SUFFICES ASSUME NEW g \in GroupIds, Present(e, g)
               PROVE  MsgGroup(e.groups[g], g, z, Awaited)
    BY <1>1 DEF MsgBuffer
  <2>1. MsgGroup(d.groups[g], g, z, Awaited) /\ e.groups[g] = d.groups[g]
    BY DEF MsgInv, MsgBuffer, NothingAdded
  <2> QED BY <2>1
<1>5. ASSUME NEW g \in GroupIds, NEW i \in Shards, Stored(d, g, i)
      PROVE  Stored(e, g, i)
  BY <1>5 DEF Stored, NothingAdded
<1>6. MsgKept'
  BY <1>1, <1>2, <1>5 DEF MsgInv, MsgKept
<1>7. Wanting(d) => Wanting(e)
  BY <1>2 DEF Wanting, Short, Current, NothingAdded
<1>8. MsgIdle' /\ MsgLoop'
  BY <1>1, <1>7 DEF MsgInv, MsgIdle, MsgLoop
<1> QED BY <1>3, <1>4, <1>6, <1>8 DEF MsgInv

\* The group under decode, when it has arrived, is that of the next message.
LEMMA CurrentIsAwaited ==
    ASSUME ReliableMessages, MsgInv, Present(depacketizer, depacketizer.current)
    PROVE  /\ Current(depacketizer) \in FecGroups
           /\ MsgGroup(Current(depacketizer), depacketizer.current, packetizer, Awaited)
           /\ Current(depacketizer).header.gen = Awaited
           /\ Awaited <= packetizer.sent
<1> DEFINE z == packetizer
           d == depacketizer
           group == Current(d)
<1>1. /\ z \in Packetizers /\ d.current \in GroupIds /\ d \in Depacketizers
      /\ Awaited \in Int /\ z.sent \in Int /\ Window \in Int /\ Window <= Half8
      /\ z.sent < Awaited + 2 * Window /\ d.current = IdOf(z, Awaited)
      /\ Awaited <= z.sent + 1
      /\ \A n \in Awaited .. z.sent + 1 : n \in Recent(z)
  BY MsgFacts DEF ReliableMessages, MsgInv, MsgPlace
<1>2. group \in FecGroups /\ group.header.gen \in Int
  <2>1. group \in FecGroups
    BY <1>1 DEF Present, Current, Depacketizers
  <2> QED BY <2>1 DEF FecGroups, Packets
<1>3. MsgGroup(group, d.current, z, Awaited)
  BY <1>1 DEF MsgInv, MsgBuffer, Current
<1>4. /\ Awaited <= group.header.gen /\ group.header.gen <= z.sent
      /\ d.current = IdOf(z, group.header.gen)
  BY <1>3 DEF MsgGroup
<1>5. /\ Awaited \in Recent(z) /\ group.header.gen \in Recent(z)
      /\ group.header.gen - Awaited < 2 * Half8 /\ Awaited - group.header.gen < 2 * Half8
  BY <1>1, <1>2, <1>4
<1>6. group.header.gen = Awaited
  BY <1>1, <1>4, <1>5, IdUnique
<1> QED BY <1>2, <1>3, <1>4, <1>6

\* The message that is delivered is the next one, and it is complete.
LEMMA NextDelivered ==
    ASSUME ReliableMessages, MsgInv, DeliverGroup
    PROVE  /\ Current(depacketizer).header.gen = Awaited /\ Awaited <= packetizer.sent
           /\ output'.gen = Awaited /\ Awaited' = Awaited + 1
           /\ ~Wanting(depacketizer)
BY CurrentIsAwaited DEF DeliverGroup, Handed, Awaited, Wanting

\* The next message is handed over.
LEMMA DeliverKeepsMsg ==
    ASSUME ReliableMessages, MsgInv, DeliverGroup
    PROVE  MsgInv'
<1> DEFINE z == packetizer
           d == depacketizer
           e == depacketizer'
<1>1. /\ z \in Packetizers /\ d.current \in GroupIds /\ d \in Depacketizers
      /\ Awaited \in Int /\ z.sent \in Int /\ Window \in Int /\ Window <= Half8
      /\ z.sent < Awaited + 2 * Window /\ d.current = IdOf(z, Awaited)
      /\ Awaited <= z.sent /\ Awaited' = Awaited + 1 /\ ~Wanting(d)
      /\ \A n \in Awaited .. z.sent + 1 : n \in Recent(z)
  BY MsgFacts, NextDelivered DEF ReliableMessages, MsgInv, MsgPlace
<1>2. /\ e.groups = DropGroups(d, {d.current})
      /\ e.current = Wrap(d.current + 1, Half8)
      /\ UNCHANGED <<packetizer, net, pc, packet>>
  BY DeliveryMovesOn DEF MsgInv
<1>3. Awaited \in Recent(z)
  BY <1>1
<1>4. MsgPlace'
  <2>1. e.current = IdOf(z, Awaited + 1)
    BY <1>1, <1>2, <1>3, IdNext
  <2>2. Awaited + 1 <= z.sent + 1 /\ z.sent < Awaited + 1 + 2 * Window
    BY <1>1
  <2> QED BY <1>1, <1>2, <2>1, <2>2 DEF MsgInv, MsgPlace
<1>5. MsgNet'
  BY <1>2 DEF MsgInv, MsgNet
<1>6. \A g \in GroupIds : /\ Present(e, g) => g # d.current
                          /\ g # d.current => e.groups[g] = d.groups[g]
  BY <1>2 DEF DropGroups, Present
<1>7. MsgBuffer'
  <2> SUFFICES ASSUME NEW g \in GroupIds, Present(e, g)
               PROVE  MsgGroup(e.groups[g], g, z, Awaited + 1)
    BY <1>1, <1>2 DEF MsgBuffer
  <2> DEFINE group == d.groups[g]
  <2>1. e.groups[g] = group /\ g # d.current /\ Present(d, g)
    BY <1>6 DEF Present
  <2>2. MsgGroup(group, g, z, Awaited)
    BY <2>1 DEF MsgInv, MsgBuffer
  <2>3. group.header.gen \in Int
    <3>1. group \in FecGroups
      BY <1>1, <2>1 DEF Present, Depacketizers
    <3> QED BY <3>1 DEF FecGroups, Packets
  <2>4. group.header.gen # Awaited /\ Awaited <= group.header.gen
    BY <1>1, <2>1, <2>2 DEF MsgGroup
  <2>5. Awaited + 1 <= group.header.gen
    BY <1>1, <2>3, <2>4
  <2> QED BY <2>1, <2>2, <2>5 DEF MsgGroup
<1>8. MsgKept'
  <2> SUFFICES ASSUME NEW n \in Awaited + 1 .. z.sent, NEW i \in Shards
               PROVE  InFlight(net, n, i) \/ Stored(e, IdOf(z, n), i)
    BY <1>1, <1>2 DEF MsgKept
  <2>1. /\ n \in Awaited .. z.sent /\ n \in Recent(z) /\ n # Awaited
        /\ n - Awaited < 2 * Half8 /\ Awaited - n < 2 * Half8
    BY <1>1
  <2>2. IdOf(z, n) # d.current /\ IdOf(z, n) \in GroupIds
    BY <1>1, <1>3, <2>1, IdUnique, IdType
  <2>3. InFlight(net, n, i) \/ Stored(d, IdOf(z, n), i)
    BY <2>1 DEF MsgInv, MsgKept
  <2> QED BY <1>6, <2>2, <2>3 DEF Stored, Present
<1>9. pc = "decode"
  BY DEF DeliverGroup
<1>10. MsgIdle'
  BY <1>2, <1>9 DEF MsgIdle
<1>11. MsgLoop'
  <2>1. /\ packet.gen \in Int /\ packet.gen <= Awaited
        /\ 1 <= packet.gen /\ packet.gen <= z.sent
        /\ z.sent < packet.gen + 2 * Window
        /\ \A n \in packet.gen + Window .. z.sent, i \in Shards : InFlight(net, n, i)
    BY <1>1, <1>9, TypeFacts DEF MsgInv, MsgLoop, Packets
  <2>2. packet.gen <= Awaited + 1
    BY <1>1, <2>1
  <2> QED BY <1>1, <1>2, <2>1, <2>2 DEF MsgLoop
<1>12. TypeInv' /\ IdrInv' /\ NoPanic'
  <2>1. [Next]_vars
    BY DEF Next, FecDecode
  <2> QED BY <1>2, <1>9, <2>1, NextType, IdrSteps DEF MsgInv, NoPanic
<1> QED BY <1>4, <1>5, <1>7, <1>8, <1>10, <1>11, <1>12 DEF MsgInv

\* An iteration of the decode loop.
LEMMA FecDecodeKeepsMsg ==
    ASSUME ReliableMessages, MsgInv, FecDecode
    PROVE  MsgInv'
<1> DEFINE d == depacketizer
<1>1. Kind = "message" /\ d.current \in GroupIds /\ Good(d)
  BY MsgFacts DEF ReliableMessages
<1>2. TypeInv' /\ IdrInv'
  <2>1. [Next]_vars
    BY DEF Next
  <2> QED BY <2>1, NextType, IdrSteps DEF MsgInv
<1>3. CASE AwaitGroup
  <2>1. /\ pc' = "idle" /\ Wanting(d)
        /\ UNCHANGED <<packetizer, net, depacketizer, output>>
    BY <1>1, <1>3 DEF AwaitGroup, Break, Wanting
  <2> QED BY <1>2, <2>1, StayKeepsMsg DEF NothingAdded, NoPanic
<1>4. CASE AwaitShards
  <2>1. Short(d) /\ Present(d, d.current) /\ Indexed(Current(d))
    BY <1>1, <1>4 DEF AwaitShards, Short, MsgInv, MsgBuffer, MsgGroup, Current
  <2>2. ~IndexOutOfRange(d)
    BY <2>1 DEF IndexOutOfRange, LastIndex, Indexed, Shards, TotalShards
  <2>3. /\ pc' = "idle" /\ depacketizer' = ReportLoss(RecountMissing(d))
        /\ UNCHANGED <<packetizer, net, output>>
    BY <1>4, <2>2 DEF AwaitShards, Break
  <2>4. depacketizer'.groups = d.groups /\ depacketizer'.current = d.current
    <3>1. Good(RecountMissing(d))
      BY <1>1, <2>1, RecountMissingGood
    <3>2. RecountMissing(d).groups = d.groups /\ RecountMissing(d).current = d.current
      BY <1>1, <2>1, RecountKeepsPlace
    <3> QED BY <2>3, <3>1, <3>2 DEF ReportLoss, Good, Depacketizers
  <2> QED BY <1>2, <2>1, <2>3, <2>4, StayKeepsMsg
          DEF NothingAdded, NoPanic, Wanting, Present
<1>5. CASE DeliverGroup
  BY <1>5, DeliverKeepsMsg
<1> QED BY <1>3, <1>4, <1>5 DEF FecDecode

LEMMA NextKeepsMsg == ReliableMessages /\ MsgInv /\ [Next]_vars => MsgInv'
<1> SUFFICES ASSUME ReliableMessages, MsgInv, [Next]_vars PROVE MsgInv'
  OBVIOUS
<1>1. TypeInv' /\ IdrInv'
  BY NextType, IdrSteps DEF MsgInv
<1>2. CASE UNCHANGED vars
  BY <1>1, <1>2, StayKeepsMsg DEF vars, MsgInv, NoPanic, NothingAdded
<1> QED BY <1>2, SendKeepsMsg, ReceiveKeepsMsg, FecDecodeKeepsMsg DEF Next

LEMMA MsgInvariance == ASSUME ReliableMessages PROVE Spec => []MsgInv
BY InitMsg, NextKeepsMsg, PTL DEF Spec

-----------------------------------------------------------------------------
(* What it means for the consumer, however often ids come round.           *)

\* Messages come out one after the other, none left out.
THEOREM MessagesWithoutGap == ASSUME ReliableMessages PROVE Spec => NoGap
<1>1. ASSUME MsgInv, [Next]_vars
      PROVE  output' # output => output'.gen = output.gen + 1
  <2>1. CASE DeliverGroup
    BY <1>1, <2>1, NextDelivered DEF Awaited
  <2>2. CASE UNCHANGED output
    BY <2>2
  <2> QED BY <1>1, <2>1, <2>2 DEF Next, vars, FecDecode, Send, Receive,
             AwaitGroup, AwaitShards
<1>2. MsgInv /\ [Next]_vars
      => [output' # output => output'.gen = output.gen + 1]_vars
  BY <1>1
<1> QED BY <1>2, MsgInvariance, PTL DEF Spec, NoGap

\* No message is stranded: when nothing is under way any more and the decode
\* loop has ended, all that was sent has been delivered.
THEOREM MessagesNotStranded == ASSUME ReliableMessages PROVE Spec => []NoneStranded
<1>1. MsgInv => NoneStranded
  <2> SUFFICES ASSUME MsgInv, pc = "idle", net = {} PROVE output.gen = packetizer.sent
    BY DEF NoneStranded
  <2>1. ~(Wanting(depacketizer) /\ Awaited <= packetizer.sent)
    BY WantedIsInFlight DEF InFlight
  <2>2. /\ Awaited <= packetizer.sent + 1 /\ packetizer.sent \in Int
        /\ output.gen \in Int
    BY MsgFacts, TypeFacts DEF MsgInv, MsgPlace
  <2>3. Awaited > packetizer.sent
    BY <2>1, <2>2 DEF MsgInv, MsgIdle, Awaited
  <2> QED BY <2>2, <2>3 DEF Awaited
<1> QED BY <1>1, MsgInvariance, PTL

\* A group never holds shards of two messages, though ids come round again.
THEOREM MessagesNotMixed == ASSUME ReliableMessages PROVE Spec => []GroupsPure
<1>1. MsgInv => GroupsPure
  BY DEF MsgInv, MsgBuffer, MsgGroup, Pure, GroupsPure
<1> QED BY <1>1, MsgInvariance, PTL

\* What is buffered has not been delivered before, nor has anything newer.
THEOREM MessagesNotOvertaken ==
    ASSUME ReliableMessages PROVE Spec => []BufferedIsNewer
<1>1. MsgInv => BufferedIsNewer
  <2> SUFFICES ASSUME MsgInv, NEW g \in GroupIds, Present(depacketizer, g)
               PROVE  depacketizer.groups[g].header.gen > output.gen
    BY DEF BufferedIsNewer
  <2>1. Awaited <= depacketizer.groups[g].header.gen
    BY DEF MsgInv, MsgBuffer, MsgGroup
  <2>2. depacketizer.groups[g].header.gen \in Int /\ output.gen \in Int
    <3>1. depacketizer.groups[g] \in FecGroups
      BY TypeFacts DEF MsgInv, Depacketizers, Present
    <3> QED BY <3>1, TypeFacts DEF FecGroups, Packets, MsgInv
  <2> QED BY <2>1, <2>2 DEF Awaited
<1> QED BY <1>1, MsgInvariance, PTL

\* The decode loop does not panic on a message stream, however long it is.
THEOREM MessagesNeverPanic == ASSUME ReliableMessages PROVE Spec => []NoPanic
<1>1. MsgInv => NoPanic
  BY DEF MsgInv
<1> QED BY <1>1, MsgInvariance, PTL

\* Over a network that loses nothing a message stream keeps what FecDelivery
\* promises, however often the group ids come round.
THEOREM MessagesImplementDelivery ==
    ASSUME ReliableMessages PROVE Spec => DeliverySpec
<1>1. Init => Delivery!Init
  BY DEF Init, NewStream, Delivery!Init
<1>2. ASSUME MsgInv, [Next]_vars
      PROVE  [Delivery!Next]_<<output.gen, output.shards>>
  <2>1. CASE DeliverGroup
    <3> DEFINE d == depacketizer
               group == Current(d)
    <3>1. /\ group.header.gen = Awaited /\ Awaited <= packetizer.sent
          /\ output'.gen = Awaited
      BY <1>2, <2>1, NextDelivered
    <3>2. /\ Present(d, d.current) /\ ~(group.received < DataShards)
          /\ output'.shards = [i \in Slots |-> Decoded(group)[i]]
      BY <2>1 DEF DeliverGroup, Handed, Short
    <3>3. group \in FecGroups /\ group.received = Cardinality(Arrived(group))
      BY <1>2, <3>2, MsgFacts DEF Good, Counted, Depacketizers, Present, Current
    <3>4. Pure(group, Awaited)
      BY <1>2, <3>1, <3>2, MsgFacts DEF MsgInv, MsgBuffer, MsgGroup, Current
    <3>5. output'.shards \in [Slots -> {Awaited, Zeroes}]
      BY <3>2, <3>3, <3>4, DeliveredData
    <3>6. Awaited > output.gen /\ Awaited \in 1 .. MaxGroups
      BY <1>2, <3>1, MsgFacts, TypeFacts DEF Awaited, MsgInv
    <3>7. Delivery!Deliver(Awaited)
      BY <3>1, <3>5, <3>6 DEF Delivery!Deliver
    <3> QED BY <3>6, <3>7 DEF Delivery!Next
  <2>2. CASE UNCHANGED output
    BY <2>2
  <2> QED BY <1>2, <2>1, <2>2 DEF Next, vars, FecDecode, Send, Receive,
             AwaitGroup, AwaitShards
<1> QED BY <1>1, <1>2, MsgInvariance, PTL DEF Spec, DeliverySpec, Delivery!Spec

-----------------------------------------------------------------------------
(* The counters of a message stream, however often ids come round.         *)

\* Frames are counted like messages, and what counts as missing is excused.
MsgCount ==
    /\ LossNeverReported
    /\ Excused(depacketizer, Awaited)
    /\ depacketizer.block = 0 /\ depacketizer.frame = output.gen

\* A datagram of the current group's id is one of the awaited message.
LEMMA CurrentPacket ==
    ASSUME ReliableMessages, MsgInv, NEW p \in net, p.group = depacketizer.current,
           Awaited <= p.gen
    PROVE  p.gen = Awaited
<1> DEFINE z == packetizer
<1>1. /\ z \in Packetizers /\ z.sent \in Int /\ Awaited \in Int /\ Window \in Int
      /\ p.gen \in Int /\ p.gen <= z.sent /\ p.gen \in Recent(z)
      /\ z.sent < Awaited + 2 * Window /\ Window <= Half8
      /\ \A n \in Awaited .. z.sent + 1 : n \in Recent(z)
      /\ IdOf(z, p.gen) = IdOf(z, Awaited)
  BY MsgFacts DEF ReliableMessages, Recent, MsgInv, MsgPlace, MsgNet
<1>2. Awaited \in Recent(z) /\ p.gen - Awaited < 2 * Half8 /\ Awaited - p.gen < 2 * Half8
  BY <1>1
<1> QED BY <1>1, <1>2, IdUnique

LEMMA InitCount == ReliableMessages /\ Init => MsgCount
BY DEF Init, NewStream, NewDepacketizer, MsgCount, LossNeverReported, Excused

LEMMA NextKeepsCount ==
    ASSUME ReliableMessages, MsgInv, MsgCount, [Next]_vars
    PROVE  MsgCount'
<1> DEFINE d == depacketizer
           e == depacketizer'
<1>1. /\ Kind = "message" /\ BlocksPerFrame = 1 /\ Awaited \in Nat /\ output.gen \in Nat
      /\ Good(d) /\ d \in Depacketizers /\ d.current \in GroupIds /\ TypeInv
  BY MsgFacts, TypeFacts DEF ReliableMessages, MsgInv, Awaited
<1>2. CASE UNCHANGED <<depacketizer, output>>
  BY <1>2 DEF MsgCount, LossNeverReported, Excused, Awaited
<1>3. ASSUME NEW p \in net, Receive(p), ~Outdated(d, p) PROVE MsgCount'
  <2>1. pc = "idle" /\ UNCHANGED output /\ Awaited' = Awaited
    BY <1>3 DEF Receive, Awaited
  <2>2. /\ p \in Packets /\ p.gen # 0 /\ p.gen \in Int /\ ~p.idr
        /\ e = RtpAddPacket(d, p)
    BY <1>3, MsgFacts DEF Recent, Receive, GetFecDecodeInfo
  <2>3. Awaited <= p.gen
    BY <1>1, <1>3, <2>1, <2>2, FilterInTurn
  <2>4. Excused(e, Awaited)
    BY <1>1, <2>2, <2>3, CurrentPacket, RtpAddPacketExcused DEF MsgCount
  <2>5. e.block = d.block /\ e.frame = d.frame /\ e.reported = d.reported
    BY <1>1, <2>2, RtpAddPacketGroups
  <2> QED BY <2>1, <2>4, <2>5 DEF MsgCount, LossNeverReported
<1>4. CASE AwaitShards
  <2>1. Present(d, d.current) /\ UNCHANGED output /\ Awaited' = Awaited
    BY <1>4 DEF AwaitShards, Short, Awaited
  <2>2. Pure(Current(d), Awaited) /\ Indexed(Current(d))
    BY <2>1, CurrentIsAwaited DEF MsgGroup
  <2>3. /\ Excused(RecountMissing(d), Awaited)
        /\ ReportLoss(RecountMissing(d)) = RecountMissing(d)
    BY <1>1, <2>1, <2>2, RecountExcused DEF MsgCount
  <2>4. /\ RecountMissing(d).block = d.block /\ RecountMissing(d).frame = d.frame
        /\ RecountMissing(d).reported = d.reported
    BY <1>1, <2>1, RecountKeepsPlace
  <2>5. e = d \/ e = RecountMissing(d)
    BY <1>4, <2>3 DEF AwaitShards
  <2> QED BY <2>1, <2>3, <2>4, <2>5 DEF MsgCount, LossNeverReported
<1>5. CASE DeliverGroup
  <2>1. output'.gen = output.gen + 1
    BY <1>5, NextDelivered DEF Awaited
  <2>2. /\ e.block = 0 /\ e.frame = d.frame + 1 /\ e.missing = 0
        /\ e.reported = d.reported
    BY <1>1, <1>5, DeliveryMovesOn DEF MsgCount
  <2> QED BY <2>1, <2>2 DEF MsgCount, LossNeverReported, Excused
<1> QED BY <1>1, <1>2, <1>3, <1>4, <1>5 DEF Next, vars, FecDecode, Send, Receive,
        AwaitGroup

LEMMA CountInvariance ==
    ASSUME ReliableMessages PROVE Spec => [](MsgInv /\ NumberInv /\ MsgCount)
<1>1. Init => MsgInv /\ NumberInv /\ MsgCount
  BY InitMsg, NumberSteps, InitCount
<1>2. MsgInv /\ NumberInv /\ MsgCount /\ [Next]_vars => (MsgInv /\ NumberInv /\ MsgCount)'
  BY NextKeepsMsg, NumberSteps, NextKeepsCount DEF MsgInv
<1> QED BY <1>1, <1>2, PTL DEF Spec

\* The frame counter of a message stream follows the messages.
THEOREM MessagesTracked == ASSUME ReliableMessages PROVE Spec => []FrameTracked
<1>1. MsgInv /\ NumberInv /\ MsgCount => FrameTracked
  <2> SUFFICES ASSUME MsgInv, NumberInv, MsgCount,
                      Present(depacketizer, depacketizer.current)
               PROVE  /\ depacketizer.block = Current(depacketizer).header.block
                      /\ Current(depacketizer).header.frame - depacketizer.frame \in {0, 1}
    BY DEF FrameTracked
  <2> DEFINE p == Current(depacketizer).header
  <2>1. p.gen = Awaited /\ p \in Packets
    BY CurrentIsAwaited DEF FecGroups
  <2>2. IsBlock(p.gen, p.frame, p.block)
    BY MsgFacts DEF NumberInv, Current
  <2>3. BlocksPerFrame = 1
    BY DEF ReliableMessages
  <2>4. p.block = 0 /\ p.frame \in Int /\ output.gen \in Int
    BY <2>1, <2>3, TypeFacts DEF Packets, MsgInv
  <2>5. p.frame = Awaited
    BY <2>1, <2>2, <2>3, <2>4 DEF IsBlock, Awaited
  <2> QED BY <2>4, <2>5 DEF MsgCount, Awaited
<1> QED BY <1>1, CountInvariance, PTL

\* Nor is a loss ever reported for one.
THEOREM MessagesUnreported == ASSUME ReliableMessages PROVE Spec => []LossNeverReported
<1>1. MsgCount => LossNeverReported
  BY DEF MsgCount
<1> QED BY <1>1, CountInvariance, PTL

\* No message leaves the buffer but for a reason that LeavesForNewer admits;
\* of those, as <1>1 says, only the first occurs: it is delivered.
THEOREM MessagesLeaveDelivered == ASSUME ReliableMessages PROVE Spec => LeavesForNewer
<1> DEFINE d == depacketizer
           e == depacketizer'
           Leaves(g) == output' # output /\ output'.gen = d.groups[g].header.gen
<1>1. ASSUME MsgInv, [Next]_vars, NEW g \in GroupIds, Present(d, g), ~Present(e, g)
      PROVE  Leaves(g)
  <2>1. Kind = "message" /\ Good(d) /\ d.current \in GroupIds /\ TypeInv
    BY <1>1, MsgFacts DEF ReliableMessages, MsgInv
  <2>2. ASSUME NEW p \in net, Receive(p), ~Outdated(d, p) PROVE FALSE
    <3>1. pc = "idle" /\ ~p.idr /\ e = RtpAddPacket(d, p) /\ p.gen \in Int
      BY <1>1, <2>2, MsgFacts DEF Recent, Receive, GetFecDecodeInfo
    <3>2. Awaited <= p.gen
      BY <1>1, <2>2, <3>1, FilterInTurn, MsgFacts
    <3>3. Present(e, p.group) /\ \A x \in GroupIds \ {p.group} : e.groups[x] = d.groups[x]
      BY <1>1, <3>1, <3>2, BufferedMessage
    <3> QED BY <1>1, <3>3 DEF Present
  <2>3. CASE AwaitShards
    <3>1. Present(d, d.current)
      BY <2>3 DEF AwaitShards, Short
    <3>2. Good(RecountMissing(d)) /\ RecountMissing(d).groups = d.groups
      BY <2>1, <3>1, RecountMissingGood
    <3>3. ReportLoss(RecountMissing(d)).groups = d.groups
      BY <3>2, ReportLossGood
    <3> QED BY <1>1, <2>3, <3>3 DEF AwaitShards, Present
  <2>4. CASE DeliverGroup
    <3>1. e.groups = DropGroups(d, {d.current}) /\ output'.gen = Current(d).header.gen
      BY <2>1, <2>4, DeliveryMovesOn
    <3>2. g = d.current
      BY <1>1, <3>1 DEF DropGroups, Present
    <3>3. output' # output
      BY <1>1, <2>1, <2>4, NextDelivered, TypeFacts DEF Awaited
    <3> QED BY <3>1, <3>2, <3>3 DEF Current
  <2>5. CASE UNCHANGED depacketizer
    BY <1>1, <2>5
  <2> QED BY <1>1, <2>1, <2>2, <2>3, <2>4, <2>5 DEF Next, vars, FecDecode, Send,
          Receive, AwaitGroup
<1>2. ASSUME MsgInv, [Next]_vars
      PROVE  [\A g \in GroupIds : Present(d, g) /\ ~Present(e, g) =>
                LET gen == d.groups[g].header.gen
                IN  \/ output' # output /\ output'.gen = gen
                    \/ /\ Present(e, e.current)
                       /\ Current(e).header.gen > gen
                       /\ Current(e).header.idr]_vars
  BY <1>1, <1>2
<1> QED BY <1>2, MsgInvariance, PTL DEF Spec, LeavesForNewer

=============================================================================
