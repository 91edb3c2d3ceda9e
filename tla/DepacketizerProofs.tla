-------------------------- MODULE DepacketizerProofs --------------------------
(***************************************************************************)
(* Proofs about Depacketizer, the receiver of video and of messages, for   *)
(* every value of the constants: its type invariant and, as long as the    *)
(* uint8 group ids do not come round (OneLap), that groups are never       *)
(* mixed, none is delivered late, the stream implements FecDelivery, the   *)
(* decode loop never panics, the frame counters follow the groups, no loss *)
(* is ever reported, groups leave the buffer only for newer ones, and      *)
(* messages come out without a gap.  Across laps the first of these fails  *)
(* (run fec_ring_reuse), so OneLap is a hypothesis of all but the first.   *)
(***************************************************************************)
EXTENDS Depacketizer, FecStreamProofs

USE FecStreamAssumption, NotAudioAssumption DEF ConstantsAssumption

-----------------------------------------------------------------------------
(* The methods only this receiver calls.                                   *)

LEMMA JumpIdrGood ==
    ASSUME NEW d, Good(d), NEW p \in Packets
    PROVE  Good(JumpToNextIdrPacket(d, p))
<1> DEFINE e == JumpToNextIdrPacket(d, p)
<1>1. CASE p.block = 0 /\ IsBefore8(d.current, p.group)
  <2>1. DropGroups(d, Discarded(d.current, p.group))
          \in [GroupIds -> FecGroups \cup {NoGroup}]
    BY DropGroupsType DEF Good
  <2>2. p.group \in GroupIds /\ p.frame \in Nat
    BY DEF Packets
  <2>3. e \in Depacketizers
        /\ e.groups = DropGroups(d, Discarded(d.current, p.group))
    BY <1>1, <2>1, <2>2, GroupIdFacts DEF JumpToNextIdrPacket, Good, Depacketizers
  <2> QED BY <2>3, DropGroupsGood
<1>2. CASE ~(p.block = 0 /\ IsBefore8(d.current, p.group))
  BY <1>2 DEF JumpToNextIdrPacket
<1> QED BY <1>1, <1>2

LEMMA DoNextGroupGood ==
    ASSUME NEW d, Good(d)
    PROVE  Good(DoNextGroup(d))
<1> DEFINE e == DoNextGroup(d)
<1>1. DropGroups(d, {d.current}) \in [GroupIds -> FecGroups \cup {NoGroup}]
  BY DropGroupsType DEF Good
<1>2. d.current \in GroupIds /\ d.block \in 0 .. BlocksPerFrame - 1 /\ d.frame \in Nat
  BY DEF Good, Depacketizers
<1>3. e.groups = DropGroups(d, {d.current})
  BY DEF DoNextGroup, Good, Depacketizers
<1>4. e \in Depacketizers
  <2>1. Wrap(d.current + 1, Half8) \in GroupIds
    BY <1>2, GroupIdFacts
  <2>2. CASE d.block + 1 >= BlocksPerFrame
    <3>1. d.frame + 1 \in Nat
      BY <1>2
    <3> QED BY <1>1, <2>1, <2>2, <3>1, GroupIdFacts DEF DoNextGroup, Good, Depacketizers
  <2>3. CASE ~(d.block + 1 >= BlocksPerFrame)
    <3>1. d.block + 1 \in 0 .. BlocksPerFrame - 1
      BY <1>2, <2>3
    <3> QED BY <1>1, <1>2, <2>1, <2>3, <3>1, GroupIdFacts
            DEF DoNextGroup, Good, Depacketizers
  <2> QED BY <2>2, <2>3
<1> QED BY <1>3, <1>4, DropGroupsGood

\* What FecDecode changes when the current group is short.
LEMMA RecountMissingGood ==
    ASSUME NEW d, Good(d), Present(d, d.current)
    PROVE  /\ Good(RecountMissing(d))
           /\ RecountMissing(d).groups = d.groups
<1> DEFINE gap == Wrap(Span(d) - Current(d).received, Half16)
           counted == [d EXCEPT !.missing = Wrap(d.missing + gap, Half16),
                                !.nextSeq = Wrap(Current(d).max + 1, Half16)]
<1>1. d \in Depacketizers /\ Current(d) \in FecGroups
  BY DEF Good, Depacketizers, Present, Current
<1>2. /\ Current(d).max \in Unsigned(Half16) /\ Current(d).start \in Unsigned(Half16)
      /\ Current(d).received \in Unsigned(Half16)
      /\ Current(d).shards \in [Shards -> 0 .. MaxGroups]
      /\ d.missing \in Unsigned(Half16)
  BY <1>1 DEF FecGroups, Depacketizers, Sequences, Unsigned, TotalShards
<1>3. LastIndex(d) \in Unsigned(Half16) /\ Span(d) \in Unsigned(Half16)
  BY <1>2, WrapSum DEF LastIndex, Span
<1>4. gap \in Unsigned(Half16)
  BY <1>2, <1>3, WrapSum
<1>5. Wrap(d.missing + gap, Half16) \in Sequences
      /\ Wrap(Current(d).max + 1, Half16) \in Sequences
  BY <1>2, <1>4, WrapSum DEF Sequences
<1> HIDE DEF gap
<1>6. counted \in Depacketizers /\ counted.groups = d.groups
  BY <1>1, <1>5 DEF Depacketizers
<1>7. LastIndex(d) \in Shards => Current(d).shards[LastIndex(d)] \in Nat
  BY <1>2
<1>8. (d.oos \/ gap # 0) \in BOOLEAN /\ d.lastOos \in Nat /\ d.frame \in Nat
  BY <1>1 DEF Depacketizers
<1>9. RecountMissing(d) \in Depacketizers /\ RecountMissing(d).groups = d.groups
  <2>1. CASE ~MustRecount(d)
    BY <1>1, <2>1 DEF RecountMissing
  <2>2. CASE MustRecount(d) /\ ~(LastIndex(d) \in Shards
                                 /\ Current(d).shards[LastIndex(d)] # Nil)
    BY <1>6, <2>2 DEF RecountMissing, gap
  <2>3. CASE MustRecount(d) /\ LastIndex(d) \in Shards
             /\ Current(d).shards[LastIndex(d)] # Nil
    <3> DEFINE r == [counted EXCEPT
                !.oos = d.oos \/ gap # 0,
                !.lastOos = IF gap # 0 THEN Current(d).shards[LastIndex(d)]
                            ELSE d.lastOos,
                !.startFrame = d.frame]
    <3>1. r \in Depacketizers /\ r.groups = d.groups
      <4> HIDE DEF counted
      <4> QED BY <1>6, <1>7, <1>8, <2>3 DEF Depacketizers
    <3>2. RecountMissing(d) = r
      BY <2>3 DEF RecountMissing, gap
    <3> QED BY <3>1, <3>2
  <2> QED BY <2>1, <2>2, <2>3
<1> QED BY <1>9 DEF Good, Counted, Present

LEMMA ReportLossGood ==
    ASSUME NEW d, Good(d)
    PROVE  Good(ReportLoss(d)) /\ ReportLoss(d).groups = d.groups
<1>1. d \in Depacketizers /\ d.frame + 1 \in Nat
  BY DEF Good, Depacketizers
<1>2. [d EXCEPT !.reported = TRUE, !.frame = d.frame + 1] \in Depacketizers
  BY <1>1 DEF Depacketizers
<1>3. [d EXCEPT !.reported = TRUE, !.frame = d.frame + 1].groups = d.groups
  BY <1>1 DEF Depacketizers
<1>4. ReportLoss(d) \in Depacketizers /\ ReportLoss(d).groups = d.groups
  BY <1>1, <1>2, <1>3 DEF ReportLoss
<1> QED BY <1>4 DEF Good, Counted, Present

-----------------------------------------------------------------------------
(* Type correctness.                                                       *)

\* TypeOK is not inductive for the reasons StreamInv gives.
TypeInv ==
    /\ StreamInv
    /\ pc \in {"idle", "decode", "crashed"}

LEMMA InitType == Init => TypeInv
BY NewStreamType, NewDepacketizerGood DEF Init, NewStream, TypeInv

\* What TypeInv says of the receiver.
LEMMA TypeFacts ==
    ASSUME TypeInv
    PROVE  /\ Good(depacketizer) /\ depacketizer \in Depacketizers
           /\ depacketizer.current \in GroupIds /\ depacketizer.current \in Nat
           /\ packetizer \in Packetizers /\ packetizer.sent \in 0 .. MaxGroups
           /\ packet \in Packets /\ packet.group \in GroupIds
           /\ output \in Outputs /\ output.gen \in 0 .. MaxGroups
           /\ \A p \in net : p \in Packets /\ p.gen # 0 /\ p.gen \in Nat
                             /\ p.group \in GroupIds
<1>1. Good(depacketizer) /\ depacketizer \in Depacketizers
  BY DEF TypeInv, StreamInv, StreamTypeOK, Good
<1>2. depacketizer.current \in GroupIds /\ depacketizer.current \in Nat
  BY <1>1 DEF Depacketizers, GroupIds, Unsigned
<1>3. packetizer \in Packetizers /\ packetizer.sent \in 0 .. MaxGroups
  BY DEF TypeInv, StreamInv, StreamTypeOK, Packetizers
<1>4. packet \in Packets /\ packet.group \in GroupIds
  BY DEF TypeInv, StreamInv, StreamTypeOK, Packets
<1>5. output \in Outputs /\ output.gen \in 0 .. MaxGroups
  BY DEF TypeInv, StreamInv, StreamTypeOK, Outputs
<1>6. \A p \in net : p \in Packets /\ p.gen # 0 /\ p.gen \in Nat
                     /\ p.group \in GroupIds
  BY DEF TypeInv, StreamInv, StreamTypeOK, Packets
<1> QED BY <1>1, <1>2, <1>3, <1>4, <1>5, <1>6

LEMMA SendKeepsType ==
    ASSUME TypeInv, NEW idr \in BOOLEAN, Send(idr)
    PROVE  TypeInv'
BY SendKeepsStream DEF Send, TypeInv

LEMMA ReceiveKeepsType ==
    ASSUME TypeInv, NEW p \in net, Receive(p)
    PROVE  TypeInv'
<1>1. p \in Packets /\ p.gen # 0 /\ net' \subseteq net
  BY TypeFacts DEF Receive, Take
<1>2. Good(depacketizer)
  BY TypeFacts
<1>3. Good(depacketizer')
  BY <1>1, <1>2, RtpAddPacketGood, JumpIdrGood DEF Receive, GetFecDecodeInfo
<1>4. pc' \in {"idle", "decode", "crashed"} /\ packet' \in Packets
  BY <1>1, TypeFacts DEF Receive, TypeInv
<1> QED BY <1>1, <1>3, <1>4 DEF Receive, TypeInv, StreamInv, StreamTypeOK, Good

LEMMA FecDecodeKeepsType ==
    ASSUME TypeInv, FecDecode
    PROVE  TypeInv'
<1>1. Good(depacketizer) /\ NoPacket \in Packets /\ packet \in Packets
  BY GroupIdFacts, TypeFacts DEF NoPacket, Packets, Shards, TotalShards
<1>2. Present(depacketizer, depacketizer.current) =>
        Current(depacketizer) \in FecGroups
  BY <1>1 DEF Good, Present, Current, Depacketizers
<1>3. CASE AwaitGroup
  BY <1>1, <1>3 DEF AwaitGroup, Break, TypeInv, StreamInv, StreamTypeOK
<1>4. CASE AwaitShards
  <2>1. Good(depacketizer')
    BY <1>1, <1>4, RecountMissingGood, ReportLossGood DEF AwaitShards, Short
  <2>2. pc' \in {"idle", "crashed"} /\ packet' = NoPacket
    BY <1>4 DEF AwaitShards, Break, Panic
  <2> QED BY <1>1, <1>4, <2>1, <2>2 DEF AwaitShards, TypeInv, StreamInv, StreamTypeOK, Good
<1>5. CASE DeliverGroup
  <2> DEFINE misjudged == depacketizer.reported /\ ~depacketizer.oos
             e == [depacketizer EXCEPT
                     !.oos = depacketizer.oos \/ misjudged,
                     !.lastOos = IF misjudged THEN Current(depacketizer).header.gen
                                 ELSE depacketizer.lastOos]
  <2>1. Current(depacketizer) \in FecGroups
    BY <1>2, <1>5 DEF DeliverGroup
  <2>2. Current(depacketizer).header.gen \in Nat
    BY <2>1, DeliveredType
  <2>3. e \in Depacketizers /\ e.groups = depacketizer.groups
    BY <1>1, <2>2 DEF Good, Depacketizers
  <2>4. Good(e)
    BY <1>1, <2>3 DEF Good, Counted, Present
  <2>5. Good(depacketizer')
    <3>1. depacketizer' = DoNextGroup(e)
      BY <1>5 DEF DeliverGroup
    <3> HIDE DEF e
    <3> QED BY <2>4, <3>1, DoNextGroupGood
  <2>6. output' \in Outputs
    BY <1>5, <2>1, DeliveredType, HandedType DEF DeliverGroup
  <2> QED BY <1>5, <2>5, <2>6 DEF DeliverGroup, TypeInv, StreamInv, StreamTypeOK, Good
<1> QED BY <1>3, <1>4, <1>5 DEF FecDecode

LEMMA NextType == TypeInv /\ [Next]_vars => TypeInv'
<1> SUFFICES ASSUME TypeInv, [Next]_vars PROVE TypeInv'
  OBVIOUS
<1>1. CASE UNCHANGED vars
  BY <1>1 DEF vars, TypeInv, StreamInv, StreamTypeOK, Counted, Present
<1> QED BY <1>1, SendKeepsType, ReceiveKeepsType, FecDecodeKeepsType DEF Next

\* TypeOK holds for video and messages, every size of the rings and of the
\* groups, over a network that loses, reorders and duplicates datagrams.
THEOREM TypeCorrect == Spec => []TypeOK
<1>1. TypeInv => TypeOK
  BY DEF TypeInv, StreamInv, TypeOK
<1> QED BY InitType, NextType, <1>1, PTL DEF Spec

-----------------------------------------------------------------------------
(* What a step does to the groups that are buffered.                       *)

LEMMA JumpIdrAddsNothing ==
    ASSUME NEW d, Good(d), NEW p \in Packets
    PROVE  NothingAdded(d, JumpToNextIdrPacket(d, p))
<1> DEFINE e == JumpToNextIdrPacket(d, p)
<1>1. CASE p.block = 0 /\ IsBefore8(d.current, p.group)
  <2>1. e.groups = DropGroups(d, Discarded(d.current, p.group))
    BY <1>1 DEF JumpToNextIdrPacket, Good, Depacketizers
  <2> QED BY <2>1, DropAddsNothing
<1>2. CASE ~(p.block = 0 /\ IsBefore8(d.current, p.group))
  BY <1>2 DEF JumpToNextIdrPacket, NothingAdded
<1> QED BY <1>1, <1>2

\* Of all steps only Receive adds a shard, that of its packet.
LEMMA ReceiveAddsShard ==
    ASSUME TypeInv, NEW p \in net, Receive(p), NEW g \in GroupIds,
           Present(depacketizer', g)
    PROVE  \/ /\ Present(depacketizer, g)
              /\ depacketizer'.groups[g] = depacketizer.groups[g]
           \/ \E group \in FecGroups :
                /\ \/ group = NewFecGroup(p)
                   \/ Present(depacketizer, g) /\ group = depacketizer.groups[g]
                /\ p.group = g
                /\ group.shards[p.shard] = Nil
                /\ depacketizer'.groups[g] = StoreShard(group, p)
<1> DEFINE d == depacketizer
           j == GetFecDecodeInfo(d, p)
<1>1. p \in Packets /\ p.gen # 0 /\ Good(d)
  BY TypeFacts
<1>2. CASE Outdated(d, p)
  BY <1>2 DEF Receive
<1>3. CASE ~Outdated(d, p)
  <2>1. Good(j) /\ NothingAdded(d, j)
    BY <1>1, JumpIdrGood, JumpIdrAddsNothing DEF GetFecDecodeInfo, NothingAdded
  <2>2. d' = RtpAddPacket(j, p)
    BY <1>3 DEF Receive
  <2> HIDE DEF j
  <2>3. CASE g # p.group
    BY <1>1, <2>1, <2>2, <2>3, RtpAddPacketGroups DEF NothingAdded, Present
  <2>4. CASE g = p.group /\ IsCopy(j, p)
    <3>1. Present(j, g)
      BY <1>1, <2>4 DEF IsCopy, GroupFor, NewFecGroup, Packets
    <3>2. d'.groups[g] = j.groups[g]
      BY <1>1, <2>1, <2>2, <2>4, <3>1, RtpAddPacketGroups DEF GroupFor
    <3> QED BY <2>1, <3>1, <3>2 DEF NothingAdded
  <2>5. CASE g = p.group /\ ~IsCopy(j, p)
    <3>1. d'.groups[g] = StoreShard(GroupFor(j, p), p) /\ GroupFor(j, p) \in FecGroups
      BY <1>1, <2>1, <2>2, <2>5, RtpAddPacketGroups, GroupForGood
    <3>2. \/ GroupFor(j, p) = NewFecGroup(p)
          \/ Present(d, g) /\ GroupFor(j, p) = d.groups[g]
      BY <2>1, <2>5 DEF GroupFor, NothingAdded
    <3> QED BY <2>5, <3>1, <3>2 DEF IsCopy
  <2> QED BY <2>3, <2>4, <2>5
<1> QED BY <1>2, <1>3

-----------------------------------------------------------------------------
(* How a step moves the stream on.                                         *)

\* A group is handed over: it is deleted, the next one is current, and the
\* block and frame counters count on.
LEMMA DeliveryMovesOn ==
    ASSUME TypeInv, DeliverGroup
    PROVE  LET d == depacketizer
               e == depacketizer'
           IN  /\ pc = "decode" /\ Present(d, d.current) /\ ~Short(d)
               /\ output'.gen = Current(d).header.gen
               /\ output'.shards = [i \in Slots |-> Decoded(Current(d))[i]]
               /\ e.groups = DropGroups(d, {d.current})
               /\ e.current = Wrap(d.current + 1, Half8)
               /\ e.block = IF d.block + 1 >= BlocksPerFrame THEN 0 ELSE d.block + 1
               /\ e.frame = IF d.block + 1 >= BlocksPerFrame THEN d.frame + 1
                            ELSE d.frame
               /\ e.missing = 0
               /\ e.reported = d.reported
               /\ UNCHANGED <<packetizer, net, pc, packet>>
<1> DEFINE d == depacketizer
           misjudged == d.reported /\ ~d.oos
           x == [d EXCEPT !.oos = d.oos \/ misjudged,
                          !.lastOos = IF misjudged THEN Current(d).header.gen
                                      ELSE d.lastOos]
<1>1. d \in Depacketizers
  BY TypeFacts
<1>2. /\ pc = "decode" /\ Present(d, d.current) /\ ~Short(d)
      /\ depacketizer' = DoNextGroup(x)
      /\ output'.gen = Current(d).header.gen
      /\ output'.shards = [i \in Slots |-> Decoded(Current(d))[i]]
      /\ UNCHANGED <<packetizer, net, pc, packet>>
  BY DEF DeliverGroup, Handed
<1>3. \A f \in {"groups", "current", "block", "frame", "reported"} : x[f] = d[f]
  BY <1>1 DEF Depacketizers
<1>4. DOMAIN x = DOMAIN d
  OBVIOUS
<1> HIDE DEF x
<1>5. /\ d'.groups = DropGroups(x, {x.current})
      /\ d'.current = Wrap(x.current + 1, Half8)
      /\ d'.block = IF x.block + 1 >= BlocksPerFrame THEN 0 ELSE x.block + 1
      /\ d'.frame = IF x.block + 1 >= BlocksPerFrame THEN x.frame + 1 ELSE x.frame
      /\ d'.missing = 0
      /\ d'.reported = x.reported
  BY <1>1, <1>2, <1>4 DEF DoNextGroup, Depacketizers
<1>6. DropGroups(x, {x.current}) = DropGroups(d, {d.current})
  BY <1>3 DEF DropGroups
<1> QED BY <1>2, <1>3, <1>5, <1>6

\* Waiting for shards moves nothing, unless a loss is reported.
LEMMA RecountKeepsPlace ==
    ASSUME NEW d, Good(d), Present(d, d.current)
    PROVE  \A f \in {"groups", "current", "block", "frame", "reported"} :
             RecountMissing(d)[f] = d[f]
BY DEF RecountMissing, Good, Depacketizers

\* Every step but Receive only deletes groups.
LEMMA OthersAddNothing ==
    ASSUME TypeInv, [Next]_vars, \A p \in net : ~Receive(p)
    PROVE  NothingAdded(depacketizer, depacketizer')
<1> DEFINE d == depacketizer
<1>1. Good(d) /\ d \in Depacketizers
  BY TypeFacts
<1>2. CASE UNCHANGED depacketizer
  BY <1>2 DEF NothingAdded
<1>3. CASE DeliverGroup
  BY <1>3, DeliveryMovesOn, DropAddsNothing
<1>4. CASE AwaitShards /\ ~UNCHANGED depacketizer
  <2>1. RecountMissing(d).groups = d.groups /\ Good(RecountMissing(d))
    BY <1>1, <1>4, RecountMissingGood DEF AwaitShards, Short
  <2>2. d'.groups = d.groups
    BY <1>4, <2>1, ReportLossGood DEF AwaitShards
  <2> QED BY <2>2 DEF NothingAdded, Present
<1> QED BY <1>2, <1>3, <1>4 DEF Next, vars, FecDecode, Send, AwaitGroup

-----------------------------------------------------------------------------
(* One lap of the group ids.                                               *)

\* The sender stops before its ids come round, and a datagram is at most half
\* a ring late.
OneLap == MaxGroups < 2 * Half8 - 1 /\ Window < Half8

\* Every buffered group is pure, waits at or after the current one, and was
\* sent; the current group is at most one past the sender.
InLap(d, sent) ==
    /\ 1 <= d.current /\ d.current <= sent + 1
    /\ \A g \in GroupIds : Present(d, g) =>
         Pure(d.groups[g], g) /\ d.current <= g /\ g <= sent

LapInv ==
    /\ TypeInv
    /\ NetInLap
    /\ InLap(depacketizer, packetizer.sent)
    /\ output.gen < depacketizer.current

-----------------------------------------------------------------------------
(* Moving forward keeps InLap.                                             *)

\* Dropping the groups before g and going to g.
LEMMA ForwardInLap ==
    ASSUME NEW d, Good(d), NEW sent \in Nat, InLap(d, sent),
           NEW g \in GroupIds, d.current <= g,
           g <= sent + 1,
           NEW e, e.current = g,
           e.groups = DropGroups(d, Discarded(d.current, g))
    PROVE  /\ InLap(e, sent)
           /\ \A x \in GroupIds : Present(e, x) => Present(d, x)
<1>1. d.current \in GroupIds
  BY DEF Good, Depacketizers
<1>2. \A x \in GroupIds : Present(e, x) =>
        /\ Present(d, x) /\ e.groups[x] = d.groups[x]
        /\ ~(d.current <= x /\ x < g)
  BY <1>1, DiscardedInLap DEF Present, DropGroups
<1>3. \A x \in GroupIds : Present(e, x) =>
        Pure(e.groups[x], x) /\ g <= x /\ x <= sent
  BY <1>1, <1>2 DEF InLap, GroupIds, Unsigned
<1> QED BY <1>1, <1>2, <1>3 DEF InLap, GroupIds, Unsigned

\* DoNextGroup, called when the current group is there.
LEMMA DoNextGroupInLap ==
    ASSUME OneLap, NEW d, Good(d), NEW sent \in 0 .. MaxGroups,
           InLap(d, sent), Present(d, d.current)
    PROVE  /\ InLap(DoNextGroup(d), sent)
           /\ DoNextGroup(d).current = d.current + 1
           /\ \A x \in GroupIds : Present(DoNextGroup(d), x) => Present(d, x)
<1> DEFINE e == DoNextGroup(d)
<1>1. d.current \in GroupIds /\ d.current <= sent /\ d.current \in Nat
  BY DEF Good, Depacketizers, InLap, GroupIds, Unsigned
<1>2. Wrap(d.current + 1, Half8) = d.current + 1
  BY <1>1, NextIdInLap DEF OneLap
<1>3. e.current = d.current + 1 /\ e.groups = DropGroups(d, {d.current})
  BY <1>2 DEF DoNextGroup, Good, Depacketizers
<1> HIDE DEF e
<1>4. \A x \in GroupIds : Present(e, x) =>
        Present(d, x) /\ e.groups[x] = d.groups[x] /\ x # d.current
  BY <1>3 DEF Present, DropGroups
<1>5. \A x \in GroupIds : Present(e, x) =>
        Pure(e.groups[x], x) /\ d.current + 1 <= x /\ x <= sent
  BY <1>1, <1>4 DEF InLap, GroupIds, Unsigned
<1>6. InLap(e, sent)
  <2>1. 1 <= e.current /\ e.current <= sent + 1
    BY <1>1, <1>3 DEF InLap
  <2> QED BY <1>3, <1>5, <2>1 DEF InLap
<1> QED BY <1>3, <1>4, <1>6 DEF e

\* RtpAddPacket of a packet that is not behind the current group.
LEMMA RtpAddPacketInLap ==
    ASSUME NEW d, Good(d), NEW sent \in 0 .. MaxGroups, InLap(d, sent),
           NEW p \in Packets, OfLap(p, sent), d.current <= p.group
    PROVE  /\ InLap(RtpAddPacket(d, p), sent)
           /\ RtpAddPacket(d, p).current = d.current
<1> DEFINE e == RtpAddPacket(d, p)
<1>1. p.group \in GroupIds /\ p.gen = p.group /\ p.gen # 0 /\ p.group <= sent
  BY DEF Packets, OfLap
<1>2. Pure(PutPacket(d, p).groups[p.group], p.group)
  BY <1>1, PutPacketPure DEF InLap
<1>3. /\ e.groups[p.group] = PutPacket(d, p).groups[p.group]
      /\ \A g \in GroupIds \ {p.group} : e.groups[g] = d.groups[g]
      /\ e.current = d.current
  BY <1>1, RtpAddPacketGroups, PutPacketGood
<1> HIDE DEF e
<1>4. ASSUME NEW g \in GroupIds, Present(e, g)
      PROVE  Pure(e.groups[g], g) /\ e.current <= g /\ g <= sent
  <2>1. CASE g = p.group
    BY <1>1, <1>2, <1>3, <2>1
  <2>2. CASE g # p.group
    BY <1>3, <1>4, <2>2 DEF InLap, Present
  <2> QED BY <2>1, <2>2
<1>5. InLap(e, sent)
  BY <1>3, <1>4 DEF InLap
<1> QED BY <1>3, <1>5 DEF e

-----------------------------------------------------------------------------
(* The invariant of a lap is inductive.                                    *)

LEMMA InitLap == Init => LapInv
<1> SUFFICES ASSUME Init PROVE LapInv
  OBVIOUS
<1>1. TypeInv
  BY InitType
<1>2. InLap(depacketizer, packetizer.sent) /\ NetInLap
  BY DEF Init, NewStream, NewPacketizer, NewDepacketizer, InLap, Present, NetInLap
<1> QED BY <1>1, <1>2 DEF Init, NewStream, NewDepacketizer, LapInv

LEMMA SendKeepsLap ==
    ASSUME OneLap, LapInv, NEW idr \in BOOLEAN, Send(idr)
    PROVE  LapInv'
<1>1. TypeInv' /\ NetInLap' /\ packetizer'.sent = packetizer.sent + 1
  BY SendKeepsType, SendKeepsNetInLap DEF LapInv, TypeInv, OneLap
<1>2. depacketizer' = depacketizer /\ output' = output
  BY DEF Send
<1>3. InLap(depacketizer, packetizer.sent + 1)
  BY TypeFacts DEF LapInv, InLap, GroupIds, Unsigned
<1> QED BY <1>1, <1>2, <1>3 DEF LapInv

\* The filter of GetFecDecodeInfo lets no packet behind the current group in.
LEMMA FilterInLap ==
    ASSUME OneLap, LapInv, NEW p \in net, ~IsBefore8(p.group, depacketizer.current)
    PROVE  depacketizer.current <= p.group
<1>1. /\ p.group \in GroupIds /\ depacketizer.current \in GroupIds
      /\ packetizer.sent \in Nat
  BY TypeFacts DEF LapInv
<1>2. /\ p.group = p.gen /\ p.gen + Window > packetizer.sent
      /\ depacketizer.current <= packetizer.sent + 1
  BY DEF LapInv, NetInLap, OfLap, InLap
<1>3. depacketizer.current - p.group <= Half8
  BY <1>1, <1>2 DEF OneLap, GroupIds, Unsigned
<1> QED BY <1>1, <1>3, LessIsBefore DEF GroupIds, Unsigned

LEMMA ReceiveKeepsLap ==
    ASSUME OneLap, LapInv, NEW p \in net, Receive(p)
    PROVE  LapInv'
<1> DEFINE d == depacketizer
           j == GetFecDecodeInfo(d, p)
           s == packetizer.sent
<1>1. TypeInv'
  BY ReceiveKeepsType DEF LapInv
<1>2. /\ p \in Packets /\ p.gen # 0 /\ OfLap(p, s) /\ p.gen + Window > s
      /\ Good(d) /\ s \in 0 .. MaxGroups /\ InLap(d, s)
  BY TypeFacts DEF LapInv, NetInLap
<1>3. UNCHANGED <<packetizer, output>> /\ net' \subseteq net
  BY DEF Receive, Take
<1>4. CASE IsBefore8(p.group, d.current)
  BY <1>1, <1>3, <1>4 DEF Receive, Outdated, LapInv, NetInLap
<1>5. CASE ~IsBefore8(p.group, d.current)
  <2>1. d.current <= p.group /\ p.group \in GroupIds /\ p.group <= s
    BY <1>2, <1>5, FilterInLap DEF Packets, OfLap
  <2>2. Good(j)
    BY <1>2, JumpIdrGood DEF GetFecDecodeInfo
  <2>3. InLap(j, s) /\ d.current <= j.current /\ j.current <= p.group
    <3>1. CASE p.idr /\ p.block = 0 /\ IsBefore8(d.current, p.group)
      <4>1. j.current = p.group
            /\ j.groups = DropGroups(d, Discarded(d.current, p.group))
        BY <1>2, <3>1 DEF GetFecDecodeInfo, JumpToNextIdrPacket, Good,
           Depacketizers
      <4> HIDE DEF j
      <4> QED BY <1>2, <2>1, <4>1, ForwardInLap DEF GroupIds, Unsigned
    <3>2. CASE ~(p.idr /\ p.block = 0 /\ IsBefore8(d.current, p.group))
      <4>1. j = d
        BY <3>2 DEF GetFecDecodeInfo, JumpToNextIdrPacket
      <4> QED BY <1>2, <2>1, <4>1 DEF Good, Depacketizers, GroupIds, Unsigned
    <3> QED BY <3>1, <3>2
  <2>4. d' = RtpAddPacket(j, p) /\ pc' = "decode" /\ packet' = p
    BY <1>5 DEF Receive, Outdated
  <2> HIDE DEF j
  <2>5. InLap(d', s) /\ d'.current = j.current
    BY <1>2, <2>2, <2>3, <2>4, RtpAddPacketInLap
  <2>6. d'.current \in Int /\ d.current \in Int /\ output.gen \in Int
    <3>1. j.current \in Int
      BY <2>2 DEF Good, Depacketizers, GroupIds, Unsigned
    <3> QED BY <2>5, <3>1, TypeFacts DEF LapInv
  <2>7. output'.gen < d'.current
    BY <1>3, <2>3, <2>5, <2>6 DEF LapInv
  <2> QED BY <1>1, <1>2, <1>3, <2>5, <2>7 DEF LapInv, NetInLap
<1> QED BY <1>4, <1>5

\* The steps of the loop that leave it change no group and no position.
LEMMA BreakKeepsLap ==
    ASSUME LapInv, TypeInv', depacketizer'.groups = depacketizer.groups,
           depacketizer'.current = depacketizer.current,
           UNCHANGED <<packetizer, net, output>>
    PROVE  LapInv'
BY DEF LapInv, NetInLap, InLap, Present

LEMMA FecDecodeKeepsLap ==
    ASSUME OneLap, LapInv, FecDecode
    PROVE  LapInv'
<1> DEFINE d == depacketizer
           s == packetizer.sent
<1>1. TypeInv' /\ TypeInv
  BY FecDecodeKeepsType DEF LapInv
<1>2. s \in 0 .. MaxGroups /\ InLap(d, s) /\ Good(d) /\ d.current \in GroupIds
  BY <1>1, TypeFacts DEF LapInv
<1>3. CASE AwaitGroup
  BY <1>1, <1>3, BreakKeepsLap DEF AwaitGroup, Break
<1>4. CASE AwaitShards
  <2>1. ReportLoss(RecountMissing(d)).current = d.current
        /\ ReportLoss(RecountMissing(d)).groups = d.groups
    <3>1. RecountMissing(d).current = d.current /\ Good(RecountMissing(d))
          /\ RecountMissing(d).groups = d.groups
      BY <1>2, <1>4, RecountMissingGood DEF RecountMissing, AwaitShards, Short, Good,
         Depacketizers
    <3>2. ReportLoss(RecountMissing(d)).current = RecountMissing(d).current
      BY <3>1 DEF ReportLoss, Good, Depacketizers
    <3> QED BY <3>1, <3>2, ReportLossGood
  <2> QED BY <1>1, <1>4, <2>1, BreakKeepsLap DEF AwaitShards, Break, Panic
<1>5. CASE DeliverGroup
  <2>1. /\ Present(d, d.current) /\ output'.gen = Current(d).header.gen
        /\ d'.groups = DropGroups(d, {d.current})
        /\ d'.current = Wrap(d.current + 1, Half8)
        /\ UNCHANGED <<packetizer, net>>
    BY <1>1, <1>5, DeliveryMovesOn
  <2>2. DoNextGroup(d).groups = d'.groups /\ DoNextGroup(d).current = d'.current
    BY <1>2, <2>1 DEF DoNextGroup, Good, Depacketizers
  <2>3. InLap(d', s) /\ d'.current = d.current + 1
    BY <1>2, <2>1, <2>2, DoNextGroupInLap DEF InLap, Present
  <2>4. output'.gen = d.current
    BY <1>2, <2>1 DEF InLap, Pure, Current
  <2> QED BY <1>1, <1>2, <2>1, <2>3, <2>4 DEF LapInv, NetInLap, GroupIds, Unsigned
<1> QED BY <1>3, <1>4, <1>5 DEF FecDecode

LEMMA NextLap == OneLap /\ LapInv /\ [Next]_vars => LapInv'
<1> SUFFICES ASSUME OneLap, LapInv, [Next]_vars PROVE LapInv'
  OBVIOUS
<1>1. CASE UNCHANGED vars
  <2>1. TypeInv'
    BY <1>1, NextType DEF LapInv
  <2> QED BY <1>1, <2>1 DEF vars, LapInv, NetInLap
<1> QED BY <1>1, SendKeepsLap, ReceiveKeepsLap, FecDecodeKeepsLap DEF Next

LEMMA LapInvariance == ASSUME OneLap PROVE Spec => []LapInv
<1>1. Init => LapInv
  BY InitLap
<1>2. LapInv /\ [Next]_vars => LapInv'
  BY NextLap
<1> QED BY <1>1, <1>2, PTL DEF Spec

-----------------------------------------------------------------------------
(* What follows within one lap.                                            *)

\* Two groups are never mixed in one decode.
THEOREM NeverMixed == ASSUME OneLap PROVE Spec => []GroupsPure
<1>1. LapInv => GroupsPure
  BY DEF LapInv, InLap, Pure, GroupsPure
<1> QED BY <1>1, LapInvariance, PTL

\* No group that is still buffered was overtaken by a delivery.
THEOREM NeverOvertaken == ASSUME OneLap PROVE Spec => []BufferedIsNewer
<1>1. LapInv => BufferedIsNewer
  BY TypeFacts DEF LapInv, InLap, Pure, BufferedIsNewer, GroupIds, Unsigned
<1> QED BY <1>1, LapInvariance, PTL

\* Within a lap the consumer gets groups in order, each at most once, and
\* never the data of two groups mixed: every step of the stream is a step of
\* FecDelivery or leaves what was delivered as it is.
THEOREM ImplementsDelivery == ASSUME OneLap PROVE Spec => DeliverySpec
<1> DEFINE d == depacketizer
           group == Current(d)
<1>1. Init => Delivery!Init
  BY DEF Init, NewStream, Delivery!Init
<1>2. ASSUME LapInv, [Next]_vars
      PROVE  [Delivery!Next]_<<output.gen, output.shards>>
  <2>1. CASE DeliverGroup
    <3>1. TypeInv
      BY <1>2 DEF LapInv
    <3>2. /\ Present(d, d.current) /\ ~Short(d) /\ output'.gen = group.header.gen
          /\ output'.shards = [i \in Slots |-> Decoded(group)[i]]
      BY <2>1, <3>1, DeliveryMovesOn
    <3>3. d.current \in GroupIds /\ packetizer.sent \in 0 .. MaxGroups
          /\ output.gen \in Nat /\ d \in Depacketizers /\ Good(d)
      BY <3>1, TypeFacts
    <3>4. /\ group \in FecGroups /\ Pure(group, d.current)
          /\ group.received = Cardinality(Arrived(group))
          /\ d.current <= packetizer.sent /\ 1 <= d.current /\ output.gen < d.current
      BY <1>2, <3>2, <3>3 DEF LapInv, InLap, Good, Counted, Present, Current,
         Depacketizers
    <3>5. output'.shards \in [Slots -> {d.current, Zeroes}]
      BY <3>2, <3>4, DeliveredData DEF Short
    <3>6. output'.gen = d.current /\ d.current \in 1 .. MaxGroups
          /\ d.current > output.gen
      BY <3>2, <3>3, <3>4 DEF Pure, GroupIds, Unsigned
    <3>7. Delivery!Deliver(d.current)
      BY <3>5, <3>6 DEF Delivery!Deliver
    <3> QED BY <3>6, <3>7 DEF Delivery!Next
  <2>2. CASE UNCHANGED output
    BY <2>2
  <2> QED BY <1>2, <2>1, <2>2 DEF Next, vars, FecDecode, Send, Receive,
             AwaitGroup, AwaitShards
<1> QED BY <1>1, <1>2, LapInvariance, PTL DEF Spec, DeliverySpec, Delivery!Spec

-----------------------------------------------------------------------------
(* The packets of one group.                                               *)

\* The sequence number of the first shard of the packet's group.
FirstSeq(p) == Wrap(p.seq - p.shard, Half16)

\* Packets cut from one group agree on its flag and on its numbering.
Kin(p, q) == p.gen = q.gen =>
    /\ p.idr = q.idr
    /\ IF Kind = "message" THEN p.seq = q.seq ELSE FirstSeq(p) = FirstSeq(q)

KinInv ==
    /\ \A p, q \in net : Kin(p, q)
    /\ \A g \in GroupIds, p \in net :
         Present(depacketizer, g) => Kin(depacketizer.groups[g].header, p)

\* The sender's i-th shard is i after the first one.
LEMMA FirstSeqOfShard ==
    ASSUME NEW s \in Sequences, NEW i \in Shards
    PROVE  /\ Wrap(Wrap(s + i, Half16) - i, Half16) = s
           /\ Wrap(s - Wrap(s - i, Half16), Half16) = i
<1>1. i \in Unsigned(Half16) /\ s \in Unsigned(Half16)
  BY DEF Shards, TotalShards, Unsigned, Sequences
<1> QED BY <1>1 DEF Wrap, Unsigned

LEMMA SendKeepsKin ==
    ASSUME LapInv, KinInv, NEW idr \in BOOLEAN, Send(idr)
    PROVE  KinInv'
<1> DEFINE z == packetizer
           new == {PacketOf(z, idr, i) : i \in Shards}
<1>1. z \in Packetizers /\ z.sent \in Nat /\ z.seq \in Sequences
  BY TypeFacts DEF LapInv, Packetizers
<1>2. ASSUME NEW p \in net' PROVE (p \in net /\ p.gen <= z.sent) \/ p \in new
  BY DEF Send, UnderWay, LapInv, NetInLap, OfLap
<1>3. \A p \in new : p.gen = z.sent + 1
  BY DEF PacketOf, NextGroupOf
<1>4. ASSUME NEW p \in new, NEW q \in new PROVE Kin(p, q)
  <2>1. PICK i \in Shards, j \in Shards :
          p = PacketOf(z, idr, i) /\ q = PacketOf(z, idr, j)
    BY <1>4
  <2>2. p.idr = q.idr
    BY <2>1 DEF PacketOf
  <2>3. Kind = "message" => p.seq = q.seq
    BY <2>1 DEF PacketOf
  <2>4. Kind # "message" => FirstSeq(p) = z.seq /\ FirstSeq(q) = z.seq
    <3>1. Kind # "message" => p.seq = Wrap(z.seq + i, Half16) /\ p.shard = i
                              /\ q.seq = Wrap(z.seq + j, Half16) /\ q.shard = j
      BY <2>1 DEF PacketOf
    <3> QED BY <1>1, <3>1, FirstSeqOfShard DEF FirstSeq
  <2> QED BY <2>2, <2>3, <2>4 DEF Kin
<1>5. ASSUME NEW p \in net', NEW q \in net' PROVE Kin(p, q)
  <2>1. CASE p \in net /\ q \in net
    BY <2>1 DEF KinInv
  <2>2. CASE p \in new /\ q \in new
    BY <1>4, <2>2
  <2>3. CASE p.gen # q.gen
    BY <2>3 DEF Kin
  <2> QED BY <1>1, <1>2, <1>3, <2>1, <2>2, <2>3
<1>6. ASSUME NEW g \in GroupIds, Present(depacketizer', g), NEW p \in net'
      PROVE  Kin(depacketizer'.groups[g].header, p)
  <2>1. UNCHANGED depacketizer
    BY DEF Send
  <2>2. depacketizer.groups[g].header.gen = g /\ g <= z.sent /\ g \in Int
    BY <1>6, <2>1 DEF LapInv, InLap, Pure, GroupIds, Unsigned
  <2>3. CASE p \in net
    BY <1>6, <2>1, <2>3 DEF KinInv, Present
  <2>4. CASE p \in new
    BY <1>1, <1>3, <2>1, <2>2, <2>4 DEF Kin
  <2> QED BY <1>2, <2>3, <2>4
<1> QED BY <1>5, <1>6 DEF KinInv

LEMMA ReceiveKeepsKin ==
    ASSUME LapInv, KinInv, NEW p \in net, Receive(p)
    PROVE  KinInv'
<1>1. net' \subseteq net /\ TypeInv
  BY DEF Receive, Take, LapInv
<1>2. ASSUME NEW g \in GroupIds, Present(depacketizer', g), NEW q \in net'
      PROVE  Kin(depacketizer'.groups[g].header, q)
  <2> DEFINE d == depacketizer
  <2>1. CASE Present(d, g) /\ d'.groups[g] = d.groups[g]
    BY <1>1, <2>1 DEF KinInv
  <2>2. CASE \E group \in FecGroups :
               /\ \/ group = NewFecGroup(p)
                  \/ Present(d, g) /\ group = d.groups[g]
               /\ d'.groups[g] = StoreShard(group, p)
    <3>1. PICK group \in FecGroups :
               /\ \/ group = NewFecGroup(p)
                  \/ Present(d, g) /\ group = d.groups[g]
               /\ d'.groups[g] = StoreShard(group, p)
      BY <2>2
    <3>2. d'.groups[g].header = group.header
      BY <3>1 DEF StoreShard, FecGroups
    <3>3. group = NewFecGroup(p) => group.header = p
      BY DEF NewFecGroup
    <3> QED BY <1>1, <3>1, <3>2, <3>3 DEF KinInv
  <2> QED BY <1>1, <1>2, <2>1, <2>2, ReceiveAddsShard
<1> QED BY <1>1, <1>2 DEF KinInv

\* The first lemma of each kind says that the invariant starts out true and
\* that every step keeps it.
LEMMA KinSteps ==
    /\ Init => KinInv
    /\ LapInv /\ KinInv /\ [Next]_vars => KinInv'
<1>1. Init => KinInv
  BY DEF Init, NewStream, NewDepacketizer, KinInv, Present
<1>2. ASSUME LapInv, KinInv, [Next]_vars PROVE KinInv'
  <2>1. ASSUME NEW idr \in BOOLEAN, Send(idr) PROVE KinInv'
    BY <1>2, <2>1, SendKeepsKin
  <2>2. ASSUME NEW p \in net, Receive(p) PROVE KinInv'
    BY <1>2, <2>2, ReceiveKeepsKin
  <2>3. CASE UNCHANGED net /\ \A p \in net : ~Receive(p)
    <3>1. NothingAdded(depacketizer, depacketizer')
      BY <1>2, <2>3, OthersAddNothing DEF LapInv
    <3> QED BY <1>2, <2>3, <3>1 DEF KinInv, NothingAdded
  <2> QED BY <1>2, <2>1, <2>2, <2>3 DEF Next, vars, FecDecode,
             AwaitGroup, AwaitShards, DeliverGroup
<1> QED BY <1>1, <1>2

-----------------------------------------------------------------------------
(* The indices of a buffered group.                                        *)

(***************************************************************************)
(* The group's window of sequence numbers starts where its header's group  *)
(* does, and the last packet of the window is there: FecDecode may index   *)
(* Packets with it.                                                        *)
(***************************************************************************)
Indexed(group) ==
    LET last == Wrap(group.max - group.start, Half16) IN
    /\ group.received > 0
    /\ group.start = FirstSeq(group.header)
    /\ last \in Shards /\ group.shards[last] # Nil
    /\ Kind = "message" => group.max = group.header.seq

IndexInv == \A g \in GroupIds :
    Present(depacketizer, g) => Indexed(depacketizer.groups[g])

\* The first packet of a group.
LEMMA FirstShardIndexed ==
    ASSUME NEW p \in Packets, p.gen # 0, NewFecGroup(p) \in FecGroups
    PROVE  Indexed(StoreShard(NewFecGroup(p), p))
<1> DEFINE new == NewFecGroup(p)
           h == StoreShard(new, p)
<1>1. p.seq \in Sequences /\ p.shard \in Shards
  BY DEF Packets
<1>2. /\ new.received = 0 /\ new.header = p
      /\ new.shards = [i \in Shards |-> Nil]
  BY DEF NewFecGroup
<1> HIDE DEF new
<1>3. /\ h.received = 1 /\ h.header = p /\ h.start = FirstSeq(p) /\ h.max = p.seq
      /\ h.shards = [new.shards EXCEPT ![p.shard] = p.gen]
  BY <1>2 DEF StoreShard, FecGroups, FirstSeq, new
<1> HIDE DEF h
<1>4. Wrap(h.max - h.start, Half16) = p.shard
  BY <1>1, <1>3, FirstSeqOfShard DEF FirstSeq
<1> QED BY <1>1, <1>2, <1>3, <1>4 DEF Indexed, h, new, Nil

\* A further packet of a group: the window only grows, up to that packet.
LEMMA NextShardIndexed ==
    ASSUME NEW group \in FecGroups, Indexed(group),
           NEW p \in Packets, p.gen # 0, group.header.gen = p.gen,
           Kin(group.header, p)
    PROVE  Indexed(StoreShard(group, p))
<1> DEFINE h == StoreShard(group, p)
<1>1. /\ p.seq \in Sequences /\ p.shard \in Shards
      /\ group.shards \in [Shards -> 0 .. MaxGroups] /\ group.received \in Nat
      /\ group.max \in Sequences /\ group.received > 0
  BY DEF Packets, FecGroups, Indexed
<1>2. /\ h.received > 0 /\ h.header = group.header /\ h.start = group.start
      /\ h.max = IF IsBefore16(group.max, p.seq) THEN p.seq ELSE group.max
      /\ h.shards = [group.shards EXCEPT ![p.shard] = p.gen]
  BY <1>1 DEF StoreShard, FecGroups
<1> HIDE DEF h
<1>3. \A i \in Shards : group.shards[i] # Nil => h.shards[i] # Nil
  BY <1>1, <1>2 DEF Nil
<1>4. CASE Kind = "message"
  <2>1. group.max = p.seq
    BY <1>4 DEF Indexed, Kin
  <2> QED BY <1>2, <1>3, <1>4, <2>1 DEF Indexed, h
<1>5. CASE Kind # "message" /\ h.max = p.seq
  <2>1. group.start = Wrap(p.seq - p.shard, Half16)
    BY <1>5 DEF Indexed, Kin, FirstSeq
  <2>2. Wrap(h.max - h.start, Half16) = p.shard
    BY <1>1, <1>2, <1>5, <2>1, FirstSeqOfShard
  <2>3. h.shards[p.shard] # Nil
    BY <1>1, <1>2 DEF Nil
  <2> QED BY <1>1, <1>2, <1>5, <2>2, <2>3 DEF Indexed, h
<1>6. CASE Kind # "message" /\ h.max = group.max
  BY <1>2, <1>3, <1>6 DEF Indexed, h
<1> QED BY <1>2, <1>4, <1>5, <1>6

LEMMA IndexSteps ==
    /\ Init => IndexInv
    /\ LapInv /\ KinInv /\ IndexInv /\ [Next]_vars => IndexInv'
<1> DEFINE d == depacketizer
<1>1. Init => IndexInv
  BY DEF Init, NewStream, NewDepacketizer, IndexInv, Present
<1>2. ASSUME LapInv, KinInv, IndexInv, NEW p \in net, Receive(p)
      PROVE  IndexInv'
  <2> SUFFICES ASSUME NEW g \in GroupIds, Present(d', g)
               PROVE  Indexed(d'.groups[g])
    BY DEF IndexInv
  <2>1. TypeInv /\ p \in Packets /\ p.gen # 0 /\ p.gen = p.group
    BY <1>2, TypeFacts DEF LapInv, NetInLap, OfLap
  <2>2. CASE Present(d, g) /\ d'.groups[g] = d.groups[g]
    BY <1>2, <2>2 DEF IndexInv
  <2>3. ASSUME NEW group \in FecGroups, p.group = g,
               d'.groups[g] = StoreShard(group, p),
               group = NewFecGroup(p)
        PROVE  Indexed(d'.groups[g])
    BY <2>1, <2>3, FirstShardIndexed
  <2>4. ASSUME NEW group \in FecGroups, p.group = g,
               d'.groups[g] = StoreShard(group, p),
               Present(d, g), group = d.groups[g]
        PROVE  Indexed(d'.groups[g])
    <3>1. Indexed(group)
      BY <1>2, <2>4 DEF IndexInv
    <3>2. group.header.gen = p.gen /\ Kin(group.header, p)
      BY <1>2, <2>1, <2>4 DEF KinInv, LapInv, InLap, Pure
    <3> QED BY <2>1, <2>4, <3>1, <3>2, NextShardIndexed
  <2> QED BY <1>2, <2>1, <2>2, <2>3, <2>4, ReceiveAddsShard
<1>3. ASSUME LapInv, IndexInv, [Next]_vars, \A p \in net : ~Receive(p)
      PROVE  IndexInv'
  <2>1. NothingAdded(d, d')
    BY <1>3, OthersAddNothing DEF LapInv
  <2> QED BY <1>3, <2>1 DEF IndexInv, NothingAdded
<1> QED BY <1>1, <1>2, <1>3

-----------------------------------------------------------------------------
(* The decode loop does not panic.                                         *)

\* With its indices in order, an iteration of the loop reads nothing that is
\* not there.
LEMMA PanicSteps ==
    /\ Init => NoPanic
    /\ LapInv /\ IndexInv /\ NoPanic /\ [Next]_vars => NoPanic'
<1> DEFINE d == depacketizer
<1>1. Init => NoPanic
  BY DEF Init, NewStream, NoPanic
<1>2. ASSUME LapInv, IndexInv, NoPanic, [Next]_vars PROVE NoPanic'
  <2>1. d.current \in GroupIds
    BY <1>2, TypeFacts DEF LapInv
  <2>2. CASE AwaitShards
    <3>1. LastIndex(d) \in Shards
      BY <1>2, <2>1, <2>2 DEF AwaitShards, Short, IndexInv, Indexed, LastIndex, Current
    <3>2. ~IndexOutOfRange(d)
      BY <3>1 DEF IndexOutOfRange, Shards, TotalShards
    <3> QED BY <2>2, <3>2 DEF AwaitShards, Break, NoPanic
  <2> QED BY <1>2, <2>2 DEF NoPanic, Next, vars, FecDecode, Send, Receive,
             AwaitGroup, DeliverGroup, Break
<1> QED BY <1>1, <1>2

-----------------------------------------------------------------------------
(* Where Receive leaves the stream.                                        *)

\* A packet let in by the filter ends up in the buffer.  The stream stays
\* where it was, or has jumped forward to the first block of the packet's
\* key frame.
LEMMA ReceiveMoves ==
    ASSUME OneLap, LapInv, NEW p \in net, Receive(p),
           ~Outdated(depacketizer, p)
    PROVE  LET d == depacketizer
               j == GetFecDecodeInfo(d, p)
           IN  /\ p \in Packets /\ p.gen # 0 /\ p.gen = p.group /\ d.current <= p.group
               /\ d' = RtpAddPacket(j, p) /\ Good(j) /\ j.current \in GroupIds
               /\ Present(d', p.group)
               /\ \A f \in {"current", "block", "frame", "reported"} : d'[f] = j[f]
               /\ j.reported = d.reported
               /\ \/ j = d
                  \/ /\ p.idr /\ p.block = 0 /\ d.current < p.group
                     /\ j.groups = DropGroups(d, Discarded(d.current, p.group))
                     /\ j.current = p.group /\ j.frame = p.frame
                     /\ j.block = 0 /\ j.missing = 0
<1> DEFINE d == depacketizer
           j == GetFecDecodeInfo(d, p)
<1>1. /\ p \in Packets /\ p.gen # 0 /\ p.gen = p.group /\ p.group \in GroupIds
      /\ Good(d) /\ d.current \in GroupIds
  BY TypeFacts DEF LapInv, NetInLap, OfLap
<1>2. d.current <= p.group
  BY FilterInLap DEF Outdated
<1>3. IsBefore8(d.current, p.group) => d.current < p.group
  BY <1>1, <1>2 DEF IsBefore8, IsBefore, Wrap, GroupIds, Unsigned
<1>4. Good(j)
  BY <1>1, JumpIdrGood DEF GetFecDecodeInfo
<1>5. /\ j.reported = d.reported
      /\ \/ j = d
         \/ /\ p.idr /\ p.block = 0 /\ d.current < p.group
            /\ j.groups = DropGroups(d, Discarded(d.current, p.group))
            /\ j.current = p.group /\ j.frame = p.frame
            /\ j.block = 0 /\ j.missing = 0
  BY <1>1, <1>3 DEF GetFecDecodeInfo, JumpToNextIdrPacket, Good, Depacketizers
<1>6. d' = RtpAddPacket(j, p)
  BY DEF Receive
<1> HIDE DEF j
<1>7. /\ Present(d', p.group)
      /\ \A f \in {"current", "block", "frame", "reported"} : d'[f] = j[f]
  BY <1>1, <1>4, <1>6, RtpAddPacketGroups
<1>8. j.current \in GroupIds
  BY <1>4 DEF Good, Depacketizers
<1> QED BY <1>1, <1>2, <1>4, <1>5, <1>6, <1>7, <1>8 DEF j

-----------------------------------------------------------------------------
(* The loss statistics.                                                    *)

(***************************************************************************)
(* Whatever makes packets count as missing also makes the stream count as  *)
(* out of sequence, until the current group is left (its generation is n): *)
(* so the condition for a report, packets missing and all in sequence, is  *)
(* never met.                                                              *)
(***************************************************************************)
Excused(d, n) == d.missing > 0 => d.oos /\ n <= d.lastOos

LossInv == LossNeverReported /\ Excused(depacketizer, depacketizer.current)

\* A packet of the current group keeps the excuse.
LEMMA CountPacketExcused ==
    ASSUME NEW d \in Depacketizers, NEW p \in Packets, Excused(d, p.gen)
    PROVE  Excused(CountPacket(d, p), p.gen)
<1>1. /\ d.missing \in Nat /\ d.lastOos \in Nat /\ d.oos \in BOOLEAN
      /\ p.gen \in Nat
  BY DEF Depacketizers, Packets, Sequences, Unsigned
<1>2. CASE p.seq = d.nextSeq
  <2>1. /\ CountPacket(d, p).missing = d.missing
        /\ CountPacket(d, p).oos = (d.oos /\ p.gen <= d.lastOos + Cooldown)
        /\ CountPacket(d, p).lastOos = d.lastOos
    BY <1>2 DEF CountPacket, Depacketizers
  <2>2. p.gen <= d.lastOos => p.gen <= d.lastOos + Cooldown
    BY <1>1
  <2> QED BY <2>1, <2>2 DEF Excused
<1>3. CASE p.seq # d.nextSeq
  <2>1. /\ CountPacket(d, p).oos = TRUE
        /\ CountPacket(d, p).lastOos = p.gen
    BY <1>3 DEF CountPacket, Depacketizers
  <2> QED BY <1>1, <2>1 DEF Excused
<1> QED BY <1>2, <1>3

LEMMA RtpAddPacketExcused ==
    ASSUME NEW d, Good(d), NEW n, Excused(d, n),
           NEW p \in Packets, p.gen # 0, p.group = d.current => p.gen = n
    PROVE  Excused(RtpAddPacket(d, p), n)
<1> DEFINE e == PutPacket(d, p)
<1>1. e \in Depacketizers /\ Excused(e, n)
  BY PutPacketGood DEF Good, Excused
<1> HIDE DEF e
<1>2. p.group = d.current => Excused(CountPacket(e, p), n)
  BY <1>1, CountPacketExcused
<1> QED BY <1>1, <1>2 DEF RtpAddPacket, e

\* The recount at a short group finds an excuse for what it finds missing.
LEMMA RecountExcused ==
    ASSUME NEW d, Good(d), NEW n \in Nat, Excused(d, n), d.current \in GroupIds,
           Present(d, d.current), Pure(Current(d), n), Indexed(Current(d))
    PROVE  /\ Excused(RecountMissing(d), n)
           /\ ReportLoss(RecountMissing(d)) = RecountMissing(d)
<1> DEFINE gap == Wrap(Span(d) - Current(d).received, Half16)
           last == Current(d).shards[LastIndex(d)]
           r == RecountMissing(d)
<1>1. LastIndex(d) \in Shards /\ last # Nil
  BY DEF Indexed, LastIndex
<1>2. last = n
  BY <1>1 DEF Pure
<1>3. d.missing \in Unsigned(Half16) /\ n <= n
  BY DEF Good, Depacketizers, Sequences
<1>4. ASSUME ~MustRecount(d) PROVE Excused(r, n)
  BY <1>4 DEF RecountMissing
<1>5. ASSUME MustRecount(d) PROVE Excused(r, n)
  <2>1. /\ r.missing = Wrap(d.missing + gap, Half16)
        /\ r.oos = (d.oos \/ gap # 0)
        /\ r.lastOos = IF gap # 0 THEN last ELSE d.lastOos
    BY <1>1, <1>5 DEF RecountMissing, Good, Depacketizers
  <2> HIDE DEF gap, last, r
  <2>2. CASE gap = 0
    <3>1. Wrap(d.missing + gap, Half16) = d.missing
      BY <1>3, <2>2 DEF Wrap, Unsigned
    <3> QED BY <2>1, <2>2, <3>1 DEF Excused, r
  <2>3. CASE gap # 0
    BY <1>2, <1>3, <2>1, <2>3 DEF Excused, r
  <2> QED BY <2>2, <2>3
<1>6. Excused(r, n)
  BY <1>4, <1>5
<1>7. ReportLoss(r) = r
  <2>1. r \in Depacketizers
    BY RecountMissingGood DEF Good
  <2> HIDE DEF r
  <2>2. r.missing > ParityShards => r.missing > 0
    BY <2>1 DEF Depacketizers, Sequences, Unsigned
  <2> QED BY <1>6, <2>2 DEF ReportLoss, Excused
<1> QED BY <1>6, <1>7

\* Waiting for shards: no loss is reported, and nothing moves.
LEMMA AwaitShardsMoves ==
    ASSUME LapInv, IndexInv, LossInv, AwaitShards
    PROVE  /\ \A f \in {"groups", "current", "block", "frame", "reported"} :
                depacketizer'[f] = depacketizer[f]
           /\ Excused(depacketizer', depacketizer'.current)
<1> DEFINE d == depacketizer
           r == RecountMissing(d)
<1>1. /\ Good(d) /\ d.current \in GroupIds /\ Present(d, d.current)
      /\ Excused(d, d.current) /\ d.current \in Nat
      /\ Pure(Current(d), d.current) /\ Indexed(Current(d))
  BY TypeFacts DEF LapInv, InLap, AwaitShards, Short, IndexInv, LossInv, Current
<1>2. Excused(r, d.current) /\ ReportLoss(r) = r
  BY <1>1, RecountExcused
<1>3. \A f \in {"groups", "current", "block", "frame", "reported"} : r[f] = d[f]
  BY <1>1, RecountKeepsPlace
<1> HIDE DEF r
<1>4. CASE IndexOutOfRange(d)
  BY <1>1, <1>4 DEF AwaitShards
<1>5. CASE ~IndexOutOfRange(d)
  BY <1>2, <1>3, <1>5 DEF AwaitShards, r
<1> QED BY <1>4, <1>5

LEMMA LossSteps ==
    ASSUME OneLap
    PROVE  /\ Init => LossInv
           /\ LapInv /\ IndexInv /\ LossInv /\ [Next]_vars => LossInv'
<1> DEFINE d == depacketizer
<1>1. Init => LossInv
  BY DEF Init, NewDepacketizer, LossInv, LossNeverReported, Excused
<1>2. ASSUME LapInv, IndexInv, LossInv, [Next]_vars PROVE LossInv'
  <2>1. d \in Depacketizers /\ TypeInv
    BY <1>2, TypeFacts DEF LapInv
  <2>2. CASE UNCHANGED depacketizer
    BY <1>2, <2>2 DEF LossInv, LossNeverReported, Excused
  <2>3. ASSUME NEW p \in net, Receive(p), ~Outdated(d, p) PROVE LossInv'
    <3> DEFINE j == GetFecDecodeInfo(d, p)
    <3>1. /\ p \in Packets /\ p.gen # 0 /\ p.gen = p.group
          /\ d' = RtpAddPacket(j, p) /\ Good(j)
          /\ d'.reported = d.reported /\ d'.current = j.current
          /\ j = d \/ j.missing = 0
      BY <1>2, <2>3, ReceiveMoves
    <3>2. Excused(j, j.current)
      BY <1>2, <3>1 DEF LossInv, Excused
    <3> HIDE DEF j
    <3>3. Excused(d', j.current)
      BY <3>1, <3>2, RtpAddPacketExcused
    <3> QED BY <1>2, <3>1, <3>3 DEF LossInv, LossNeverReported
  <2>4. CASE DeliverGroup
    <3>1. d'.missing = 0 /\ d'.reported = d.reported
      BY <2>1, <2>4, DeliveryMovesOn
    <3> QED BY <1>2, <3>1 DEF LossInv, LossNeverReported, Excused
  <2>5. CASE AwaitShards
    BY <1>2, <2>5, AwaitShardsMoves DEF LossInv, LossNeverReported
  <2> QED BY <1>2, <2>2, <2>3, <2>4, <2>5 DEF Next, vars, FecDecode,
             Send, Receive, AwaitGroup
<1> QED BY <1>1, <1>2

-----------------------------------------------------------------------------
(* Frames and their blocks.                                                *)

\* Groups are numbered frame by frame, block by block.
IsBlock(gen, frame, block) ==
    gen + BlocksPerFrame = frame * BlocksPerFrame + block + 1

\* A place in a stream is a frame and a block of it, in one way only.
LEMMA OnePlace ==
    ASSUME NEW a \in Int, NEW b \in Int,
           NEW x \in 0 .. BlocksPerFrame - 1, NEW y \in 0 .. BlocksPerFrame - 1,
           a * BlocksPerFrame + x = b * BlocksPerFrame + y
    PROVE  a = b /\ x = y
<1>1. ASSUME NEW m \in Int, NEW n \in Int, m < n
      PROVE  m * BlocksPerFrame + BlocksPerFrame <= n * BlocksPerFrame
  <2>1. n - m - 1 \in Nat /\ BlocksPerFrame \in Nat
    BY <1>1
  <2>2. (n - m - 1) * BlocksPerFrame >= 0
    BY <2>1
  <2>3. (n - m - 1) * BlocksPerFrame
          = n * BlocksPerFrame - m * BlocksPerFrame - BlocksPerFrame
    OBVIOUS
  <2>4. m * BlocksPerFrame \in Int /\ n * BlocksPerFrame \in Int
    OBVIOUS
  <2> QED BY <2>2, <2>3, <2>4
<1>2. a * BlocksPerFrame \in Int /\ b * BlocksPerFrame \in Int
  OBVIOUS
<1>3. ~(a < b)
  <2>1. a < b => a * BlocksPerFrame + BlocksPerFrame <= b * BlocksPerFrame
    BY <1>1
  <2> QED BY <1>2, <2>1
<1>4. ~(b < a)
  <2>1. b < a => b * BlocksPerFrame + BlocksPerFrame <= a * BlocksPerFrame
    BY <1>1
  <2> QED BY <1>2, <2>1
<1>5. a = b
  BY <1>3, <1>4
<1> QED BY <1>2, <1>5

LEMMA NextFrame ==
    ASSUME NEW a \in Int
    PROVE  /\ a * BlocksPerFrame \in Int
           /\ (a + 1) * BlocksPerFrame = a * BlocksPerFrame + BlocksPerFrame
OBVIOUS

\* The sender, the datagrams and the buffered groups are numbered that way.
NumberInv ==
    /\ LET z == packetizer
       IN  z.sent = IF z.block = 0 THEN z.frame * BlocksPerFrame
                    ELSE z.frame * BlocksPerFrame + z.block - BlocksPerFrame
    /\ \A p \in net : IsBlock(p.gen, p.frame, p.block)
    /\ \A g \in GroupIds : Present(depacketizer, g) =>
         LET p == depacketizer.groups[g].header
         IN  IsBlock(p.gen, p.frame, p.block)

\* The receiver counts frames from 0, or from a key frame's own number.
PlaceInv ==
    LET d == depacketizer
    IN  \/ IsBlock(d.current, d.frame, d.block)
        \/ IsBlock(d.current, d.frame + 1, d.block)

LEMMA NumberSteps ==
    /\ Init => NumberInv
    /\ TypeInv /\ NumberInv /\ [Next]_vars => NumberInv'
<1> DEFINE d == depacketizer
           z == packetizer
<1>1. Init => NumberInv
  <2>1. 0 * BlocksPerFrame = 0
    OBVIOUS
  <2> QED BY <2>1 DEF Init, NewStream, NewPacketizer, NewDepacketizer, NumberInv, Present
<1>2. ASSUME TypeInv, NumberInv, NEW idr \in BOOLEAN, Send(idr) PROVE NumberInv'
  <2>1. /\ z.sent \in Int /\ z.frame \in Int /\ z.block \in 0 .. BlocksPerFrame - 1
    BY <1>2, TypeFacts DEF Packetizers
  <2>2. /\ z.frame * BlocksPerFrame \in Int
        /\ (z.frame + 1) * BlocksPerFrame = z.frame * BlocksPerFrame + BlocksPerFrame
    BY <2>1, NextFrame
  <2>3. /\ z'.sent = z.sent + 1
        /\ z'.block = IF z.block + 1 = BlocksPerFrame THEN 0 ELSE z.block + 1
        /\ z'.frame = IF z.block = 0 THEN z.frame + 1 ELSE z.frame
    BY <1>2 DEF Send, NextGroupOf
  <2>4. z.sent = IF z.block = 0 THEN z.frame * BlocksPerFrame
                 ELSE z.frame * BlocksPerFrame + z.block - BlocksPerFrame
    BY <1>2 DEF NumberInv
  <2>5. IsBlock(z'.sent, z'.frame, z.block)
    BY <2>1, <2>2, <2>3, <2>4 DEF IsBlock
  <2>6. z'.sent = IF z'.block = 0 THEN z'.frame * BlocksPerFrame
                  ELSE z'.frame * BlocksPerFrame + z'.block - BlocksPerFrame
    <3> DEFINE F == z'.frame * BlocksPerFrame
    <3>1. F \in Int /\ z'.sent + BlocksPerFrame = F + z.block + 1
      BY <2>1, <2>2, <2>3, <2>5 DEF IsBlock
    <3> HIDE DEF F
    <3>2. z'.sent = IF z'.block = 0 THEN F ELSE F + z'.block - BlocksPerFrame
      BY <2>1, <2>3, <3>1
    <3> QED BY <3>2 DEF F
  <2>7. ASSUME NEW i \in Shards
        PROVE  LET p == PacketOf(z, idr, i) IN IsBlock(p.gen, p.frame, p.block)
    BY <1>2, <2>5 DEF PacketOf, Send
  <2> QED BY <1>2, <2>6, <2>7 DEF NumberInv, Send, UnderWay
<1>3. ASSUME TypeInv, NumberInv, NEW p \in net, Receive(p) PROVE NumberInv'
  <2>1. net' \subseteq net /\ UNCHANGED packetizer
    BY <1>3 DEF Receive, Take
  <2>2. ASSUME NEW g \in GroupIds, Present(d', g)
        PROVE  LET q == d'.groups[g].header IN IsBlock(q.gen, q.frame, q.block)
    <3>1. CASE Present(d, g) /\ d'.groups[g].header = d.groups[g].header
      BY <1>3, <3>1 DEF NumberInv
    <3>2. CASE d'.groups[g].header = p
      BY <1>3, <3>2 DEF NumberInv
    <3>3. \/ Present(d, g) /\ d'.groups[g].header = d.groups[g].header
          \/ d'.groups[g].header = p
      <4>1. \A group \in FecGroups : StoreShard(group, p).header = group.header
        BY DEF StoreShard, FecGroups
      <4>2. NewFecGroup(p).header = p
        BY DEF NewFecGroup
      <4> QED BY <1>3, <2>2, <4>1, <4>2, ReceiveAddsShard
    <3> QED BY <3>1, <3>2, <3>3
  <2> QED BY <1>3, <2>1, <2>2 DEF NumberInv
<1>4. ASSUME TypeInv, NumberInv, [Next]_vars, UNCHANGED <<packetizer, net>>,
             \A p \in net : ~Receive(p)
      PROVE  NumberInv'
  BY <1>4, OthersAddNothing DEF NumberInv, NothingAdded
<1>5. ASSUME TypeInv, NumberInv, [Next]_vars PROVE NumberInv'
  BY <1>2, <1>3, <1>4, <1>5 DEF Next, vars, FecDecode, AwaitGroup, AwaitShards,
     DeliverGroup
<1> QED BY <1>1, <1>5

LEMMA PlaceSteps ==
    ASSUME OneLap
    PROVE  /\ Init => PlaceInv
           /\ LapInv /\ IndexInv /\ LossInv /\ NumberInv /\ PlaceInv /\ [Next]_vars
              => PlaceInv'
<1> DEFINE d == depacketizer
<1>1. Init => PlaceInv
  <2>1. (0 + 1) * BlocksPerFrame = 0 * BlocksPerFrame + BlocksPerFrame
        /\ 0 * BlocksPerFrame = 0
    BY NextFrame
  <2> QED BY <2>1 DEF Init, NewDepacketizer, PlaceInv, IsBlock
<1>2. ASSUME LapInv, IndexInv, LossInv, NumberInv, PlaceInv, [Next]_vars
      PROVE  PlaceInv'
  <2>1. /\ TypeInv /\ d \in Depacketizers /\ d.current \in Nat /\ d.frame \in Nat
        /\ d.block \in 0 .. BlocksPerFrame - 1 /\ packetizer.sent \in 0 .. MaxGroups
    BY <1>2, TypeFacts DEF LapInv, Depacketizers
  <2>2. CASE \A f \in {"current", "block", "frame"} : d'[f] = d[f]
    BY <1>2, <2>2 DEF PlaceInv
  <2>3. ASSUME NEW p \in net, Receive(p), ~Outdated(d, p) PROVE PlaceInv'
    <3> DEFINE j == GetFecDecodeInfo(d, p)
    <3>1. /\ p.gen = p.group
          /\ \A f \in {"current", "block", "frame"} : d'[f] = j[f]
          /\ \/ j = d
             \/ p.block = 0 /\ j.current = p.group /\ j.frame = p.frame /\ j.block = 0
      BY <1>2, <2>3, ReceiveMoves
    <3>2. IsBlock(p.gen, p.frame, p.block)
      BY <1>2 DEF NumberInv
    <3> HIDE DEF j
    <3> QED BY <1>2, <3>1, <3>2 DEF PlaceInv
  <2>4. CASE DeliverGroup
    <3>1. /\ Present(d, d.current)
          /\ d'.current = Wrap(d.current + 1, Half8)
          /\ d'.block = IF d.block + 1 >= BlocksPerFrame THEN 0 ELSE d.block + 1
          /\ d'.frame = IF d.block + 1 >= BlocksPerFrame THEN d.frame + 1 ELSE d.frame
      BY <2>1, <2>4, DeliveryMovesOn
    <3>2. d'.current = d.current + 1
      <4>1. d.current <= packetizer.sent
        BY <1>2, <2>1, <3>1 DEF LapInv, InLap, Depacketizers
      <4> QED BY <2>1, <3>1, <4>1, NextIdInLap DEF OneLap
    <3>3. \A a \in Int : IsBlock(d.current, a, d.block) =>
            IF d.block + 1 >= BlocksPerFrame THEN IsBlock(d.current + 1, a + 1, 0)
            ELSE IsBlock(d.current + 1, a, d.block + 1)
      <4> SUFFICES ASSUME NEW a \in Int, IsBlock(d.current, a, d.block)
                   PROVE  IF d.block + 1 >= BlocksPerFrame
                          THEN IsBlock(d.current + 1, a + 1, 0)
                          ELSE IsBlock(d.current + 1, a, d.block + 1)
        OBVIOUS
      <4> QED BY <2>1, NextFrame DEF IsBlock
    <3>4. d.frame \in Int /\ d.frame + 1 \in Int
      BY <2>1
    <3> QED BY <1>2, <3>1, <3>2, <3>3, <3>4 DEF PlaceInv
  <2>5. CASE AwaitShards
    BY <1>2, <2>2, <2>5, AwaitShardsMoves
  <2>6. CASE UNCHANGED depacketizer
    BY <2>2, <2>6
  <2> QED BY <1>2, <2>3, <2>4, <2>5, <2>6 DEF Next, vars, FecDecode, Send,
             Receive, AwaitGroup
<1> QED BY <1>1, <1>2

\* A group at the receiver's place is of the receiver's frame and block.
LEMMA PlaceIsTracked ==
    ASSUME LapInv, NumberInv, PlaceInv
    PROVE  FrameTracked
<1> DEFINE d == depacketizer
           p == Current(d).header
<1> SUFFICES ASSUME Present(d, d.current)
             PROVE  d.block = p.block /\ p.frame - d.frame \in {0, 1}
  BY DEF FrameTracked
<1>1. /\ d.current \in GroupIds /\ d.current \in Int /\ d.frame \in Int
      /\ d.block \in 0 .. BlocksPerFrame - 1
      /\ p.frame \in Int /\ p.block \in 0 .. BlocksPerFrame - 1
  <2>1. d \in Depacketizers
    BY TypeFacts DEF LapInv
  <2>2. Current(d) \in FecGroups
    BY <2>1 DEF Depacketizers, Present, Current
  <2>3. p \in Packets
    BY <2>2 DEF FecGroups
  <2> QED BY <2>1, <2>3 DEF Depacketizers, Packets, GroupIds, Unsigned
<1>2. p.gen = d.current /\ IsBlock(d.current, p.frame, p.block)
  BY <1>1 DEF LapInv, InLap, Pure, NumberInv, Current
<1>3. ASSUME NEW a \in Int, IsBlock(d.current, a, d.block)
      PROVE  p.frame = a /\ p.block = d.block
  <2> DEFINE F == p.frame * BlocksPerFrame
             A == a * BlocksPerFrame
  <2>1. /\ F \in Int /\ A \in Int
        /\ d.current + BlocksPerFrame = F + p.block + 1
        /\ d.current + BlocksPerFrame = A + d.block + 1
    BY <1>1, <1>2, <1>3 DEF IsBlock
  <2>2. F + p.block = A + d.block
    <3> HIDE DEF F, A
    <3> QED BY <1>1, <2>1
  <2> HIDE DEF p
  <2> QED BY <1>1, <2>2, OnePlace
<1> QED BY <1>1, <1>3 DEF PlaceInv

-----------------------------------------------------------------------------
(* Messages come in turn.                                                  *)

\* Nothing but a delivery moves a message stream.
TurnInv == Kind = "message" => depacketizer.current = output.gen + 1

\* Messages carry no key-frame flag.
NoIdr(p) == Kind # "video" => ~p.idr

IdrInv == NoIdr(packetizer) /\ \A p \in net : NoIdr(p)

LEMMA IdrSteps ==
    /\ Init => IdrInv
    /\ TypeInv /\ IdrInv /\ [Next]_vars => IdrInv'
<1>1. Init => IdrInv
  BY DEF Init, NewStream, NewPacketizer, IdrInv, NoIdr
<1>2. ASSUME TypeInv, IdrInv, NEW idr \in BOOLEAN, Send(idr) PROVE IdrInv'
  <2>1. NoIdr(packetizer')
    BY <1>2 DEF Send, NextGroupOf, IdrInv, NoIdr
  <2>2. \A i \in Shards : NoIdr(PacketOf(packetizer, idr, i))
    BY <1>2, <2>1 DEF Send, PacketOf, NoIdr
  <2> QED BY <1>2, <2>1, <2>2 DEF Send, UnderWay, IdrInv
<1>3. ASSUME IdrInv, UNCHANGED packetizer, net' \subseteq net PROVE IdrInv'
  BY <1>3 DEF IdrInv
<1> QED BY <1>1, <1>2, <1>3 DEF Next, vars, Receive, Take, FecDecode,
           AwaitGroup, AwaitShards, DeliverGroup

LEMMA TurnSteps ==
    ASSUME OneLap
    PROVE  /\ Init => TurnInv
           /\ LapInv /\ IndexInv /\ LossInv /\ IdrInv /\ TurnInv /\ [Next]_vars => TurnInv'
<1> DEFINE d == depacketizer
<1>1. Init => TurnInv
  BY DEF Init, NewStream, NewDepacketizer, TurnInv
<1>2. ASSUME LapInv, IndexInv, LossInv, IdrInv, TurnInv, [Next]_vars, Kind = "message"
      PROVE  TurnInv'
  <2>1. /\ TypeInv /\ d.current \in Nat /\ packetizer.sent \in 0 .. MaxGroups
    BY <1>2, TypeFacts DEF LapInv
  <2>2. CASE d'.current = d.current /\ output' = output
    BY <1>2, <2>2 DEF TurnInv
  <2>3. ASSUME NEW p \in net, Receive(p), ~Outdated(d, p) PROVE TurnInv'
    <3>1. ~p.idr
      BY <1>2 DEF IdrInv, NoIdr
    <3>2. d'.current = d.current
      BY <1>2, <2>3, <3>1, ReceiveMoves
    <3> QED BY <2>2, <2>3, <3>2 DEF Receive
  <2>4. CASE DeliverGroup
    <3>1. /\ Present(d, d.current) /\ d'.current = Wrap(d.current + 1, Half8)
          /\ output'.gen = Current(d).header.gen
      BY <2>1, <2>4, DeliveryMovesOn
    <3>2. d.current \in GroupIds
      BY <2>1, TypeFacts
    <3>3. d.current <= packetizer.sent /\ Current(d).header.gen = d.current
      BY <1>2, <3>1, <3>2 DEF LapInv, InLap, Pure, Current
    <3>4. d'.current = d.current + 1
      BY <2>1, <3>1, <3>3, NextIdInLap DEF OneLap
    <3> QED BY <3>1, <3>3, <3>4 DEF TurnInv
  <2>5. CASE AwaitShards
    BY <1>2, <2>2, <2>5, AwaitShardsMoves DEF AwaitShards
  <2>6. CASE UNCHANGED <<depacketizer, output>>
    BY <2>2, <2>6
  <2> QED BY <1>2, <2>3, <2>4, <2>5, <2>6 DEF Next, vars, FecDecode, Send,
             Receive, AwaitGroup
<1>3. Kind # "message" => TurnInv'
  BY DEF TurnInv
<1> QED BY <1>1, <1>2, <1>3

-----------------------------------------------------------------------------
(* All of it holds throughout a lap.                                       *)

FrameInv ==
    /\ KinInv /\ IndexInv /\ NoPanic
    /\ LossInv /\ NumberInv /\ PlaceInv /\ IdrInv /\ TurnInv

LEMMA FrameInvariance == ASSUME OneLap PROVE Spec => [](LapInv /\ FrameInv)
<1>1. Init => FrameInv
  BY KinSteps, IndexSteps, PanicSteps, LossSteps, NumberSteps, PlaceSteps,
     IdrSteps, TurnSteps DEF FrameInv
<1>2. LapInv /\ FrameInv /\ [Next]_vars => FrameInv'
  <2> SUFFICES ASSUME LapInv, FrameInv, [Next]_vars PROVE FrameInv'
    OBVIOUS
  <2>1. TypeInv
    BY DEF LapInv
  <2>2. KinInv' /\ IndexInv'
    BY KinSteps, IndexSteps DEF FrameInv
  <2>3. NoPanic' /\ LossInv'
    BY PanicSteps, LossSteps DEF FrameInv
  <2>4. NumberInv' /\ PlaceInv' /\ IdrInv' /\ TurnInv'
    BY <2>1, NumberSteps, PlaceSteps, IdrSteps, TurnSteps DEF FrameInv
  <2> QED BY <2>2, <2>3, <2>4 DEF FrameInv
<1> QED BY <1>1, <1>2, LapInvariance, PTL DEF Spec

\* FecDecode never indexes past Packets, whatever the network does to the
\* datagrams.
THEOREM NeverPanics == ASSUME OneLap PROVE Spec => []NoPanic
<1>1. FrameInv => NoPanic
  BY DEF FrameInv
<1> QED BY <1>1, FrameInvariance, PTL

\* The speculative request for a reference frame is never sent.
THEOREM LossGoesUnreported == ASSUME OneLap PROVE Spec => []LossNeverReported
<1>1. FrameInv => LossNeverReported
  BY DEF FrameInv, LossInv
<1> QED BY <1>1, FrameInvariance, PTL

\* The block and frame counters are those of the group under decode, through
\* losses and jumps to key frames.
THEOREM FramesTracked == ASSUME OneLap PROVE Spec => []FrameTracked
<1>1. LapInv /\ FrameInv => FrameTracked
  BY PlaceIsTracked DEF FrameInv
<1> QED BY <1>1, FrameInvariance, PTL

\* Messages come out one after the other: one that is lost stops the stream,
\* and is never left out.
THEOREM MessagesInTurn ==
    ASSUME OneLap, Kind = "message" PROVE Spec => NoGap
<1>1. ASSUME LapInv, FrameInv, FrameInv', [Next]_vars
      PROVE  output' # output => output'.gen = output.gen + 1
  <2>1. TypeInv /\ TypeInv'
    BY <1>1, NextType DEF LapInv
  <2>2. CASE DeliverGroup
    <3>1. output'.gen = Current(depacketizer).header.gen
          /\ Present(depacketizer, depacketizer.current)
      BY <2>1, <2>2, DeliveryMovesOn
    <3>2. depacketizer.current \in GroupIds
      BY <2>1, TypeFacts
    <3>3. output'.gen = depacketizer.current
      BY <1>1, <3>1, <3>2 DEF LapInv, InLap, Pure, Current
    <3> QED BY <1>1, <3>3 DEF FrameInv, TurnInv
  <2>3. CASE output' = output
    BY <2>3
  <2> QED BY <1>1, <2>2, <2>3 DEF Next, vars, FecDecode, Send, Receive,
             AwaitGroup, AwaitShards
<1> QED BY <1>1, FrameInvariance, PTL DEF Spec, NoGap

-----------------------------------------------------------------------------
(* What a group leaves the buffer for.                                     *)

\* The group a packet was put in has the packet's own key-frame flag.
LEMMA ReceivedFlag ==
    ASSUME LapInv, KinInv, NEW p \in net, Receive(p), Present(depacketizer', p.group)
    PROVE  depacketizer'.groups[p.group].header.idr = p.idr
           \/ UNCHANGED depacketizer
<1> DEFINE d == depacketizer
           h == d'.groups[p.group]
<1>1. p \in Packets /\ p.group \in GroupIds /\ TypeInv /\ p.group = p.gen
  BY TypeFacts DEF LapInv, NetInLap, OfLap
<1>2. \A group \in FecGroups : StoreShard(group, p).header = group.header
  BY DEF StoreShard, FecGroups
<1>3. \/ h.header = p
      \/ Present(d, p.group) /\ h.header = d.groups[p.group].header
  <2>1. NewFecGroup(p).header = p
    BY DEF NewFecGroup
  <2> QED BY <1>1, <1>2, <2>1, ReceiveAddsShard
<1>4. Present(d, p.group) => d.groups[p.group].header.idr = p.idr
  BY <1>1 DEF KinInv, Kin, LapInv, InLap, Pure
<1> QED BY <1>3, <1>4

\* A group leaves the buffer for its delivery or for a newer key frame.
THEOREM GroupsLeaveForNewer == ASSUME OneLap PROVE Spec => LeavesForNewer
<1> DEFINE d == depacketizer
<1>1. ASSUME LapInv, FrameInv, [Next]_vars,
             NEW g \in GroupIds, Present(d, g), ~Present(d', g)
      PROVE  \/ output' # output /\ output'.gen = d.groups[g].header.gen
             \/ /\ Present(d', d'.current)
                /\ Current(d').header.gen > d.groups[g].header.gen
                /\ Current(d').header.idr
  <2>1. /\ TypeInv /\ Good(d) /\ d \in Depacketizers /\ d.current \in GroupIds
        /\ d.groups[g].header.gen = g /\ LapInv'
    BY <1>1, NextLap, TypeFacts DEF LapInv, InLap, Pure
  <2>2. d' \in Depacketizers
    BY <2>1 DEF LapInv, TypeInv, StreamInv, StreamTypeOK
  <2>3. \A x \in GroupIds : Present(d', x) => d'.groups[x].header.gen = x
    BY <2>1 DEF LapInv, InLap, Pure
  <2>4. CASE DeliverGroup
    <3>1. d'.groups = DropGroups(d, {d.current}) /\ Present(d, d.current)
          /\ output'.gen = Current(d).header.gen
      BY <2>1, <2>4, DeliveryMovesOn
    <3>2. g = d.current
      BY <1>1, <3>1 DEF DropGroups, Present
    <3>3. output'.gen = g /\ output.gen < g
      BY <1>1, <2>1, <3>1, <3>2 DEF Current, LapInv
    <3> QED BY <2>1, <3>3 DEF GroupIds, Unsigned
  <2>5. ASSUME NEW p \in net, Receive(p)
        PROVE  /\ Present(d', d'.current)
               /\ Current(d').header.gen > g
               /\ Current(d').header.idr
    <3> DEFINE j == GetFecDecodeInfo(d, p)
    <3>1. ~Outdated(d, p)
      BY <1>1, <2>5 DEF Receive
    <3>2. /\ p \in Packets /\ p.gen # 0 /\ Good(j)
          /\ d' = RtpAddPacket(j, p) /\ Present(d', p.group)
          /\ d'.current = j.current
          /\ \/ j = d
             \/ /\ p.idr /\ d.current < p.group /\ j.current = p.group
                /\ j.groups = DropGroups(d, Discarded(d.current, p.group))
      BY <1>1, <2>5, <3>1, ReceiveMoves
    <3> HIDE DEF j
    <3>3. g # p.group /\ ~Present(j, g)
      BY <1>1, <3>2, RtpAddPacketGroups DEF Present
    <3>4. /\ p.idr /\ d.current < p.group /\ j.current = p.group /\ p.group \in GroupIds
          /\ g \in Discarded(d.current, p.group)
      BY <1>1, <3>2, <3>3 DEF Present, DropGroups, Packets
    <3>5. g < p.group
      BY <2>1, <3>4, DiscardedInLap DEF GroupIds, Unsigned
    <3>6. d'.groups[p.group].header.idr
      BY <1>1, <2>5, <3>2, <3>4, ReceivedFlag DEF FrameInv
    <3>7. d'.groups[p.group].header.gen > g
      BY <2>3, <3>2, <3>4, <3>5 DEF GroupIds, Unsigned
    <3> QED BY <3>2, <3>4, <3>6, <3>7 DEF Current
  <2>6. CASE AwaitShards
    <3>1. d'.groups = d.groups
      BY <1>1, <2>6, AwaitShardsMoves DEF FrameInv
    <3> QED BY <1>1, <3>1 DEF Present
  <2>7. CASE UNCHANGED depacketizer
    BY <1>1, <2>7
  <2> QED BY <1>1, <2>1, <2>4, <2>5, <2>6, <2>7 DEF Next, vars,
             FecDecode, Send, AwaitGroup
<1>2. LapInv /\ FrameInv /\ [Next]_vars =>
        [\A g \in GroupIds :
           Present(depacketizer, g) /\ ~Present(depacketizer', g) =>
             LET e == depacketizer'
                 gen == depacketizer.groups[g].header.gen
             IN  \/ output' # output /\ output'.gen = gen
                 \/ /\ Present(e, e.current)
                    /\ Current(e).header.gen > gen
                    /\ Current(e).header.idr]_vars
  BY <1>1
<1> QED BY <1>2, FrameInvariance, PTL DEF Spec, LeavesForNewer

=============================================================================
