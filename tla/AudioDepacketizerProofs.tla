------------------------ MODULE AudioDepacketizerProofs -----------------------
(***************************************************************************)
(* Proofs about AudioDepacketizer, the receiver of audio, for every value  *)
(* of the constants: its type invariant and, as long as the uint8 group    *)
(* ids do not come round (AudioLap), that groups are never mixed and that  *)
(* the stream implements FecDelivery, wherever the opener interferes; and  *)
(* for a client, where it does not, that none is delivered late, that the  *)
(* decode loop never panics, and that groups leave the buffer only for     *)
(* newer ones.                                                             *)
(***************************************************************************)
EXTENDS AudioDepacketizer, FecStreamProofs

USE FecStreamAssumption, AudioAssumption DEF ConstantsAssumption

-----------------------------------------------------------------------------
(* What the jumps do to the receiver.                                      *)

\* Groups are deleted.
LEMMA DroppedGood ==
    ASSUME NEW d, Good(d), NEW ids, NEW e,
           e = [d EXCEPT !.groups = DropGroups(d, ids)]
    PROVE  /\ Good(e) /\ NothingAdded(d, e) /\ e.current = d.current
           /\ e.groups = DropGroups(d, ids)
<1>1. /\ DropGroups(d, ids) \in [GroupIds -> FecGroups \cup {NoGroup}]
      /\ d \in Depacketizers
  BY DropGroupsType DEF Good
<1>2. e \in Depacketizers /\ e.groups = DropGroups(d, ids) /\ e.current = d.current
  BY <1>1 DEF Depacketizers
<1> QED BY <1>2, DropAddsNothing, DropGroupsGood

\* CurrentGroupId is set.
LEMMA SetGood ==
    ASSUME NEW d, Good(d), NEW c \in GroupIds, NEW e, e = [d EXCEPT !.current = c]
    PROVE  /\ Good(e) /\ NothingAdded(d, e) /\ e.current = c
           /\ e.groups = d.groups
<1>1. e \in Depacketizers /\ e.groups = d.groups /\ e.current = c
  BY DEF Good, Depacketizers
<1> QED BY <1>1 DEF Good, Counted, NothingAdded, Present

\* Both.
LEMMA JumpGood ==
    ASSUME NEW d, Good(d), NEW g \in GroupIds
    PROVE  /\ Good(JumpToNextGroup(d, g))
           /\ JumpToNextGroup(d, g).current = IF IsBefore8(d.current, g) THEN g
                                              ELSE d.current
           /\ NothingAdded(d, JumpToNextGroup(d, g))
<1> DEFINE ids == Discarded(d.current, g)
           e == [d EXCEPT !.groups = DropGroups(d, ids)]
<1>1. Good(e) /\ NothingAdded(d, e)
  BY DroppedGood
<1>2. /\ Good([e EXCEPT !.current = g]) /\ NothingAdded(e, [e EXCEPT !.current = g])
      /\ [e EXCEPT !.current = g].current = g
  <2> HIDE DEF e
  <2> QED BY <1>1, SetGood
<1>3. [e EXCEPT !.current = g] =
        [d EXCEPT !.groups = DropGroups(d, ids), !.current = g]
  OBVIOUS
<1>4. NothingAdded(d, [e EXCEPT !.current = g]) /\ NothingAdded(d, d)
  BY <1>1, <1>2 DEF NothingAdded
<1> QED BY <1>1, <1>2, <1>3, <1>4 DEF JumpToNextGroup

LEMMA TargetType ==
    ASSUME NEW c \in GroupIds, NEW g \in GroupIds
    PROVE  Target(c, g) \in Nat
BY DEF Target, GroupIds, Unsigned

-----------------------------------------------------------------------------
(* Type correctness.                                                       *)

\* TypeOK is not inductive for the reasons StreamInv gives, and because the
\* packet to be stored and the group to be handed over are there.
TypeInv ==
    /\ StreamInv
    /\ TypeOK
    /\ pc = "store" => packet.gen # 0
    /\ pc = "group" => /\ next # NoGroup
                       /\ next.received = Cardinality(Arrived(next))

\* What TypeInv says of the receiver.
LEMMA TypeFacts ==
    ASSUME TypeInv
    PROVE  /\ Good(depacketizer) /\ depacketizer \in Depacketizers
           /\ depacketizer.current \in GroupIds
           /\ depacketizer.groups \in [GroupIds -> FecGroups \cup {NoGroup}]
           /\ packet \in Packets /\ packet.group \in GroupIds
           /\ packet.gen \in Nat
           /\ packetizer.sent \in 0 .. MaxGroups /\ output.gen \in Nat
           /\ seen \in GroupIds
           /\ next # NoGroup => next \in FecGroups
           /\ \A p \in net : p \in Packets /\ p.gen # 0
BY DEF TypeInv, StreamInv, TypeOK, StreamTypeOK, Good, Depacketizers, Packets,
       Packetizers, Outputs

LEMMA InitType == Init => TypeInv
<1>1. ASSUME Init PROVE TypeInv
  <2>1. Good(depacketizer)
    <3>1. depacketizer \in {NewDepacketizer, JumpToNextGroup(NewDepacketizer, SkipTo)}
      BY <1>1 DEF Init
    <3>2. Good(JumpToNextGroup(NewDepacketizer, SkipTo))
      BY NewDepacketizerGood, JumpGood
    <3> QED BY <3>1, <3>2, NewDepacketizerGood
  <2>2. StreamInv
    BY <1>1, <2>1, NewStreamType DEF Init
  <2> QED BY <1>1, <2>2, GroupIdFacts
          DEF TypeInv, TypeOK, StreamInv, Init, NewStream, NoLoop
<1> QED BY <1>1

\* A step that keeps the network, the sender and the receiver well typed.
LEMMA ReceiverStep ==
    ASSUME TypeInv, Good(depacketizer'), packet' \in Packets, output' \in Outputs,
           packetizer' = packetizer, net' \subseteq net
    PROVE  StreamInv' /\ StreamTypeOK'
BY DEF TypeInv, StreamInv, StreamTypeOK, Good, Counted

LEMMA NoPacketType == NoPacket \in Packets
BY GroupIdFacts DEF NoPacket, Packets, Shards, TotalShards

\* What a delivery does, whether the group is complete or has expired.
LEMMA HandOverType ==
    ASSUME TypeInv, pc = "group", NEW shards \in [Shards -> Contents],
           NEW decoded \in BOOLEAN, HandOver(shards, decoded)
    PROVE  TypeInv'
<1>1. next \in FecGroups
  BY TypeFacts DEF TypeInv
<1>2. output' \in Outputs
  BY <1>1, HandedType DEF HandOver
<1>3. Good(depacketizer')
  BY TypeFacts, DroppedGood DEF HandOver
<1>4. StreamInv'
  BY <1>2, <1>3, TypeFacts, ReceiverStep DEF HandOver
<1> QED BY <1>4, TypeFacts DEF HandOver, TypeInv, TypeOK, StreamInv

LEMMA DeliveryType ==
    ASSUME TypeInv, DeliverGroup \/ SkipExpired
    PROVE  TypeInv'
<1>1. next \in FecGroups
  BY TypeFacts DEF TypeInv, DeliverGroup, SkipExpired
<1>2. ZeroFill(next.shards) \in [Shards -> Contents]
      /\ Decoded(next) \in [Shards -> Contents]
  BY <1>1, DeliveredType
<1> QED BY <1>2, HandOverType DEF DeliverGroup, SkipExpired

\* The steps of the datagram goroutine.
LEMMA DatagramType ==
    ASSUME TypeInv, (\E p \in net : GetFecDecodeInfo(p)) \/ FecDecode
    PROVE  TypeInv'
<1>1. ASSUME NEW p \in net, GetFecDecodeInfo(p)
      PROVE  TypeInv'
  <2>1. net' \subseteq net /\ packet' \in {packet, p}
    BY <1>1 DEF GetFecDecodeInfo, Take
  <2>2. StreamInv'
    BY <1>1, <2>1, TypeFacts, ReceiverStep
       DEF GetFecDecodeInfo, TypeInv, StreamInv, StreamTypeOK
  <2> QED BY <1>1, <2>2, TypeFacts
          DEF GetFecDecodeInfo, TypeInv, TypeOK, StreamInv, race
<1>2. CASE AddPacket
  <2>1. Good(depacketizer')
    BY <1>2, TypeFacts, PutPacketGood DEF AddPacket, TypeInv
  <2>2. StreamInv'
    BY <1>2, <2>1, TypeFacts, ReceiverStep
       DEF AddPacket, TypeInv, StreamInv, StreamTypeOK
  <2> QED BY <1>2, <2>2 DEF AddPacket, TypeInv, TypeOK, StreamInv, race
<1>3. CASE LookUpCurrent
  <2>1. StreamInv'
    BY <1>3, TypeFacts, ReceiverStep
       DEF LookUpCurrent, TypeInv, StreamInv, StreamTypeOK
  <2>2. next' \in FecGroups \cup {NoGroup}
    BY <1>3, TypeFacts DEF LookUpCurrent
  <2>3. pc' = "group" => next' # NoGroup /\ next'.received = Cardinality(Arrived(next'))
    BY <1>3, TypeFacts DEF LookUpCurrent, Good, Counted, Present
  <2> QED BY <1>3, <2>1, <2>2, <2>3 DEF LookUpCurrent, TypeInv, TypeOK, StreamInv
<1>4. CASE CompareWithCurrent \/ LookUpOwnGroup
  <2>1. packet' \in Packets /\ depacketizer' = depacketizer /\ output' = output
        /\ packetizer' = packetizer /\ net' = net
    BY <1>4, TypeFacts, NoPacketType
       DEF CompareWithCurrent, LookUpOwnGroup, Break, Panic
  <2>2. StreamInv'
    BY <2>1, TypeFacts, ReceiverStep DEF TypeInv, StreamInv, StreamTypeOK
  <2> QED BY <1>4, <2>2 DEF CompareWithCurrent, LookUpOwnGroup, Break, Panic,
             TypeInv, TypeOK, StreamInv, race
<1>5. CASE AimAtOwnGroup
  <2>1. StreamInv'
    BY <1>5, TypeFacts, ReceiverStep
       DEF AimAtOwnGroup, TypeInv, StreamInv, StreamTypeOK
  <2> QED BY <1>5, <2>1, TypeFacts DEF AimAtOwnGroup, TypeInv, TypeOK, StreamInv
<1>6. CASE DropOlder \/ MoveToOwnGroup
  <2>1. Good(depacketizer')
    BY <1>6, TypeFacts, DroppedGood, SetGood DEF DropOlder, MoveToOwnGroup
  <2>2. StreamInv'
    BY <1>6, <2>1, TypeFacts, ReceiverStep
       DEF DropOlder, MoveToOwnGroup, TypeInv, StreamInv, StreamTypeOK
  <2> QED BY <1>6, <2>2, GroupIdFacts
          DEF DropOlder, MoveToOwnGroup, TypeInv, TypeOK, StreamInv, race
<1>7. CASE AwaitShards
  <2>1. StreamInv'
    BY <1>7, TypeFacts, NoPacketType, ReceiverStep
       DEF AwaitShards, Break, TypeInv, StreamInv, StreamTypeOK
  <2> QED BY <1>7, <2>1 DEF AwaitShards, Break, TypeInv, TypeOK, StreamInv
<1>8. CASE DeliverGroup \/ SkipExpired
  BY <1>8, DeliveryType
<1>9. CASE Advance
  <2>1. \A read \in {seen, depacketizer.current} : Wrap(read + 1, Half8) \in GroupIds
    BY TypeFacts, GroupIdFacts
  <2>2. Good(depacketizer')
    BY <1>9, <2>1, TypeFacts, SetGood DEF Advance
  <2>3. StreamInv'
    BY <1>9, <2>2, TypeFacts, ReceiverStep
       DEF Advance, TypeInv, StreamInv, StreamTypeOK
  <2> QED BY <1>9, <2>3, GroupIdFacts DEF Advance, TypeInv, TypeOK, StreamInv
<1> QED BY <1>1, <1>2, <1>3, <1>4, <1>5, <1>6, <1>7, <1>8, <1>9 DEF FecDecode

Opener == InitFecParam \/ AimAtStart \/ StartAtCurrent \/ DropPassed \/ ArriveAtStart

\* The steps of the opener leave the datagram goroutine where it is.
LEMMA OpenerType ==
    ASSUME TypeInv, Opener
    PROVE  /\ TypeInv' /\ opener # "none" /\ opener' # "none"
           /\ NothingAdded(depacketizer, depacketizer')
           /\ depacketizer'.current \in {depacketizer.current, SkipTo}
           /\ UNCHANGED <<packetizer, net, pc, packet, output, next, seen>>
<1>1. /\ opener # "none" /\ opener' # "none"
      /\ opener' \in {"rest", "aim", "start", "drop"}
      /\ UNCHANGED <<packetizer, net, pc, packet, output, next, seen>>
  BY DEF Opener, InitFecParam, AimAtStart, StartAtCurrent, DropPassed, ArriveAtStart
<1>2. /\ Good(depacketizer')
      /\ NothingAdded(depacketizer, depacketizer')
      /\ depacketizer'.current \in {depacketizer.current, SkipTo}
  <2>1. CASE UNCHANGED depacketizer
    BY <2>1, TypeFacts DEF NothingAdded
  <2>2. CASE DropPassed
    BY <2>2, TypeFacts, DroppedGood DEF DropPassed
  <2>3. CASE ArriveAtStart
    BY <2>3, TypeFacts, SetGood DEF ArriveAtStart
  <2> QED BY <2>1, <2>2, <2>3 DEF Opener, InitFecParam, AimAtStart, StartAtCurrent
<1>3. loop' \in [at : Nat, end : Nat]
  <2>1. loop \in [at : Nat, end : Nat] /\ depacketizer.current \in Nat
    BY TypeFacts DEF TypeInv, TypeOK, GroupIds, Unsigned
  <2>2. Target(depacketizer.current, SkipTo) \in Nat
    BY TypeFacts, TargetType
  <2> QED BY <2>1, <2>2 DEF Opener, InitFecParam, AimAtStart, StartAtCurrent,
             DropPassed, ArriveAtStart, NoLoop
<1>4. StreamInv'
  BY <1>1, <1>2, TypeFacts, ReceiverStep DEF TypeInv, StreamInv, StreamTypeOK
<1>5. TypeInv'
  BY <1>1, <1>3, <1>4 DEF TypeInv, TypeOK, StreamInv
<1> QED BY <1>1, <1>2, <1>5

LEMMA NextType == TypeInv /\ [Next]_vars => TypeInv'
<1>1. ASSUME TypeInv, NEW idr \in BOOLEAN, Send(idr), UNCHANGED race
      PROVE  TypeInv'
  <2>1. StreamInv'
    BY <1>1, SendKeepsStream DEF TypeInv
  <2> QED BY <1>1, <2>1 DEF Send, race, TypeInv, TypeOK, StreamInv, Arrived
<1>2. ASSUME TypeInv, UNCHANGED vars
      PROVE  TypeInv'
  BY <1>2 DEF vars, TypeInv, TypeOK, StreamInv, StreamTypeOK, Counted, Present, Arrived
<1> QED BY <1>1, <1>2, DatagramType, OpenerType DEF Next, Opener

\* Every variable keeps its type: no id leaves its uint8 and no counter its
\* range, wherever the opener interferes.
THEOREM TypeCorrect == Spec => []TypeOK
<1>1. TypeInv => TypeOK
  BY DEF TypeInv
<1> QED BY InitType, NextType, <1>1, PTL DEF Spec

-----------------------------------------------------------------------------
(* Within a lap.                                                           *)

\* The sender does not come round the ring of ids, and neither the reach of
\* a late datagram nor the first jump spans half of it.
AudioLap == /\ MaxGroups < 2 * Half8 - 1
            /\ Window < Half8
            /\ SkipTo < Half8

Holding == pc \notin {"idle", "crashed"}

\* Group x has been sent, and is in reach of the packet that is worked on.
Reached(x) == /\ 1 <= x /\ x <= packetizer.sent
              /\ Holding => x < packet.gen + Window

\* Group x may be delivered next.
InTurn(x) == \/ x > output.gen
             \/ opener # "none" /\ x >= SkipTo /\ output.gen >= SkipTo

\* CurrentGroupId x is g still, or the opener has moved it.
StillAt(x, g) == x = g \/ (opener # "none" /\ x = SkipTo)

LapInv ==
    /\ NetInLap
    /\ Holding => OfLap(packet, packetizer.sent)
    /\ \A g \in GroupIds : Present(depacketizer, g) =>
         Pure(depacketizer.groups[g], g) /\ Reached(g)
    /\ depacketizer.current <= SkipTo + 1 \/ Reached(depacketizer.current - 1)
    /\ pc # "advance" => InTurn(depacketizer.current)
    /\ pc \in {"ahead", "jump", "drop", "move"} => InTurn(packet.group)
    /\ pc = "group" =>
         LET g == next.header.gen
         IN  /\ Pure(next, g) /\ Reached(g) /\ InTurn(g)
             /\ StillAt(depacketizer.current, g)
    /\ pc = "advance" =>
         /\ Reached(output.gen)
         /\ StillAt(seen, output.gen)
         /\ StillAt(depacketizer.current, output.gen)

\* An id below the successor of a group within reach is no more than a
\* window ahead of the packet.
LEMMA Arithmetic ==
    ASSUME AudioLap, TypeInv, LapInv, pc # "idle", pc # "crashed"
    PROVE  /\ depacketizer.current - packet.group < Half8
           /\ packet.group = packet.gen /\ 1 <= packet.group
           /\ Reached(packet.group)
           /\ IsBefore8(depacketizer.current, packet.group) =>
                depacketizer.current < packet.group
<1>1. /\ depacketizer.current \in Nat /\ packet.gen \in Nat /\ SkipTo \in Nat
      /\ depacketizer.current \in GroupIds /\ packet.group \in GroupIds
  BY TypeFacts DEF GroupIds, Unsigned
<1>2. packet.group = packet.gen /\ 1 <= packet.gen /\ packet.gen <= packetizer.sent
  BY DEF LapInv, Holding, OfLap
<1>3. depacketizer.current <= SkipTo + 1
      \/ depacketizer.current - 1 < packet.gen + Window
  BY DEF LapInv, Reached, Holding
<1>4. depacketizer.current - packet.group < Half8
  BY <1>1, <1>2, <1>3 DEF AudioLap
<1>5. Reached(packet.group)
  BY <1>1, <1>2 DEF Reached
<1> QED BY <1>1, <1>2, <1>4, <1>5, BeforeIsLess

\* The groups LapInv speaks of are integers.
LEMMA Integral ==
    ASSUME TypeInv
    PROVE  /\ depacketizer.current \in Int /\ depacketizer.current - 1 \in Int
           /\ GroupIds \subseteq Int /\ output.gen \in Int
           /\ pc = "group" => next.header.gen \in Int
BY TypeFacts DEF TypeInv, GroupIds, Unsigned, FecGroups, Packets

\* A step that sends nothing, takes no packet and stores nothing.
LEMMA LapKept ==
    ASSUME TypeInv, LapInv, NothingAdded(depacketizer, depacketizer'),
           UNCHANGED packetizer, net' \subseteq net,
           Holding' => Holding /\ packet' = packet
    PROVE  /\ NetInLap'
           /\ Holding' => OfLap(packet', packetizer'.sent)
           /\ \A g \in GroupIds : Present(depacketizer', g) =>
                Pure(depacketizer'.groups[g], g) /\ Reached(g)'
           /\ \A x \in Int : Reached(x) => Reached(x)'
<1>1. \A x \in Int : Reached(x) => Reached(x)'
  BY DEF Reached
<1>2. NetInLap'
  BY DEF LapInv, NetInLap
<1>3. \A g \in GroupIds : Present(depacketizer', g) =>
        Pure(depacketizer'.groups[g], g) /\ Reached(g)'
  BY <1>1, Integral DEF LapInv, NothingAdded
<1> QED BY <1>1, <1>2, <1>3 DEF LapInv

\* A group that is in turn stays so while nothing is handed over.
LEMMA InTurnKept ==
    ASSUME UNCHANGED <<output, opener>>, NEW x, InTurn(x)
    PROVE  InTurn(x)'
BY DEF InTurn

\* The opener may take the stream to SkipTo at any time.
LEMMA StartInTurn ==
    ASSUME TypeInv, opener # "none"
    PROVE  InTurn(SkipTo)
BY TypeFacts DEF InTurn, GroupIds, Unsigned

LEMMA InitLap == AudioLap /\ Init => LapInv
<1>1. ASSUME AudioLap, Init PROVE LapInv
  <2>1. /\ depacketizer.current \in {1, SkipTo} /\ (opener # "none" => depacketizer.current = 1)
        /\ \A g \in GroupIds : ~Present(depacketizer, g)
    <3>1. /\ NewDepacketizer.current = 1
          /\ \A g \in GroupIds : ~Present(NewDepacketizer, g)
      BY DEF NewDepacketizer, Present
    <3>2. /\ JumpToNextGroup(NewDepacketizer, SkipTo).current \in {1, SkipTo}
          /\ \A g \in GroupIds : ~Present(JumpToNextGroup(NewDepacketizer, SkipTo), g)
      BY <3>1, NewDepacketizerGood, JumpGood DEF NothingAdded
    <3> QED BY <1>1, <3>1, <3>2 DEF Init
  <2>2. IsBefore8(1, SkipTo) => SkipTo > 0
    BY <1>1, GroupIdFacts, BeforeIsLess DEF AudioLap, GroupIds, Unsigned
  <2>3. depacketizer.current > 0
    <3>1. NewDepacketizer.current = 1
      BY DEF NewDepacketizer
    <3> QED BY <1>1, <2>2, <3>1, NewDepacketizerGood, JumpGood DEF Init
  <2>4. /\ pc = "idle" /\ output.gen = 0 /\ net = {}
        /\ packetizer.group = 0 /\ packetizer.sent = 0
    BY <1>1 DEF Init, NewStream, NewPacketizer
  <2>5. depacketizer.current <= SkipTo + 1 /\ InTurn(depacketizer.current)
    BY <2>1, <2>3, <2>4 DEF InTurn, GroupIds, Unsigned
  <2> QED BY <2>1, <2>4, <2>5 DEF LapInv, NetInLap, Holding
<1> QED BY <1>1

LEMMA SendLap ==
    ASSUME AudioLap, TypeInv, LapInv, NEW idr \in BOOLEAN, Send(idr), UNCHANGED race
    PROVE  LapInv'
<1>1. NetInLap' /\ packetizer'.sent = packetizer.sent + 1
  BY SendKeepsNetInLap DEF AudioLap, TypeInv, LapInv
<1>2. UNCHANGED <<depacketizer, pc, packet, output, next, seen, opener>>
  BY DEF Send, race
<1>3. \A x \in Int : Reached(x) => Reached(x)'
  BY <1>1, <1>2, TypeFacts DEF Reached, Holding
<1>4. \A x : InTurn(x) <=> InTurn(x)'
  BY <1>2 DEF InTurn
<1>5. Holding' => OfLap(packet', packetizer'.sent)
  BY <1>1, <1>2, TypeFacts DEF LapInv, OfLap, Holding
<1> QED BY <1>1, <1>2, <1>3, <1>4, <1>5, Integral DEF LapInv, StillAt

LEMMA FilterLap ==
    ASSUME AudioLap, TypeInv, LapInv, NEW p \in net, GetFecDecodeInfo(p)
    PROVE  LapInv'
<1>1. UNCHANGED <<packetizer, depacketizer, output, next, seen, opener>>
      /\ net' \subseteq net
  BY DEF GetFecDecodeInfo, Take, race
<1>2. /\ pc = "idle"
      /\ UNCHANGED <<pc, packet>> \/ (pc' = "store" /\ packet' = p)
  BY DEF GetFecDecodeInfo
<1>3. OfLap(p, packetizer.sent) /\ p.gen + Window > packetizer.sent
  BY DEF LapInv, NetInLap
<1>4. \A x \in Int : Reached(x) => Reached(x)'
  <2>1. ASSUME NEW x \in Int, Reached(x) PROVE Reached(x)'
    <3>1. packetizer.sent \in Nat /\ p.gen \in Nat
      BY TypeFacts DEF Packets
    <3>2. x <= packetizer.sent /\ 1 <= x
      BY <2>1 DEF Reached
    <3> QED BY <1>1, <1>2, <1>3, <3>1, <3>2 DEF Reached, Holding
  <2> QED BY <2>1
<1>5. \A x : InTurn(x) <=> InTurn(x)'
  BY <1>1 DEF InTurn
<1>6. NetInLap' /\ (Holding' => OfLap(packet', packetizer'.sent))
  BY <1>1, <1>2, <1>3 DEF LapInv, NetInLap, Holding
<1> QED BY <1>1, <1>2, <1>4, <1>5, <1>6, Integral DEF LapInv, Holding

LEMMA AddPacketLap ==
    ASSUME AudioLap, TypeInv, LapInv, AddPacket
    PROVE  LapInv'
<1> DEFINE d == depacketizer
           e == PutPacket(d, packet)
<1>1. /\ UNCHANGED <<packetizer, net, packet, output, next, seen, opener>>
      /\ depacketizer' = e /\ pc = "store" /\ pc' = "decode"
  BY DEF AddPacket, race
<1>2. /\ packet.gen # 0 /\ packet.group = packet.gen /\ Reached(packet.group)
      /\ packet \in Packets /\ packet.group \in GroupIds /\ Good(d)
  BY <1>1, Arithmetic, TypeFacts DEF TypeInv
<1>3. /\ e.current = d.current
      /\ \A g \in GroupIds \ {packet.group} : e.groups[g] = d.groups[g]
  BY <1>2, PutPacketGood
<1>4. Pure(e.groups[packet.group], packet.group)
  BY <1>2, PutPacketPure DEF LapInv
<1>5. \A x : (Reached(x) <=> Reached(x)') /\ (InTurn(x) <=> InTurn(x)')
  BY <1>1 DEF Reached, InTurn, Holding
<1> HIDE DEF e
<1>6. \A g \in GroupIds : Present(depacketizer', g) =>
        Pure(depacketizer'.groups[g], g) /\ Reached(g)'
  <2>1. ASSUME NEW g \in GroupIds, Present(e, g)
        PROVE  Pure(e.groups[g], g) /\ Reached(g)
    <3>1. CASE g = packet.group
      BY <1>2, <1>4, <3>1
    <3>2. CASE g # packet.group
      BY <1>3, <2>1, <3>2 DEF LapInv, Present
    <3> QED BY <3>1, <3>2
  <2> QED BY <1>1, <1>5, <2>1
<1> QED BY <1>1, <1>3, <1>5, <1>6 DEF LapInv, NetInLap, Holding

LEMMA LookUpLap ==
    ASSUME AudioLap, TypeInv, LapInv,
           LookUpCurrent \/ CompareWithCurrent \/ LookUpOwnGroup \/ AwaitShards
    PROVE  LapInv'
<1>1. /\ UNCHANGED <<packetizer, net, depacketizer, output, seen, opener>>
      /\ Holding' => Holding /\ packet' = packet
      /\ pc # "idle" /\ pc # "crashed" /\ pc # "advance"
  BY DEF LookUpCurrent, CompareWithCurrent, LookUpOwnGroup, AwaitShards,
         Break, Panic, Holding, race
<1>2. /\ NetInLap'
      /\ Holding' => OfLap(packet', packetizer'.sent)
      /\ \A g \in GroupIds : Present(depacketizer', g) =>
           Pure(depacketizer'.groups[g], g) /\ Reached(g)'
      /\ \A x \in Int : Reached(x) => Reached(x)'
  BY <1>1, LapKept DEF NothingAdded
<1>3. \A x : InTurn(x) <=> InTurn(x)'
  BY <1>1 DEF InTurn
<1>4. (depacketizer.current <= SkipTo + 1 \/ Reached(depacketizer.current - 1))'
      /\ InTurn(depacketizer.current)'
  BY <1>1, <1>2, <1>3, Integral DEF LapInv
<1>5. pc' \in {"ahead", "jump", "drop", "move"} => InTurn(packet.group)' /\ packet' = packet
  <2>1. CASE CompareWithCurrent
    <3>1. pc' = "ahead" => depacketizer.current < packet.group /\ packet' = packet
      BY <1>1, <2>1, Arithmetic DEF CompareWithCurrent, Break
    <3>2. InTurn(depacketizer.current) /\ packet.group \in Int
      BY <1>1, TypeFacts, Integral DEF LapInv
    <3>3. pc' = "ahead" => InTurn(packet.group)
      BY <3>1, <3>2, Integral, TypeFacts DEF InTurn, TypeInv, GroupIds, Unsigned
    <3>4. pc' \in {"idle", "ahead"}
      BY <2>1 DEF CompareWithCurrent, Break
    <3> QED BY <1>3, <3>1, <3>3, <3>4
  <2>2. CASE LookUpOwnGroup
    BY <1>3, <2>2 DEF LookUpOwnGroup, Break, Panic, LapInv
  <2>3. CASE LookUpCurrent \/ AwaitShards
    BY <2>3 DEF LookUpCurrent, AwaitShards, Break
  <2> QED BY <2>1, <2>2, <2>3, <1>1
<1>6. (pc = "group" => LET g == next.header.gen
                        IN  /\ Pure(next, g) /\ Reached(g) /\ InTurn(g)
                            /\ StillAt(depacketizer.current, g))'
  <2>1. CASE LookUpCurrent
    <3>1. pc' = "group" => /\ next' = depacketizer.groups[depacketizer.current]
                           /\ Present(depacketizer, depacketizer.current)
      BY <2>1 DEF LookUpCurrent
    <3>2. pc' = "group" => /\ Pure(next', depacketizer.current)
                           /\ Reached(depacketizer.current)
      BY <3>1, TypeFacts DEF LapInv
    <3>3. pc' = "group" => next'.header.gen = depacketizer.current
      BY <3>2 DEF Pure
    <3> QED BY <1>1, <1>2, <1>3, <1>4, <3>2, <3>3, Integral DEF StillAt
  <2>2. pc' = "group" => LookUpCurrent
    BY <1>1 DEF CompareWithCurrent, LookUpOwnGroup, AwaitShards, Break, Panic
  <2> QED BY <2>1, <2>2
<1>7. pc' # "advance"
  BY DEF LookUpCurrent, CompareWithCurrent, LookUpOwnGroup, AwaitShards, Break, Panic
<1> QED BY <1>1, <1>2, <1>4, <1>5, <1>6, <1>7 DEF LapInv

LEMMA JumpLap ==
    ASSUME AudioLap, TypeInv, LapInv, AimAtOwnGroup \/ DropOlder \/ MoveToOwnGroup
    PROVE  LapInv'
<1>1. /\ UNCHANGED <<packetizer, net, packet, output, next, opener>>
      /\ pc \in {"jump", "drop", "move"} /\ pc' \in {"drop", "move", "decode"}
  BY DEF AimAtOwnGroup, DropOlder, MoveToOwnGroup, race
<1>2. /\ NothingAdded(depacketizer, depacketizer')
      /\ depacketizer'.current = IF MoveToOwnGroup THEN packet.group
                                 ELSE depacketizer.current
  <2>1. CASE AimAtOwnGroup
    BY <2>1 DEF AimAtOwnGroup, MoveToOwnGroup, NothingAdded
  <2>2. CASE DropOlder
    BY <2>2, TypeFacts, DroppedGood DEF DropOlder, MoveToOwnGroup
  <2>3. CASE MoveToOwnGroup
    BY <2>3, TypeFacts, SetGood DEF MoveToOwnGroup
  <2> QED BY <2>1, <2>2, <2>3
<1>3. Holding' => Holding /\ packet' = packet
  BY <1>1 DEF Holding
<1>4. /\ NetInLap'
      /\ Holding' => OfLap(packet', packetizer'.sent)
      /\ \A g \in GroupIds : Present(depacketizer', g) =>
           Pure(depacketizer'.groups[g], g) /\ Reached(g)'
      /\ \A x \in Int : Reached(x) => Reached(x)'
  BY <1>1, <1>2, <1>3, LapKept
<1>5. \A x : InTurn(x) <=> InTurn(x)'
  BY <1>1 DEF InTurn
<1>6. InTurn(packet.group) /\ InTurn(depacketizer.current)
  BY <1>1 DEF LapInv
<1>7. Reached(packet.group - 1)' \/ packet.group <= SkipTo + 1
  <2>1. Reached(packet.group) /\ packet.group \in Nat /\ packet.gen \in Nat /\ SkipTo \in Nat
        /\ packetizer.sent \in Nat
    BY <1>1, Arithmetic, TypeFacts DEF GroupIds, Unsigned
  <2>2. CASE packet.group = 1
    BY <2>1, <2>2
  <2>3. CASE packet.group # 1
    <3>1. Reached(packet.group - 1)
      BY <2>1, <2>3 DEF Reached
    <3> QED BY <1>1, <1>4, <2>1, <3>1
  <2> QED BY <2>2, <2>3
<1>8. (depacketizer.current <= SkipTo + 1 \/ Reached(depacketizer.current - 1))'
      /\ InTurn(depacketizer.current)'
  BY <1>1, <1>2, <1>4, <1>5, <1>6, <1>7, Integral DEF LapInv
<1> QED BY <1>1, <1>4, <1>5, <1>6, <1>8 DEF LapInv

\* What is handed over is the group in turn: its own data or zeroes.
LEMMA DeliveryInTurn ==
    ASSUME AudioLap, TypeInv, LapInv, DeliverGroup \/ SkipExpired
    PROVE  LET g == next.header.gen
           IN  /\ pc = "group" /\ pc' = "advance"
               /\ UNCHANGED <<packetizer, net, packet, opener>>
               /\ output'.gen = g /\ g \in 1 .. MaxGroups
               /\ Pure(next, g) /\ Reached(g) /\ InTurn(g)
               /\ output'.shards \in [Slots -> {g, Zeroes}]
               /\ seen' = depacketizer.current
               /\ StillAt(depacketizer.current, g)
               /\ depacketizer'.current = depacketizer.current
               /\ depacketizer'.groups = DropGroups(depacketizer,
                                                    {depacketizer.current})
               /\ NothingAdded(depacketizer, depacketizer')
<1> DEFINE g == next.header.gen
<1>1. PICK shards, decoded :
        /\ HandOver(shards, decoded)
        /\ \/ next.received < DataShards /\ shards = ZeroFill(next.shards)
           \/ ~(next.received < DataShards) /\ shards = Decoded(next)
  <2>1. CASE SkipExpired
    BY <2>1 DEF SkipExpired
  <2>2. CASE DeliverGroup
    <3>1. ~(next.received < DataShards)
      BY <2>2, TypeFacts DEF DeliverGroup, TypeInv, FecGroups, TotalShards
    <3> QED BY <2>2, <3>1 DEF DeliverGroup
  <2> QED BY <2>1, <2>2
<1>2. pc = "group"
  BY DEF DeliverGroup, SkipExpired
<1>3. /\ next \in FecGroups /\ next.received = Cardinality(Arrived(next))
      /\ Pure(next, g) /\ Reached(g) /\ InTurn(g) /\ StillAt(depacketizer.current, g)
  BY <1>2, TypeFacts DEF TypeInv, LapInv
<1>4. output'.gen = g /\ output'.shards = [i \in Slots |-> shards[i]]
  BY <1>1 DEF HandOver, Handed
<1>5. output'.shards \in [Slots -> {g, Zeroes}]
  BY <1>1, <1>3, <1>4, DeliveredData
<1>6. g \in 1 .. MaxGroups
  BY <1>3, TypeFacts DEF Reached, FecGroups, Packets
<1>7. /\ depacketizer'.current = depacketizer.current
      /\ depacketizer'.groups = DropGroups(depacketizer, {depacketizer.current})
      /\ NothingAdded(depacketizer, depacketizer')
  BY <1>1, TypeFacts, DroppedGood DEF HandOver
<1>8. /\ pc' = "advance" /\ UNCHANGED <<packetizer, net, packet, opener>>
      /\ seen' = depacketizer.current
  BY <1>1 DEF HandOver
<1> QED BY <1>2, <1>3, <1>4, <1>5, <1>6, <1>7, <1>8

LEMMA DeliveryLap ==
    ASSUME AudioLap, TypeInv, LapInv, DeliverGroup \/ SkipExpired
    PROVE  LapInv'
<1>1. /\ pc = "group" /\ pc' = "advance"
      /\ UNCHANGED <<packetizer, net, packet, opener>>
      /\ output'.gen = next.header.gen /\ Reached(next.header.gen)
      /\ seen' = depacketizer.current
      /\ StillAt(depacketizer.current, next.header.gen)
      /\ depacketizer'.current = depacketizer.current
      /\ NothingAdded(depacketizer, depacketizer')
  BY DeliveryInTurn
<1>2. Holding' => Holding /\ packet' = packet
  BY <1>1 DEF Holding
<1>3. /\ NetInLap'
      /\ Holding' => OfLap(packet', packetizer'.sent)
      /\ \A g \in GroupIds : Present(depacketizer', g) =>
           Pure(depacketizer'.groups[g], g) /\ Reached(g)'
      /\ \A x \in Int : Reached(x) => Reached(x)'
  BY <1>1, <1>2, LapKept
<1>4. (depacketizer.current <= SkipTo + 1 \/ Reached(depacketizer.current - 1))'
  BY <1>1, <1>3, Integral DEF LapInv
<1>5. Reached(output.gen)'
  BY <1>1, <1>3, Integral
<1>6. StillAt(seen, output.gen)' /\ StillAt(depacketizer.current, output.gen)'
  BY <1>1 DEF StillAt
<1> QED BY <1>1, <1>3, <1>4, <1>5, <1>6 DEF LapInv

LEMMA AdvanceLap ==
    ASSUME AudioLap, TypeInv, LapInv, Advance
    PROVE  LapInv'
<1>1. /\ UNCHANGED <<packetizer, net, packet, output, next, opener>>
      /\ pc = "advance" /\ pc' = "decode"
  BY DEF Advance
<1>2. PICK read \in {seen, depacketizer.current} :
        depacketizer' = [depacketizer EXCEPT !.current = Wrap(read + 1, Half8)]
  BY DEF Advance
<1>3. StillAt(read, output.gen) /\ Reached(output.gen) /\ read \in GroupIds
  BY <1>1, <1>2, TypeFacts DEF LapInv
<1>4. Wrap(read + 1, Half8) = read + 1
  BY <1>3, TypeFacts DEF StillAt, Reached, AudioLap, Wrap, GroupIds, Unsigned
<1>5. /\ depacketizer'.current = read + 1
      /\ NothingAdded(depacketizer, depacketizer')
  BY <1>2, <1>3, <1>4, TypeFacts, SetGood, GroupIdFacts
<1>6. Holding' => Holding /\ packet' = packet
  BY <1>1 DEF Holding
<1>7. /\ NetInLap'
      /\ Holding' => OfLap(packet', packetizer'.sent)
      /\ \A g \in GroupIds : Present(depacketizer', g) =>
           Pure(depacketizer'.groups[g], g) /\ Reached(g)'
      /\ \A x \in Int : Reached(x) => Reached(x)'
  BY <1>1, <1>5, <1>6, LapKept
<1>8. read \in Int /\ read + 1 - 1 = read /\ SkipTo \in Int /\ output.gen \in Int
  BY <1>3, Integral DEF GroupIds, Unsigned
<1>9. read + 1 <= SkipTo + 1 \/ Reached(read)'
  BY <1>3, <1>7, <1>8 DEF StillAt
<1>10. InTurn(read + 1)'
  BY <1>1, <1>3, <1>8 DEF InTurn, StillAt
<1>11. (depacketizer.current <= SkipTo + 1 \/ Reached(depacketizer.current - 1))'
       /\ InTurn(depacketizer.current)'
  BY <1>5, <1>8, <1>9, <1>10 DEF Reached, InTurn
<1> QED BY <1>1, <1>7, <1>11 DEF LapInv

LEMMA OpenerLap ==
    ASSUME AudioLap, TypeInv, LapInv, Opener
    PROVE  LapInv'
<1>1. /\ opener # "none" /\ opener' # "none"
      /\ NothingAdded(depacketizer, depacketizer')
      /\ depacketizer'.current \in {depacketizer.current, SkipTo}
      /\ UNCHANGED <<packetizer, net, pc, packet, output, next, seen>>
  BY OpenerType
<1>2. Holding' => Holding /\ packet' = packet
  BY <1>1 DEF Holding
<1>3. /\ NetInLap'
      /\ Holding' => OfLap(packet', packetizer'.sent)
      /\ \A g \in GroupIds : Present(depacketizer', g) =>
           Pure(depacketizer'.groups[g], g) /\ Reached(g)'
      /\ \A x \in Int : Reached(x) => Reached(x)'
  BY <1>1, <1>2, LapKept
<1>4. \A x : InTurn(x) <=> InTurn(x)'
  BY <1>1 DEF InTurn
<1>5. SkipTo \in Int /\ InTurn(SkipTo)
  BY <1>1, StartInTurn DEF GroupIds, Unsigned
<1>6. (depacketizer.current <= SkipTo + 1 \/ Reached(depacketizer.current - 1))'
      /\ (pc # "advance" => InTurn(depacketizer.current))'
  <2>1. CASE depacketizer'.current = depacketizer.current
    BY <1>1, <1>3, <1>4, <2>1, Integral DEF LapInv, Reached, InTurn
  <2>2. CASE depacketizer'.current = SkipTo
    BY <1>1, <1>4, <1>5, <2>2 DEF InTurn
  <2> QED BY <1>1, <2>1, <2>2
<1>7. \A x : /\ StillAt(seen, x) => StillAt(seen, x)'
             /\ StillAt(depacketizer.current, x) => StillAt(depacketizer.current, x)'
  BY <1>1 DEF StillAt
<1>8. (pc = "group" => LET g == next.header.gen
                       IN  /\ Pure(next, g) /\ Reached(g) /\ InTurn(g)
                           /\ StillAt(depacketizer.current, g))'
  BY <1>1, <1>3, <1>4, <1>7, Integral DEF LapInv, Reached, InTurn, StillAt
<1>9. (pc = "advance" => /\ Reached(output.gen)
                         /\ StillAt(seen, output.gen)
                         /\ StillAt(depacketizer.current, output.gen))'
  BY <1>1, <1>3, <1>7, Integral DEF LapInv, Reached, StillAt
<1>10. (pc \in {"ahead", "jump", "drop", "move"} => InTurn(packet.group))'
  BY <1>1, <1>4 DEF LapInv, InTurn
<1> QED BY <1>3, <1>6, <1>8, <1>9, <1>10 DEF LapInv

LEMMA NextLap == AudioLap /\ TypeInv /\ LapInv /\ [Next]_vars => LapInv'
<1>1. ASSUME LapInv, UNCHANGED vars PROVE LapInv'
  BY <1>1 DEF vars, LapInv, NetInLap, Holding, Reached, InTurn, StillAt, Present
<1> QED BY <1>1, SendLap, FilterLap, AddPacketLap, LookUpLap, JumpLap, DeliveryLap,
           AdvanceLap, OpenerLap DEF Next, FecDecode, Opener

LEMMA LapInvariance == ASSUME AudioLap PROVE Spec => [](TypeInv /\ LapInv)
BY InitType, NextType, InitLap, NextLap, PTL DEF Spec

\* Within a lap no group ever holds the shards of two generations, on a
\* client and on a server.
THEOREM NeverMixed == ASSUME AudioLap PROVE Spec => []GroupsPure
<1>1. LapInv => GroupsPure
  BY DEF LapInv, GroupsPure, Pure
<1> QED BY <1>1, LapInvariance, PTL

\* Within a lap the consumer gets groups in order, each at most once, and
\* never the data of two mixed; on a server the order is promised below
\* SkipTo only, as a jump of the opener may take the stream back to it.
THEOREM ImplementsDelivery == ASSUME AudioLap PROVE Spec => DeliverySpec
<1>1. Init => Delivery!Init
  BY DEF Init, NewStream, Delivery!Init
<1>2. ASSUME TypeInv, LapInv, [Next]_vars
      PROVE  [Delivery!Next]_<<output.gen, output.shards>>
  <2>1. CASE DeliverGroup \/ SkipExpired
    <3> DEFINE g == next.header.gen
    <3>1. /\ g \in 1 .. MaxGroups /\ InTurn(g) /\ output'.gen = g
          /\ output'.shards \in [Slots -> {g, Zeroes}]
          /\ opener' = opener
      BY <1>2, <2>1, DeliveryInTurn
    <3>2. output.gen \in 0 .. MaxGroups
      BY <1>2 DEF TypeInv, TypeOK, StreamTypeOK, Outputs
    <3> HIDE DEF g
    <3>3. g > output.gen
          \/ {g, output.gen} \subseteq (IF opener = "none" THEN {} ELSE SkipTo .. MaxGroups)
      BY <3>1, <3>2 DEF InTurn, GroupIds, Unsigned
    <3>4. Delivery!Deliver(g)
      BY <3>1, <3>3 DEF Delivery!Deliver
    <3> QED BY <3>1, <3>4 DEF Delivery!Next
  <2>2. CASE UNCHANGED output
    BY <2>2
  <2> QED BY <1>2, <2>1, <2>2 DEF Next, vars, FecDecode, Send, GetFecDecodeInfo,
             AddPacket, LookUpCurrent, CompareWithCurrent, LookUpOwnGroup,
             AimAtOwnGroup, DropOlder, MoveToOwnGroup, AwaitShards, Advance, race,
             InitFecParam, AimAtStart, StartAtCurrent, DropPassed, ArriveAtStart
<1> QED BY <1>1, <1>2, LapInvariance, PTL DEF Spec, DeliverySpec, Delivery!Spec

-----------------------------------------------------------------------------
(* A client, where only the datagram goroutine moves the stream.           *)

\* What is buffered is not behind, and the packet's group is there until the
\* stream has passed it.
InOrder ==
    LET d == depacketizer
        own == d.groups[packet.group]
    IN  /\ \A g \in GroupIds : Present(d, g) => g >= d.current
        /\ pc = "store" => packet.group >= d.current
        /\ pc \in {"decode", "missed", "group"} =>
             Present(d, packet.group) \/ d.current > packet.group
        /\ pc = "advance" => ~Present(d, d.current)
        /\ pc = "advance" => Present(d, packet.group) \/ d.current >= packet.group
        /\ pc \in {"ahead", "jump", "drop", "move"} =>
             Present(d, packet.group) /\ d.current < packet.group
        /\ pc \in {"jump", "drop", "move"} => ~(own.received < DataShards)
        /\ pc = "drop" => seen = d.current
        /\ pc = "move" => \A g \in GroupIds : Present(d, g) => g >= packet.group
        /\ pc = "group" => Present(d, d.current) /\ next = d.groups[d.current]
        /\ pc # "crashed"

ClientInv == opener = "none" => InOrder

LEMMA InitClient == Init => ClientInv
<1>1. ASSUME Init PROVE ClientInv
  <2>1. \A g \in GroupIds : ~Present(NewDepacketizer, g)
    BY DEF NewDepacketizer, Present
  <2>2. \A g \in GroupIds : ~Present(depacketizer, g)
    BY <1>1, <2>1, NewDepacketizerGood, JumpGood DEF Init, NothingAdded
  <2> QED BY <1>1, <2>2 DEF Init, NewStream, ClientInv, InOrder
<1> QED BY <1>1

\* The filter: what is not outdated is not behind.
LEMMA FilterInOrder ==
    ASSUME AudioLap, TypeInv, LapInv, InOrder, NEW p \in net, GetFecDecodeInfo(p)
    PROVE  InOrder'
<1>1. /\ UNCHANGED <<depacketizer, seen, next>> /\ pc = "idle"
      /\ \/ pc' = "idle"
         \/ pc' = "store" /\ packet' = p /\ ~Outdated(depacketizer, p)
  BY DEF GetFecDecodeInfo, race
<1>2. /\ p.group \in GroupIds /\ depacketizer.current \in GroupIds
      /\ packetizer.sent \in Nat /\ p.gen \in Nat
  BY TypeFacts DEF Packets
<1>3. p.group = p.gen /\ 1 <= p.gen /\ p.gen + Window > packetizer.sent
  BY DEF LapInv, NetInLap, OfLap
<1>4. depacketizer.current <= SkipTo + 1
      \/ depacketizer.current - 1 <= packetizer.sent
  BY DEF LapInv, Reached
<1>5. depacketizer.current - p.group <= Half8
  BY <1>2, <1>3, <1>4 DEF AudioLap, GroupIds, Unsigned
<1>6. ~Outdated(depacketizer, p) => p.group >= depacketizer.current
  BY <1>2, <1>5, LessIsBefore DEF Outdated, GroupIds, Unsigned
<1>7. (\A g \in GroupIds : Present(depacketizer, g) => g >= depacketizer.current)'
  BY <1>1 DEF InOrder, Present
<1> QED BY <1>1, <1>6, <1>7 DEF InOrder

LEMMA AddPacketInOrder ==
    ASSUME AudioLap, TypeInv, InOrder, AddPacket
    PROVE  InOrder'
<1> DEFINE d == depacketizer
           e == PutPacket(d, packet)
<1>1. UNCHANGED <<packet, seen, next>> /\ pc = "store" /\ pc' = "decode"
      /\ depacketizer' = e
  BY DEF AddPacket, race
<1>2. /\ Good(d) /\ packet \in Packets /\ packet.gen # 0
  BY <1>1, TypeFacts DEF TypeInv
<1>3. /\ Present(e, packet.group) /\ e.current = d.current
      /\ \A g \in GroupIds \ {packet.group} : e.groups[g] = d.groups[g]
  BY <1>2, PutPacketGood
<1> HIDE DEF e
<1>4. \A g \in GroupIds : Present(e, g) => g >= e.current
  BY <1>1, <1>3 DEF InOrder, Present
<1> QED BY <1>1, <1>3, <1>4 DEF InOrder

LEMMA LookUpInOrder ==
    ASSUME AudioLap, TypeInv, LapInv, InOrder,
           LookUpCurrent \/ CompareWithCurrent \/ LookUpOwnGroup \/ AwaitShards
    PROVE  InOrder'
<1>1. CASE LookUpCurrent
  BY <1>1 DEF LookUpCurrent, InOrder
<1>2. CASE CompareWithCurrent
  <2>1. IsBefore8(depacketizer.current, packet.group) =>
          depacketizer.current < packet.group
    BY <1>2, Arithmetic DEF CompareWithCurrent
  <2>2. depacketizer.current \in Nat /\ packet.group \in Nat
    BY TypeFacts DEF GroupIds, Unsigned
  <2> QED BY <1>2, <2>1, <2>2 DEF CompareWithCurrent, Break, InOrder, race
<1>3. CASE LookUpOwnGroup
  BY <1>3 DEF LookUpOwnGroup, Break, Panic, InOrder, race
<1>4. CASE AwaitShards
  BY <1>4 DEF AwaitShards, Break, InOrder
<1> QED BY <1>1, <1>2, <1>3, <1>4

\* A jump deletes what is older than the packet's group, and that alone.
LEMMA DropOlderInOrder ==
    ASSUME AudioLap, TypeInv, LapInv, InOrder, DropOlder
    PROVE  /\ InOrder'
           /\ \A g \in GroupIds : /\ g >= packet.group =>
                                       depacketizer'.groups[g] = depacketizer.groups[g]
                                  /\ Present(depacketizer', g) => g >= packet.group
<1> DEFINE d == depacketizer
           ids == Discarded(d.current, packet.group)
<1>1. /\ UNCHANGED <<packet, next>> /\ pc = "drop" /\ pc' = "move"
      /\ seen = d.current /\ d.current < packet.group
      /\ Present(d, packet.group)
  BY DEF DropOlder, InOrder
<1>2. d' = [d EXCEPT !.groups = DropGroups(d, ids)]
  BY <1>1 DEF DropOlder, Discarded
<1>3. d'.groups = DropGroups(d, ids) /\ d'.current = d.current
  BY <1>2, TypeFacts, DroppedGood
<1>4. d.current \in GroupIds /\ packet.group \in GroupIds /\ d.current \in Nat
      /\ packet.group \in Nat /\ GroupIds \subseteq Nat
  BY TypeFacts DEF GroupIds, Unsigned
<1>5. \A g \in GroupIds : g \in ids <=> d.current <= g /\ g < packet.group
  BY <1>1, <1>4, DiscardedInLap
<1> HIDE DEF ids
<1>6. \A g \in GroupIds : d'.groups[g] = IF g \in ids THEN NoGroup ELSE d.groups[g]
  BY <1>3 DEF DropGroups
<1>7. \A g \in GroupIds : g >= packet.group => d'.groups[g] = d.groups[g]
  BY <1>4, <1>5, <1>6
<1>8. \A g \in GroupIds : Present(d', g) => g >= packet.group /\ Present(d, g)
  BY <1>4, <1>5, <1>6 DEF InOrder, Present
<1> QED BY <1>1, <1>3, <1>4, <1>7, <1>8 DEF InOrder, Present

LEMMA JumpInOrder ==
    ASSUME AudioLap, TypeInv, LapInv, InOrder,
           AimAtOwnGroup \/ DropOlder \/ MoveToOwnGroup
    PROVE  InOrder'
<1>1. CASE AimAtOwnGroup
  BY <1>1 DEF AimAtOwnGroup, InOrder
<1>2. CASE MoveToOwnGroup
  <2>1. depacketizer'.groups = depacketizer.groups
        /\ depacketizer'.current = packet.group
    BY <1>2, TypeFacts, SetGood DEF MoveToOwnGroup
  <2> QED BY <1>2, <2>1 DEF MoveToOwnGroup, InOrder, Present, race
<1> QED BY <1>1, <1>2, DropOlderInOrder

LEMMA DeliveryInOrder ==
    ASSUME AudioLap, TypeInv, LapInv, InOrder, DeliverGroup \/ SkipExpired
    PROVE  InOrder'
<1> DEFINE d == depacketizer
<1>1. /\ pc = "group" /\ pc' = "advance" /\ packet' = packet
      /\ d'.current = d.current /\ d'.groups = DropGroups(d, {d.current})
  BY DeliveryInTurn
<1>2. \A g \in GroupIds : d'.groups[g] = IF g = d.current THEN NoGroup ELSE d.groups[g]
  BY <1>1 DEF DropGroups
<1>3. d.current \in GroupIds /\ packet.group \in GroupIds /\ d.current \in Nat
      /\ packet.group \in Nat
  BY TypeFacts DEF GroupIds, Unsigned
<1>4. \A g \in GroupIds : Present(d', g) => g >= d'.current
  BY <1>1, <1>2 DEF InOrder, Present
<1>5. ~Present(d', d'.current)
  BY <1>1, <1>2, <1>3 DEF Present
<1>6. Present(d', packet.group) \/ d.current >= packet.group
  <2>1. Present(d, packet.group) \/ d.current > packet.group
    BY <1>1 DEF InOrder
  <2>2. CASE packet.group = d.current
    BY <1>3, <2>2
  <2>3. CASE packet.group # d.current
    BY <1>2, <1>3, <2>1, <2>3 DEF Present
  <2> QED BY <2>2, <2>3
<1> QED BY <1>1, <1>4, <1>5, <1>6 DEF InOrder

LEMMA AdvanceInOrder ==
    ASSUME AudioLap, TypeInv, LapInv, opener = "none", InOrder, Advance
    PROVE  InOrder'
<1> DEFINE d == depacketizer
<1>1. PICK read \in {seen, d.current} :
        d' = [d EXCEPT !.current = Wrap(read + 1, Half8)]
  BY DEF Advance
<1>2. pc = "advance" /\ pc' = "decode" /\ packet' = packet
  BY DEF Advance
<1>3. read = output.gen /\ d.current = output.gen /\ Reached(output.gen)
  BY <1>1, <1>2 DEF LapInv, StillAt
<1>4. Wrap(read + 1, Half8) = d.current + 1
  BY <1>3, TypeFacts DEF Reached, AudioLap, Wrap, GroupIds, Unsigned
<1>5. d'.groups = d.groups /\ d'.current = d.current + 1
  BY <1>1, <1>3, <1>4, TypeFacts, SetGood, GroupIdFacts
<1>6. d.current \in Nat /\ packet.group \in Nat /\ GroupIds \subseteq Nat
  BY TypeFacts DEF GroupIds, Unsigned
<1>7. \A g \in GroupIds : Present(d, g) => g >= d.current + 1
  BY <1>2, <1>6 DEF InOrder
<1>8. Present(d, packet.group) \/ d.current + 1 > packet.group
  BY <1>2, <1>6 DEF InOrder
<1> QED BY <1>2, <1>5, <1>7, <1>8 DEF InOrder, Present

LEMMA NextClient ==
    AudioLap /\ TypeInv /\ LapInv /\ ClientInv /\ [Next]_vars => ClientInv'
<1>1. ASSUME InOrder, NEW idr \in BOOLEAN, Send(idr), UNCHANGED race
      PROVE  InOrder'
  BY <1>1 DEF Send, race, InOrder, Present
<1>2. ASSUME InOrder, UNCHANGED vars
      PROVE  InOrder'
  BY <1>2 DEF vars, InOrder, Present
<1>3. ASSUME [Next]_vars, opener' = "none"
      PROVE  opener = "none" /\ ~Opener
  BY <1>3 DEF Next, vars, FecDecode, race, GetFecDecodeInfo, AddPacket, LookUpCurrent,
     CompareWithCurrent, LookUpOwnGroup, AimAtOwnGroup, DropOlder, MoveToOwnGroup,
     AwaitShards, DeliverGroup, SkipExpired, HandOver, Advance,
     Opener, InitFecParam, AimAtStart, StartAtCurrent, DropPassed, ArriveAtStart
<1>4. ASSUME AudioLap, TypeInv, LapInv, InOrder, [Next]_vars,
             opener = "none", ~Opener
      PROVE  InOrder'
  BY <1>1, <1>2, <1>4, FilterInOrder, AddPacketInOrder, LookUpInOrder, JumpInOrder,
     DeliveryInOrder, AdvanceInOrder DEF Next, FecDecode, Opener
<1> QED BY <1>3, <1>4 DEF ClientInv

LEMMA ClientInvariance ==
    ASSUME AudioLap PROVE Spec => [](TypeInv /\ LapInv /\ ClientInv)
BY InitType, NextType, InitLap, NextLap, InitClient, NextClient, PTL DEF Spec

\* On a client a group still buffered is newer than all that came out: none
\* is ever delivered late.
THEOREM NeverOvertaken == ASSUME AudioLap PROVE Spec => []ClientBufferedIsNewer
<1>1. ASSUME TypeInv, LapInv, ClientInv, opener = "none"
      PROVE  BufferedIsNewer
  <2>1. ASSUME NEW g \in GroupIds, Present(depacketizer, g)
        PROVE  depacketizer.groups[g].header.gen > output.gen
    <3>1. g >= depacketizer.current /\ depacketizer.groups[g].header.gen = g
          /\ g \in Int
      BY <1>1, <2>1, Integral DEF ClientInv, InOrder, LapInv, Pure
    <3>2. CASE pc = "advance"
      <4>1. g # depacketizer.current /\ depacketizer.current = output.gen
        BY <1>1, <2>1, <3>2 DEF ClientInv, InOrder, LapInv, StillAt
      <4> QED BY <1>1, <3>1, <4>1, Integral
    <3>3. CASE pc # "advance"
      <4>1. depacketizer.current > output.gen
        BY <1>1, <3>3 DEF LapInv, InTurn
      <4> QED BY <1>1, <3>1, <4>1, Integral
    <3> QED BY <3>2, <3>3
  <2> QED BY <2>1 DEF BufferedIsNewer
<1>2. TypeInv /\ LapInv /\ ClientInv => ClientBufferedIsNewer
  BY <1>1 DEF ClientBufferedIsNewer
<1> QED BY <1>2, ClientInvariance, PTL

\* On a client the group whose count FecDecode reads is there.
THEOREM NeverPanics == ASSUME AudioLap PROVE Spec => []ClientNoPanic
<1>1. ClientInv => ClientNoPanic
  BY DEF ClientInv, InOrder, ClientNoPanic, NoPanic
<1> QED BY <1>1, ClientInvariance, PTL

\* On a client a group that leaves the buffer is delivered by that step, or
\* gives way to a newer one, which is buffered and complete.
THEOREM GroupsLeaveForNewer == ASSUME AudioLap PROVE Spec => ClientLeavesForNewer
<1> DEFINE d == depacketizer
           Leaves(g) == Present(d, g) /\ ~Present(d', g)
<1>1. ASSUME TypeInv, LapInv, ClientInv, [Next]_vars, opener = "none",
             NEW g \in GroupIds, Leaves(g)
      PROVE  LET own == d'.groups[packet.group]
                 gen == d.groups[g].header.gen
             IN  \/ output' # output /\ output'.gen = gen
                 \/ /\ Present(d', packet.group)
                    /\ own.header.gen > gen
                    /\ own.received >= DataShards
  <2>1. InOrder /\ d.groups[g].header.gen = g /\ g \in Int
    BY <1>1, Integral DEF ClientInv, LapInv, Pure
  <2>2. CASE DeliverGroup \/ SkipExpired
    <3>1. /\ pc = "group" /\ output'.gen = next.header.gen
          /\ d'.groups = DropGroups(d, {d.current})
          /\ InTurn(next.header.gen) /\ StillAt(d.current, next.header.gen)
      BY <1>1, <2>2, DeliveryInTurn
    <3>2. g = d.current /\ next.header.gen = g /\ next.header.gen > output.gen
      BY <1>1, <3>1 DEF DropGroups, Present, StillAt, InTurn
    <3>3. output' # output
      BY <1>1, <2>1, <3>1, <3>2, Integral
    <3> QED BY <2>1, <3>1, <3>2, <3>3
  <2>3. CASE DropOlder
    <3>1. /\ g < packet.group /\ d'.groups[packet.group] = d.groups[packet.group]
          /\ packet.group \in GroupIds /\ packet.group \in Int
      <4>1. \A x \in GroupIds : x >= packet.group => d'.groups[x] = d.groups[x]
        BY <1>1, <2>1, <2>3, DropOlderInOrder
      <4>2. packet.group \in GroupIds /\ packet.group \in Int
        BY <1>1, TypeFacts, Integral
      <4> QED BY <1>1, <2>1, <4>1, <4>2 DEF Present
    <3>2. /\ Present(d, packet.group)
          /\ ~(d.groups[packet.group].received < DataShards)
      BY <2>1, <2>3 DEF InOrder, DropOlder
    <3>3. /\ d.groups[packet.group].header.gen = packet.group
          /\ d.groups[packet.group].received \in Int
      BY <1>1, <3>1, <3>2, TypeFacts DEF LapInv, Pure, Present, FecGroups, TotalShards
    <3> QED BY <2>1, <3>1, <3>2, <3>3 DEF Present
  <2>4. CASE AddPacket
    <3>1. \A x \in GroupIds : Present(d, x) => Present(d', x)
      BY <1>1, <2>4, TypeFacts, PutPacketGood DEF AddPacket, TypeInv, Present
    <3> QED BY <1>1, <3>1
  <2>5. CASE MoveToOwnGroup \/ Advance
    <3>1. d'.groups = d.groups
      BY <2>5, <1>1, TypeFacts DEF MoveToOwnGroup, Advance, Depacketizers
    <3> QED BY <1>1, <3>1 DEF Present
  <2>6. CASE UNCHANGED depacketizer
    BY <1>1, <2>6
  <2>7. ~Opener
    BY <1>1, OpenerType
  <2> QED BY <1>1, <2>2, <2>3, <2>4, <2>5, <2>6, <2>7
          DEF Next, vars, FecDecode, Opener, Send, GetFecDecodeInfo, LookUpCurrent,
              CompareWithCurrent, LookUpOwnGroup, AimAtOwnGroup, AwaitShards, race
<1>2. TypeInv /\ LapInv /\ ClientInv /\ [Next]_vars =>
        [opener = "none" => \A g \in GroupIds :
           Present(depacketizer, g) /\ ~Present(depacketizer', g) =>
             LET own == depacketizer'.groups[packet.group]
                 gen == depacketizer.groups[g].header.gen
             IN  \/ output' # output /\ output'.gen = gen
                 \/ /\ Present(depacketizer', packet.group)
                    /\ own.header.gen > gen
                    /\ own.received >= DataShards]_vars
  BY <1>1
<1> QED BY <1>2, ClientInvariance, PTL DEF Spec, ClientLeavesForNewer

=============================================================================
