-------------------------- MODULE AudioDepacketizer ---------------------------
(***************************************************************************)
(* The receiver of an audio stream.  Two goroutines use its Depacketizer,  *)
(* with no lock between them:                                              *)
(*  - the datagram goroutine (Socket.HandleChannelStreamDatagram) filters, *)
(*    stores and decodes one datagram at a time;                           *)
(*  - the opener runs Socket.InitFecParam, which jumps to group SkipTo.    *)
(*    On a client it has returned before the datagram goroutine begins; a  *)
(*    server calls it whenever a peer opens a stream on the socket, beside *)
(*    the datagram goroutine and under a lock that only openers take.      *)
(*                                                                         *)
(* An action therefore ends before the next read or write of Groups or of  *)
(* CurrentGroupId that can tell whether the other goroutine came between.  *)
(* The block, frame and loss counters of an audio stream are written but   *)
(* never read to decide anything: they are left out.  So is the clock:     *)
(* each look at ExpiredAt may find that it has passed.                     *)
(***************************************************************************)
EXTENDS FecStream

CONSTANT SkipTo    \* the group InitFecParam jumps to (100)

ASSUME AudioAssumption == Kind = "audio" /\ SkipTo \in GroupIds

VARIABLES
    next,    \* FecDecode's nextGroup: a group that may be deleted meanwhile
    seen,    \* a CurrentGroupId the datagram goroutine has read before
    opener,  \* where InitFecParam is; "none" on a client, where it is over
    loop     \* its loop over the ids to delete: the id it is at, and its end

race == <<next, seen, opener, loop>>
vars == <<packetizer, net, depacketizer, pc, packet, output,
          next, seen, opener, loop>>

-----------------------------------------------------------------------------
(* Depacketizer.JumpToNextGroup, called by InitFecParam: in one go on a    *)
(* client; on a server read by read and write by write, as often as it is  *)
(* called.                                                                 *)

NoLoop == [at |-> 0, end |-> 0]

JumpToNextGroup(d, g) ==
    IF IsBefore8(d.current, g)
    THEN [d EXCEPT !.groups = DropGroups(d, Discarded(d.current, g)),
                   !.current = g]
    ELSE d

InitFecParam ==
    /\ opener = "rest"
    /\ pc # "crashed"
    /\ IsBefore8(depacketizer.current, SkipTo)
    /\ opener' = "aim"
    /\ UNCHANGED <<packetizer, net, depacketizer, pc, packet, output,
                   next, seen, loop>>

AimAtStart ==
    /\ opener = "aim"
    /\ pc # "crashed"
    /\ opener' = "start"
    /\ loop' = [loop EXCEPT !.end = Target(depacketizer.current, SkipTo)]
    /\ UNCHANGED <<packetizer, net, depacketizer, pc, packet, output,
                   next, seen>>

StartAtCurrent ==
    /\ opener = "start"
    /\ pc # "crashed"
    /\ opener' = "drop"
    /\ loop' = [loop EXCEPT !.at = depacketizer.current]
    /\ UNCHANGED <<packetizer, net, depacketizer, pc, packet, output,
                   next, seen>>

DropPassed ==
    /\ opener = "drop"
    /\ pc # "crashed"
    /\ loop.at < loop.end
    /\ depacketizer' =
         [depacketizer EXCEPT !.groups = DropGroups(depacketizer,
                                                    {Wrap(loop.at, Half8)})]
    /\ loop' = [loop EXCEPT !.at = loop.at + 1]
    /\ UNCHANGED <<packetizer, net, pc, packet, output, next, seen, opener>>

ArriveAtStart ==
    /\ opener = "drop"
    /\ pc # "crashed"
    /\ loop.at >= loop.end
    /\ depacketizer' = [depacketizer EXCEPT !.current = SkipTo]
    /\ opener' = "rest"
    /\ loop' = NoLoop
    /\ UNCHANGED <<packetizer, net, pc, packet, output, next, seen>>

-----------------------------------------------------------------------------
(* The datagram goroutine: the filter of GetFecDecodeInfo, RtpAddPacket,   *)
(* and the loop of FecDecode.                                              *)

\* Slip: datagrams of older groups are stored too.
GetFecDecodeInfo_Unfiltered(p) ==
    /\ pc = "idle" /\ p \in net /\ Take(p)
    /\ pc' = "store" /\ packet' = p
    /\ UNCHANGED <<packetizer, depacketizer, output, race>>

GetFecDecodeInfo(p) ==
    /\ pc = "idle"
    /\ p \in net
    /\ Take(p)
    /\ IF Outdated(depacketizer, p) THEN UNCHANGED <<pc, packet>>
       ELSE pc' = "store" /\ packet' = p
    /\ UNCHANGED <<packetizer, depacketizer, output, race>>

AddPacket ==
    /\ pc = "store"
    /\ depacketizer' = PutPacket(depacketizer, packet)
    /\ pc' = "decode"
    /\ UNCHANGED <<packetizer, net, packet, output, race>>

\* The loop begins with a look for the current group.
LookUpCurrent ==
    LET d == depacketizer IN
    /\ pc = "decode"
    /\ next' = d.groups[d.current]
    /\ pc' = IF Present(d, d.current) THEN "group" ELSE "missed"
    /\ UNCHANGED <<packetizer, net, depacketizer, packet, output,
                   seen, opener, loop>>

\* Slip: a packet that is not newer is taken for one that is.
CompareWithCurrent_Always ==
    /\ pc = "missed"
    /\ pc' = "ahead"
    /\ UNCHANGED <<packetizer, net, depacketizer, packet, output, race>>

\* It has not arrived: is this packet newer?
CompareWithCurrent ==
    /\ pc = "missed"
    /\ IF IsBefore8(depacketizer.current, packet.group)
       THEN pc' = "ahead" /\ UNCHANGED packet
       ELSE Break
    /\ UNCHANGED <<packetizer, net, depacketizer, output, race>>

\* Is the packet's own group complete?  When it has been deleted meanwhile,
\* reading tempGroup.Received panics.
LookUpOwnGroup ==
    LET d == depacketizer IN
    /\ pc = "ahead"
    /\ IF ~Present(d, packet.group) THEN Panic
       ELSE IF d.groups[packet.group].received < DataShards THEN Break
       ELSE pc' = "jump" /\ UNCHANGED packet
    /\ UNCHANGED <<packetizer, net, depacketizer, output, race>>

\* Then drop what is older, and go to it.  The loop's end and its start are
\* two reads of CurrentGroupId.
AimAtOwnGroup ==
    /\ pc = "jump"
    /\ seen' = depacketizer.current
    /\ pc' = "drop"
    /\ UNCHANGED <<packetizer, net, depacketizer, packet, output,
                   next, opener, loop>>

DropOlder ==
    LET d == depacketizer
        end == Target(seen, packet.group)
    IN  /\ pc = "drop"
        /\ depacketizer' =
             [d EXCEPT !.groups = DropGroups(d, {Wrap(i, Half8) :
                                                 i \in d.current .. end - 1})]
        /\ seen' = 0
        /\ pc' = "move"
        /\ UNCHANGED <<packetizer, net, packet, output, next, opener, loop>>

MoveToOwnGroup ==
    /\ pc = "move"
    /\ depacketizer' = [depacketizer EXCEPT !.current = packet.group]
    /\ pc' = "decode"
    /\ UNCHANGED <<packetizer, net, packet, output, race>>

\* The group is too short, and ExpiredAt has not passed.
AwaitShards ==
    /\ pc = "group"
    /\ next.received < DataShards
    /\ Break
    /\ next' = NoGroup
    /\ UNCHANGED <<packetizer, net, depacketizer, output, seen, opener, loop>>

\* The group is handed over, and DoNextGroup deletes what is current by now.
HandOver(shards, decoded) ==
    /\ output' = Handed(next, shards, decoded)
    /\ depacketizer' =
         [depacketizer EXCEPT !.groups = DropGroups(depacketizer,
                                                    {depacketizer.current})]
    /\ seen' = depacketizer.current
    /\ next' = NoGroup
    /\ pc' = "advance"
    /\ UNCHANGED <<packetizer, net, packet, opener, loop>>

\* Slip: an expired group is handed over, and DoNextGroup is forgotten.
SkipExpired_Stays ==
    /\ pc = "group" /\ next.received < DataShards
    /\ pc' = "decode"
    /\ next' = NoGroup
    /\ UNCHANGED <<packetizer, net, depacketizer, packet, output,
                   seen, opener, loop>>

\* CheckDataReceiveTimeout: expired audio is delivered with its holes zeroed.
SkipExpired ==
    /\ pc = "group"
    /\ next.received < DataShards
    /\ HandOver(ZeroFill(next.shards), FALSE)

DeliverGroup ==
    /\ pc = "group"
    /\ next.received >= DataShards
    /\ HandOver(Decoded(next), TRUE)

\* Slip: CurrentGroupId is not advanced.
Advance_Stays ==
    /\ pc = "advance"
    /\ pc' = "decode"
    /\ UNCHANGED <<packetizer, net, depacketizer, packet, output, race>>

\* The rest of DoNextGroup.  CurrentGroupId++ is a read and a write: a jump
\* between them is lost.
Advance ==
    LET d == depacketizer IN
    /\ pc = "advance"
    /\ \E read \in {seen, d.current} :
         depacketizer' = [d EXCEPT !.current = Wrap(read + 1, Half8)]
    /\ pc' = "decode"
    /\ seen' = 0
    /\ UNCHANGED <<packetizer, net, packet, output, next, opener, loop>>

FecDecode ==
    \/ AddPacket \/ LookUpCurrent \/ CompareWithCurrent \/ LookUpOwnGroup
    \/ AimAtOwnGroup \/ DropOlder \/ MoveToOwnGroup
    \/ AwaitShards \/ SkipExpired \/ DeliverGroup \/ Advance

-----------------------------------------------------------------------------
Init ==
    /\ NewStream
    /\ next = NoGroup
    /\ seen = 0
    /\ loop = NoLoop
    /\ \/ /\ opener = "none"
          /\ depacketizer = JumpToNextGroup(NewDepacketizer, SkipTo)
       \/ /\ opener = "rest"
          /\ depacketizer = NewDepacketizer

Next ==
    \/ \E idr \in BOOLEAN : Send(idr) /\ UNCHANGED race
    \/ \E p \in net : GetFecDecodeInfo(p)
    \/ FecDecode
    \/ InitFecParam \/ AimAtStart \/ StartAtCurrent
    \/ DropPassed \/ ArriveAtStart

Spec == Init /\ [][Next]_vars

\* The datagram goroutine is scheduled: a decode loop that has begun goes on.
LiveSpec == Spec /\ WF_vars(FecDecode)

-----------------------------------------------------------------------------
(* Properties.                                                             *)

\* Every variable has its type.
TypeOK ==
    /\ StreamTypeOK
    /\ pc \in {"idle", "store", "decode", "missed", "ahead", "jump", "drop",
               "move", "group", "advance", "crashed"}
    /\ next \in FecGroups \cup {NoGroup}
    /\ seen \in GroupIds
    /\ opener \in {"none", "rest", "aim", "start", "drop"}
    /\ loop \in [at : Nat, end : Nat]

\* On a client no group stays behind to be delivered late.
ClientBufferedIsNewer == opener = "none" => BufferedIsNewer

\* On a client FecDecode never reads a group that is gone.
ClientNoPanic == opener = "none" => NoPanic

\* On a client a buffered group leaves the buffer only when it is delivered,
\* or when the stream moves on to a newer group, and a complete one.
ClientLeavesForNewer ==
    [][opener = "none" => \A g \in GroupIds :
         Present(depacketizer, g) /\ ~Present(depacketizer', g) =>
           LET own == depacketizer'.groups[packet.group]
               gen == depacketizer.groups[g].header.gen
           IN  \/ output' # output /\ output'.gen = gen
               \/ /\ Present(depacketizer', packet.group)
                  /\ own.header.gen > gen
                  /\ own.received >= DataShards]_vars

\* The decode loop ends ("do not loop forever", channel.go), whatever the
\* opener does to the stream meanwhile.
DecodeEnds == pc = "decode" ~> pc \in {"idle", "crashed"}

\* What the consumer is promised.  A jump of the opener that the stream has
\* overtaken takes it back to SkipTo: the groups from there on may come out
\* again on a server.
Delivery == INSTANCE FecDelivery
            WITH last <- output.gen, data <- output.shards,
                 loose <- IF opener = "none" THEN {} ELSE SkipTo .. MaxGroups

DeliverySpec == Delivery!Spec

=============================================================================
