----------------------------- MODULE Depacketizer -----------------------------
(***************************************************************************)
(* The receiver of a video or message stream: the goroutine that takes     *)
(* datagrams (Socket.HandleChannelStreamDatagram), and for one datagram at *)
(* a time runs GetFecDecodeInfo and StreamChannel.FecDecode.  No other     *)
(* goroutine touches the Depacketizer of such a stream, so that what is    *)
(* done between two looks at the network may be one step.                  *)
(***************************************************************************)
EXTENDS FecStream

ASSUME NotAudioAssumption == Kind # "audio"

vars == <<packetizer, net, depacketizer, pc, packet, output>>

-----------------------------------------------------------------------------
(* Socket.HandleChannelStreamDatagram: one datagram is filtered, may move  *)
(* the current group to a key frame, is stored, and starts the decode loop.*)

\* Socket.GetFecDecodeInfo lets the first block of a key frame move the
\* stream.  (WaitingForIdrFrame is never set, so clearing it changes nothing.)
GetFecDecodeInfo(d, p) == IF p.idr THEN JumpToNextIdrPacket(d, p) ELSE d

\* Slips: datagrams of older groups are stored too; every packet is taken
\* for a key frame.
Receive_Unfiltered(p) ==
    /\ pc = "idle" /\ p \in net
    /\ Take(p)
    /\ depacketizer' = RtpAddPacket(depacketizer, p)
    /\ pc' = "decode" /\ packet' = p
    /\ UNCHANGED <<packetizer, output>>
Receive_AlwaysJumps(p) ==
    /\ pc = "idle" /\ p \in net /\ net' = net \ {p}
    /\ ~IsBefore8(p.group, depacketizer.current)
    /\ depacketizer' = RtpAddPacket(JumpToNextIdrPacket(depacketizer, p), p)
    /\ pc' = "decode" /\ packet' = p
    /\ UNCHANGED <<packetizer, output>>

Receive(p) ==
    /\ pc = "idle"
    /\ p \in net
    /\ Take(p)
    /\ IF Outdated(depacketizer, p)
       THEN UNCHANGED <<depacketizer, pc, packet>>
       ELSE /\ depacketizer' =
                 RtpAddPacket(GetFecDecodeInfo(depacketizer, p), p)
            /\ pc' = "decode"
            /\ packet' = p
    /\ UNCHANGED <<packetizer, output>>

-----------------------------------------------------------------------------
(* StreamChannel.FecDecode: one action per way an iteration of its loop    *)
(* ends.                                                                   *)

\* The current group has not arrived.
AwaitGroup ==
    /\ pc = "decode"
    /\ ~Present(depacketizer, depacketizer.current)
    /\ Break
    /\ UNCHANGED <<packetizer, net, depacketizer, output>>

\* Recount the losses of the current group, once per frame.
MustRecount(d) == d.startFrame # d.frame
LastIndex(d) == Wrap(Current(d).max - Current(d).start, Half16)
Span(d) == Wrap(LastIndex(d) + 1, Half16)

\* Packets[maxIdx] with maxIdx = len(Packets), which the test lets through.
IndexOutOfRange(d) == MustRecount(d) /\ LastIndex(d) = TotalShards

\* Slip: a gap does not mark the stream as out of sequence.
RecountMissing_InSequence(d) ==
    LET gap == Wrap(Span(d) - Current(d).received, Half16)
    IN  IF ~MustRecount(d) THEN d
        ELSE [d EXCEPT !.missing = Wrap(d.missing + gap, Half16),
                       !.nextSeq = Wrap(Current(d).max + 1, Half16),
                       !.startFrame = d.frame]

RecountMissing(d) ==
    LET gap == Wrap(Span(d) - Current(d).received, Half16)
        usable == LastIndex(d) \in Shards
                  /\ Current(d).shards[LastIndex(d)] # Nil
        counted == [d EXCEPT !.missing = Wrap(d.missing + gap, Half16),
                             !.nextSeq = Wrap(Current(d).max + 1, Half16)]
    IN  IF ~MustRecount(d) THEN d
        ELSE IF ~usable THEN counted
        ELSE [counted EXCEPT
                !.oos = d.oos \/ gap # 0,
                !.lastOos = IF gap # 0 THEN Current(d).shards[LastIndex(d)]
                            ELSE d.lastOos,
                !.startFrame = d.frame]

\* notifyFrameLost: the speculative request for a reference frame.
ReportLoss(d) ==
    IF ~d.reported /\ ~d.oos /\ d.missing > ParityShards
    THEN [d EXCEPT !.reported = TRUE, !.frame = d.frame + 1]
    ELSE d

AwaitShards ==
    LET d == depacketizer IN
    /\ pc = "decode"
    /\ Short(d)
    /\ IF IndexOutOfRange(d)
       THEN Panic /\ UNCHANGED depacketizer
       ELSE Break /\ depacketizer' = ReportLoss(RecountMissing(d))
    /\ UNCHANGED <<packetizer, net, output>>

\* Slip: the loop ends with a delivery, without a look at the next group.
DeliverGroup_Once ==
    LET d == depacketizer IN
    /\ pc = "decode" /\ Present(d, d.current) /\ ~Short(d)
    /\ output' = Handed(Current(d), Decoded(Current(d)), TRUE)
    /\ depacketizer' = DoNextGroup(d)
    /\ Break
    /\ UNCHANGED <<packetizer, net>>

DeliverGroup ==
    LET d == depacketizer
        misjudged == d.reported /\ ~d.oos
        e == [d EXCEPT !.oos = d.oos \/ misjudged,
                       !.lastOos = IF misjudged THEN Current(d).header.gen
                                   ELSE d.lastOos]
    IN  /\ pc = "decode"
        /\ Present(d, d.current)
        /\ ~Short(d)
        /\ output' = Handed(Current(d), Decoded(Current(d)), TRUE)
        /\ depacketizer' = DoNextGroup(e)
        /\ UNCHANGED <<packetizer, net, pc, packet>>

FecDecode == AwaitGroup \/ AwaitShards \/ DeliverGroup

-----------------------------------------------------------------------------
Init == NewStream /\ depacketizer = NewDepacketizer

Next ==
    \/ \E idr \in BOOLEAN : Send(idr)
    \/ \E p \in net : Receive(p)
    \/ FecDecode

Spec == Init /\ [][Next]_vars

\* The datagram goroutine is scheduled: a decode loop that has begun goes on.
LiveSpec == Spec /\ WF_vars(FecDecode)

\* Moreover the application sends, and QUIC hands over what it carries.
ReliableSpec ==
    /\ LiveSpec
    /\ WF_vars(\E idr \in BOOLEAN : Send(idr))
    /\ WF_vars(\E p \in net : Receive(p))

-----------------------------------------------------------------------------
(* Properties.                                                             *)

\* Every variable has its type.
TypeOK == StreamTypeOK /\ pc \in {"idle", "decode", "crashed"}

\* CurrentBlockIndex is the block index of the group under decode, and
\* CurrentFrameIndex its frame (counted from 0 until a key frame sets it).
FrameTracked ==
    LET d == depacketizer IN
    Present(d, d.current) =>
        /\ d.block = Current(d).header.block
        /\ Current(d).header.frame - d.frame \in {0, 1}

\* "Speculative RFI" (channel.go) is never sent: what makes packets count as
\* missing also makes the stream count as out of sequence.
LossNeverReported == ~depacketizer.reported

\* A buffered group leaves the buffer only when it is delivered, or when the
\* stream moves on to a newer key frame.
LeavesForNewer ==
    [][\A g \in GroupIds :
         Present(depacketizer, g) /\ ~Present(depacketizer', g) =>
           LET d == depacketizer'
               gen == depacketizer.groups[g].header.gen
           IN  \/ output' # output /\ output'.gen = gen
               \/ /\ Present(d, d.current)
                  /\ Current(d).header.gen > gen
                  /\ Current(d).header.idr]_vars

\* Messages come out one after the other, none left out.
NoGap == [][output' # output => output'.gen = output.gen + 1]_vars

\* Once all that was sent has arrived and been looked at, all of it is
\* delivered: no message stays in the buffer for want of a further datagram.
NoneStranded == pc = "idle" /\ net = {} => output.gen = packetizer.sent

\* "Jump straight to the current one, everything old is dropped" (channel.go):
\* after a jump no group behind CurrentGroupId is left.
OlderGroupsDropped ==
    \A g \in GroupIds : Present(depacketizer, g) =>
        ~IsBefore8(g, depacketizer.current)

\* Over a network that loses nothing every message is delivered.
AllDelivered == <>(output.gen = MaxGroups)

\* "The missing slices are allocated for RS to recover": what is decoded
\* from enough shards has all its data.
LostShardsRecovered ==
    output.decoded => \A i \in Slots : output.shards[i] = output.gen

\* What the consumer is promised.
Delivery == INSTANCE FecDelivery
            WITH last <- output.gen, data <- output.shards, loose <- {}

DeliverySpec == Delivery!Spec

=============================================================================
