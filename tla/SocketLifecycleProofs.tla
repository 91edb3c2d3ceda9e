------------------------- MODULE SocketLifecycleProofs -------------------------
(***************************************************************************)
(* For any number of channels: Socket.Close takes effect once, leaves      *)
(* nothing open, and channelEditLock and the close mutex are never waited  *)
(* for in a circle.                                                        *)
(*                                                                         *)
(* The inductive invariant ties each mutex to the label of its holder, in  *)
(* both directions: the holder is inside the critical section (what keeps  *)
(* the locks ordered), and whoever is inside it is the holder (what makes  *)
(* it the only one).                                                       *)
(***************************************************************************)
EXTENDS SocketLifecycle, TLAPS

\* The labels under closeLock and under channelEditLock only; "wait" and
\* "unlist" are reached under closeLock by Close and without it by
\* CloseChannel.
CloseLabels == {"closing", "next", "closed", "notify"}
EditLabels == {"close own", "next", "wait", "unlist"}
Locked == CloseLabels \cup EditLabels

Labels == Locked \cup
    {"start", "check", "read", "hand over", "end", "forget", "done",
     "disconnect", "scan", "close", "exit", "idle", "count", "operand",
     "receive", "forever", "packet", "slot", "decoded", "send", "sending",
     "crashed"}

Types ==
    /\ pc \in [Threads -> Labels]
    /\ target \in [Threads -> Channels]
    /\ closeLock \in Closers \cup {Nobody}
    /\ editLock \in Closers \cup {Nobody}
    /\ isClosed \in BOOLEAN /\ emptied \in BOOLEAN /\ conn \in BOOLEAN
    /\ listed \subseteq Channels
    /\ channel \in [Channels -> StreamChannels]
    /\ notified \in Nat /\ arrivals \in 0 .. MaxArrivals
    /\ crashed \in Threads \cup {Nobody}

\* The thread that holds closeLock runs Close, and IsClosed is set by then
\* exactly when it has only OnDisconnect left to call.
CloseLockHeld ==
    closeLock # Nobody =>
        /\ pc[closeLock] \in CloseLabels \cup {"wait", "unlist"}
        /\ isClosed <=> pc[closeLock] = "notify"

CloseLockNeeded == \A t \in Threads : pc[t] \in CloseLabels => closeLock = t
EditLockNeeded == \A t \in Threads : pc[t] \in EditLabels => editLock = t

\* OnDisconnect has been called when Close has set IsClosed and returned.
NotifiedByClose ==
    notified = IF isClosed /\ closeLock = Nobody THEN 1 ELSE 0

\* A slot is emptied only after its channel was closed.
UnlistedIsClosed ==
    /\ \A c \in Channels \ listed : channel[c].isClosed
    /\ \A t \in Threads : pc[t] = "unlist" => channel[target[t]].isClosed

NothingLeft == listed = {} /\ ~conn
CleanSoon ==
    /\ isClosed => NothingLeft
    /\ \A t \in Threads : pc[t] \in {"closed", "notify"} => NothingLeft

Locking == CloseLockHeld /\ CloseLockNeeded /\ LocksOrdered /\ EditLockNeeded
Closing == NotifiedByClose /\ UnlistedIsClosed /\ CleanSoon /\ ClosedWhenUnused

IInv == Types /\ Locking /\ Closing

-----------------------------------------------------------------------------
(* The threads are different from one another and from Nobody.             *)

LEMMA ThreadsDiffer ==
    /\ Nobody \notin Threads
    /\ Closers \subseteq Threads
    /\ \A c \in Channels : Reader(c) \in Closers /\ Consumer(c) \in Threads
    /\ \A c \in Channels : Consumer(c) \notin Readers
    /\ App \in Closers /\ Editor \in Closers /\ Datagram \in Threads
    /\ App \notin Readers /\ Editor \notin Readers /\ Datagram \notin Readers
    /\ Datagram \notin Closers
BY DEF Nobody, Threads, Closers, Readers, Consumers, Reader, Consumer, App,
       Editor, Datagram

-----------------------------------------------------------------------------
(* Types.                                                                  *)

\* The sets of labels are expanded everywhere.
USE DEF Labels, Locked, CloseLabels, EditLabels

LEMMA CancelledType ==
    ASSUME channel \in [Channels -> StreamChannels], NEW c \in Channels
    PROVE  /\ Cancelled(c) \in [Channels -> StreamChannels]
           /\ \A d \in Channels : Cancelled(c)[d].isClosed = channel[d].isClosed
           /\ [Cancelled(c) EXCEPT ![c].isClosed = TRUE]
                 \in [Channels -> StreamChannels]
           /\ \A d \in Channels :
                 [Cancelled(c) EXCEPT ![c].isClosed = TRUE][d].isClosed
                   = (d = c \/ channel[d].isClosed)
BY DEF Cancelled, StreamChannels

LEMMA FieldTypes ==
    ASSUME channel \in [Channels -> StreamChannels], NEW c \in Channels
    PROVE  /\ \A x \in {"open", "closed", "nil"} :
                [channel EXCEPT ![c].chan = x] \in [Channels -> StreamChannels]
           /\ \A q \in 0 .. Capacity :
                [channel EXCEPT ![c].queue = q] \in [Channels -> StreamChannels]
           /\ \A b \in BOOLEAN :
                /\ [channel EXCEPT ![c].stream = b]
                     \in [Channels -> StreamChannels]
                /\ [channel EXCEPT ![c].readable = b]
                     \in [Channels -> StreamChannels]
                /\ [channel EXCEPT ![c].isClosed = b]
                     \in [Channels -> StreamChannels]
<1> DEFINE s == channel[c]
<1>1. s \in StreamChannels
  OBVIOUS
<1>2. \A x \in {"open", "closed", "nil"} : [s EXCEPT !.chan = x] \in StreamChannels
  BY <1>1 DEF StreamChannels
<1>3. \A q \in 0 .. Capacity : [s EXCEPT !.queue = q] \in StreamChannels
  BY <1>1 DEF StreamChannels
<1>4. \A b \in BOOLEAN : /\ [s EXCEPT !.stream = b] \in StreamChannels
                         /\ [s EXCEPT !.readable = b] \in StreamChannels
                         /\ [s EXCEPT !.isClosed = b] \in StreamChannels
  BY <1>1 DEF StreamChannels
<1> QED
  BY <1>2, <1>3, <1>4

LEMMA EnterType ==
    ASSUME Types, NEW t \in Threads, NEW l \in Labels, NEW b, Enter(t, l, b)
    PROVE  pc' \in [Threads -> Labels] /\ crashed' \in Threads \cup {Nobody}
<1>1. \/ pc' = [pc EXCEPT ![t] = l] /\ crashed' = crashed
      \/ pc' = [pc EXCEPT ![t] = "crashed"] /\ crashed' = t
  BY DEF Enter, Panic, Goto
<1> QED
  BY <1>1 DEF Types

LEMMA ReaderTypes ==
    ASSUME Types, NEW c \in Channels, RunReader(c) \/ ReadMessage(c)
    PROVE  Types'
<1> DEFINE r == Reader(c)
<1>0. r \in Threads /\ r \in Closers
  BY ThreadsDiffer
<1> HIDE DEF r
<1>1. CASE StartReader(c)
  <2>1. channel' \in [Channels -> StreamChannels]
    BY <1>1, FieldTypes DEF StartReader, Types
  <2>2. pc' \in [Threads -> Labels] /\ crashed' \in Threads \cup {Nobody}
    BY <1>0, <1>1, EnterType DEF StartReader, r
  <2> QED
    BY <1>1, <2>1, <2>2 DEF StartReader, Types, sockets
<1>2. CASE CheckReader(c)
  <2>1. pc' \in [Threads -> Labels] /\ crashed' \in Threads \cup {Nobody}
    <3>1. CASE channel[c].isClosed
      BY <1>0, <1>2, <3>1 DEF CheckReader, Goto, Types, r
    <3>2. CASE ~channel[c].isClosed
      BY <1>0, <1>2, <3>2, EnterType DEF CheckReader, r
    <3> QED
      BY <3>1, <3>2
  <2> QED
    BY <1>2, <2>1 DEF CheckReader, Types, sockets
<1>3. CASE ReadMessage(c)
  <2>1. arrivals' \in 0 .. MaxArrivals
    <3>1. arrivals \in 0 .. MaxArrivals
      BY DEF Types
    <3>2. arrivals < MaxArrivals /\ arrivals' = arrivals + 1
      BY <1>3 DEF ReadMessage
    <3> QED
      BY <3>1, <3>2, SocketAssumption
  <2>2. pc' \in [Threads -> Labels]
    BY <1>0, <1>3 DEF ReadMessage, Types, Goto, r
  <2> QED
    BY <1>3, <2>1, <2>2 DEF ReadMessage, Types, sockets
<1>4. CASE ReadFails(c)
  BY <1>0, <1>4 DEF ReadFails, Types, sockets, Goto, r
<1>5. CASE HandOver(c)
  <2>1. channel' \in [Channels -> StreamChannels]
    <3>1. channel[c].queue + 1 \in 0 .. Capacity
      <4>1. channel[c].queue \in 0 .. Capacity
        BY DEF Types, StreamChannels
      <4>2. channel[c].queue < Capacity
        BY <1>5 DEF HandOver
      <4> QED
        BY <4>1, <4>2, SocketAssumption
    <3>2. channel \in [Channels -> StreamChannels]
      BY DEF Types
    <3>3. channel' = [channel EXCEPT ![c].queue = channel[c].queue + 1]
      BY <1>5, <3>2 DEF HandOver
    <3> QED
      BY <3>1, <3>2, <3>3, FieldTypes
  <2> QED
    BY <1>0, <1>5, <2>1 DEF HandOver, Types, sockets, Goto, r
<1>6. CASE CloseGoChannel(c) \/ ForgetGoChannel(c)
  <2>1. channel' \in [Channels -> StreamChannels]
    <3>1. channel \in [Channels -> StreamChannels]
      BY DEF Types
    <3>2. PICK x \in {"closed", "nil"} :
             channel' = [channel EXCEPT ![c].chan = x]
      BY <1>6 DEF CloseGoChannel, ForgetGoChannel
    <3>3. [channel EXCEPT ![c].chan = x] \in [Channels -> StreamChannels]
      BY <3>1, FieldTypes
    <3> QED
      BY <3>2, <3>3
  <2> QED
    BY <1>0, <1>6, <2>1
    DEF CloseGoChannel, ForgetGoChannel, Types, sockets, Goto, r
<1>7. CASE CallOnDisconnect(c) \/ Scan(c)
  BY <1>0, <1>7 DEF CallOnDisconnect, Scan, Types, sockets, Goto, r
<1>8. CASE LockForDisconnect(c)
  BY <1>0, <1>8 DEF LockForDisconnect, Types, Goto, r
<1>9. CASE CloseOwn(c)
  <2>1. channel' \in [Channels -> StreamChannels]
    BY <1>9, CancelledType DEF CloseOwn, Types
  <2> QED
    BY <1>0, <1>9, <2>1 DEF CloseOwn, ReaderUnlock, Types, Goto, r
<1> QED
  BY <1>1, <1>2, <1>3, <1>4, <1>5, <1>6, <1>7, <1>8, <1>9 DEF RunReader

LEMMA CloseTypes ==
    ASSUME Types, NEW t \in Closers, Close(t)
    PROVE  Types'
<1>0. t \in Threads
  BY ThreadsDiffer
<1>1. CASE EnterClose(t) \/ LockForClosing(t)
  BY <1>0, <1>1 DEF EnterClose, LockForClosing, Types, Goto
<1>2. CASE CancelNext(t)
  <2>1. PICK c \in listed : channel' = Cancelled(c)
                           /\ target' = [target EXCEPT ![t] = c]
    BY <1>2 DEF CancelNext
  <2>2. channel' \in [Channels -> StreamChannels]
    BY <2>1, CancelledType DEF Types
  <2> QED
    BY <1>0, <1>2, <2>1, <2>2 DEF CancelNext, Types, sockets, Goto
<1>3. CASE EndWait(t)
  <2>1. channel' \in [Channels -> StreamChannels]
    BY <1>0, <1>3, FieldTypes DEF EndWait, Types
  <2> QED
    BY <1>0, <1>3, <2>1 DEF EndWait, Types, sockets, Goto
<1>4. CASE Unlist(t)
  <2>1. pc' \in [Threads -> Labels]
    BY <1>0, <1>4 DEF Unlist, Types, Goto
  <2> QED
    BY <1>4, <2>1 DEF Unlist, Types
<1>5. CASE CloseConn(t)
  BY <1>0, <1>5 DEF CloseConn, Types, Goto
<1>6. CASE SetClosed(t)
  BY <1>0, <1>6 DEF SetClosed, Types, Goto
<1>7. CASE Notify(t)
  <2>1. pc' \in [Threads -> Labels]
    BY <1>0, <1>7 DEF Notify, Types, Goto
  <2>2. notified \in Nat /\ notified' = notified + 1
    BY <1>7 DEF Notify, Types
  <2>3. notified' \in Nat
    BY <2>2
  <2> QED
    BY <1>7, <2>1, <2>3 DEF Notify, Types
<1> QED
  BY <1>1, <1>2, <1>3, <1>4, <1>5, <1>6, <1>7 DEF Close

LEMMA AppTypes ==
    ASSUME Types, NEW c \in Channels,
           CallClose \/ CloseChannel(c) \/ CountChannels \/ Receive(c)
    PROVE  Types'
<1>0. App \in Threads /\ Editor \in Closers /\ Editor \in Threads
      /\ Consumer(c) \in Threads
  BY ThreadsDiffer
<1>1. CASE CallClose \/ CountChannels
  <2>1. pc' \in [Threads -> Labels]
    BY <1>0, <1>1 DEF CallClose, CountChannels, Types, Goto
  <2> QED
    BY <1>1, <2>1 DEF CallClose, CountChannels, Types, sockets
<1>2. CASE CloseChannel(c)
  <2>1. pc' \in [Threads -> Labels]
    BY <1>0, <1>2 DEF CloseChannel, Types, Goto
  <2>2. channel' \in [Channels -> StreamChannels]
    <3>1. channel \in [Channels -> StreamChannels]
      BY DEF Types
    <3>2. channel' = Cancelled(c) \/ channel' = channel
      BY <1>2 DEF CloseChannel
    <3> QED
      BY <3>1, <3>2, CancelledType
  <2>3. target' \in [Threads -> Channels] /\ editLock' \in Closers \cup {Nobody}
    BY <1>0, <1>2 DEF CloseChannel, Types
  <2> QED
    BY <1>2, <2>1, <2>2, <2>3 DEF CloseChannel, Types
<1>3. CASE CallReceive(c)
  <2>1. pc' \in [Threads -> Labels]
    BY <1>0, <1>3 DEF CallReceive, Types, Goto
  <2> QED
    BY <1>3, <2>1 DEF CallReceive, Types, sockets
<1>4. CASE EvaluateOperand(c)
  <2>1. pc' \in [Threads -> Labels] /\ crashed' \in Threads \cup {Nobody}
    BY <1>0, <1>4, EnterType DEF EvaluateOperand
  <2> QED
    BY <1>4, <2>1 DEF EvaluateOperand, Types, sockets
<1>5. CASE ReceiveMessage(c)
  <2>1. pc' \in [Threads -> Labels]
    BY <1>0, <1>5 DEF ReceiveMessage, Types, Goto
  <2>2. channel' \in [Channels -> StreamChannels]
    <3>1. channel[c].queue \in 0 .. Capacity
      BY DEF Types, StreamChannels
    <3>2. channel[c].queue - 1 \in 0 .. Capacity
      BY <1>5, <3>1, SocketAssumption DEF ReceiveMessage
    <3>3. channel \in [Channels -> StreamChannels]
      BY DEF Types
    <3>4. channel' = [channel EXCEPT ![c].queue = channel[c].queue - 1]
      BY <1>5, <3>3 DEF ReceiveMessage
    <3> QED
      BY <3>2, <3>3, <3>4, FieldTypes
  <2> QED
    BY <1>5, <2>1, <2>2 DEF ReceiveMessage, Types, sockets
<1>6. CASE ReceiveFails(c)
  <2>1. pc' \in [Threads -> Labels]
    BY <1>0, <1>6 DEF ReceiveFails, Types, Goto
  <2> QED
    BY <1>6, <2>1 DEF ReceiveFails, Types, sockets
<1> QED
  BY <1>1, <1>2, <1>3, <1>4, <1>5, <1>6 DEF Receive

LEMMA DatagramTypes ==
    ASSUME Types, RunDatagram \/ \E c \in Channels : ReceiveDatagram(c)
    PROVE  Types'
<1>0. Datagram \in Threads
  BY ThreadsDiffer
<1>1. CASE \E c \in Channels : ReceiveDatagram(c)
  <2>1. PICK c \in Channels : ReceiveDatagram(c)
    BY <1>1
  <2>2. pc' \in [Threads -> Labels] /\ target' \in [Threads -> Channels]
    BY <1>0, <2>1 DEF ReceiveDatagram, Types, Goto
  <2>3. arrivals' \in 0 .. MaxArrivals
    <3>1. arrivals \in 0 .. MaxArrivals
      BY DEF Types
    <3>2. arrivals < MaxArrivals /\ arrivals' = arrivals + 1
      BY <2>1 DEF ReceiveDatagram
    <3> QED
      BY <3>1, <3>2, SocketAssumption
  <2> QED
    BY <2>1, <2>2, <2>3 DEF ReceiveDatagram, Types, sockets
<1>2. CASE ReceiveDatagramFails \/ Decode \/ EvaluateChannel
  <2>1. pc' \in [Threads -> Labels]
    BY <1>0, <1>2
    DEF ReceiveDatagramFails, Decode, EvaluateChannel, Types, Goto
  <2> QED
    BY <1>2, <2>1
    DEF ReceiveDatagramFails, Decode, EvaluateChannel, Types, sockets
<1>3. CASE FindDepacketizer \/ FindChannel
  <2>1. pc' \in [Threads -> Labels] /\ crashed' \in Threads \cup {Nobody}
    BY <1>0, <1>3, EnterType DEF FindDepacketizer, FindChannel
  <2> QED
    BY <1>3, <2>1 DEF FindDepacketizer, FindChannel, Types, sockets
<1>4. CASE SendDatagram
  <2> DEFINE c == target[Datagram]
  <2>1. pc' \in [Threads -> Labels] /\ crashed' \in Threads \cup {Nobody}
    BY <1>0, <1>4, EnterType DEF SendDatagram
  <2>2. channel' \in [Channels -> StreamChannels]
    <3>1. c \in Channels /\ channel \in [Channels -> StreamChannels]
      BY <1>0 DEF Types
    <3>2. channel[c].queue \in 0 .. Capacity
      BY <3>1 DEF StreamChannels
    <3>3. CASE channel[c].chan # "open"
      BY <1>4, <3>1, <3>3 DEF SendDatagram
    <3>4. CASE channel[c].chan = "open"
      <4>1. channel[c].queue < Capacity
        BY <1>4, <3>4 DEF SendDatagram
      <4>2. channel[c].queue + 1 \in 0 .. Capacity
        BY <3>2, <4>1, SocketAssumption
      <4>3. channel' = [channel EXCEPT ![c].queue = channel[c].queue + 1]
        BY <1>4, <3>1, <3>4 DEF SendDatagram
      <4> QED
        BY <3>1, <4>2, <4>3, FieldTypes
    <3> QED
      BY <3>3, <3>4
  <2> QED
    BY <1>4, <2>1, <2>2 DEF SendDatagram, Types, sockets
<1> QED
  BY <1>1, <1>2, <1>3, <1>4 DEF RunDatagram

LEMMA TypesStep ==
    ASSUME Types, [Next]_vars
    PROVE  Types'
<1>1. CASE UNCHANGED vars
  BY <1>1 DEF vars, Types
<1>2. CASE LoseConn
  BY <1>2 DEF LoseConn, Types, sockets
<1>3. ASSUME NEW c \in Channels, EndStream(c)
      PROVE  Types'
  <2>1. channel \in [Channels -> StreamChannels]
    BY DEF Types
  <2>2. channel' \in [Channels -> StreamChannels]
    BY <1>3, <2>1, FieldTypes DEF EndStream
  <2> QED
    BY <1>3, <2>2 DEF EndStream, Types, sockets
<1>4. \E c \in Channels : TRUE
  BY SocketAssumption DEF Channels
<1> QED
  BY <1>1, <1>2, <1>3, <1>4, ReaderTypes, CloseTypes, AppTypes, DatagramTypes
  DEF Next

-----------------------------------------------------------------------------
(* A step of a thread that is, and stays, outside the critical sections    *)
(* keeps the invariant, whatever else it does.                             *)

LEMMA OutsideStep ==
    ASSUME IInv, NEW t \in Threads, NEW l,
           pc[t] \notin Locked, l \notin Locked,
           pc' = [pc EXCEPT ![t] = l],
           l = "close" /\ t \in Readers => Disconnected,
           UNCHANGED <<closeLock, editLock, isClosed, listed, notified>>,
           \A u \in Threads \ {t} : target'[u] = target[u],
           ~conn => ~conn',
           \A c \in Channels : channel[c].isClosed => channel'[c].isClosed
    PROVE  Locking' /\ Closing'
<1>1. pc \in [Threads -> Labels] /\ listed \subseteq Channels
      /\ target \in [Threads -> Channels]
      /\ closeLock \in Closers \cup {Nobody} /\ editLock \in Closers \cup {Nobody}
  BY DEF IInv, Types
<1>2. \A u \in Threads : pc'[u] = IF u = t THEN l ELSE pc[u]
  BY <1>1
<1>3. closeLock = Nobody \/ closeLock \in Threads
  BY <1>1, ThreadsDiffer
<1>4. editLock = Nobody \/ editLock \in Threads
  BY <1>1, ThreadsDiffer
<1>5. CloseLockHeld'
  BY <1>2, <1>3 DEF IInv, Locking, CloseLockHeld
<1>6. CloseLockNeeded' /\ EditLockNeeded'
  BY <1>2 DEF IInv, Locking, CloseLockNeeded, EditLockNeeded
<1>7. LocksOrdered'
  BY <1>2, <1>4 DEF IInv, Locking, LocksOrdered
<1>8. NotifiedByClose'
  BY DEF IInv, Closing, NotifiedByClose
<1>9. UnlistedIsClosed'
  <2>1. \A c \in Channels \ listed' : channel'[c].isClosed
    BY DEF IInv, Closing, UnlistedIsClosed
  <2>2. ASSUME NEW u \in Threads, pc'[u] = "unlist"
        PROVE  channel'[target'[u]].isClosed
    <3>1. u # t /\ pc[u] = "unlist"
      BY <1>2, <2>2
    <3>2. channel[target[u]].isClosed /\ target'[u] = target[u]
      BY <3>1 DEF IInv, Closing, UnlistedIsClosed
    <3> QED
      BY <1>1, <3>2
  <2> QED
    BY <2>1, <2>2 DEF UnlistedIsClosed
<1>10. CleanSoon'
  BY <1>2 DEF IInv, Closing, CleanSoon, NothingLeft
<1>11. ClosedWhenUnused'
  <2>1. ASSUME NEW c \in Channels, pc'[Reader(c)] = "close", NEW d \in listed'
        PROVE  channel'[d].isClosed
    <3>1. Reader(c) \in Threads /\ Reader(c) \in Readers
      BY ThreadsDiffer DEF Readers
    <3>2. channel[d].isClosed
      <4>1. CASE Reader(c) = t
        <5>1. l = "close" /\ t \in Readers
          BY <1>2, <2>1, <3>1, <4>1
        <5>2. Disconnected
          BY <5>1
        <5> QED
          BY <2>1, <5>2 DEF Disconnected
      <4>2. CASE Reader(c) # t
        <5>1. pc[Reader(c)] = "close" /\ d \in listed
          BY <1>2, <2>1, <3>1, <4>2
        <5> QED
          BY <5>1 DEF IInv, Closing, ClosedWhenUnused
      <4> QED
        BY <4>1, <4>2
    <3> QED
      BY <1>1, <3>2
  <2> QED
    BY <2>1 DEF ClosedWhenUnused
<1> QED
  BY <1>5, <1>6, <1>7, <1>8, <1>9, <1>10, <1>11 DEF Locking, Closing

LEMMA EnterIsGoto ==
    ASSUME NEW t, NEW l \in Labels \ Locked, l # "close", NEW b, Enter(t, l, b)
    PROVE  \E k \in Labels \ Locked : k # "close" /\ pc' = [pc EXCEPT ![t] = k]
<1>1. pc' = [pc EXCEPT ![t] = l] \/ pc' = [pc EXCEPT ![t] = "crashed"]
  BY DEF Enter, Panic, Goto
<1> QED
  BY <1>1

LEMMA ReaderOutside ==
    ASSUME IInv, NEW c \in Channels, RunReader(c) \/ ReadMessage(c),
           ~LockForDisconnect(c), ~CloseOwn(c)
    PROVE  Locking' /\ Closing'
<1> DEFINE r == Reader(c)
<1>0. r \in Threads /\ channel \in [Channels -> StreamChannels]
  BY ThreadsDiffer DEF IInv, Types
<1> HIDE DEF r
<1>1. PICK l : /\ pc[r] \notin Locked /\ l \notin Locked
               /\ pc' = [pc EXCEPT ![r] = l]
               /\ l = "close" => Disconnected
  <2>1. CASE StartReader(c)
    BY <2>1, EnterIsGoto DEF StartReader, r
  <2>2. CASE CheckReader(c)
    <3>1. CASE channel[c].isClosed
      BY <2>2, <3>1 DEF CheckReader, Goto, r
    <3>2. CASE ~channel[c].isClosed
      BY <2>2, <3>2, EnterIsGoto DEF CheckReader, r
    <3> QED
      BY <3>1, <3>2
  <2>3. CASE ReadMessage(c) \/ ReadFails(c) \/ HandOver(c)
    BY <2>3 DEF ReadMessage, ReadFails, HandOver, Goto, r
  <2>4. CASE CloseGoChannel(c) \/ ForgetGoChannel(c) \/ CallOnDisconnect(c)
    BY <2>4 DEF CloseGoChannel, ForgetGoChannel, CallOnDisconnect, Goto, r
  <2>5. CASE Scan(c)
    <3>1. CASE Disconnected
      BY <2>5, <3>1 DEF Scan, Goto, r
    <3>2. CASE ~Disconnected
      <4>1. pc[r] = "scan" /\ pc' = [pc EXCEPT ![r] = "exit"]
        BY <2>5, <3>2, Zenon DEF Scan, Goto, r
      <4>2. pc[r] \notin Locked /\ "exit" \notin Locked /\ "exit" # "close"
        BY <4>1
      <4> QED
        BY <4>1, <4>2, Zenon
    <3> QED
      BY <3>1, <3>2
  <2> QED
    BY <2>1, <2>2, <2>3, <2>4, <2>5 DEF RunReader
<1>2. UNCHANGED <<closeLock, editLock, isClosed, listed, notified, target, conn>>
  BY DEF RunReader, StartReader, CheckReader, ReadMessage, ReadFails, HandOver,
         CloseGoChannel, ForgetGoChannel, CallOnDisconnect, Scan, sockets
<1>3. \A d \in Channels : channel[d].isClosed => channel'[d].isClosed
  BY <1>0
  DEF RunReader, StartReader, CheckReader, ReadMessage, ReadFails, HandOver,
      CloseGoChannel, ForgetGoChannel, CallOnDisconnect, Scan, StreamChannels
<1> QED
  BY <1>0, <1>1, <1>2, <1>3, OutsideStep

LEMMA AppOutside ==
    ASSUME IInv, NEW c \in Channels,
           \/ CallClose \/ CountChannels \/ Receive(c)
           \/ CloseChannel(c) /\ c \notin listed
    PROVE  Locking' /\ Closing'
<1>0. /\ App \in Threads \ Readers /\ Editor \in Threads \ Readers
      /\ Consumer(c) \in Threads \ Readers
      /\ channel \in [Channels -> StreamChannels]
      /\ target \in [Threads -> Channels]
  BY ThreadsDiffer DEF IInv, Types
<1>1. PICK t \in Threads \ Readers, l \in Labels \ Locked :
        /\ pc[t] \notin Locked
        /\ pc' = [pc EXCEPT ![t] = l]
        /\ \A u \in Threads \ {t} : target'[u] = target[u]
  <2>1. CASE CallClose
    BY <1>0, <2>1 DEF CallClose, Goto
  <2>2. CASE CountChannels
    BY <1>0, <2>2 DEF CountChannels, Goto
  <2>3. CASE CallReceive(c) \/ ReceiveMessage(c) \/ ReceiveFails(c)
    BY <1>0, <2>3 DEF CallReceive, ReceiveMessage, ReceiveFails, Goto
  <2>4. CASE EvaluateOperand(c)
    BY <1>0, <2>4, EnterIsGoto DEF EvaluateOperand
  <2>5. CASE CloseChannel(c) /\ c \notin listed
    BY <1>0, <2>5 DEF CloseChannel, Goto
  <2> QED
    BY <2>1, <2>2, <2>3, <2>4, <2>5 DEF Receive
<1>2. UNCHANGED <<closeLock, editLock, isClosed, listed, notified, conn>>
  BY DEF CallClose, CountChannels, Receive, CallReceive, EvaluateOperand,
         ReceiveMessage, ReceiveFails, CloseChannel, sockets
<1>3. \A d \in Channels : channel[d].isClosed => channel'[d].isClosed
  <2>1. CASE ReceiveMessage(c)
    BY <1>0, <2>1 DEF ReceiveMessage, StreamChannels
  <2>2. CASE ~ReceiveMessage(c)
    BY <2>2 DEF CallClose, CountChannels, Receive, CallReceive,
                EvaluateOperand, ReceiveFails, CloseChannel
  <2> QED
    BY <2>1, <2>2
<1> QED
  BY <1>1, <1>2, <1>3, OutsideStep

LEMMA DatagramOutside ==
    ASSUME IInv, RunDatagram \/ \E c \in Channels : ReceiveDatagram(c)
    PROVE  Locking' /\ Closing'
<1>0. /\ Datagram \in Threads \ Readers
      /\ channel \in [Channels -> StreamChannels]
      /\ target \in [Threads -> Channels]
  BY ThreadsDiffer DEF IInv, Types
<1>1. PICK l : /\ pc[Datagram] \notin Locked /\ l \notin Locked
               /\ pc' = [pc EXCEPT ![Datagram] = l]
  <2>1. CASE \E c \in Channels : ReceiveDatagram(c)
    BY <2>1 DEF ReceiveDatagram, Goto
  <2>2. CASE ReceiveDatagramFails \/ Decode \/ EvaluateChannel
    BY <2>2 DEF ReceiveDatagramFails, Decode, EvaluateChannel, Goto
  <2>3. CASE FindDepacketizer
    BY <2>3, EnterIsGoto DEF FindDepacketizer
  <2>4. CASE FindChannel
    BY <2>4, EnterIsGoto DEF FindChannel
  <2>5. CASE SendDatagram
    BY <2>5, EnterIsGoto DEF SendDatagram
  <2> QED
    BY <2>1, <2>2, <2>3, <2>4, <2>5 DEF RunDatagram
<1>2. /\ UNCHANGED <<closeLock, editLock, isClosed, listed, notified, conn>>
      /\ \A u \in Threads \ {Datagram} : target'[u] = target[u]
  BY <1>0 DEF RunDatagram, ReceiveDatagram, ReceiveDatagramFails,
              FindDepacketizer, FindChannel, Decode, EvaluateChannel,
              SendDatagram, sockets
<1>3. \A d \in Channels : channel[d].isClosed => channel'[d].isClosed
  BY <1>0 DEF RunDatagram, ReceiveDatagram, ReceiveDatagramFails,
              FindDepacketizer, FindChannel, Decode, EvaluateChannel,
              SendDatagram, StreamChannels
<1> QED
  BY <1>0, <1>1, <1>2, <1>3, OutsideStep

-----------------------------------------------------------------------------
(* A step into, inside or out of the critical sections keeps the invariant *)
(* when the thread holds, after it, the mutexes its label asks for.        *)

LEMMA InsideStep ==
    ASSUME IInv, NEW t \in Threads, NEW l,
           l # "close",
           pc' = [pc EXCEPT ![t] = l],
           \/ closeLock' = closeLock
           \/ closeLock \in {Nobody, t} /\ closeLock' \in {Nobody, t},
           \/ editLock' = editLock
           \/ editLock \in {Nobody, t} /\ editLock' \in {Nobody, t},
           l \in CloseLabels => closeLock' = t,
           closeLock' = t => /\ l \in CloseLabels \cup {"wait", "unlist"}
                             /\ isClosed' <=> l = "notify",
           l \in EditLabels <=> editLock' = t,
           isClosed' = isClosed \/ (closeLock = t /\ NothingLeft'),
           NotifiedByClose',
           listed' \subseteq listed,
           \A c \in listed \ listed' : channel'[c].isClosed,
           l = "unlist" => channel'[target'[t]].isClosed,
           l \in {"closed", "notify"} => NothingLeft',
           \A u \in Threads \ {t} : target'[u] = target[u],
           ~conn => ~conn',
           \A c \in Channels : channel[c].isClosed => channel'[c].isClosed
    PROVE  Locking' /\ Closing'
<1>1. pc \in [Threads -> Labels] /\ listed \subseteq Channels
      /\ target \in [Threads -> Channels]
      /\ closeLock \in Closers \cup {Nobody} /\ editLock \in Closers \cup {Nobody}
  BY DEF IInv, Types
<1>2. \A u \in Threads : pc'[u] = IF u = t THEN l ELSE pc[u]
  BY <1>1
<1>3. closeLock \in Threads \cup {Nobody} /\ editLock \in Threads \cup {Nobody}
      /\ t # Nobody
  BY <1>1, ThreadsDiffer
<1>4. CloseLockHeld'
  <2>1. CASE closeLock' = t
    BY <1>2, <2>1 DEF CloseLockHeld
  <2>2. CASE closeLock' # t /\ closeLock' # Nobody
    <3>1. closeLock' = closeLock
      BY <2>2
    <3>2. closeLock' \in Threads /\ closeLock' # t
      BY <1>3, <2>2, <3>1
    <3>3. pc'[closeLock'] = pc[closeLock] /\ isClosed' = isClosed
      BY <1>2, <3>1, <3>2
    <3> QED
      BY <2>2, <3>1, <3>3 DEF IInv, Locking, CloseLockHeld
  <2> QED
    BY <2>1, <2>2 DEF CloseLockHeld
<1>5. CloseLockNeeded'
  <2>1. ASSUME NEW u \in Threads, u # t, pc[u] \in CloseLabels
        PROVE  closeLock' = u
    <3>1. closeLock = u /\ u # Nobody
      BY <2>1, ThreadsDiffer DEF IInv, Locking, CloseLockNeeded
    <3> QED
      BY <2>1, <3>1
  <2> QED
    BY <1>2, <2>1 DEF CloseLockNeeded
<1>6. EditLockNeeded'
  <2>1. ASSUME NEW u \in Threads, u # t, pc[u] \in EditLabels
        PROVE  editLock' = u
    <3>1. editLock = u /\ u # Nobody
      BY <2>1, ThreadsDiffer DEF IInv, Locking, EditLockNeeded
    <3> QED
      BY <2>1, <3>1
  <2> QED
    BY <1>2, <2>1 DEF EditLockNeeded
<1>7. LocksOrdered'
  <2>1. CASE editLock' = t
    BY <1>2, <2>1 DEF LocksOrdered
  <2>2. CASE editLock' # t /\ editLock' # Nobody
    <3>1. editLock' = editLock
      BY <2>2
    <3>2. pc'[editLock'] = pc[editLock]
      BY <1>2, <1>3, <2>2, <3>1
    <3> QED
      BY <2>2, <3>1, <3>2 DEF IInv, Locking, LocksOrdered
  <2> QED
    BY <2>1, <2>2 DEF LocksOrdered
<1>8. UnlistedIsClosed'
  <2>1. ASSUME NEW c \in Channels \ listed'
        PROVE  channel'[c].isClosed
    BY <2>1 DEF IInv, Closing, UnlistedIsClosed
  <2>2. ASSUME NEW u \in Threads, pc'[u] = "unlist"
        PROVE  channel'[target'[u]].isClosed
    <3>1. CASE u = t
      BY <1>2, <2>2, <3>1
    <3>2. CASE u # t
      <4>1. pc[u] = "unlist" /\ target'[u] = target[u]
        BY <1>2, <2>2, <3>2
      <4>2. channel[target[u]].isClosed
        BY <4>1 DEF IInv, Closing, UnlistedIsClosed
      <4> QED
        BY <1>1, <4>1, <4>2
    <3> QED
      BY <3>1, <3>2
  <2> QED
    BY <2>1, <2>2 DEF UnlistedIsClosed
<1>9. CleanSoon'
  <2>1. NothingLeft => NothingLeft'
    BY DEF NothingLeft
  <2>2. isClosed' => NothingLeft'
    BY <2>1 DEF IInv, Closing, CleanSoon
  <2>3. ASSUME NEW u \in Threads, pc'[u] \in {"closed", "notify"}
        PROVE  NothingLeft'
    BY <1>2, <2>1, <2>3 DEF IInv, Closing, CleanSoon
  <2> QED
    BY <2>2, <2>3 DEF CleanSoon
<1>10. ClosedWhenUnused'
  <2>1. ASSUME NEW c \in Channels, pc'[Reader(c)] = "close", NEW d \in listed'
        PROVE  channel'[d].isClosed
    <3>1. Reader(c) \in Threads
      BY ThreadsDiffer
    <3>2. pc[Reader(c)] = "close" /\ d \in listed
      BY <1>2, <2>1, <3>1
    <3>3. channel[d].isClosed
      BY <3>2 DEF IInv, Closing, ClosedWhenUnused
    <3> QED
      BY <1>1, <3>2, <3>3
  <2> QED
    BY <2>1 DEF ClosedWhenUnused
<1> QED
  BY <1>4, <1>5, <1>6, <1>7, <1>8, <1>9, <1>10 DEF Locking, Closing

\* Which mutexes a thread holds can be read from its label.
LEMMA Holders ==
    ASSUME IInv, NEW t \in Threads
    PROVE  /\ t # Nobody
           /\ pc[t] \in CloseLabels => closeLock = t
           /\ closeLock = t => /\ pc[t] \in CloseLabels \cup {"wait", "unlist"}
                               /\ isClosed <=> pc[t] = "notify"
           /\ pc[t] \in EditLabels <=> editLock = t
           /\ notified = IF isClosed /\ closeLock = Nobody THEN 1 ELSE 0
<1>1. t # Nobody
  BY ThreadsDiffer
<1>2. pc[t] \in CloseLabels => closeLock = t
  BY DEF IInv, Locking, CloseLockNeeded
<1>3. closeLock = t => /\ pc[t] \in CloseLabels \cup {"wait", "unlist"}
                       /\ isClosed <=> pc[t] = "notify"
  BY <1>1 DEF IInv, Locking, CloseLockHeld
<1>4. pc[t] \in EditLabels <=> editLock = t
  BY <1>1 DEF IInv, Locking, LocksOrdered, EditLockNeeded
<1>5. notified = IF isClosed /\ closeLock = Nobody THEN 1 ELSE 0
  BY DEF IInv, Closing, NotifiedByClose
<1> QED
  BY <1>1, <1>2, <1>3, <1>4, <1>5

LEMMA ReaderInside ==
    ASSUME IInv, NEW c \in Channels, LockForDisconnect(c) \/ CloseOwn(c)
    PROVE  Locking' /\ Closing'
<1> DEFINE r == Reader(c)
<1>0. /\ r \in Threads /\ channel \in [Channels -> StreamChannels]
      /\ listed \subseteq Channels
  BY ThreadsDiffer DEF IInv, Types
<1> HIDE DEF r
<1>1. CASE LockForDisconnect(c)
  <2>1. /\ pc[r] = "disconnect" /\ pc' = [pc EXCEPT ![r] = "close own"]
        /\ editLock = Nobody /\ editLock' = r
        /\ UNCHANGED <<target, closeLock, isClosed, listed, notified, channel, conn>>
    BY <1>1 DEF LockForDisconnect, Goto, r
  <2>2. closeLock # r /\ NotifiedByClose'
    BY <1>0, <2>1, Holders DEF NotifiedByClose
  <2> QED
    BY <1>0, <2>1, <2>2, InsideStep
<1>2. CASE CloseOwn(c)
  <2>1. /\ pc[r] = "close own" /\ pc' = [pc EXCEPT ![r] = "scan"]
        /\ editLock' = Nobody
        /\ listed' = listed \ {c}
        /\ UNCHANGED <<target, closeLock, isClosed, notified, conn>>
    BY <1>2 DEF CloseOwn, ReaderUnlock, Goto, r
  <2>2. closeLock # r /\ editLock = r /\ r # Nobody /\ NotifiedByClose'
    BY <1>0, <2>1, Holders DEF NotifiedByClose
  <2>3. /\ \A d \in Channels : channel[d].isClosed => channel'[d].isClosed
        /\ \A d \in listed \ listed' : channel'[d].isClosed
    <3>1. CASE c \in listed
      <4>1. channel' = [Cancelled(c) EXCEPT ![c].isClosed = TRUE]
        BY <1>2, <3>1 DEF CloseOwn
      <4> QED
        BY <1>0, <2>1, <4>1, CancelledType
    <3>2. CASE c \notin listed
      BY <1>2, <2>1, <3>2 DEF CloseOwn
    <3> QED
      BY <3>1, <3>2
  <2> QED
    BY <1>0, <2>1, <2>2, <2>3, InsideStep
<1> QED
  BY <1>1, <1>2

LEMMA EditorInside ==
    ASSUME IInv, NEW c \in listed, CloseChannel(c)
    PROVE  Locking' /\ Closing'
<1>0. /\ Editor \in Threads /\ channel \in [Channels -> StreamChannels]
      /\ c \in Channels /\ target \in [Threads -> Channels]
  BY ThreadsDiffer DEF IInv, Types
<1>1. /\ pc[Editor] = "idle" /\ pc' = [pc EXCEPT ![Editor] = "wait"]
      /\ editLock = Nobody /\ editLock' = Editor
      /\ channel' = Cancelled(c)
      /\ target' = [target EXCEPT ![Editor] = c]
      /\ UNCHANGED <<closeLock, isClosed, listed, notified, conn>>
  BY DEF CloseChannel, Goto
<1>2. closeLock # Editor /\ NotifiedByClose'
  BY <1>0, <1>1, Holders DEF NotifiedByClose
<1>3. \A d \in Channels : channel[d].isClosed => channel'[d].isClosed
  BY <1>0, <1>1, CancelledType
<1>4. \A u \in Threads \ {Editor} : target'[u] = target[u]
  BY <1>0, <1>1
<1> QED
  BY <1>0, <1>1, <1>2, <1>3, <1>4, InsideStep

LEMMA CloseInside ==
    ASSUME IInv, NEW t \in Closers, Close(t)
    PROVE  Locking' /\ Closing'
<1>0. /\ t \in Threads /\ channel \in [Channels -> StreamChannels]
      /\ listed \subseteq Channels /\ target \in [Threads -> Channels]
      /\ notified \in Nat
  BY ThreadsDiffer DEF IInv, Types
<1>1. CASE EnterClose(t)
  <2>1. /\ pc[t] = "close" /\ closeLock = Nobody
        /\ UNCHANGED <<target, editLock, isClosed, listed, notified, channel, conn>>
    BY <1>1 DEF EnterClose
  <2>2. CASE isClosed
    <3>1. pc' = [pc EXCEPT ![t] = "exit"] /\ closeLock' = closeLock
      BY <1>1, <2>2 DEF EnterClose, Goto
    <3> QED
      BY <1>0, <2>1, <3>1, OutsideStep
  <2>3. CASE ~isClosed
    <3>1. pc' = [pc EXCEPT ![t] = "closing"] /\ closeLock' = t
      BY <1>1, <2>3 DEF EnterClose, Goto
    <3>2. editLock # t /\ t # Nobody /\ NotifiedByClose'
      BY <1>0, <2>1, <2>3, <3>1, Holders DEF NotifiedByClose
    <3> QED
      BY <1>0, <2>1, <2>3, <3>1, <3>2, InsideStep
  <2> QED
    BY <2>2, <2>3
<1>2. CASE LockForClosing(t)
  <2>1. /\ pc[t] = "closing" /\ pc' = [pc EXCEPT ![t] = "next"]
        /\ editLock = Nobody /\ editLock' = t
        /\ UNCHANGED <<target, closeLock, isClosed, listed, notified, channel, conn>>
    BY <1>2 DEF LockForClosing, Goto
  <2>2. closeLock = t /\ ~isClosed /\ NotifiedByClose'
    BY <1>0, <2>1, Holders DEF NotifiedByClose
  <2> QED
    BY <1>0, <2>1, <2>2, InsideStep
<1>3. CASE CancelNext(t)
  <2>1. PICK c \in listed : channel' = Cancelled(c)
                           /\ target' = [target EXCEPT ![t] = c]
    BY <1>3 DEF CancelNext
  <2>2. /\ pc[t] = "next" /\ pc' = [pc EXCEPT ![t] = "wait"]
        /\ UNCHANGED <<closeLock, editLock, isClosed, listed, notified, conn>>
    BY <1>3 DEF CancelNext, Goto, sockets
  <2>3. closeLock = t /\ editLock = t /\ ~isClosed /\ NotifiedByClose'
    BY <1>0, <2>2, Holders DEF NotifiedByClose
  <2>4. /\ \A d \in Channels : channel[d].isClosed => channel'[d].isClosed
        /\ \A u \in Threads \ {t} : target'[u] = target[u]
    BY <1>0, <2>1, CancelledType
  <2> QED
    BY <1>0, <2>2, <2>3, <2>4, InsideStep
<1>4. CASE EndWait(t)
  <2>1. /\ pc[t] = "wait" /\ pc' = [pc EXCEPT ![t] = "unlist"]
        /\ channel' = [channel EXCEPT ![target[t]].isClosed = TRUE]
        /\ UNCHANGED <<target, closeLock, editLock, isClosed, listed, notified, conn>>
    BY <1>4 DEF EndWait, Goto, sockets
  <2>2. editLock = t /\ (closeLock = t => ~isClosed) /\ NotifiedByClose'
    BY <1>0, <2>1, Holders DEF NotifiedByClose
  <2>3. /\ \A d \in Channels : channel[d].isClosed => channel'[d].isClosed
        /\ channel'[target'[t]].isClosed
    BY <1>0, <2>1 DEF StreamChannels
  <2> QED
    BY <1>0, <2>1, <2>2, <2>3, InsideStep
<1>5. CASE Unlist(t)
  <2>1. /\ pc[t] = "unlist" /\ listed' = listed \ {target[t]}
        /\ UNCHANGED <<target, closeLock, isClosed, notified, channel, conn>>
    BY <1>5 DEF Unlist
  <2>2. /\ editLock = t /\ (closeLock = t => ~isClosed) /\ t # Nobody
        /\ NotifiedByClose'
    BY <1>0, <2>1, Holders DEF NotifiedByClose
  <2>3. \A c \in listed \ listed' : channel'[c].isClosed
    BY <1>0, <2>1 DEF IInv, Closing, UnlistedIsClosed
  <2>4. CASE closeLock = t
    <3>1. pc' = [pc EXCEPT ![t] = "next"] /\ editLock' = editLock
      BY <1>5, <2>4 DEF Unlist, Goto
    <3> QED
      BY <1>0, <2>1, <2>2, <2>3, <2>4, <3>1, InsideStep
  <2>5. CASE closeLock # t
    <3>1. pc' = [pc EXCEPT ![t] = "count"] /\ editLock' = Nobody
      BY <1>5, <2>5 DEF Unlist, Goto
    <3> QED
      BY <1>0, <2>1, <2>2, <2>3, <2>5, <3>1, InsideStep
  <2> QED
    BY <2>4, <2>5
<1>6. CASE CloseConn(t)
  <2>1. /\ pc[t] = "next" /\ pc' = [pc EXCEPT ![t] = "closed"]
        /\ listed = {} /\ conn' = FALSE /\ editLock' = Nobody
        /\ UNCHANGED <<target, closeLock, isClosed, listed, notified, channel>>
    BY <1>6 DEF CloseConn, Goto
  <2>2. closeLock = t /\ editLock = t /\ ~isClosed /\ t # Nobody /\ NotifiedByClose'
    BY <1>0, <2>1, Holders DEF NotifiedByClose
  <2>3. NothingLeft'
    BY <2>1 DEF NothingLeft
  <2> QED
    BY <1>0, <2>1, <2>2, <2>3, InsideStep
<1>7. CASE SetClosed(t)
  <2>1. /\ pc[t] = "closed" /\ pc' = [pc EXCEPT ![t] = "notify"]
        /\ isClosed' = TRUE
        /\ UNCHANGED <<target, closeLock, editLock, listed, notified, channel, conn>>
    BY <1>7 DEF SetClosed, Goto
  <2>2. closeLock = t /\ editLock # t /\ t # Nobody /\ NotifiedByClose'
    BY <1>0, <2>1, Holders DEF NotifiedByClose
  <2>3. NothingLeft'
    BY <1>0, <2>1 DEF IInv, Closing, CleanSoon, NothingLeft
  <2> QED
    BY <1>0, <2>1, <2>2, <2>3, InsideStep
<1>8. CASE Notify(t)
  <2>1. /\ pc[t] = "notify" /\ pc' = [pc EXCEPT ![t] = "exit"]
        /\ notified' = notified + 1 /\ closeLock' = Nobody
        /\ UNCHANGED <<target, editLock, isClosed, listed, channel, conn>>
    BY <1>8 DEF Notify, Goto
  <2>2. closeLock = t /\ editLock # t /\ isClosed /\ t # Nobody /\ notified = 0
    BY <1>0, <2>1, Holders
  <2>3. NotifiedByClose'
    BY <2>1, <2>2 DEF NotifiedByClose
  <2> QED
    BY <1>0, <2>1, <2>2, <2>3, InsideStep
<1> QED
  BY <1>1, <1>2, <1>3, <1>4, <1>5, <1>6, <1>7, <1>8 DEF Close

-----------------------------------------------------------------------------
(* The invariant, and what follows from it.                                *)

LEMMA IInvInit == Init => IInv
<1> SUFFICES ASSUME Init PROVE IInv
  OBVIOUS
<1>1. \A t \in Threads : pc[t] \in {"start", "check", "idle", "exit"}
  BY DEF Init
<1>2. Types
  <2>1. pc \in [Threads -> Labels]
    BY <1>1 DEF Init
  <2>2. /\ target \in [Threads -> Channels]
        /\ channel \in [Channels -> StreamChannels]
        /\ arrivals \in 0 .. MaxArrivals
    BY SocketAssumption
    DEF Init, Channels, StreamChannels, NewStreamChannel
  <2> QED
    BY <2>1, <2>2 DEF Init, Types
<1>3. Locking
  BY <1>1 DEF Init, Locking, CloseLockHeld, CloseLockNeeded, LocksOrdered,
              EditLockNeeded
<1>4. Closing
  <2>1. \A c \in Channels : pc[Reader(c)] # "close"
    BY <1>1, ThreadsDiffer
  <2> QED
    BY <1>1, <2>1 DEF Init, Closing, NotifiedByClose, UnlistedIsClosed,
                      CleanSoon, ClosedWhenUnused
<1> QED
  BY <1>2, <1>3, <1>4 DEF IInv

LEMMA IInvStep == IInv /\ [Next]_vars => IInv'
<1> SUFFICES ASSUME IInv, [Next]_vars PROVE IInv'
  OBVIOUS
<1>1. Types'
  BY TypesStep DEF IInv
<1>2. Locking' /\ Closing'
  <2>1. CASE \E c \in Channels : RunReader(c) \/ ReadMessage(c)
    BY <2>1, ReaderOutside, ReaderInside
  <2>2. CASE \E t \in Closers : Close(t)
    BY <2>2, CloseInside
  <2>3. CASE CallClose \/ CountChannels \/ \E c \in Channels : Receive(c)
    <3>1. PICK c \in Channels : CallClose \/ CountChannels \/ Receive(c)
      BY <2>3, SocketAssumption DEF Channels
    <3> QED
      BY <3>1, AppOutside
  <2>4. CASE \E c \in Channels : CloseChannel(c)
    BY <2>4, AppOutside, EditorInside
  <2>5. CASE RunDatagram \/ \E c \in Channels : ReceiveDatagram(c)
    BY <2>5, DatagramOutside
  <2>6. ASSUME UNCHANGED <<pc, target, closeLock, editLock, isClosed, listed,
                           notified>>,
               ~conn => ~conn',
               \A c \in Channels : channel'[c].isClosed = channel[c].isClosed
        PROVE  Locking' /\ Closing'
    <3>1. Locking'
      BY <2>6 DEF IInv, Locking, CloseLockHeld, CloseLockNeeded, LocksOrdered,
                  EditLockNeeded
    <3>2. \A t \in Threads : target[t] \in Channels
      BY DEF IInv, Types
    <3>3. listed \subseteq Channels
      BY DEF IInv, Types
    <3>4. NotifiedByClose' /\ CleanSoon'
      BY <2>6 DEF IInv, Closing, NotifiedByClose, CleanSoon, NothingLeft
    <3>5. UnlistedIsClosed'
      BY <2>6, <3>2 DEF IInv, Closing, UnlistedIsClosed
    <3>6. ClosedWhenUnused'
      BY <2>6, <3>3 DEF IInv, Closing, ClosedWhenUnused
    <3> QED
      BY <3>1, <3>4, <3>5, <3>6 DEF Closing
  <2>7. CASE LoseConn
    BY <2>6, <2>7 DEF LoseConn, sockets
  <2>8. CASE \E c \in Channels : EndStream(c)
    <3>1. channel \in [Channels -> StreamChannels]
      BY DEF IInv, Types
    <3>2. \A c \in Channels : channel'[c].isClosed = channel[c].isClosed
      BY <2>8, <3>1 DEF EndStream, StreamChannels
    <3>3. UNCHANGED <<pc, target, closeLock, editLock, isClosed, listed,
                      notified, conn>>
      BY <2>8 DEF EndStream, sockets
    <3> QED
      BY <2>6, <3>2, <3>3
  <2>9. CASE UNCHANGED vars
    BY <2>6, <2>9 DEF vars
  <2> QED
    BY <2>1, <2>2, <2>3, <2>4, <2>5, <2>7, <2>8, <2>9 DEF Next
<1> QED
  BY <1>1, <1>2 DEF IInv

LEMMA Invariance == Spec => []IInv
BY IInvInit, IInvStep, PTL DEF Spec

\* Every variable keeps its type.
THEOREM TypeCorrect == Spec => []TypeOK
<1>1. IInv => TypeOK
  BY DEF IInv, Types, TypeOK
<1> QED
  BY <1>1, Invariance, PTL

\* CloseableObject.Close takes effect once, however many readers and
\* application threads run it: OnDisconnect is called at most once, when
\* IsClosed is set.
THEOREM OnceNotified == Spec => []NotifiedOnce
<1>1. IInv => NotifiedOnce
  BY DEF IInv, Closing, NotifiedByClose, NotifiedOnce
<1> QED
  BY <1>1, Invariance, PTL

\* A socket that says it is closed has no channel listed or open, and no
\* connection.
THEOREM CleanWhenClosed == Spec => []ClosedIsClean
<1>1. IInv => ClosedIsClean
  BY DEF IInv, Closing, CleanSoon, NothingLeft, UnlistedIsClosed, ClosedIsClean
<1> QED
  BY <1>1, Invariance, PTL

\* A reader that goes on to close the socket leaves no channel in use,
\* whatever happened since it looked.
THEOREM UnusedWhenClosed == Spec => []ClosedWhenUnused
<1>1. IInv => ClosedWhenUnused
  BY DEF IInv, Closing
<1> QED
  BY <1>1, Invariance, PTL

\* Nobody waits for the close mutex while holding channelEditLock.
THEOREM LocksInOrder == Spec => []LocksOrdered
<1>1. IInv => LocksOrdered
  BY DEF IInv, Locking
<1> QED
  BY <1>1, Invariance, PTL

==============================================================================
