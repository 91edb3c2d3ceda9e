---------------------------- MODULE SocketLifecycle ----------------------------
(***************************************************************************)
(* How a client's Socket comes down: the reader of each StreamChannel      *)
(* (HandleChannelStreamData), the datagram reader, the application threads *)
(* that receive, close one channel or close the whole client, and the QUIC *)
(* connection.  Socket.Close is a procedure that any reader and any        *)
(* application thread may run; its steps are the labels "close" to         *)
(* "notify" of the thread that runs it.                                    *)
(*                                                                         *)
(* closeLock is the mutex of the Socket's CloseableObject and editLock is  *)
(* Socket.channelEditLock.  The close mutex of a StreamChannel is always   *)
(* taken under editLock and is left out.  A thread that panics ends the    *)
(* program: nobody recovers.                                               *)
(***************************************************************************)
EXTENDS Integers

CONSTANTS
    ChannelCount,   \* channels of the socket
    Capacity,       \* room in StreamChannel.Channel (200)
    MaxArrivals,    \* bound: messages and datagrams that arrive
    Roles           \* who takes part beside the readers: of "app", "editor",
                    \* "consumer" and "datagram" (only with SupportFec)

Channels == 0 .. ChannelCount - 1

Reader(c) == <<"reader", c>>
Consumer(c) == <<"consumer", c>>
App == <<"app", 0>>             \* calls Client.Close
Editor == <<"editor", 0>>       \* calls ClientChannelClose
Datagram == <<"datagram", 0>>   \* HandleChannelStreamDatagram
Nobody == <<"nobody", 0>>

Readers == {Reader(c) : c \in Channels}
Consumers == {Consumer(c) : c \in Channels}
Closers == Readers \cup {App, Editor}
Threads == Closers \cup Consumers \cup {Datagram}

ASSUME SocketAssumption ==
    /\ ChannelCount \in Nat \ {0}
    /\ Capacity \in Nat \ {0}
    /\ MaxArrivals \in Nat
    /\ Roles \subseteq {"app", "editor", "consumer", "datagram"}

VARIABLES
    pc,         \* where each thread is
    target,     \* the channel a datagram is for, or CloseChannel's argument
    closeLock, editLock,    \* the thread that holds the mutex, or Nobody
    isClosed,   \* Socket.IsClosed
    listed,     \* the channels whose slot in Socket.StreamChannels is not nil
    emptied,    \* Socket.StreamChannels was replaced by the empty slice
    channel,    \* the fields of each StreamChannel
    conn,       \* the QUIC connection is up
    notified,   \* calls of Socket.OnDisconnect
    arrivals,
    crashed     \* the thread that panicked, or Nobody

vars == <<pc, target, closeLock, editLock, isClosed, listed, emptied, channel,
          conn, notified, arrivals, crashed>>

\* chan: StreamChannel.Channel ("closed" between close() and the assignment
\* of nil); queue: the messages in it; stream: StreamChannel.Stream is set;
\* readable: the QUIC stream neither ended nor was cancelled.
StreamChannels ==
    [chan : {"open", "closed", "nil"}, queue : 0 .. Capacity,
     stream : BOOLEAN, readable : BOOLEAN, isClosed : BOOLEAN]

NewStreamChannel ==
    [chan |-> "open", queue |-> 0, stream |-> FALSE, readable |-> TRUE,
     isClosed |-> FALSE]

\* A panic in any thread ends them all.
Alive == crashed = Nobody

Goto(t, label) == Alive /\ pc' = [pc EXCEPT ![t] = label]
Panic(t) == Goto(t, "crashed") /\ crashed' = t
Enter(t, label, panics) ==
    IF panics THEN Panic(t) ELSE Goto(t, label) /\ UNCHANGED crashed

sockets == <<closeLock, editLock, isClosed, listed, emptied, notified>>

-----------------------------------------------------------------------------
(* The reader of channel c.                                                *)

\* HandleChannelStreamData is entered through StreamChannels[c].
StartReader(c) ==
    /\ pc[Reader(c)] = "start"
    /\ Enter(Reader(c), "check", emptied \/ c \notin listed)
    /\ channel' = IF emptied \/ c \notin listed THEN channel
                  ELSE [channel EXCEPT ![c].stream = TRUE]
    /\ UNCHANGED <<target, sockets, conn, arrivals>>

\* The top of the loop; reading from a nil stream panics.
CheckReader(c) ==
    /\ pc[Reader(c)] = "check"
    /\ IF channel[c].isClosed THEN Goto(Reader(c), "end") /\ UNCHANGED crashed
       ELSE Enter(Reader(c), "read", ~channel[c].stream)
    /\ UNCHANGED <<target, sockets, channel, conn, arrivals>>

Readable(c) == conn /\ channel[c].readable

\* A message is read; it is dropped when the channel was closed meanwhile.
ReadMessage(c) ==
    /\ pc[Reader(c)] = "read"
    /\ Readable(c)
    /\ arrivals < MaxArrivals
    /\ arrivals' = arrivals + 1
    /\ Goto(Reader(c), IF channel[c].isClosed THEN "end" ELSE "hand over")
    /\ UNCHANGED <<target, sockets, channel, conn, crashed>>

\* Slip: every error is taken for a timeout.
ReadFails_Retries(c) ==
    /\ pc[Reader(c)] = "read" /\ ~Readable(c)
    /\ Goto(Reader(c), "check")
    /\ UNCHANGED <<target, sockets, channel, conn, arrivals, crashed>>

ReadFails(c) ==
    /\ pc[Reader(c)] = "read"
    /\ ~Readable(c)
    /\ Goto(Reader(c), "end")
    /\ UNCHANGED <<target, sockets, channel, conn, arrivals, crashed>>

\* Slip: the channel is taken for unbounded.
HandOver_Unbounded(c) ==
    /\ pc[Reader(c)] = "hand over"
    /\ channel' = [channel EXCEPT ![c].queue = @ + 1]
    /\ Goto(Reader(c), "check")
    /\ UNCHANGED <<target, sockets, conn, arrivals, crashed>>

\* handleDataToChannel blocks while the channel is full.
HandOver(c) ==
    /\ pc[Reader(c)] = "hand over"
    /\ channel[c].queue < Capacity
    /\ channel' = [channel EXCEPT ![c].queue = @ + 1]
    /\ Goto(Reader(c), "check")
    /\ UNCHANGED <<target, sockets, conn, arrivals, crashed>>

\* The deferred function: close the Go channel, forget it, ...
CloseGoChannel(c) ==
    /\ pc[Reader(c)] = "end"
    /\ channel' = [channel EXCEPT ![c].chan = "closed"]
    /\ Goto(Reader(c), "forget")
    /\ UNCHANGED <<target, sockets, conn, arrivals, crashed>>

ForgetGoChannel(c) ==
    /\ pc[Reader(c)] = "forget"
    /\ channel' = [channel EXCEPT ![c].chan = "nil"]
    /\ Goto(Reader(c), "done")
    /\ UNCHANGED <<target, sockets, conn, arrivals, crashed>>

\* ... set Done and call OnDisconnect, which first looks at Socket.IsClosed.
CallOnDisconnect(c) ==
    /\ pc[Reader(c)] = "done"
    /\ Goto(Reader(c), IF isClosed THEN "exit" ELSE "disconnect")
    /\ UNCHANGED <<target, sockets, channel, conn, arrivals, crashed>>

\* Slip: the scan is made without channelEditLock being released first.
ReaderUnlock_Forgotten(c) == UNCHANGED editLock

ReaderUnlock(c) == editLock' = Nobody

LockForDisconnect(c) ==
    /\ pc[Reader(c)] = "disconnect"
    /\ editLock = Nobody
    /\ editLock' = Reader(c)
    /\ Goto(Reader(c), "close own")
    /\ UNCHANGED <<target, closeLock, isClosed, listed, emptied, notified,
                   channel, conn, arrivals, crashed>>

\* StreamChannel.OnClosing of channel c: the stream is cancelled.
Cancelled(c) ==
    [channel EXCEPT ![c].readable = @ /\ ~channel[c].stream, ![c].stream = FALSE]

\* The reader's own channel is Done: its Close does not wait.  A slot that is
\* nil, or gone with the slice, is left alone.
CloseOwn(c) ==
    /\ pc[Reader(c)] = "close own"
    /\ channel' = IF c \in listed
                  THEN [Cancelled(c) EXCEPT ![c].isClosed = TRUE]
                  ELSE channel
    /\ listed' = listed \ {c}
    /\ ReaderUnlock(c)
    /\ Goto(Reader(c), "scan")
    /\ UNCHANGED <<target, closeLock, isClosed, emptied, notified, conn,
                   arrivals, crashed>>

\* Slip: one closed channel is enough.
Disconnected_Any == \E c \in Channels : c \notin listed \/ channel[c].isClosed

\* No channel is left that is neither nil nor closed.
Disconnected == \A c \in listed : channel[c].isClosed

Scan(c) ==
    /\ pc[Reader(c)] = "scan"
    /\ Goto(Reader(c), IF Disconnected THEN "close" ELSE "exit")
    /\ UNCHANGED <<target, sockets, channel, conn, arrivals, crashed>>

RunReader(c) ==
    \/ StartReader(c) \/ CheckReader(c) \/ ReadFails(c)
    \/ HandOver(c) \/ CloseGoChannel(c) \/ ForgetGoChannel(c)
    \/ CallOnDisconnect(c) \/ LockForDisconnect(c) \/ CloseOwn(c) \/ Scan(c)

-----------------------------------------------------------------------------
(* CloseableObject.Close of the Socket, run by thread t.                   *)

\* Slip: IsClosed is not looked at.
EnterClose_Unchecked(t) ==
    /\ pc[t] = "close" /\ closeLock = Nobody
    /\ closeLock' = t /\ Goto(t, "closing")
    /\ UNCHANGED <<target, editLock, isClosed, listed, emptied, notified,
                   channel, conn, arrivals, crashed>>

\* Only the first caller goes on.
EnterClose(t) ==
    /\ pc[t] = "close"
    /\ closeLock = Nobody
    /\ IF isClosed THEN Goto(t, "exit") /\ UNCHANGED closeLock
       ELSE Goto(t, "closing") /\ closeLock' = t
    /\ UNCHANGED <<target, editLock, isClosed, listed, emptied, notified,
                   channel, conn, arrivals, crashed>>

\* Socket.OnClosing takes channelEditLock and closes the channels in order.
LockForClosing(t) ==
    /\ pc[t] = "closing"
    /\ editLock = Nobody
    /\ editLock' = t
    /\ Goto(t, "next")
    /\ UNCHANGED <<target, closeLock, isClosed, listed, emptied, notified,
                   channel, conn, arrivals, crashed>>

CancelNext(t) ==
    /\ pc[t] = "next"
    /\ \E c \in listed :
         /\ \A d \in listed : c <= d
         /\ channel' = Cancelled(c)
         /\ target' = [target EXCEPT ![t] = c]
    /\ Goto(t, "wait")
    /\ UNCHANGED <<sockets, conn, arrivals, crashed>>

\* StreamChannel.OnClosing polls Done a hundred times, then goes on whether
\* the reader is done or not, so that Done decides nothing but the delay.
EndWait(t) ==
    /\ pc[t] = "wait"
    /\ channel' = [channel EXCEPT ![target[t]].isClosed = TRUE]
    /\ Goto(t, "unlist")
    /\ UNCHANGED <<target, sockets, conn, arrivals, crashed>>

\* CloseChannel unlocks; OnClosing keeps channelEditLock.
Unlist(t) ==
    /\ pc[t] = "unlist"
    /\ listed' = listed \ {target[t]}
    /\ IF closeLock = t THEN Goto(t, "next") /\ UNCHANGED editLock
       ELSE Goto(t, "count") /\ editLock' = Nobody
    /\ UNCHANGED <<target, closeLock, isClosed, emptied, notified, channel,
                   conn, arrivals, crashed>>

\* Slip: the connection is left open.
CloseConn_Left(t) ==
    /\ pc[t] = "next" /\ listed = {}
    /\ emptied' = TRUE /\ editLock' = Nobody /\ Goto(t, "closed")
    /\ UNCHANGED <<target, closeLock, isClosed, listed, notified, channel,
                   conn, arrivals, crashed>>

CloseConn(t) ==
    /\ pc[t] = "next"
    /\ listed = {}
    /\ emptied' = TRUE
    /\ conn' = FALSE
    /\ editLock' = Nobody
    /\ Goto(t, "closed")
    /\ UNCHANGED <<target, closeLock, isClosed, listed, notified, channel,
                   arrivals, crashed>>

SetClosed(t) ==
    /\ pc[t] = "closed"
    /\ isClosed' = TRUE
    /\ Goto(t, "notify")
    /\ UNCHANGED <<target, closeLock, editLock, listed, emptied, notified,
                   channel, conn, arrivals, crashed>>

\* Socket.OnClosed calls OnDisconnect, still under closeLock.
Notify(t) ==
    /\ pc[t] = "notify"
    /\ notified' = notified + 1
    /\ closeLock' = Nobody
    /\ Goto(t, "exit")
    /\ UNCHANGED <<target, editLock, isClosed, listed, emptied, channel, conn,
                   arrivals, crashed>>

Close(t) ==
    \/ EnterClose(t) \/ LockForClosing(t) \/ CancelNext(t) \/ EndWait(t)
    \/ Unlist(t) \/ CloseConn(t) \/ SetClosed(t) \/ Notify(t)

-----------------------------------------------------------------------------
(* The application's threads.                                              *)

\* ClientClose may be called at any time, once.
CallClose ==
    /\ pc[App] = "idle"
    /\ Goto(App, "close")
    /\ UNCHANGED <<target, sockets, channel, conn, arrivals, crashed>>

\* Socket.CloseChannel(c), under channelEditLock; a slot that is nil is left.
CloseChannel(c) ==
    /\ pc[Editor] = "idle"
    /\ editLock = Nobody
    /\ target' = [target EXCEPT ![Editor] = c]
    /\ IF c \in listed
       THEN /\ editLock' = Editor
            /\ channel' = Cancelled(c)
            /\ Goto(Editor, "wait")
       ELSE Goto(Editor, "count") /\ UNCHANGED <<editLock, channel>>
    /\ UNCHANGED <<closeLock, isClosed, listed, emptied, notified, conn,
                   arrivals, crashed>>

\* ClientChannelClose closes the client when no slot is left.
CountChannels ==
    /\ pc[Editor] = "count"
    /\ Goto(Editor, IF listed = {} THEN "close" ELSE "idle")
    /\ UNCHANGED <<target, sockets, channel, conn, arrivals, crashed>>

\* ClientChannelReceive, up to Socket.ReceiveDataToBuffer's check of the slot.
CallReceive(c) ==
    /\ pc[Consumer(c)] = "idle"
    /\ Goto(Consumer(c), IF isClosed \/ c \notin listed THEN "exit" ELSE "operand")
    /\ UNCHANGED <<target, sockets, channel, conn, arrivals, crashed>>

\* The slot is read again, then the operand of "<-": a slot that is nil by
\* now panics, a Channel that is nil by now is waited on for ever.
EvaluateOperand(c) ==
    /\ pc[Consumer(c)] = "operand"
    /\ Enter(Consumer(c),
             IF channel[c].chan = "nil" THEN "forever" ELSE "receive",
             c \notin listed)
    /\ UNCHANGED <<target, sockets, channel, conn, arrivals>>

\* A closed channel yields what is left in it, then "not ok".
ReceiveMessage(c) ==
    /\ pc[Consumer(c)] = "receive"
    /\ channel[c].queue > 0
    /\ channel' = [channel EXCEPT ![c].queue = @ - 1]
    /\ Goto(Consumer(c), "idle")
    /\ UNCHANGED <<target, sockets, conn, arrivals, crashed>>

ReceiveFails(c) ==
    /\ pc[Consumer(c)] = "receive"
    /\ channel[c].queue = 0
    /\ channel[c].chan # "open"
    /\ Goto(Consumer(c), "idle")
    /\ UNCHANGED <<target, sockets, channel, conn, arrivals, crashed>>

Receive(c) ==
    CallReceive(c) \/ EvaluateOperand(c) \/ ReceiveMessage(c) \/ ReceiveFails(c)

-----------------------------------------------------------------------------
(* Socket.HandleChannelStreamDatagram, which takes no lock.                *)

ReceiveDatagram(c) ==
    /\ pc[Datagram] = "check"
    /\ ~isClosed
    /\ conn
    /\ arrivals < MaxArrivals
    /\ arrivals' = arrivals + 1
    /\ target' = [target EXCEPT ![Datagram] = c]
    /\ Goto(Datagram, "packet")
    /\ UNCHANGED <<sockets, channel, conn, crashed>>

ReceiveDatagramFails ==
    /\ pc[Datagram] = "check"
    /\ isClosed \/ ~conn
    /\ Goto(Datagram, "exit")
    /\ UNCHANGED <<target, sockets, channel, conn, arrivals, crashed>>

\* GetFecDecodeInfo indexes StreamChannels and reads the slot's depacketizers.
FindDepacketizer ==
    /\ pc[Datagram] = "packet"
    /\ Enter(Datagram, "slot", target[Datagram] \notin listed)
    /\ UNCHANGED <<target, sockets, channel, conn, arrivals>>

\* The loop indexes StreamChannels again; a nil slot or Channel ends it.
FindChannel ==
    LET c == target[Datagram] IN
    /\ pc[Datagram] = "slot"
    /\ Enter(Datagram,
             IF c \in listed /\ channel[c].chan # "nil" THEN "decoded" ELSE "exit",
             emptied)
    /\ UNCHANGED <<target, sockets, channel, conn, arrivals>>

\* FecDecode has decoded a group (or nothing): handleDataToChannel tests
\* Channel, ...
Decode ==
    /\ pc[Datagram] = "decoded"
    /\ \/ Goto(Datagram, "check")
       \/ Goto(Datagram, IF channel[target[Datagram]].chan = "nil" THEN "check"
                         ELSE "send")
    /\ UNCHANGED <<target, sockets, channel, conn, arrivals, crashed>>

\* ... then evaluates it: sending to nil blocks for ever.
EvaluateChannel ==
    /\ pc[Datagram] = "send"
    /\ Goto(Datagram, IF channel[target[Datagram]].chan = "nil" THEN "forever"
                      ELSE "sending")
    /\ UNCHANGED <<target, sockets, channel, conn, arrivals, crashed>>

\* A send panics when the channel is closed, also one that was waiting.
SendDatagram ==
    LET c == target[Datagram] IN
    /\ pc[Datagram] = "sending"
    /\ channel[c].chan # "open" \/ channel[c].queue < Capacity
    /\ Enter(Datagram, "check", channel[c].chan # "open")
    /\ channel' = IF channel[c].chan # "open" THEN channel
                  ELSE [channel EXCEPT ![c].queue = @ + 1]
    /\ UNCHANGED <<target, sockets, conn, arrivals>>

RunDatagram ==
    \/ ReceiveDatagramFails \/ FindDepacketizer \/ FindChannel \/ Decode
    \/ EvaluateChannel \/ SendDatagram

-----------------------------------------------------------------------------
(* QUIC.                                                                   *)

\* The peer goes away or falls silent for MaxIdleTimeout.
LoseConn ==
    /\ Alive
    /\ conn
    /\ conn' = FALSE
    /\ UNCHANGED <<pc, target, sockets, channel, arrivals, crashed>>

\* The peer ends one stream, or sends an empty message on it.
EndStream(c) ==
    /\ Alive
    /\ channel[c].readable
    /\ channel' = [channel EXCEPT ![c].readable = FALSE]
    /\ UNCHANGED <<pc, target, sockets, conn, arrivals, crashed>>

Init ==
    /\ pc = [t \in Threads |-> CASE t \in Readers -> "start"
                               [] t[1] \notin Roles \cup {"reader"} -> "exit"
                               [] t = Datagram -> "check"
                               [] OTHER -> "idle"]
    /\ target = [t \in Threads |-> 0]
    /\ closeLock = Nobody /\ editLock = Nobody
    /\ isClosed = FALSE
    /\ listed = Channels
    /\ emptied = FALSE
    /\ channel = [c \in Channels |-> NewStreamChannel]
    /\ conn = TRUE
    /\ notified = 0
    /\ arrivals = 0
    /\ crashed = Nobody

Next ==
    \/ \E c \in Channels : RunReader(c) \/ ReadMessage(c)
    \/ \E t \in Closers : Close(t)
    \/ CallClose
    \/ \E c \in Channels : CloseChannel(c)
    \/ CountChannels
    \/ \E c \in Channels : Receive(c)
    \/ \E c \in Channels : ReceiveDatagram(c)
    \/ RunDatagram
    \/ LoseConn
    \/ \E c \in Channels : EndStream(c)

Spec == Init /\ [][Next]_vars

\* Every goroutine is scheduled, and the application goes on receiving until
\* it is told "closed".  Nothing says that data arrives, that the connection
\* is lost or that somebody closes.  Both mutexes are held for a few steps and
\* taken a few times only, so that weak fairness is enough.
LiveSpec ==
    /\ Spec
    /\ \A c \in Channels : WF_vars(RunReader(c) \/ Close(Reader(c)))
    /\ \A c \in Channels : WF_vars(Receive(c))
    /\ WF_vars(Close(App))
    /\ WF_vars(Close(Editor) \/ CountChannels)

-----------------------------------------------------------------------------
(* Properties.                                                             *)

\* Every variable has its type.
TypeOK ==
    /\ DOMAIN pc = Threads
    /\ target \in [Threads -> Channels]
    /\ closeLock \in Closers \cup {Nobody}
    /\ editLock \in Closers \cup {Nobody}
    /\ isClosed \in BOOLEAN /\ emptied \in BOOLEAN /\ conn \in BOOLEAN
    /\ listed \subseteq Channels
    /\ channel \in [Channels -> StreamChannels]
    /\ notified \in Nat /\ arrivals \in 0 .. MaxArrivals
    /\ crashed \in Threads \cup {Nobody}

\* "Prevents running several times" (dispose.go): readers that all see the
\* last channel go, and an application that closes at the same time, call
\* OnDisconnect once, after Close has taken effect.
NotifiedOnce == notified <= 1 /\ (notified = 1 => isClosed)

\* When OnDisconnect is called nothing is left open: no slot, no channel,
\* no connection.
ClosedIsClean ==
    isClosed => /\ listed = {} /\ ~conn
                /\ \A c \in Channels : channel[c].isClosed

\* A reader closes the socket only when no channel of it is in use.
ClosedWhenUnused ==
    \A c \in Channels : pc[Reader(c)] = "close" =>
        \A d \in listed : channel[d].isClosed

\* channelEditLock is never held by a thread that waits for closeLock, which
\* is taken first: the two are never waited for in a circle.
LocksOrdered ==
    editLock # Nobody => pc[editLock] \in {"close own", "next", "wait", "unlist"}

\* "Once all channels are closed, close the client's connection" (changelog
\* 1.0.26.060501); the same when the connection is lost or Close is called.
\* In the end the application is told.
ComesDown ==
    (listed = {} \/ ~conn \/ \E t \in Closers : pc[t] = "close")
        ~> (notified = 1 \/ ~Alive)

\* "Leave the loop gracefully" (socket.go): closing never makes the datagram
\* goroutine panic.
DatagramLeavesGracefully == crashed # Datagram

=============================================================================
