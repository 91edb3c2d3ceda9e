-------------------------------- MODULE Server --------------------------------
(***************************************************************************)
(* The server's registry of sockets: the goroutines that accept            *)
(* connections and streams, register the first stream of a peer under its  *)
(* id and read every stream, and the application, which closes one socket  *)
(* or the whole server.  A peer whose connection is lost may come back     *)
(* under the same id.                                                      *)
(*                                                                         *)
(* lock is Server.lock, closeLock[s] the close mutex of socket s.  The     *)
(* disconnect callback and Server.OnClosing use the map Sockets without    *)
(* the lock.  Closing a channel, and closing all channels of a socket, is  *)
(* one step: SocketLifecycle takes those apart.  A panic ends the program. *)
(***************************************************************************)
EXTENDS Integers, FiniteSets

CONSTANTS
    Ids,            \* StreamInfo.Id of the peers
    MaxConns,       \* bound: connections accepted
    MaxChannels,    \* bound: StreamInfo.ChannelCount
    MaxStreams      \* bound: streams accepted, of all connections

Conns == 1 .. MaxConns

\* A stream of connection c for channel i, and the goroutine that serves it.
\* A socket is named after the stream that created it.
Streams == Conns \X (0 .. MaxChannels - 1)
None == <<0, 0>>
App == <<0, 1>>     \* calls Server.CloseSocket, and at last Server.Close
Threads == Streams \cup {App}

\* What a slot of StreamChannels may hold beside the stream it reads: a
\* channel that was never given one, or nil.
New == <<0, 3>>
Nil == <<0, 4>>

ASSUME ServerAssumption ==
    /\ Ids # {}
    /\ MaxConns \in Nat \ {0}
    /\ MaxChannels \in Nat \ {0}
    /\ MaxStreams \in Nat

VARIABLES
    channelCount,   \* StreamInfo.ChannelCount, the same for every peer
    listening,  \* where StartListen is
    accepted,   \* the number of connections accepted
    pc,         \* where the goroutine of each stream and the application are
    peer,       \* the id of the peer at the other end of each connection
    key,        \* the id whose socket the application closes
    shutting,   \* the application is in Server.Close
    up,         \* the connections that are up; acceptConnection runs for them
    ended,      \* the streams that were ended or cancelled
    netOpen,    \* NetConn and the listener are open
    closed,     \* Server.IsClosed
    lock,       \* the thread that holds Server.lock, or None
    Sockets,    \* Server.Sockets: the socket registered under each id, or None
    mapNil,     \* Sockets is the nil map: writing to it panics
    remaining,  \* the sockets that "range s.Sockets" has not reached
    slot,       \* StreamChannels of each socket
    isClosed,   \* Socket.IsClosed
    closeLock,
    sock,       \* the socket each thread works on
    reading,    \* the stream a reader's pending read is on
    done,       \* StreamChannel.Done: its Channel was closed and is nil
    reported,   \* calls of the application's onDisconnect for each socket
    crashed

vars == <<channelCount, listening, accepted, pc, peer, key, shutting, up, ended,
          netOpen, closed, lock, Sockets, mapNil, remaining, slot, isClosed,
          closeLock, sock, reading, done, reported, crashed>>

net == <<channelCount, listening, accepted, peer, netOpen, closed>>
Channels == 0 .. channelCount - 1

registry == <<lock, Sockets, mapNil, remaining>>
socket == <<slot, isClosed, closeLock, reported>>
readers == <<reading, done>>
closer == <<key, shutting>>

Alive == ~crashed
Goto(t, label) == Alive /\ pc' = [pc EXCEPT ![t] = label]
Enter(t, label, panics) ==
    /\ Goto(t, IF panics THEN "crashed" ELSE label)
    /\ crashed' = panics

\* The id that thread t works for, which is also that of the socket named t.
Id(t) == IF t \in Streams THEN peer[t[1]] ELSE key

-----------------------------------------------------------------------------
(* StartListen and acceptConnection.                                       *)

\* The loop tests IsClosed and s.listener and reads s.listener again.  When
\* OnClosing sets it to nil it is either seen by the test or panics.
EvaluateListener ==
    /\ Alive
    /\ listening = "evaluate"
    /\ IF netOpen THEN listening' = "accept"
                  ELSE listening' \in {"exit", "crashed"}
    /\ crashed' = (listening' = "crashed")
    /\ UNCHANGED <<channelCount, accepted, pc, peer, netOpen, closed, closer,
                   up, ended, registry, socket, sock, readers>>

\* acceptConnection is started and the loop begins again.
Accept(id) ==
    /\ Alive
    /\ listening = "accept"
    /\ netOpen
    /\ accepted < MaxConns
    /\ accepted' = accepted + 1
    /\ listening' = "evaluate"
    /\ peer' = [peer EXCEPT ![accepted'] = id]
    /\ up' = up \cup {accepted'}
    /\ UNCHANGED <<channelCount, pc, netOpen, closed, closer, ended, registry,
                   socket, sock, readers, crashed>>

AcceptFails ==
    /\ Alive
    /\ listening = "accept"
    /\ ~netOpen
    /\ listening' = "exit"
    /\ UNCHANGED <<channelCount, accepted, pc, peer, netOpen, closed, closer,
                   up, ended, registry, socket, sock, readers, crashed>>

\* acceptConnection starts processStream for the stream and looks at IsClosed;
\* leaving the loop closes the connection.  A client opens its channels in
\* order.  A StreamInfo that cannot be read or is not valid ends the stream.
AcceptStream(c, i) ==
    /\ c \in up
    /\ pc[<<c, i>>] = "none"
    /\ \A j \in Channels : j < i => pc[<<c, j>>] # "none"
    /\ Cardinality({t \in Streams : pc[t] # "none"}) < MaxStreams
    /\ \E label \in {"register", "exit"} : Goto(<<c, i>>, label)
    /\ up' = IF closed THEN up \ {c} ELSE up
    /\ UNCHANGED <<net, closer, ended, registry, socket, sock, readers,
                   crashed>>

-----------------------------------------------------------------------------
(* The rest of processStream, run by the goroutine of stream t.            *)

Test(t) == Goto(t, IF Sockets[Id(t)] = None THEN "create" ELSE "find")

\* Slip: the map is tested without the lock.
LockToRegister_Unlocked(t) ==
    /\ pc[t] = "register"
    /\ Test(t)
    /\ UNCHANGED <<net, closer, up, ended, registry, socket, sock, readers,
                   crashed>>

LockToRegister(t) ==
    /\ pc[t] = "register"
    /\ lock = None
    /\ lock' = t
    /\ Test(t)
    /\ UNCHANGED <<net, closer, up, ended, Sockets, mapNil, remaining, socket,
                   sock, readers, crashed>>

\* NewSocket, CreateChannels, the entry in the map, OnAcceptSocket.
CreateSocket(t) ==
    /\ pc[t] = "create"
    /\ Enter(t, "find", mapNil)
    /\ Sockets' = IF mapNil THEN Sockets ELSE [Sockets EXCEPT ![Id(t)] = t]
    /\ UNCHANGED <<net, closer, up, ended, lock, mapNil, remaining, socket,
                   sock, readers>>

\* The map is read again: a callback may have removed the socket by now.
FindSocket(t) ==
    /\ pc[t] = "find"
    /\ Enter(t, "start", Sockets[Id(t)] = None)
    /\ sock' = [sock EXCEPT ![t] = Sockets[Id(t)]]
    /\ lock' = None
    /\ UNCHANGED <<net, closer, up, ended, Sockets, mapNil, remaining, socket,
                   readers>>

-----------------------------------------------------------------------------
(* HandleChannelStreamData of the channel that stream t is for.            *)

Slot(t) == slot[sock[t]][t[2]]

\* A channel that is closed has no slot any more; one that reads another
\* stream is given this one.
StartReader(t) ==
    /\ pc[t] = "start"
    /\ Enter(t, "read", Slot(t) = Nil)
    /\ slot' = IF Slot(t) = Nil THEN slot
               ELSE [slot EXCEPT ![sock[t]][t[2]] = t]
    /\ reading' = [reading EXCEPT ![t] = t]
    /\ UNCHANGED <<net, closer, up, ended, registry, isClosed, closeLock,
                   reported, sock, done>>

Readable(s) == s[1] \in up /\ s \notin ended

\* A message is dropped when the channel was closed meanwhile.
ReadMessage(t) ==
    /\ pc[t] = "read"
    /\ Readable(reading[t])
    /\ Goto(t, IF Slot(t) = Nil THEN "end" ELSE "send")
    /\ reading' = [reading EXCEPT ![t] = None]
    /\ UNCHANGED <<net, closer, up, ended, registry, socket, sock, done,
                   crashed>>

\* The loop looks at IsClosed and reads sc.Stream again.
Resume(t) ==
    /\ Goto(t, IF Slot(t) = Nil THEN "end" ELSE "read")
    /\ reading' = [reading EXCEPT ![t] = IF Slot(t) = Nil THEN None ELSE Slot(t)]

\* handleDataToChannel: the send is over when there is room in Channel, at
\* the latest when the application has received something.
HandOver(t) ==
    /\ pc[t] = "send"
    /\ ~done[sock[t]][t[2]]
    /\ Resume(t)
    /\ UNCHANGED <<net, closer, up, ended, registry, socket, sock, done,
                   crashed>>

\* Another reader has closed Channel and set it to nil.  When that was before
\* the test for nil, nothing is sent; when it was between the test and the
\* send, the reader waits for ever; a send under way panics.
HandOverToNobody(t) ==
    /\ pc[t] = "send"
    /\ done[sock[t]][t[2]]
    /\ \/ Resume(t) /\ UNCHANGED crashed
       \/ Goto(t, "stuck") /\ UNCHANGED <<reading, crashed>>
       \/ Enter(t, "crashed", TRUE) /\ UNCHANGED reading
    /\ UNCHANGED <<net, closer, up, ended, registry, socket, sock, done>>

ReadFails(t) ==
    /\ pc[t] = "read"
    /\ ~Readable(reading[t])
    /\ Goto(t, "end")
    /\ reading' = [reading EXCEPT ![t] = None]
    /\ UNCHANGED <<net, closer, up, ended, registry, socket, sock, done,
                   crashed>>

\* The deferred function closes Channel, forgets it and sets Done.
CloseGoChannel(t) ==
    /\ pc[t] = "end"
    /\ Goto(t, "disconnect")
    /\ done' = [done EXCEPT ![sock[t]][t[2]] = TRUE]
    /\ UNCHANGED <<net, closer, up, ended, registry, socket, sock, reading,
                   crashed>>

Cancelled(s) == {slot[s][i] : i \in Channels} \cap Streams

\* Slip: the channel is closed but its slot is not set to nil.
CallOnDisconnect_Kept(t) ==
    /\ pc[t] = "disconnect"
    /\ IF isClosed[sock[t]]
       THEN Goto(t, "exit") /\ UNCHANGED ended
       ELSE /\ Goto(t, "scan")
            /\ ended' = ended \cup ({Slot(t)} \cap Streams)
    /\ UNCHANGED <<net, closer, up, registry, socket, sock, readers, crashed>>

\* OnDisconnect of the channel: unless Socket.IsClosed, the channel is closed,
\* whichever stream it reads by now.
CallOnDisconnect(t) ==
    /\ pc[t] = "disconnect"
    /\ IF isClosed[sock[t]]
       THEN Goto(t, "exit") /\ UNCHANGED <<ended, slot>>
       ELSE /\ Goto(t, "scan")
            /\ ended' = ended \cup ({Slot(t)} \cap Streams)
            /\ slot' = [slot EXCEPT ![sock[t]][t[2]] = Nil]
    /\ UNCHANGED <<net, closer, up, registry, isClosed, closeLock, reported,
                   sock, readers, crashed>>

Scan(t) ==
    /\ pc[t] = "scan"
    /\ Goto(t, IF \A i \in Channels : slot[sock[t]][i] = Nil THEN "close"
               ELSE "exit")
    /\ UNCHANGED <<net, closer, up, ended, registry, socket, sock, readers,
                   crashed>>

-----------------------------------------------------------------------------
(* Socket.Close of sock[t], and the server's disconnect callback.          *)

Return(t) == IF t = App THEN "remove" ELSE "exit"

\* Slip: IsClosed is not looked at.
EnterClose_Unchecked(t) ==
    /\ pc[t] = "close"
    /\ closeLock[sock[t]] = None
    /\ Goto(t, "closing")
    /\ closeLock' = [closeLock EXCEPT ![sock[t]] = t]
    /\ UNCHANGED <<net, closer, up, ended, registry, slot, isClosed, reported,
                   sock, readers, crashed>>

EnterClose(t) ==
    /\ pc[t] = "close"
    /\ closeLock[sock[t]] = None
    /\ IF isClosed[sock[t]]
       THEN Goto(t, Return(t)) /\ UNCHANGED closeLock
       ELSE Goto(t, "closing") /\ closeLock' = [closeLock EXCEPT ![sock[t]] = t]
    /\ UNCHANGED <<net, closer, up, ended, registry, slot, isClosed, reported,
                   sock, readers, crashed>>

OnClosing(t) ==
    LET s == sock[t] IN
    /\ pc[t] = "closing"
    /\ Goto(t, "closed")
    /\ ended' = ended \cup Cancelled(s)
    /\ slot' = [slot EXCEPT ![s] = [i \in 0 .. MaxChannels - 1 |-> Nil]]
    /\ up' = up \ {s[1]}
    /\ UNCHANGED <<net, closer, registry, isClosed, closeLock, reported, sock,
                   readers, crashed>>

Owner(t) == Sockets[Id(sock[t])]

\* Slip: the callback does not look for the socket in the map.
SetClosed_NotRemoved(t) ==
    /\ pc[t] = "closed"
    /\ Goto(t, "report")
    /\ isClosed' = [isClosed EXCEPT ![sock[t]] = TRUE]
    /\ UNCHANGED <<net, closer, up, ended, registry, slot, closeLock, reported,
                   sock, readers, crashed>>

\* OnClosed calls the callback: whatever is registered under the id is taken
\* for this socket.
SetClosed(t) ==
    /\ pc[t] = "closed"
    /\ Goto(t, IF Owner(t) = None THEN "report" ELSE "unset")
    /\ isClosed' = [isClosed EXCEPT ![sock[t]] = TRUE]
    /\ UNCHANGED <<net, closer, up, ended, registry, slot, closeLock, reported,
                   sock, readers, crashed>>

Unset(t) ==
    /\ pc[t] = "unset"
    /\ Enter(t, "delete", mapNil)
    /\ Sockets' = [Sockets EXCEPT ![Id(sock[t])] = None]
    /\ UNCHANGED <<net, closer, up, ended, lock, mapNil, remaining, socket,
                   sock, readers>>

Delete(t) ==
    /\ pc[t] = "delete"
    /\ Goto(t, "report")
    /\ Sockets' = [Sockets EXCEPT ![Id(sock[t])] = None]
    /\ UNCHANGED <<net, closer, up, ended, lock, mapNil, remaining, socket,
                   sock, readers, crashed>>

Report(t) ==
    /\ pc[t] = "report"
    /\ Goto(t, Return(t))
    /\ reported' = [reported EXCEPT ![sock[t]] = @ + 1]
    /\ closeLock' = [closeLock EXCEPT ![sock[t]] = None]
    /\ UNCHANGED <<net, closer, up, ended, registry, slot, isClosed, sock,
                   readers, crashed>>

CloseSteps(t) ==
    \/ EnterClose(t) \/ OnClosing(t) \/ SetClosed(t)
    \/ Unset(t) \/ Delete(t) \/ Report(t)

-----------------------------------------------------------------------------
(* The application: Server.CloseSocket and Server.Close.                   *)

CallCloseSocket(k) ==
    /\ pc[App] = "idle"
    /\ Goto(App, "lock")
    /\ key' = k
    /\ UNCHANGED <<net, shutting, up, ended, registry, socket, sock, readers,
                   crashed>>

\* The end of CloseSocket, called alone or for a key of the map.
Done == IF shutting THEN "range" ELSE "idle"

\* Slip: an id that is not registered leaves the lock taken.
LockToClose_Kept ==
    /\ pc[App] = "lock"
    /\ lock = None
    /\ lock' = App
    /\ Goto(App, IF Sockets[key] = None THEN Done ELSE "get")
    /\ UNCHANGED <<net, closer, up, ended, Sockets, mapNil, remaining, socket,
                   sock, readers, crashed>>

LockToClose ==
    /\ pc[App] = "lock"
    /\ lock = None
    /\ IF Sockets[key] = None
       THEN Goto(App, Done) /\ UNCHANGED lock
       ELSE Goto(App, "get") /\ lock' = App
    /\ UNCHANGED <<net, closer, up, ended, Sockets, mapNil, remaining, socket,
                   sock, readers, crashed>>

\* The map is read again: closing nil panics.
GetToClose ==
    /\ pc[App] = "get"
    /\ Enter(App, "close", Sockets[key] = None)
    /\ sock' = [sock EXCEPT ![App] = Sockets[key]]
    /\ UNCHANGED <<net, closer, up, ended, registry, socket, readers>>

Remove ==
    /\ pc[App] = "remove"
    /\ Goto(App, Done)
    /\ Sockets' = [Sockets EXCEPT ![key] = None]
    /\ lock' = None
    /\ sock' = [sock EXCEPT ![App] = None]
    /\ UNCHANGED <<net, closer, up, ended, mapNil, remaining, socket, readers,
                   crashed>>

Registered == {Sockets[k] : k \in Ids} \ {None}

\* Server.OnClosing closes NetConn and the listener, then ranges over the map.
CallClose ==
    /\ pc[App] = "idle"
    /\ Goto(App, "range")
    /\ shutting' = TRUE
    /\ netOpen' = FALSE
    /\ remaining' = Registered
    /\ UNCHANGED <<channelCount, listening, accepted, peer, closed, key, up,
                   ended, lock, Sockets, mapNil, socket, sock, readers,
                   crashed>>

\* A range over a map yields every entry that is not removed before it is
\* reached, and may yield those that are added meanwhile.
RangeNext(k) ==
    /\ pc[App] = "range"
    /\ Sockets[k] # None
    /\ Goto(App, "lock")
    /\ key' = k
    /\ UNCHANGED <<net, shutting, up, ended, registry, socket, sock, readers,
                   crashed>>

RangeEnd ==
    /\ pc[App] = "range"
    /\ Registered \cap remaining = {}
    /\ Goto(App, "finish")
    /\ Sockets' = [k \in Ids |-> None]
    /\ mapNil' = TRUE
    /\ remaining' = {}
    /\ UNCHANGED <<net, closer, up, ended, lock, socket, sock, readers,
                   crashed>>

SetServerClosed ==
    /\ pc[App] = "finish"
    /\ Goto(App, "exit")
    /\ closed' = TRUE
    /\ UNCHANGED <<channelCount, listening, accepted, peer, netOpen, closer,
                   up, ended, registry, socket, sock, readers, crashed>>

RunApp ==
    \/ LockToClose \/ GetToClose \/ CloseSteps(App) \/ Remove
    \/ (\E k \in Ids : RangeNext(k)) \/ RangeEnd \/ SetServerClosed

-----------------------------------------------------------------------------
(* QUIC.                                                                   *)

\* The peer goes away, or its connection dies with NetConn.
LoseConn(c) ==
    /\ Alive
    /\ c \in up
    /\ up' = up \ {c}
    /\ UNCHANGED <<net, closer, pc, ended, registry, socket, sock, readers,
                   crashed>>

\* The peer ends the stream that t reads, which t finds out.
EndStream(t) ==
    /\ pc[t] = "read"
    /\ Readable(reading[t])
    /\ ended' = ended \cup {reading[t]}
    /\ reading' = [reading EXCEPT ![t] = None]
    /\ Goto(t, "end")
    /\ UNCHANGED <<net, closer, up, registry, socket, sock, done, crashed>>

AnyId == CHOOSE k \in Ids : TRUE

Init ==
    /\ channelCount \in 1 .. MaxChannels
    /\ listening = "evaluate"
    /\ accepted = 0
    /\ pc = [t \in Threads |-> IF t = App THEN "idle" ELSE "none"]
    /\ peer = [c \in Conns |-> AnyId]
    /\ key = AnyId /\ shutting = FALSE
    /\ up = {} /\ ended = {}
    /\ netOpen = TRUE /\ closed = FALSE
    /\ lock = None
    /\ Sockets = [k \in Ids |-> None]
    /\ mapNil = FALSE
    /\ remaining = {}
    /\ slot = [s \in Streams |-> [i \in 0 .. MaxChannels - 1 |-> New]]
    /\ isClosed = [s \in Streams |-> FALSE]
    /\ closeLock = [s \in Streams |-> None]
    /\ sock = [t \in Threads |-> None]
    /\ reading = [t \in Streams |-> None]
    /\ done = [s \in Streams |-> [i \in 0 .. MaxChannels - 1 |-> FALSE]]
    /\ reported = [s \in Streams |-> 0]
    /\ crashed = FALSE

Listen == EvaluateListener \/ AcceptFails
ServeStream(t) ==
    \/ LockToRegister(t) \/ CreateSocket(t)
    \/ FindSocket(t) \/ StartReader(t) \/ HandOverToNobody(t) \/ ReadFails(t)
    \/ CloseGoChannel(t) \/ CallOnDisconnect(t) \/ Scan(t) \/ CloseSteps(t)

Next ==
    \/ Listen
    \/ \E k \in Ids : Accept(k)
    \/ \E c \in Conns : LoseConn(c)
    \/ \E c \in Conns : \E i \in Channels : AcceptStream(c, i)
    \/ \E t \in Streams :
         ServeStream(t) \/ ReadMessage(t) \/ HandOver(t) \/ EndStream(t)
    \/ \E k \in Ids : CallCloseSocket(k)
    \/ CallClose
    \/ RunApp

Spec == Init /\ [][Next]_vars

\* Goroutines are scheduled, a connection dies with NetConn, and the
\* application keeps receiving from every channel it can still reach.
LiveSpec ==
    /\ Spec
    /\ WF_vars(Listen)
    /\ \A c \in Conns : WF_vars(LoseConn(c) /\ ~netOpen)
    /\ \A t \in Streams :
         WF_vars(ServeStream(t) \/ (HandOver(t) /\ Slot(t) # Nil))
    /\ WF_vars(RunApp)

-----------------------------------------------------------------------------
(* Properties.                                                             *)

Labels == {"none", "register", "create", "find", "start", "read",
           "send", "stuck", "end", "disconnect", "scan", "close", "closing", "closed",
           "unset", "delete", "report", "remove", "idle", "lock", "get",
           "range", "finish", "exit", "crashed"}

\* Every variable has its type.
TypeOK ==
    /\ channelCount \in 1 .. MaxChannels
    /\ listening \in {"evaluate", "accept", "exit", "crashed"}
    /\ accepted \in 0 .. MaxConns
    /\ pc \in [Threads -> Labels]
    /\ peer \in [Conns -> Ids] /\ key \in Ids /\ shutting \in BOOLEAN
    /\ up \subseteq Conns /\ ended \subseteq Streams
    /\ netOpen \in BOOLEAN /\ closed \in BOOLEAN /\ mapNil \in BOOLEAN
    /\ lock \in Threads \cup {None}
    /\ Sockets \in [Ids -> Streams \cup {None}]
    /\ remaining \subseteq Streams
    /\ slot \in [Streams -> [0 .. MaxChannels - 1 -> Streams \cup {New, Nil}]]
    /\ isClosed \in [Streams -> BOOLEAN]
    /\ closeLock \in [Streams -> Threads \cup {None}]
    /\ sock \in [Threads -> Streams \cup {None}]
    /\ reading \in [Streams -> Streams \cup {None}]
    /\ done \in [Streams -> [0 .. MaxChannels - 1 -> BOOLEAN]]
    /\ reported \in [Streams -> Nat]
    /\ crashed \in BOOLEAN

\* Streams of one peer that arrive together, or while a callback, CloseSocket
\* or Close is at work, never replace a registered socket by another.
NeverReplaced ==
    [][\A k \in Ids : Sockets[k] # None => Sockets'[k] \in {Sockets[k], None}]_vars

\* New streams are handed a closed socket only until its callback, which is
\* already running, has taken it out of the map.
ClosedIsLeaving ==
    \A k \in Ids : LET s == Sockets[k] IN
        s # None /\ isClosed[s] =>
            \E t \in Threads : sock[t] = s /\ pc[t] = "unset"

\* The application is told once that a socket is gone, and then nothing of
\* the socket is left.
ReportedOnce ==
    \A s \in Streams :
        /\ reported[s] <= 1
        /\ reported[s] = 1 => /\ isClosed[s] /\ s[1] \notin up
                              /\ \A i \in Channels : slot[s][i] = Nil
                              /\ s \notin {Sockets[k] : k \in Ids}

\* CloseSocket and Close return, though they hold the lock while they wait for
\* a socket that a reader is closing: the application is never stuck in them.
CloseReturns == []<>(pc[App] \in {"idle", "exit"} \/ ~Alive)

\* A socket whose every channel got its stream is reported when the peer is
\* gone and does not come back: none stays deserted and unreported.
Deserted(s) ==
    /\ \A i \in Channels : slot[s][i] # New
    /\ \A t \in Streams : sock[t] = s => t[1] \notin up

GoneIsReported ==
    []<>((\A s \in Streams : Deserted(s) => reported[s] = 1) \/ ~Alive)

=============================================================================
