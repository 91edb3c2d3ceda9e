# zero-net: specifications, model checking and proofs

zero-net is a Go library for sending audio, video and messages between a host
and its clients over QUIC, with an API for C programs. Small messages travel on
QUIC streams; large ones are cut into shards, protected by Reed-Solomon parity
shards (FEC) and sent as QUIC datagrams, which may be lost or reordered. This
directory holds TLA+ models of it, the TLC runs that check them and the theorems
that TLAPS proves about them. Paths below are relative to `src/`.

## The system

| Component | State it keeps | Operations | What is hard |
|---|---|---|---|
| FEC sender (`framework/network/socket.go` SendFecDatagram, `packetizer.go`) | group, frame and packet counters per stream | cut, number, encode, send | three numbering schemes (audio, video, message); uint8 and uint16 wrap |
| FEC receiver (`depacketizer.go`, `socket.go` GetFecDecodeInfo, `channel.go` FecDecode) | groups being assembled (by uint8 id), current group, frame and block, loss statistics | filter, jump, store, decode, skip, deliver | reordering, loss, duplicates, expiry, reuse of ids, jumps across the wrap; on a server, `InitFecParam` beside the datagram goroutine |
| Socket and StreamChannels (`socket.go`, `channel.go`, `framework/dispose.go`) | slots of channels, two mutexes, closed flags, a Go channel of 200 messages each | read, deliver, receive, send, CloseChannel, Close, OnDisconnect | many goroutines, most of them without a lock |
| Client (`client/client.go`) | one Socket | connect, close | starts the goroutines while the application may already close |
| Server (`server/server.go`) | Sockets by client id, one mutex | accept, process stream, close socket | ids used again, callbacks under locks, maps without locks |
| C API (`exports/openapi.go`) | one client, one server, one manager, the current buffer | thin wrappers, receive into a C buffer | callers on any thread |
| ManagePlatform (`agent/manage.go`) | WebSocket, ticker, agents | connect, heartbeat, listen, reconnect, close | heartbeats of successive connections |
| Agent authentication (`agent/common.go`) | none between calls | SYN and REQ, three attempts each | late answers |
| WebSocket client (`websocket/client.go`) | connection, flags, ticker | connect, read, heartbeat, disconnect, reconnect, close | no lock at all |
| Network status (`framework/network/collector.go`) | atomic counters | record, report once a second | several producers |
| ICE, HTTP, JSON, TLS, logging, socket options | none | I/O and conversions | left out |

How they interact: a client's `ConnectToNet` dials, creates a `Socket` with its
`StreamChannels`, starts one `HandleChannelStreamData` goroutine per channel
and, with FEC, one `HandleChannelStreamDatagram` goroutine for all of them. Both
kinds put messages into the Go channel `StreamChannel.Channel`, from which an
application thread takes them through `ClientChannelReceive`. A server does the
same for every stream it accepts, and calls `InitFecParam` for each, which on a
client is done before the goroutines start. When a reader ends it calls `OnDisconnect`,
which closes its channel and, if it was the last, the Socket, whose
`OnDisconnect` tells the application (on a server it also takes the Socket out
of the map). `ManagePlatform` receives proxies from a WebSocket, authenticates
an `Agent` with each and starts a `Server` on it. The WebSocket client is a
component of its own that an application uses beside the others.

What makes each component correct, in one sentence:

- FEC stream: groups come out in order, at most once, with their own data (audio on
  a server, where `InitFecParam` interferes: in order below the group it jumps to).
- Socket: it comes down once, with everything closed, without a deadlock.
- Server: the Socket registered under an id is never replaced while it is there, a
  closed Socket leaves the map and is reported once, and closing returns.
- Platform connection: one connection up at a time, dialled again when lost; a close
  ends the loop; one server per proxy, on a UDP socket the proxy accepted.
- WebSocket client: connected means watched, lost means dialled again, closed means
  that the client says so and stays so.

## Modules

| Module | What it is |
|---|---|
| `SerialNumbers` | wrapping arithmetic and `IsBefore`, with half the ring as parameter |
| `FecStream` | what every FEC stream has: sender, datagrams under way, the receiver's state and its methods |
| `Depacketizer` | the receiver of video and of messages; extends `FecStream` |
| `AudioDepacketizer` | the receiver of audio, with `InitFecParam` beside it; extends `FecStream` |
| `FecDelivery` | what an FEC stream promises its consumer; both receivers implement it |
| `FecStreamProofs` | lemmas about the methods, for both receivers |
| `DepacketizerProofs` | types of video and messages; their safety and the refinement within one lap of the ring |
| `DepacketizerMessageProofs` | message streams over a network that loses nothing, across laps |
| `AudioDepacketizerProofs` | types of audio; its safety and the refinement within one lap |
| `SocketLifecycle` | goroutines, locks and closing of a client's Socket |
| `SocketLifecycleProofs` | its types, and its safety for any number of channels |
| `Server` | connections, streams and the registry of Sockets, with its lock |
| `ServerProofs` | its types and safety, for any number of peers and streams |
| `WebSocketClient` | connect, read, heartbeat, disconnect, reconnect, close |
| `WebSocketClientProofs` | its types, and that a connected client is watched |
| `AgentAuth` | one agent's authentication with a proxy over UDP |
| `ManagePlatform` | the platform loop, its heartbeats and Close; extends `AgentAuth` |
| `ManagePlatformProofs` | types, agents and connections, for any number of rounds |

The modules have no constants fixed in them; each `.cfg` instantiates one of
them directly.

### FecStream and Depacketizer

`packetizer` is the sender's `Packetizer` with the counters its caller keeps,
`net` the datagrams under way, `depacketizer` the receiver's `Depacketizer`,
`pc` and `packet` the datagram goroutine: `"idle"` before `ReceiveDatagram`,
`"decode"` in the loop of `FecDecode`, `"crashed"` after a panic. `output` is the
last group handed to the consumer.

| Action | Code |
|---|---|
| `Send` (`FecStream`) | `Socket.SendFecDatagram`; all the shards of a group at once |
| `Receive` | `GetFecDecodeInfo` (filter, jump to a key frame) and `RtpAddPacket` (store, count) for one datagram |
| `AwaitGroup`, `AwaitShards`, `DeliverGroup` | the three ways an iteration of the loop of `FecDecode` ends for video and messages; each includes the `DoNextGroup`, loss report or recount made on the way |

Only the datagram goroutine touches the `Depacketizer` of a video or message
stream (`InitFecParam` moves audio alone), so that nothing can come between the reads
and writes of one of these steps.

Every group carries a ghost *generation*, counted from 1 and never wrapping. The
code never reads it; the properties compare generations. The content of a shard
is the generation it was cut from, or `Zeroes` for the zero-filled slice the code
allocates, or `Nil`. `Kind` selects how the sender cuts data; one stream has one
kind, as one channel has one type.

Half a ring is a constant (`Half8` stands for 128, `Half16` for 32768), so that
TLC can go round the ring in a few groups and the proofs cover every size. `Window`
bounds how far a datagram lags behind the sender, `MaxGroups` how many groups
there are. Left out: the data lengths that disagree and the errors of the
Reed-Solomon library (shards of one group have one length, so neither can
occur), `WaitingForIdrFrame` (never set), the wording of logs, and the rebuilt
RTP headers.

### AudioDepacketizer

Two goroutines use the `Depacketizer` of an audio stream, without a lock: the
datagram goroutine and the *opener*, which runs `InitFecParam` and in it
`JumpToNextGroup`. On a client the opener has returned before the datagram
goroutine is started (`opener = "none"`, the jump is in `Init`). A server starts
the datagram goroutine at `server.go:213` and calls `InitFecParam` at line 218,
then again for every stream of the peer; the opener may begin at any time and any
number of times (openers hold the server's lock, so there is one at a time).
Each action ends before the next read or write of `Groups` or `CurrentGroupId`
that could tell whether the other goroutine came between.

| Action | Code |
|---|---|
| `GetFecDecodeInfo`, `AddPacket` | the filter (`socket.go:421`), and `RtpAddPacket` (`channel.go:300`) |
| `LookUpCurrent`, `CompareWithCurrent`, `LookUpOwnGroup` | `channel.go:302`, 305 and 308; the last panics when the group is gone |
| `AimAtOwnGroup`, `DropOlder`, `MoveToOwnGroup` | the jump to a complete group (`channel.go:310` to 319): its target, its loop, its assignment |
| `AwaitShards`, `SkipExpired`, `DeliverGroup` | a group too short; one too short that has expired; one with enough shards. The last two hand over the group looked up before, and delete what is current now |
| `Advance` | `CurrentGroupId++` in `DoNextGroup`, a read and a write: a jump between them is lost |
| `InitFecParam`, `AimAtStart`, `StartAtCurrent`, `DropPassed`, `ArriveAtStart` | `JumpToNextGroup`: its test, its target, the start of its loop, each deletion, its assignment |

Reductions: `RtpAddPacket` looks up, fills and stores a group in one step, as the
opener never adds one and a group it deletes meanwhile might as well have been
deleted before or after; the loop of `DropOlder` is one step, as the opener never
reads `Groups`; the frame, block and loss counters, which nothing decides upon in
audio, and the clock are left out: each look at `ExpiredAt` may find that it has
passed. That simultaneous access to a Go map may end the process is not in the
model.

What the race can do, and the model shows: the opener may delete the packet's own
group between `channel.go:305` and 308, and the goroutine panics at 309. It may
find `CurrentGroupId` behind group 100 and, by the time it assigns, the stream may
be past it: the assignment takes the stream back, and groups from 100 on may come
out again, out of order. Groups that were buffered may be deleted without having
been delivered. What survives it: the data of two groups is never mixed, the order
holds below group 100 (`loose` in `FecDelivery`), and the decode loop ends. On a
client all the promises hold; the properties named `Client...` say so.

### FecDelivery

Groups are delivered in increasing order, each at most once, with data of that
group only; groups may be left out and shards may be zeroes. Only within the set
`loose` may the stream go back: it is empty for video, messages and the audio of
a client, and `SkipTo .. MaxGroups` for audio on a server. `last` is mapped to
`output.gen` and `data` to `output.shards`.

### SocketLifecycle

Each goroutine is a thread with a label: a reader per channel, a consumer per
channel (`ClientChannelReceive`), the datagram goroutine, an application thread
that closes the client and one that closes channels one by one
(`ClientChannelClose`). `Close` is a procedure that readers and application
threads run, with one action per step taken under, or waiting for, a lock.
Everything the code reads without a lock is read in a step of its own, so that
the model has the races of the code: slots that become nil between two reads, a
Go channel closed between the test and the send, a stream set to nil before the
closed flag. A panic ends the program and with it every thread.

`StreamChannel`'s own close lock is only taken under `channelEditLock` and is left
out, as is `Done`, which only shortens the poll of at most a hundred milliseconds
in `StreamChannel.OnClosing`: the poll may end at any time. The application's
`OnDisconnect` is set and does not call back into the socket. Read deadlines are
never set, so the timeout branch of the reader is left out.

### Server

A stream of a connection, `<<c, i>>`, names the goroutine that serves it, and the
Socket it creates: `pc[t]` is where that goroutine is, from `processStream`
(`"register"` to `"find"`) to the reader of the channel (`"start"` to `"scan"`) and
on to `Socket.Close`, a procedure it shares with the application. `Sockets` is the
map, `lock` the server's lock. The disconnect callback reads, clears and deletes
its entry in three steps, as it holds no lock. A peer may come back under the same
id while its old Socket is registered, is being closed, or has gone.

| Action | Code |
|---|---|
| `EvaluateListener`, `Accept`, `AcceptFails` | the loop of `StartListen`, which reads `listener` twice |
| `AcceptStream` | `acceptConnection`, and the start of `processStream` up to its checks |
| `LockToRegister`, `CreateSocket`, `FindSocket` | `processStream` under the lock; the map is read three times |
| `StartReader`, `ReadMessage`, `HandOver`, `HandOverToNobody`, `ReadFails`, `CloseGoChannel`, `CallOnDisconnect`, `Scan` | `HandleChannelStreamData`, `handleDataToChannel` and the channel's callback |
| `EnterClose`, `OnClosing`, `SetClosed`, `Unset`, `Delete`, `Report` | `Socket.Close` with the server's callback |
| `CallCloseSocket`, `LockToClose`, `GetToClose`, `Remove` | `ServerSocketClose`, `CloseSocket` |
| `CallClose`, `RangeNext`, `RangeEnd`, `SetServerClosed` | `Server.Close`, which ranges over the map while others change it |

Reductions: closing a channel, and all channels of a Socket, is one step
(`SocketLifecycle` takes those apart); the test for an id is made in the step that
takes the lock; one application thread calls `CloseSocket` and at last `Close`;
one operation on a map is one step, so that the fatal error of the Go runtime for
simultaneous map writes is not in the model; every peer has the same
`ChannelCount`. The C API's `socketMap`, a second map of the same Sockets from which
the callback of `ServerStartListen` deletes nothing, is left out.

A reader hands each message over with a send that blocks while the queue of 200 is
full: it stays at `"send"` until `HandOver`, which may take any time, and meanwhile
sees nothing of its connection. When a stream was attached to a Socket whose
earlier reader of the same channel has ended, the queue is closed and nil (`done`):
the send is skipped, waits for ever or panics (`HandOverToNobody`).

### WebSocketClient

The threads are the caller of `Connect` (which goes on as the heartbeat) and the
reader, one of each per connection, and the application's `Close`; `working` counts
goroutines of `ReconnectWorking` that sleep or dial. Every field of `Client` is
shared without a lock, so `Connect` and `Disconnect` are taken apart at each write:
two Disconnects may run at once, and a dial may succeed after a Close. A ticker
that was stopped never ticks; the loop that ranges over it waits for ever, as in
Go. A connection is up, silent (nothing arrives, nothing fails), lost, or sent a
close frame.

A connection that a dial returns after Close, or that two Disconnects overwrite, may
stay open although the client says that it is disconnected; `ClosedStaysDown` is
about what the client says.

Reductions: a tick and the `Stop` of its ticker, the test of `Conn` and its `Close`,
and the last two lines of `Disconnect` are one step each; the dial includes its
failed attempts. Left out: `Send`, a client without a heart message (which has no
heartbeat), and an `OnDisconnected` that calls `Connect` itself.

### AgentAuth and ManagePlatform

`AgentAuth` has no `Next` of its own: its actions are steps of the loop in
`ManagePlatform`, which extends it. `phase` is where `authAgent` is, `inFlight` which
answers may still arrive, and `accepted` a ghost: the proxies that took the request
sent from the socket in use. An answer is delivered at any later time, any number
of times, so that late answers to the SYN meet the second phase.

`ManagePlatform` has the loop of `ProxyServerCreate` (`loop`), one goroutine of
`Hearts` per round (`heart`) and `ServerClose` (`app`). Rounds name connections,
heartbeats and tickers. `wsConn` and `heartTicker` are the shared fields. The
comparison of `config.Id` in `Hearts` is never true, since the id is set once, and
is left out: old heartbeats run on beside the new one, as in the code. `failures`
counts the reads that fail on a dead connection, which gorilla/websocket answers
with a panic after a thousand (`MaxFailedReads`).

`OnClosed` closes the connection in `wsConn` (`CloseConn`, `manage.go:95`) and then
forgets the one that is there by then (`UnsetConn`, 96): the loop may assign a new
connection in between, which stays up and is known to nobody. `OneConnection`
therefore promises that one connection is up at most, and that it is the one in
`wsConn` unless it is just being set or the platform was closed. A heartbeat too
finds the platform silent and then reads `wsConn` again (`Tick`, `CloseSilent`),
which may be nil by then.

Reductions: stopping a ticker and setting its field to nil are one step, in
`Hearts` and in `OnClosing`; so are the tests that a tick begins with. Left out: the pings, and a platform created again
after `ServerClose`.

## Runs

| Run | Instance | Shows |
|---|---|---|
| `fec_audio` | 2+1 shards, 4 groups, ring of 8, a window of 2, `InitFecParam` jumps to group 2 at any time, loss and reordering | on a client: no buffered group is overtaken, none is read when it is gone, one leaves the buffer only when delivered or for a newer complete one; on client and server: the loop ends, `FecDelivery` is implemented |
| `fec_video` | 2 shards, two blocks a frame, 4 groups, ring of 8, loss, reordering, duplicates, key frames | within a lap: types, no group overtaken, none left out for nothing, `FecDelivery`, no panic, that frame and block counters follow the groups, and that the loss report never fires |
| `fec_message` | 2+1 shards, 9 groups, ring of 4, no loss, reordering | over more than two laps every message is delivered, in order, none is left in the buffer once all has arrived, and no group mixes two generations |
| `fec_recovery` | 2+1 shards, 2 groups | *violated*: shards lost are delivered as zeroes although parity arrived |
| `fec_ring_reuse` | 5 groups, ring of 4, loss | *violated*: a stalled stream mixes shards of two generations |
| `fec_jump_wrap` | video, 7 groups, ring of 6 | *violated*: a key frame across the wrap leaves an older group |
| `socket_closing` | 2 channels, no data, both application threads | the application is told once, with everything closed; no lock circle; the socket comes down |
| `socket_receiving` | 1 channel of capacity 1, 3 arrivals, consumer, datagrams, `CloseChannel` | types; the socket comes down with data under way and queues full |
| `socket_datagram_exit` | the same | *violated*: closing a channel makes the datagram goroutine panic |
| `server_peers` | one id, 2 connections, up to 2 channels, 2 streams, queues that may be full | a registered Socket is never replaced, a closed one leaves the map, each is reported once and then nothing is left of it, `CloseSocket` and `Close` return, a deserted Socket is reported |
| `websocket_reconnect` | 2 connections | a connected client is watched, a lost connection is dialled again, a closed client stays down |
| `agent_platform` | 1 proxy, 2 attempts, 2 rounds, 2 failed reads | types; servers run on accepted sockets, one per proxy; one connection up at a time, forgotten by Close only; a lost one is dialled again; Close ends the loop |

The bounds: the order of groups, shards and jumps is decided by the comparison of
ids within half a ring, so a ring of 4 to 8 ids has each case (behind, current,
ahead, wrapped). Two data shards and one parity shard give "complete", "short",
"complete by parity" and "lost". Three or four groups suffice for a group that is
delivered, one that is jumped over, one that is buffered ahead and one that is
the target. With four audio groups and `InitFecParam` at group 2 the stream may pass
the opener while it jumps, and is taken back over groups delivered and groups still
buffered (1.9 million states). Two channels are the least with a "last" one. A capacity of 1 makes
every queue full at once. The five-group and longer instances exist to go round
the ring.

The server's hazards lie in one id that is used twice, by one peer's two streams
or by two connections: two streams give both (two channels of one connection; one
channel of each of two), while different ids share nothing but the lock. Two
connections of the WebSocket client are the one that is lost and the one that
follows, whose threads run with those left from the first; the case of two
reconnects started by two Disconnects needs a third and is out of reach. Two
rounds of the platform have an old heartbeat beside a new one; two attempts a
first and a last; two failed reads one that is forgiven and one that panics.

### Fairness

`LiveSpec` of `AudioDepacketizer`, and of `Depacketizer`, assumes only that the decode
loop, once begun, is scheduled (weak fairness of `FecDecode`): Go runs a runnable
goroutine. `ReliableSpec` of `Depacketizer` adds that the application sends and that QUIC delivers, and is used only for
`AllDelivered`. `LiveSpec` of `SocketLifecycle` assumes that each goroutine is
scheduled and that the application goes on receiving until it is told that the
channel is closed; it does not assume that data arrives, the connection fails or
somebody closes. Weak fairness is enough for the locks as each is taken a
bounded number of times. A program that panicked has no obligations left.

`LiveSpec` of `Server` has weak fairness for every goroutine, the listener, the
application once it has begun to close, the loss of connections once the packet
connection is closed (their idle timeout), and for `HandOver` on a channel that is
still in its slot: the application goes on receiving from every channel it can
reach. The program does not force it to; without it a reader that waits at a full
queue never notices that its peer is gone, and the Socket is never reported. Peers
need not come, send or leave. That of `WebSocketClient` has it for every thread and for the reconnect, whose
dial succeeds at last; that of `ManagePlatform` for the loop, the heartbeats, a Close
that was begun and the passing of time, but neither for a successful dial nor
for a message. The application need not close in any of them.

## Theorems

TLAPS proves, for all values of the constants that satisfy the assumptions, of
`Depacketizer`, that is of video and messages:

- `TypeCorrect`: `Spec => []TypeOK`. The invariant adds that the packets counted
  as received are those in the slots (`Counted`), which bounds the counter, and
  that frames number no more than groups.
- `NeverMixed`, `NeverOvertaken`, `ImplementsDelivery`: under `OneLap`, that is
  while the sender does not go round the ring and datagrams lag less than half a
  ring, a group never mixes generations, is never overtaken by what is
  delivered, and every step is a step of `FecDelivery` or leaves it unchanged.
  The lap invariant says why: a generation determines its group id (`group = gen`
  on the ring), so what is stored under an id has the generation the id stands for;
  the current id stands for a generation that is larger than everything
  delivered, and everything buffered is at or after it. None of these alone is
  preserved by a jump, all of them together are.
- Under `OneLap` too, with `FrameInv` on top of the lap invariant:
  - `NeverPanics`. The packets cut from one group agree on where its sequence
    numbers start (`KinInv`), so the last packet of a buffered group lies in a slot
    that is filled (`IndexInv`): `Packets[maxIdx]` is there.
  - `LossGoesUnreported`: packets count as missing only while the stream counts
    as out of sequence, since the current group or later (`Excused`). The
    counter and the flag are changed on several paths, and the flag may be taken back
    only by a packet stamped later than the one that set it; both are about the
    current group, and every way on from it clears the counter. The proof needs
    the packets of a group to be stamped within the cooldown of each other (five
    minutes in the program; in the model they have one time).
  - `FramesTracked`: groups are numbered `gen + B = frame * B + block + 1`, and the
    receiver's current id, frame and block satisfy that equation for its frame or
    the next one (`PlaceInv`). A place has one frame and one block (`OnePlace`), so
    a group at the receiver's place is of its block. Jumps to key frames set all
    three, deliveries advance all three.
  - `MessagesInTurn`: a lost message stops the stream and is never left out.
    `GroupsLeaveForNewer`: a group leaves the buffer for its delivery or for a key
    frame only.

In the program `OneLap` says that a stream has sent less than 255 groups since it
began, and that a datagram is less than 128 groups late.

Of `AudioDepacketizer`, with the opener at work at any time:

- `TypeCorrect`, without further hypotheses.
- `NeverMixed` and `ImplementsDelivery`, under `AudioLap`: less than 255 groups, no
  datagram half a ring late, and the group `InitFecParam` jumps to in the first half
  of the ring (100 of 256). Every read of `CurrentGroupId` that is used later is
  bounded by what it may have become: the id a group was looked up under, or
  `SkipTo` (`StillAt`); a packet that passed the comparison may be delivered
  (`InTurn`), as the only thing the opener can do to the stream is to take it to
  `SkipTo`; and no id is ahead of the packet under decode by more than the window
  (`Reached`), although the opener may have moved the stream since it was filtered,
  so that comparisons on the ring are comparisons of generations (`Arithmetic`).
- `NeverOvertaken`, `NeverPanics`, `GroupsLeaveForNewer`, under `AudioLap`, of a client:
  they are false on a server, and the properties say so in their first words. The
  invariant adds that without an opener everything buffered is at or after the
  current id, that the packet's own group is there while it is compared, and that
  what the goroutine has read still holds when it is used (`InOrder`).

Again of `Depacketizer`:

- `MessagesWithoutGap`, `MessagesNotStranded`, `MessagesNotMixed`,
  `MessagesNotOvertaken`, `MessagesNeverPanic`, `MessagesImplementDelivery`,
  `MessagesTracked`, `MessagesUnreported` and `MessagesLeaveDelivered`: under
  `ReliableMessages`, that is for messages, when no datagram is lost and those
  under way span at most half the ring (`Window <= Half8`), with duplicates or
  without. Here the ids are reused: `MaxGroups` is bounded only by the 16 bits
  that number messages. The argument therefore reckons ids from the sender's
  (`IdOf`), which is unambiguous as long as the sender is less than a ring ahead.
  That it is, is the core of `MsgInv`: no shard of a message still to come is lost
  (`MsgKept`), and between two datagrams the next message is incomplete
  (`MsgIdle`), so one of its shards is still under way, which holds the sender
  within one window of it (`WantedIsInFlight`). While the loop delivers a run of
  messages the sender may come up to two windows ahead (`MsgPlace`); `MsgLoop`
  bounds it by what has not been read since the loop began. The filter then drops
  only datagrams of delivered messages (`FilterInTurn`). `MsgCount` adds the frame
  counter and the excuse for missing packets.

Of `SocketLifecycle`, for every number of channels and every mix of `Roles`:

- `TypeCorrect`; `OnceNotified`: `OnDisconnect` is called at most once, when
  `IsClosed` is set; `CleanWhenClosed`: by then no slot, channel or connection is
  left; `UnusedWhenClosed`: what a reader saw before it went on to close the
  socket still holds; `LocksInOrder`: nobody waits for the close mutex while
  holding `channelEditLock`.
- The five follow from one inductive invariant, `IInv`. A mutex has a holder
  exactly while that thread's label lies in the critical section, read both
  ways: `CloseLockHeld` and `LocksOrdered` say that the holder is inside,
  `CloseLockNeeded` and `EditLockNeeded` that whoever is inside is the holder, and
  so alone. `NotifiedOnce` is not inductive: it needs `NotifiedByClose`, the
  number of notifications as a function of `isClosed` and `closeLock`.
  `ClosedIsClean` needs `UnlistedIsClosed`, because `OnClosing` sees only the
  slots that are still there, and `CleanSoon`, from the end of `OnClosing` on.
- The proof treats a step outside the critical sections (`OutsideStep`) and a
  step into, inside or out of them (`InsideStep`) once each; the actions only
  show that they are one or the other.

Of `Server`, for any number of peers, connections, channels and streams:

- `SocketNeverReplaced`, from the invariant `Registering`: whoever is between the
  test and the registration holds the lock (`LockNeeded`), and the id is still
  vacant (`VacantOnCreate`), because everyone else, with the lock or without, can
  only remove.
- `ClosedSocketLeaves` and `SocketReportedOnce`, from `Leaving` on top of it: who
  holds a Socket's close mutex, and what is left of the Socket at each stage of
  its close. The difficulty is the callback, which removes whatever is registered
  under its id: the two theorems hold because a Socket stays under its id until it
  is closed or another's callback removes it, and never comes back.
- `TypeCorrect`, from both.

Of `WebSocketClient`: `WatchedWhenConnected`, whose invariant says that a step of one
thread leaves the watch to the others or takes it over, and `TypeCorrect`. Of
`ManagePlatform` with `AgentAuth`: `AgentsAreAccepted` (an answer to a request is
under way only when the proxy took it, and only a proxy without an agent is being
connected), `OneConnectionHeld` (a connection that is up is that of the current
round, as the loop only leaves a connection it found dead; it is in `wsConn`, or
about to be put there, or Close has forgotten it) and `TypeCorrect`.

Without `OneLap` or `ReliableMessages`, `NeverMixed` is false, as `fec_ring_reuse`
shows: there a message is lost. The hypotheses are met by instances with any
sizes of groups; `fec_video` is one of `OneLap`, `fec_audio` of `AudioLap`,
`fec_message` of `ReliableMessages`.

Liveness (`DecodeEnds`, `AllDelivered`, `ComesDown`, `CloseReturns`, `GoneIsReported`,
`Reconnects`, `ClosedStaysDown`, `LoopEnds`) is checked by TLC only, as the prover
cannot reason about fairness; `MessagesWithoutGap` and `MessagesNotStranded` are
the safety half of `AllDelivered`. Every other property that a run finds to hold
is the subject of a theorem; for audio and video, all but type correctness only
within one lap.

## What the code does otherwise than it says

1. Parity is received but never used to rebuild data: missing shards are replaced
   by zero-filled slices before `ReconstructData`, which only rebuilds empty ones
   (`fec_recovery`).
2. A message or video group that misses a shard is waited for without end; when
   the sender has gone round the ring, shards are mixed (`fec_ring_reuse`).
3. Jumping across the end of the ring adds 255 instead of 256 and leaves one
   group behind (`fec_jump_wrap`).
4. The nil test for a closed channel comes after its first use in the datagram
   goroutine (`socket_datagram_exit`).

Seen while modelling, and part of the models' behaviour rather than findings, since
no document promises otherwise:

- The "speculative RFI" of `channel.go` can never be sent: its condition asks for
  missing packets in a stream that is in sequence, and whatever counts a packet as
  missing also takes the stream for out of sequence (`LossGoesUnreported`).
- On a server the jump of `InitFecParam` races the decode loop of audio: see
  `AudioDepacketizer`.
- A connection to the platform that is set while `OnClosed` is between closing and
  forgetting stays up and is known to nobody (`OneConnection` excepts it).
- A server's reader that is at a queue another reader has closed panics or waits for
  ever (`HandOverToNobody`).
- A peer that returns before its old Socket is gone is attached to the old Socket;
  if a channel of it is closed already, the goroutine panics (`StartReader`).
- A peer that is lost before it opened all its channels leaves its Socket
  registered: `GoneIsReported` excepts it.
- Two racing Disconnects of the WebSocket client leave a connection open, or
  overwrite one with another.
- The heartbeat of an old platform connection may stop the ticker of the new one,
  after which a silent connection is not noticed: `Reconnects` excepts it.
- Stopping a ticker leaves the goroutine that ranges over it waiting for ever.

## What is left

1. The uint8 arithmetic of shard counts (`socket.go` SendFecDatagram) against a
   reference definition.
2. The composition of `ManagePlatform` with the `Server` of each agent, and a
   platform created again after it was closed.
3. Theorems: audio and video across laps of the ring, with the weaker `FecDelivery`
   that is then true of them; the safety half of what the sockets, the server and
   the platform promise to happen at last.

## Not modelled

ICE, HTTP, JSON, TLS, logging and socket options are I/O and conversions. The
layout of headers is left to the tests. The agent's packet socket adds and removes
a header; the status tracer only counts and reports. `Send` and `Ping` of a Socket
change no state of it. Buffers of the C API are copied and keep no state between
calls.
