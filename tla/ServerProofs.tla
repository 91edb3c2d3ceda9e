------------------------------ MODULE ServerProofs ------------------------------
(***************************************************************************)
(* For any number of peers, connections, channels and streams: a           *)
(* registered socket is never replaced by another, a closed one is on its  *)
(* way out of the map, and the application hears once that it is gone.     *)
(*                                                                         *)
(* The proof has two inductive invariants.  Registering says who holds the *)
(* server's lock and what its holder knows of the map.  On top of it,      *)
(* Leaving says who holds the close mutex of a socket, and what is left of *)
(* the socket at each stage of its close.                                  *)
(***************************************************************************)
EXTENDS Server, TLAPS

CloseLabels == {"closing", "closed", "unset", "delete", "report"}
StreamLabels == CloseLabels \cup
    {"none", "register", "create", "find", "start", "read", "send", "stuck",
     "end", "disconnect", "scan", "close", "exit", "crashed"}

\* Where the application holds the lock.
AppLocked == CloseLabels \cup {"get", "close", "remove"}
AppLabels == AppLocked \cup {"idle", "lock", "range", "finish", "exit", "crashed"}

LEMMA Names ==
    /\ App \in Threads /\ App \notin Streams /\ App # None
    /\ None \notin Streams
    /\ \A t \in Streams : t \in Threads /\ t[1] \in Conns /\ t[2] \in 0 .. MaxChannels - 1
    /\ \A t \in Threads : t \in Streams \/ t = App
BY ServerAssumption DEF Threads, Streams, App, None, Conns

-----------------------------------------------------------------------------
(* The lock and the map.                                                   *)

RegisterTypes ==
    /\ pc \in [Threads -> StreamLabels \cup AppLabels]
    /\ pc[App] \in AppLabels
    /\ \A t \in Streams : pc[t] \in StreamLabels
    /\ channelCount \in 1 .. MaxChannels
    /\ accepted \in 0 .. MaxConns
    /\ up \subseteq 1 .. accepted
    /\ peer \in [Conns -> Ids] /\ key \in Ids
    /\ Sockets \in [Ids -> Streams \cup {None}]

\* The lock is held by whoever changes the map in its critical section.
LockNeeded ==
    /\ \A t \in Streams : pc[t] \in {"create", "find"} => lock = t
    /\ pc[App] \in AppLocked => lock = App

\* Between the test and the registration nobody else registers the id.
VacantOnCreate == \A t \in Streams : pc[t] = "create" => Sockets[Id(t)] = None

\* Only streams of connections that were accepted are served.
Served == \A t \in Streams : pc[t] # "none" => t[1] <= accepted

Registering == RegisterTypes /\ LockNeeded /\ VacantOnCreate /\ Served

LEMMA RegisteringInit == Init => Registering
<1> SUFFICES ASSUME Init PROVE Registering
  OBVIOUS
<1>1. pc[App] = "idle" /\ \A t \in Streams : pc[t] = "none"
  BY Names DEF Init
<1>2. pc \in [Threads -> StreamLabels \cup AppLabels]
  BY DEF Init, StreamLabels, AppLabels
<1>3. peer \in [Conns -> Ids] /\ key \in Ids
  BY ServerAssumption DEF Init, AnyId
<1>4. RegisterTypes
  BY <1>1, <1>2, <1>3, ServerAssumption
     DEF Init, RegisterTypes, StreamLabels, AppLabels, Conns
<1>5. LockNeeded /\ VacantOnCreate /\ Served
  BY <1>1 DEF LockNeeded, VacantOnCreate, Served, AppLocked, CloseLabels
<1> QED
  BY <1>4, <1>5 DEF Registering

\* A thread that moves on without touching the lock and the map.
LEMMA MoveRegistering ==
    ASSUME Registering, NEW t \in Threads, NEW l, Goto(t, l),
           UNCHANGED <<channelCount, accepted, peer, lock, Sockets>>,
           up' \subseteq up, key' \in Ids,
           t \in Streams => /\ l \in StreamLabels \ {"create", "find"}
                            /\ pc[t] # "none" \/ t[1] \in up,
           t = App => /\ l \in AppLabels
                      /\ l \in AppLocked => pc[t] \in AppLocked
    PROVE  Registering'
<1> USE Names DEF Registering
<1>1. pc' = [pc EXCEPT ![t] = l]
  BY DEF Goto
<1>2. pc'[t] = l /\ \A u \in Threads : u # t => pc'[u] = pc[u]
  BY <1>1 DEF RegisterTypes
<1>3. RegisterTypes'
  <2>1. pc' \in [Threads -> StreamLabels \cup AppLabels]
    BY <1>1 DEF RegisterTypes
  <2>2. pc'[App] \in AppLabels /\ \A u \in Streams : pc'[u] \in StreamLabels
    BY <1>2 DEF RegisterTypes
  <2> QED
    BY <2>1, <2>2 DEF RegisterTypes
<1>4. LockNeeded'
  BY <1>2 DEF LockNeeded
<1>5. ASSUME NEW u \in Streams, pc'[u] = "create"
      PROVE  Sockets'[Id(u)'] = None
  <2>1. pc[u] = "create" /\ Id(u)' = Id(u)
    BY <1>2, <1>5 DEF Id
  <2> QED
    BY <2>1 DEF VacantOnCreate
<1>6. Served'
  <2>1. \A c \in up : c <= accepted
    BY DEF RegisterTypes
  <2>2. t \in Streams => t[1] <= accepted
    BY <2>1 DEF Served
  <2> QED
    BY <1>2, <2>2 DEF Served
<1> QED
  BY <1>3, <1>4, <1>5, <1>6 DEF VacantOnCreate

\* A reader sends, or finds nobody to send to, and goes on or ends.
SendStep(t) == ReadMessage(t) \/ HandOver(t) \/ HandOverToNobody(t)

\* A step of a reader outside Socket.Close.
ReaderStep(t) ==
    \/ StartReader(t) \/ SendStep(t) \/ ReadFails(t) \/ EndStream(t)
    \/ CloseGoChannel(t) \/ CallOnDisconnect(t) \/ Scan(t)

\* Where a reader's channel was given a stream.
ReadLabels == {"read", "send"}

LEMMA SendMoves ==
    ASSUME NEW t \in Streams, SendStep(t)
    PROVE  /\ pc[t] \in ReadLabels
           /\ \E l \in {"read", "send", "stuck", "end", "crashed"} : Goto(t, l)
           /\ UNCHANGED <<net, closer, up, ended, registry, socket, sock, done>>
BY DEF SendStep, ReadMessage, HandOver, HandOverToNobody, Resume, Enter, ReadLabels

\* The steps of a stream's goroutine that only move on.
LEMMA StreamRegistering ==
    ASSUME Registering, NEW t \in Streams, ReaderStep(t)
    PROVE  Registering'
<1> DEFINE next == {"read", "send", "stuck", "end", "disconnect", "scan", "close",
                    "exit", "crashed"}
<1>1. PICK l \in next : Goto(t, l)
  BY SendMoves DEF ReaderStep, StartReader, ReadFails, EndStream, CloseGoChannel,
         CallOnDisconnect, Scan, Enter
<1>2. /\ pc[t] # "none" /\ UNCHANGED up
      /\ UNCHANGED <<channelCount, accepted, peer, lock, Sockets, key>>
  BY SendMoves DEF ReaderStep, StartReader, ReadFails, EndStream, CloseGoChannel,
         CallOnDisconnect, Scan, net, closer, registry, ReadLabels
<1>3. key \in Ids /\ t \in Threads /\ t # App
  BY Names DEF Registering, RegisterTypes
<1>4. l \in StreamLabels \ {"create", "find"}
  BY DEF StreamLabels
<1> QED
  BY <1>1, <1>2, <1>3, <1>4, MoveRegistering

\* The steps of Socket.Close that do not change the map.
LEMMA CloseRegistering ==
    ASSUME Registering, NEW t \in Threads,
           EnterClose(t) \/ OnClosing(t) \/ SetClosed(t) \/ Report(t)
    PROVE  Registering'
<1> DEFINE next == {"closing", "closed", "report", "unset", Return(t)}
<1>1. PICK l \in next : Goto(t, l)
  BY DEF EnterClose, OnClosing, SetClosed, Report
<1>2. /\ pc[t] \in CloseLabels \cup {"close"} /\ up' \subseteq up
      /\ UNCHANGED <<channelCount, accepted, peer, lock, Sockets, key>>
  BY DEF EnterClose, OnClosing, SetClosed, Report, net, closer, registry, CloseLabels
<1>3. key \in Ids
  BY DEF Registering, RegisterTypes
<1>4. t \in Streams => l \in StreamLabels \ {"create", "find"} /\ pc[t] # "none"
  BY <1>2, Names DEF StreamLabels, CloseLabels, Return
<1>5. t = App => l \in AppLocked /\ pc[t] \in AppLocked
  BY <1>2 DEF AppLocked, CloseLabels, Return
<1> QED
  BY <1>1, <1>2, <1>3, <1>4, <1>5, MoveRegistering DEF AppLabels

LEMMA AcceptStreamRegistering ==
    ASSUME Registering, NEW c \in Conns, NEW i \in Channels, AcceptStream(c, i)
    PROVE  Registering'
<1> DEFINE t == <<c, i>>
<1>1. t \in Streams /\ t[1] = c
  BY ServerAssumption DEF Streams, Channels, Registering, RegisterTypes
<1>2. PICK l \in {"register", "exit"} : Goto(t, l)
  BY DEF AcceptStream
<1>3. /\ t[1] \in up /\ up' \subseteq up
      /\ UNCHANGED <<channelCount, accepted, peer, lock, Sockets, key>>
  BY <1>1 DEF AcceptStream, net, closer, registry
<1>4. key \in Ids /\ t \in Threads /\ t # App
  BY <1>1, Names DEF Registering, RegisterTypes
<1>5. l \in StreamLabels \ {"create", "find"}
  BY DEF StreamLabels
<1> QED
  BY <1>1, <1>2, <1>3, <1>4, <1>5, MoveRegistering

\* The steps of the application that only move on.
LEMMA AppRegistering ==
    ASSUME Registering,
           \/ (\E k \in Ids : CallCloseSocket(k) \/ RangeNext(k))
           \/ GetToClose \/ CallClose \/ SetServerClosed
    PROVE  Registering'
<1>1. PICK l \in {"lock", "range", "exit", "close", "crashed"} :
              Goto(App, l) /\ (l = "close" => pc[App] = "get")
  BY DEF CallCloseSocket, RangeNext, GetToClose, CallClose, SetServerClosed, Enter
<1>2. /\ UNCHANGED up /\ key' \in Ids
      /\ UNCHANGED <<channelCount, accepted, peer, lock, Sockets>>
  BY DEF CallCloseSocket, RangeNext, GetToClose, CallClose, SetServerClosed, net,
         closer, registry, Registering, RegisterTypes
<1>3. l \in AppLabels /\ (l \in AppLocked => pc[App] \in AppLocked)
  BY <1>1 DEF AppLabels, AppLocked, CloseLabels
<1> QED
  BY <1>1, <1>2, <1>3, Names, MoveRegistering

\* Nobody moves on but StartListen.
LEMMA ListenRegistering ==
    ASSUME Registering,
           Listen \/ (\E k \in Ids : Accept(k)) \/ \E c \in Conns : LoseConn(c)
    PROVE  Registering'
<1> USE DEF Registering
<1>1. CASE \E k \in Ids : Accept(k)
  <2>1. PICK k \in Ids : Accept(k)
    BY <1>1
  <2>2. /\ accepted' = accepted + 1 /\ accepted < MaxConns
        /\ peer' = [peer EXCEPT ![accepted'] = k]
        /\ up' = up \cup {accepted'}
        /\ UNCHANGED <<channelCount, pc, lock, Sockets, key>>
    BY <2>1 DEF Accept, registry, closer
  <2>3. RegisterTypes'
    <3>1. accepted \in Nat /\ MaxConns \in Nat
      BY ServerAssumption DEF RegisterTypes
    <3>2. accepted' \in 0 .. MaxConns
      BY <2>2, <3>1
    <3>3. up' \subseteq 1 .. accepted'
      BY <2>2, <3>1 DEF RegisterTypes
    <3>4. peer' \in [Conns -> Ids]
      BY <2>2 DEF RegisterTypes
    <3> QED
      BY <2>2, <3>2, <3>3, <3>4 DEF RegisterTypes
  <2>4. ASSUME NEW t \in Streams, pc[t] # "none"
        PROVE  t[1] # accepted' /\ t[1] <= accepted' /\ Id(t)' = Id(t)
    <3>1. t[1] <= accepted /\ t[1] \in Conns
      BY <2>4, Names DEF Served
    <3>2. accepted \in Nat
      BY DEF RegisterTypes
    <3>3. t[1] # accepted' /\ t[1] <= accepted'
      BY <2>2, <3>1, <3>2 DEF Conns
    <3> QED
      BY <2>2, <3>1, <3>3 DEF Id, RegisterTypes
  <2>5. LockNeeded' /\ Served'
    BY <2>2, <2>4 DEF LockNeeded, Served
  <2>6. VacantOnCreate'
    BY <2>2, <2>4 DEF VacantOnCreate
  <2> QED
    BY <2>3, <2>5, <2>6
<1>2. CASE Listen \/ \E c \in Conns : LoseConn(c)
  <2>1. /\ up' \subseteq up
        /\ UNCHANGED <<channelCount, accepted, peer, key, pc, lock, Sockets>>
    BY <1>2 DEF Listen, EvaluateListener, AcceptFails, LoseConn, net, registry, closer
  <2> QED
    BY <2>1 DEF RegisterTypes, LockNeeded, VacantOnCreate, Served, Id
<1> QED
  BY <1>1, <1>2

\* The types survive a step that moves one thread and changes an entry.
LEMMA MoveTypes ==
    ASSUME RegisterTypes, NEW t \in Threads, NEW l, Goto(t, l),
           UNCHANGED <<channelCount, accepted, peer, key, up>>,
           Sockets' \in [Ids -> Streams \cup {None}],
           t \in Streams => l \in StreamLabels,
           t = App => l \in AppLabels
    PROVE  /\ RegisterTypes'
           /\ pc'[t] = l
           /\ \A u \in Threads : u # t => pc'[u] = pc[u]
           /\ \A u \in Threads : Id(u)' = Id(u)
<1>1. pc' = [pc EXCEPT ![t] = l]
  BY DEF Goto
<1>2. pc'[t] = l /\ \A u \in Threads : u # t => pc'[u] = pc[u]
  BY <1>1 DEF RegisterTypes
<1>3. pc' \in [Threads -> StreamLabels \cup AppLabels]
  BY <1>1, Names DEF RegisterTypes
<1>4. pc'[App] \in AppLabels /\ \A u \in Streams : pc'[u] \in StreamLabels
  BY <1>2, Names DEF RegisterTypes
<1>5. \A u \in Threads : Id(u)' = Id(u)
  BY DEF Id
<1> QED
  BY <1>2, <1>3, <1>4, <1>5 DEF RegisterTypes

LEMMA LockToRegisterStep ==
    ASSUME Registering, NEW t \in Streams, LockToRegister(t)
    PROVE  Registering'
<1> USE DEF Registering
<1> DEFINE l == IF Sockets[Id(t)] = None THEN "create" ELSE "find"
<1>1. /\ pc[t] = "register" /\ lock = None /\ lock' = t /\ Goto(t, l)
      /\ UNCHANGED <<channelCount, accepted, peer, key, up, Sockets>>
  BY DEF LockToRegister, Test, net, closer
<1>2. t \in Threads /\ t # App /\ t # None /\ App # None
  BY Names
<1> HIDE DEF l
<1>3. l \in {"create", "find"} /\ (l = "create" => Sockets[Id(t)] = None)
  BY DEF l
<1>4. /\ RegisterTypes' /\ pc'[t] = l
      /\ \A u \in Threads : u # t => pc'[u] = pc[u]
      /\ \A u \in Threads : Id(u)' = Id(u)
  BY <1>1, <1>2, <1>3, MoveTypes DEF RegisterTypes, StreamLabels
<1>5. LockNeeded'
  BY <1>1, <1>2, <1>4, Names DEF LockNeeded
<1>6. VacantOnCreate'
  BY <1>1, <1>3, <1>4, Names DEF VacantOnCreate
<1>7. Served'
  BY <1>1, <1>4, Names DEF Served
<1> QED
  BY <1>4, <1>5, <1>6, <1>7

LEMMA CreateSocketStep ==
    ASSUME Registering, NEW t \in Streams, CreateSocket(t)
    PROVE  Registering'
<1> USE DEF Registering
<1> DEFINE l == IF mapNil THEN "crashed" ELSE "find"
<1>1. /\ pc[t] = "create" /\ Goto(t, l)
      /\ Sockets' = IF mapNil THEN Sockets ELSE [Sockets EXCEPT ![Id(t)] = t]
      /\ UNCHANGED <<channelCount, accepted, peer, key, up, lock>>
  BY DEF CreateSocket, Enter, net, closer
<1>2. t \in Threads /\ t # App
  BY Names
<1> HIDE DEF l
<1>3. l \in {"crashed", "find"}
  BY DEF l
<1>4. Sockets' \in [Ids -> Streams \cup {None}]
  BY <1>1 DEF RegisterTypes
<1>5. /\ RegisterTypes' /\ pc'[t] = l
      /\ \A u \in Threads : u # t => pc'[u] = pc[u]
      /\ \A u \in Threads : Id(u)' = Id(u)
  BY <1>1, <1>2, <1>3, <1>4, MoveTypes DEF StreamLabels
<1>6. LockNeeded'
  BY <1>1, <1>2, <1>3, <1>5, Names DEF LockNeeded
<1>7. \A u \in Streams : pc'[u] # "create"
  BY <1>1, <1>3, <1>5, Names DEF LockNeeded
<1>8. Served'
  BY <1>1, <1>5, Names DEF Served
<1> QED
  BY <1>5, <1>6, <1>7, <1>8 DEF VacantOnCreate

\* Entries are removed with or without the lock, which is let go or not.
LEMMA RemovingStep ==
    ASSUME Registering, NEW t \in Threads, NEW l, Goto(t, l),
           UNCHANGED <<channelCount, accepted, peer, key, up>>,
           Sockets' \in [Ids -> Streams \cup {None}],
           \A k \in Ids : Sockets'[k] \in {Sockets[k], None},
           \/ lock' = lock
           \/ lock' = None /\ lock = t,
           pc[t] # "none",
           t \in Streams => l \in StreamLabels \ {"create", "find"},
           t = App => /\ l \in AppLabels
                      /\ l \in AppLocked => pc[t] \in AppLocked /\ lock' = lock
    PROVE  Registering'
<1> USE DEF Registering
<1>1. /\ RegisterTypes' /\ pc'[t] = l
      /\ \A u \in Threads : u # t => pc'[u] = pc[u]
      /\ \A u \in Threads : Id(u)' = Id(u)
  BY MoveTypes
<1>2. LockNeeded'
  BY <1>1, Names DEF LockNeeded
<1>3. ASSUME NEW u \in Streams, pc'[u] = "create"
      PROVE  Sockets'[Id(u)'] = None
  <2>1. pc[u] = "create" /\ Id(u)' = Id(u)
    BY <1>1, <1>3, Names
  <2>2. Id(u) \in Ids
    BY Names DEF Id, RegisterTypes
  <2> QED
    BY <2>1, <2>2 DEF VacantOnCreate
<1>4. Served'
  BY <1>1, Names DEF Served
<1> QED
  BY <1>1, <1>2, <1>3, <1>4 DEF VacantOnCreate

LEMMA FindSocketStep ==
    ASSUME Registering, NEW t \in Streams, FindSocket(t)
    PROVE  Registering'
<1>1. PICK l \in {"start", "crashed"} : Goto(t, l)
  BY DEF FindSocket, Enter
<1>2. /\ pc[t] = "find" /\ lock' = None
      /\ UNCHANGED <<channelCount, accepted, peer, key, up, Sockets>>
  BY DEF FindSocket, net, closer
<1>3. lock = t
  BY <1>2 DEF Registering, LockNeeded
<1>4. Sockets' \in [Ids -> Streams \cup {None}]
  BY <1>2 DEF Registering, RegisterTypes
<1>5. l \in StreamLabels \ {"create", "find"} /\ t \in Threads /\ t # App
  BY Names DEF StreamLabels
<1> QED
  BY <1>1, <1>2, <1>3, <1>4, <1>5, RemovingStep

LEMMA CallbackStep ==
    ASSUME Registering, NEW t \in Threads, Unset(t) \/ Delete(t)
    PROVE  Registering'
<1>1. PICK l \in {"delete", "report", "crashed"} : Goto(t, l)
  BY DEF Unset, Delete, Enter
<1>2. /\ pc[t] \in CloseLabels
      /\ Sockets' = [Sockets EXCEPT ![Id(sock[t])] = None]
      /\ UNCHANGED <<channelCount, accepted, peer, key, up, lock>>
  BY DEF Unset, Delete, CloseLabels, net, closer
<1>3. /\ Sockets' \in [Ids -> Streams \cup {None}]
      /\ \A k \in Ids : Sockets'[k] \in {Sockets[k], None}
  BY <1>2 DEF Registering, RegisterTypes
<1>4. l \in StreamLabels \ {"create", "find"} /\ pc[t] # "none"
  BY <1>2 DEF StreamLabels, CloseLabels
<1>5. l \in AppLabels /\ (t = App => pc[t] \in AppLocked)
  BY <1>2 DEF AppLabels, AppLocked, CloseLabels
<1> QED
  BY <1>1, <1>2, <1>3, <1>4, <1>5, RemovingStep

LEMMA LockToCloseStep ==
    ASSUME Registering, LockToClose
    PROVE  Registering'
<1> USE DEF Registering
<1>1. PICK l \in {"get", "idle", "range"} :
              Goto(App, l) /\ lock' = IF l = "get" THEN App ELSE lock
  BY DEF LockToClose, Done
<1>2. /\ pc[App] = "lock" /\ lock = None
      /\ UNCHANGED <<channelCount, accepted, peer, key, up, Sockets>>
  BY DEF LockToClose, net, closer
<1>3. /\ RegisterTypes' /\ pc'[App] = l
      /\ \A u \in Threads : u # App => pc'[u] = pc[u]
      /\ \A u \in Threads : Id(u)' = Id(u)
  BY <1>1, <1>2, MoveTypes, Names DEF RegisterTypes, AppLabels, AppLocked
<1>4. LockNeeded'
  BY <1>1, <1>2, <1>3, Names DEF LockNeeded, AppLocked, CloseLabels
<1>5. VacantOnCreate' /\ Served'
  BY <1>2, <1>3, Names DEF VacantOnCreate, Served
<1> QED
  BY <1>3, <1>4, <1>5

LEMMA RemoveStep ==
    ASSUME Registering, Remove \/ RangeEnd
    PROVE  Registering'
<1>1. PICK l \in {"idle", "range", "finish"} : Goto(App, l)
  BY DEF Remove, RangeEnd, Done
<1>2. UNCHANGED <<channelCount, accepted, peer, key, up>>
  BY DEF Remove, RangeEnd, net, closer
<1>3. lock' = lock \/ (lock' = None /\ lock = App)
  BY DEF Remove, RangeEnd, Registering, LockNeeded, AppLocked
<1>4. /\ Sockets' \in [Ids -> Streams \cup {None}]
      /\ \A k \in Ids : Sockets'[k] \in {Sockets[k], None}
  BY DEF Remove, RangeEnd, Registering, RegisterTypes
<1>5. pc[App] # "none" /\ l \in AppLabels /\ l \notin AppLocked
  BY DEF Remove, RangeEnd, AppLabels, AppLocked, CloseLabels
<1> QED
  BY <1>1, <1>2, <1>3, <1>4, <1>5, Names, RemovingStep

LEMMA RegisteringStep == Registering /\ [Next]_vars => Registering'
<1> SUFFICES ASSUME Registering, [Next]_vars
             PROVE  Registering'
  OBVIOUS
<1>1. CASE Listen \/ (\E k \in Ids : Accept(k)) \/ \E c \in Conns : LoseConn(c)
  BY <1>1, ListenRegistering
<1>2. CASE \E c \in Conns : \E i \in Channels : AcceptStream(c, i)
  BY <1>2, AcceptStreamRegistering
<1>3. ASSUME NEW t \in Threads, CloseSteps(t)
      PROVE  Registering'
  BY <1>3, CloseRegistering, CallbackStep DEF CloseSteps
<1>4. CASE \E t \in Streams : ServeStream(t) \/ SendStep(t) \/ EndStream(t)
  BY <1>3, <1>4, Names, StreamRegistering, LockToRegisterStep, CreateSocketStep,
     FindSocketStep DEF ServeStream, SendStep, ReaderStep
<1>5. CASE (\E k \in Ids : CallCloseSocket(k)) \/ CallClose \/ RunApp
  BY <1>3, <1>5, Names, AppRegistering, LockToCloseStep, RemoveStep DEF RunApp
<1>6. CASE UNCHANGED vars
  BY <1>6 DEF vars, Registering, RegisterTypes, LockNeeded, VacantOnCreate, Served, Id
<1> QED
  BY <1>1, <1>2, <1>4, <1>5, <1>6 DEF Next, SendStep

\* Whatever streams of a peer arrive together, and whoever closes sockets
\* meanwhile, a registered socket is removed but never replaced.
THEOREM SocketNeverReplaced == Spec => NeverReplaced
<1> DEFINE Kept == \A k \in Ids : Sockets[k] # None => Sockets'[k] \in {Sockets[k], None}
<1>1. Registering /\ [Next]_vars => [Kept]_vars
  <2> SUFFICES ASSUME Registering, [Next]_vars
               PROVE  Kept
    OBVIOUS
  <2>1. ASSUME NEW t \in Threads, CloseSteps(t)
        PROVE  Kept
    BY <2>1 DEF CloseSteps, EnterClose, OnClosing, SetClosed, Unset, Delete, Report,
                registry, Registering, RegisterTypes
  <2>2. ASSUME NEW t \in Streams, ServeStream(t) \/ SendStep(t) \/ EndStream(t)
        PROVE  Kept
    <3>1. CASE CreateSocket(t)
      BY <3>1 DEF CreateSocket, Registering, RegisterTypes, VacantOnCreate
    <3>2. CASE CloseSteps(t)
      BY <2>1, <3>2, Names
    <3>3. CASE \/ LockToRegister(t) \/ FindSocket(t) \/ StartReader(t)
               \/ ReadFails(t) \/ CloseGoChannel(t) \/ CallOnDisconnect(t)
               \/ Scan(t) \/ SendStep(t) \/ EndStream(t)
      BY <3>3, SendMoves
         DEF LockToRegister, FindSocket, StartReader, ReadFails, CloseGoChannel,
             CallOnDisconnect, Scan, EndStream, registry
    <3> QED
      BY <2>2, <3>1, <3>2, <3>3 DEF ServeStream, SendStep
  <2>3. CASE (\E k \in Ids : CallCloseSocket(k)) \/ CallClose \/ RunApp
    <3>1. CASE CloseSteps(App)
      BY <2>1, <3>1, Names
    <3>2. CASE Remove \/ RangeEnd
      BY <3>2 DEF Remove, RangeEnd, Registering, RegisterTypes
    <3>3. CASE \/ (\E k \in Ids : CallCloseSocket(k) \/ RangeNext(k))
               \/ CallClose \/ LockToClose \/ GetToClose \/ SetServerClosed
      BY <3>3 DEF CallCloseSocket, RangeNext, CallClose, LockToClose, GetToClose,
                  SetServerClosed, registry
    <3> QED
      BY <2>3, <3>1, <3>2, <3>3 DEF RunApp
  <2>4. CASE \/ Listen \/ (\E k \in Ids : Accept(k)) \/ (\E c \in Conns : LoseConn(c))
             \/ (\E c \in Conns : \E i \in Channels : AcceptStream(c, i))
             \/ UNCHANGED vars
    BY <2>4 DEF Listen, EvaluateListener, AcceptFails, Accept, LoseConn,
                AcceptStream, vars, registry
  <2> QED
    BY <2>2, <2>3, <2>4 DEF Next, SendStep
<1> QED
  BY <1>1, RegisteringInit, RegisteringStep, PTL DEF Spec, NeverReplaced

-----------------------------------------------------------------------------
(* Closing a socket.                                                       *)

\* Where a stream has no socket of its own yet.
FreshLabels == {"none", "register", "create"}

\* Where a thread works on a socket.
Using ==
    CloseLabels \cup {"start", "read", "send", "end", "disconnect", "scan", "close"}

LeaveTypes ==
    /\ sock \in [Threads -> Streams \cup {None}]
    /\ isClosed \in [Streams -> BOOLEAN]
    /\ closeLock \in [Streams -> Threads \cup {None}]
    /\ reported \in [Streams -> Nat]
    /\ slot \in [Streams -> [0 .. MaxChannels - 1 -> Streams \cup {New, Nil}]]

\* A socket is registered under the id of its peer; nobody knows a socket that
\* was not created, and none such is closed.
Known ==
    /\ \A k \in Ids : Sockets[k] # None =>
         peer[Sockets[k][1]] = k /\ pc[Sockets[k]] \notin FreshLabels
    /\ \A t \in Threads : sock[t] # None => pc[sock[t]] \notin FreshLabels
    /\ \A t \in Streams : pc[t] \in FreshLabels => ~isClosed[t]

InUse == \A t \in Threads : pc[t] \in Using => sock[t] # None

Clean(s) == s[1] \notin up /\ \A i \in 0 .. MaxChannels - 1 : slot[s][i] = Nil

\* What whoever closes a socket can rely on, stage by stage.
Closing ==
    \A t \in Threads :
        /\ pc[t] \in CloseLabels => closeLock[sock[t]] = t
        /\ pc[t] \in {"closing", "closed"} => ~isClosed[sock[t]]
        /\ pc[t] = "closed" => Clean(sock[t])
        /\ pc[t] \in {"unset", "delete", "report"} =>
             isClosed[sock[t]] /\ reported[sock[t]] = 0

Remains ==
    \A s \in Streams :
        /\ isClosed[s] => Clean(s)
        /\ ~isClosed[s] => reported[s] = 0
        /\ reported[s] <= 1

Leaving ==
    LeaveTypes /\ Known /\ InUse /\ Closing /\ Remains /\ ClosedIsLeaving

LEMMA LeavingInit == Init => Leaving
<1> SUFFICES ASSUME Init PROVE Leaving
  OBVIOUS
<1>1. \A t \in Threads : pc[t] \in {"none", "idle"} /\ sock[t] = None
  BY DEF Init
<1>2. LeaveTypes
  BY DEF Init, LeaveTypes
<1>3. Known /\ Remains /\ ClosedIsLeaving
  BY <1>1 DEF Init, Known, Remains, ClosedIsLeaving
<1>4. InUse /\ Closing
  BY <1>1 DEF InUse, Closing, Using, CloseLabels
<1> QED
  BY <1>2, <1>3, <1>4 DEF Leaving

\* A thread that is not closing a socket, and does not begin to, may remove
\* entries of the map, go over to a registered socket, close a channel or see
\* connections end.
LEMMA MoveLeaving ==
    ASSUME Registering, Leaving,
           NEW t \in Threads, NEW l, NEW v, Goto(t, l),
           UNCHANGED <<peer, isClosed, closeLock, reported>>,
           up' \subseteq up,
           slot' \in [Streams -> [0 .. MaxChannels - 1 -> Streams \cup {New, Nil}]],
           \A s \in Streams : \A i \in 0 .. MaxChannels - 1 :
               slot[s][i] = Nil => slot'[s][i] = Nil,
           Sockets' \in [Ids -> Streams \cup {None}],
           \A k \in Ids : Sockets'[k] \in {Sockets[k], None},
           sock' = [sock EXCEPT ![t] = v],
           v \in {sock[t], None} \cup {Sockets[k] : k \in Ids},
           pc[t] \notin CloseLabels, l \notin CloseLabels,
           l \in Using => v # None,
           l \in FreshLabels => pc[t] \in FreshLabels
    PROVE  Leaving'
<1> USE DEF Leaving
<1>1. /\ pc'[t] = l
      /\ \A u \in Threads : u # t => pc'[u] = pc[u]
  BY DEF Goto, Registering, RegisterTypes
<1>2. /\ sock'[t] = v
      /\ \A u \in Threads : u # t => sock'[u] = sock[u]
  BY DEF LeaveTypes
<1>3. v \in Streams \cup {None} /\ (v # None => pc[v] \notin FreshLabels)
  BY DEF LeaveTypes, Known, Registering, RegisterTypes
<1>4. LeaveTypes'
  BY <1>3 DEF LeaveTypes
<1>5. \A u \in Threads : pc'[u] \in FreshLabels => pc[u] \in FreshLabels
  BY <1>1
<1>6. \A s \in Streams : Clean(s) => Clean(s)'
  BY DEF Clean
<1>7. Known'
  <2>1. \A k \in Ids : Sockets'[k] # None =>
          peer'[Sockets'[k][1]] = k /\ pc'[Sockets'[k]] \notin FreshLabels
    BY <1>5, Names DEF Known, Registering, RegisterTypes
  <2>2. \A u \in Threads : sock'[u] # None => pc'[sock'[u]] \notin FreshLabels
    BY <1>2, <1>3, <1>5, Names DEF Known, LeaveTypes
  <2>3. \A u \in Streams : pc'[u] \in FreshLabels => ~isClosed'[u]
    BY <1>5, Names DEF Known
  <2> QED
    BY <2>1, <2>2, <2>3 DEF Known
<1>8. InUse'
  BY <1>1, <1>2 DEF InUse
<1>9. \A u \in Threads : pc'[u] \in CloseLabels =>
        u # t /\ pc'[u] = pc[u] /\ sock'[u] = sock[u] /\ sock[u] \in Streams
  BY <1>1, <1>2 DEF InUse, Using, LeaveTypes
<1>10. Closing'
  BY <1>6, <1>9 DEF Closing, CloseLabels
<1>11. Remains'
  BY <1>6 DEF Remains
<1>12. ClosedIsLeaving'
  <2>1. \A u \in Threads : pc[u] = "unset" => pc'[u] = pc[u] /\ sock'[u] = sock[u]
    BY <1>1, <1>2 DEF CloseLabels
  <2> QED
    BY <2>1 DEF ClosedIsLeaving
<1> QED
  BY <1>4, <1>7, <1>8, <1>10, <1>11, <1>12

\* What a step that writes one slot does to all of them.
LEMMA OneSlot ==
    ASSUME LeaveTypes, NEW r \in Streams, NEW j \in 0 .. MaxChannels - 1,
           NEW x \in Streams \cup {Nil},
           slot' = [slot EXCEPT ![r][j] = x],
           slot[r][j] = Nil => x = Nil
    PROVE  /\ slot' \in [Streams -> [0 .. MaxChannels - 1 -> Streams \cup {New, Nil}]]
           /\ \A s \in Streams : \A i \in 0 .. MaxChannels - 1 :
                  /\ slot[s][i] = Nil => slot'[s][i] = Nil
                  /\ slot'[s][i] = New => slot[s][i] = New
<1> DEFINE row == [slot[r] EXCEPT ![j] = x]
<1>1. slot' = [slot EXCEPT ![r] = row]
  OBVIOUS
<1>2. slot[r] \in [0 .. MaxChannels - 1 -> Streams \cup {New, Nil}]
  BY DEF LeaveTypes
<1>3. row \in [0 .. MaxChannels - 1 -> Streams \cup {New, Nil}]
  BY <1>2
<1>4. row[j] = x /\ \A i \in 0 .. MaxChannels - 1 : i # j => row[i] = slot[r][i]
  BY <1>2
<1> HIDE DEF row
<1>5. slot'[r] = row /\ \A s \in Streams : s # r => slot'[s] = slot[s]
  BY <1>1 DEF LeaveTypes
<1>6. slot' \in [Streams -> [0 .. MaxChannels - 1 -> Streams \cup {New, Nil}]]
  BY <1>1, <1>3 DEF LeaveTypes
<1>7. New \notin Streams \cup {Nil}
  BY ServerAssumption DEF New, Nil, Streams, Conns
<1>8. ASSUME NEW s \in Streams, NEW i \in 0 .. MaxChannels - 1
      PROVE  /\ slot[s][i] = Nil => slot'[s][i] = Nil
             /\ slot'[s][i] = New => slot[s][i] = New
  BY <1>4, <1>5, <1>7
<1> QED
  BY <1>6, <1>8

\* The steps of a stream's goroutine outside Socket.Close.
LEMMA StreamLeaving ==
    ASSUME Registering, Leaving, NEW t \in Streams,
           LockToRegister(t) \/ FindSocket(t) \/ ReaderStep(t)
    PROVE  Leaving'
<1> USE Names DEF Leaving, LeaveTypes, FreshLabels, Using, CloseLabels, ReadLabels
<1>0. SendStep(t) => /\ UNCHANGED <<peer, isClosed, closeLock, reported, up>>
                     /\ UNCHANGED <<slot, sock, Sockets>>
  BY SendMoves DEF net, registry, socket
<1>1. t \in Threads /\ sock' = [sock EXCEPT ![t] = sock'[t]]
  BY <1>0 DEF LockToRegister, FindSocket, ReaderStep, StartReader, ReadFails,
         EndStream, CloseGoChannel, CallOnDisconnect, Scan
<1>2. /\ UNCHANGED <<peer, isClosed, closeLock, reported, up, Sockets>>
      /\ Sockets' \in [Ids -> Streams \cup {None}]
  BY <1>0 DEF LockToRegister, FindSocket, ReaderStep, StartReader, ReadFails,
         EndStream, CloseGoChannel, CallOnDisconnect, Scan, net, registry, socket,
         Registering, RegisterTypes
<1>3. CASE LockToRegister(t)
  <2>1. PICK l \in {"create", "find"} : Goto(t, l)
    BY <1>3 DEF LockToRegister, Test
  <2>2. pc[t] = "register" /\ UNCHANGED <<slot, sock>>
    BY <1>3 DEF LockToRegister, socket
  <2> QED
    BY <1>1, <1>2, <2>1, <2>2, MoveLeaving
<1>4. CASE FindSocket(t)
  <2>1. PICK l \in {"start", "crashed"} :
               Goto(t, l) /\ (l = "start" => Sockets[Id(t)] # None)
    BY <1>4 DEF FindSocket, Enter
  <2>2. /\ pc[t] = "find" /\ UNCHANGED slot
        /\ sock' = [sock EXCEPT ![t] = Sockets[Id(t)]]
    BY <1>4 DEF FindSocket, socket
  <2>3. Id(t) \in Ids
    BY DEF Id, Registering, RegisterTypes
  <2> QED
    BY <1>1, <1>2, <2>1, <2>2, <2>3, MoveLeaving
<1>5. CASE StartReader(t) \/ CallOnDisconnect(t)
  <2>1. PICK l \in {"read", "crashed", "scan", "exit"} : Goto(t, l)
    BY <1>5 DEF StartReader, CallOnDisconnect, Enter
  <2>2. pc[t] \in {"start", "disconnect"} /\ UNCHANGED sock
    BY <1>5 DEF StartReader, CallOnDisconnect
  <2>3. sock[t] \in Streams
    BY <2>2 DEF InUse
  <2>4. \/ UNCHANGED slot
        \/ slot' = [slot EXCEPT ![sock[t]][t[2]] = Nil]
        \/ slot[sock[t]][t[2]] # Nil /\ slot' = [slot EXCEPT ![sock[t]][t[2]] = t]
    BY <1>5 DEF StartReader, CallOnDisconnect, Slot
  <2>5. /\ slot' \in [Streams -> [0 .. MaxChannels - 1 -> Streams \cup {New, Nil}]]
        /\ \A s \in Streams : \A i \in 0 .. MaxChannels - 1 :
               slot[s][i] = Nil => slot'[s][i] = Nil
    <3> HIDE DEF LeaveTypes
    <3>1. CASE UNCHANGED slot
      BY <3>1 DEF LeaveTypes
    <3>2. CASE slot' = [slot EXCEPT ![sock[t]][t[2]] = Nil]
      BY <2>3, <3>2, OneSlot
    <3>3. CASE slot[sock[t]][t[2]] # Nil /\ slot' = [slot EXCEPT ![sock[t]][t[2]] = t]
      BY <2>3, <3>3, OneSlot
    <3> QED
      BY <2>4, <3>1, <3>2, <3>3
  <2> QED
    BY <1>1, <1>2, <2>1, <2>2, <2>3, <2>5, MoveLeaving
<1>6. CASE SendStep(t) \/ ReadFails(t) \/ EndStream(t) \/ CloseGoChannel(t)
           \/ Scan(t)
  <2>1. PICK l \in {"read", "send", "stuck", "end", "disconnect", "close", "exit",
                    "crashed"} : Goto(t, l)
    BY <1>6, SendMoves DEF ReadFails, EndStream, CloseGoChannel, Scan
  <2>2. pc[t] \in {"read", "send", "end", "scan"} /\ UNCHANGED <<slot, sock>>
    BY <1>0, <1>6, SendMoves DEF ReadFails, EndStream, CloseGoChannel, Scan, socket
  <2>3. sock[t] # None
    BY <2>2 DEF InUse
  <2> QED
    BY <1>1, <1>2, <2>1, <2>2, <2>3, MoveLeaving
<1> QED
  BY <1>3, <1>4, <1>5, <1>6 DEF ReaderStep

LEMMA AcceptStreamLeaving ==
    ASSUME Registering, Leaving, NEW c \in Conns, NEW i \in Channels,
           AcceptStream(c, i)
    PROVE  Leaving'
<1> USE DEF Leaving, LeaveTypes, FreshLabels, Using, CloseLabels
<1> DEFINE t == <<c, i>>
<1>1. t \in Streams
  BY ServerAssumption DEF Streams, Channels, Registering, RegisterTypes
<1>2. PICK l \in {"register", "exit"} : Goto(t, l)
  BY DEF AcceptStream
<1>3. /\ pc[t] = "none" /\ up' \subseteq up
      /\ UNCHANGED <<peer, isClosed, closeLock, reported, Sockets, slot, sock>>
      /\ Sockets' \in [Ids -> Streams \cup {None}]
  BY DEF AcceptStream, net, registry, socket, Registering, RegisterTypes
<1>4. t \in Threads
  BY <1>1, Names
<1> HIDE DEF t
<1> QED
  BY <1>2, <1>3, <1>4, MoveLeaving

\* The steps of the application outside Socket.Close.
LEMMA AppLeaving ==
    ASSUME Registering, Leaving,
           \/ (\E k \in Ids : CallCloseSocket(k) \/ RangeNext(k))
           \/ LockToClose \/ GetToClose \/ Remove \/ CallClose \/ RangeEnd
           \/ SetServerClosed
    PROVE  Leaving'
<1> USE Names DEF Leaving, LeaveTypes, FreshLabels, Using, CloseLabels
<1>1. UNCHANGED <<peer, isClosed, closeLock, reported, up, slot>>
  BY DEF CallCloseSocket, RangeNext, LockToClose, GetToClose, Remove, CallClose,
         RangeEnd, SetServerClosed, net, registry, socket
<1>2. /\ Sockets' \in [Ids -> Streams \cup {None}]
      /\ \A k \in Ids : Sockets'[k] \in {Sockets[k], None}
  BY DEF CallCloseSocket, RangeNext, LockToClose, GetToClose, Remove, CallClose,
         RangeEnd, SetServerClosed, registry, Registering, RegisterTypes
<1>3. CASE GetToClose
  <2>1. PICK l \in {"close", "crashed"} :
               Goto(App, l) /\ (l = "close" => Sockets[key] # None)
    BY <1>3 DEF GetToClose, Enter
  <2>2. pc[App] = "get" /\ sock' = [sock EXCEPT ![App] = Sockets[key]]
    BY <1>3 DEF GetToClose
  <2>3. key \in Ids
    BY DEF Registering, RegisterTypes
  <2> QED
    BY <1>1, <1>2, <2>1, <2>2, <2>3, MoveLeaving
<1>4. CASE ~GetToClose
  <2>1. PICK l \in {"lock", "get", "idle", "range", "finish", "exit"} : Goto(App, l)
    BY <1>4 DEF CallCloseSocket, RangeNext, LockToClose, Remove, CallClose,
                RangeEnd, SetServerClosed, Done
  <2>2. /\ pc[App] \in {"idle", "range", "lock", "remove", "finish"}
        /\ \/ sock' = [sock EXCEPT ![App] = None]
           \/ sock' = [sock EXCEPT ![App] = sock[App]]
    BY <1>4 DEF CallCloseSocket, RangeNext, LockToClose, Remove, CallClose,
                RangeEnd, SetServerClosed
  <2> QED
    BY <1>1, <1>2, <2>1, <2>2, MoveLeaving
<1> QED
  BY <1>3, <1>4

\* What is registered is new.
LEMMA CreateSocketLeaving ==
    ASSUME Registering, Leaving, NEW t \in Streams, CreateSocket(t)
    PROVE  Leaving'
<1> USE Names DEF Leaving
<1> DEFINE l == IF mapNil THEN "crashed" ELSE "find"
<1>1. /\ pc[t] = "create" /\ pc' = [pc EXCEPT ![t] = l]
      /\ Sockets' = IF mapNil THEN Sockets ELSE [Sockets EXCEPT ![Id(t)] = t]
      /\ UNCHANGED <<peer, isClosed, closeLock, reported, up, slot, sock>>
  BY DEF CreateSocket, Enter, Goto, net, socket
<1>2. /\ pc'[t] = l
      /\ \A u \in Threads : u # t => pc'[u] = pc[u]
  BY <1>1 DEF Registering, RegisterTypes
<1>3. \A k \in Ids : Sockets'[k] = Sockets[k] \/ (Sockets'[k] = t /\ k = Id(t))
  BY <1>1 DEF Registering, RegisterTypes
<1>4. Sockets \in [Ids -> Streams \cup {None}] /\ ~isClosed[t] /\ Id(t) = peer[t[1]]
  BY <1>1 DEF Registering, RegisterTypes, Known, FreshLabels, Id
<1> HIDE DEF l
<1>5. l \in {"crashed", "find"}
  BY DEF l
<1>6. LeaveTypes' /\ Remains'
  BY <1>1 DEF LeaveTypes, Remains, Clean
<1>7. Known'
  <2>1. \A k \in Ids : Sockets'[k] # None =>
          peer'[Sockets'[k][1]] = k /\ pc'[Sockets'[k]] \notin FreshLabels
    BY <1>1, <1>2, <1>3, <1>4, <1>5 DEF Known, FreshLabels
  <2>2. \A u \in Threads : sock'[u] # None => pc'[sock'[u]] \notin FreshLabels
    BY <1>1, <1>2, <1>5 DEF Known, LeaveTypes, FreshLabels
  <2>3. \A u \in Streams : pc'[u] \in FreshLabels => ~isClosed'[u]
    BY <1>1, <1>2, <1>5 DEF Known, FreshLabels
  <2> QED
    BY <2>1, <2>2, <2>3 DEF Known
<1>8. InUse' /\ Closing'
  BY <1>1, <1>2, <1>5 DEF InUse, Closing, Using, CloseLabels, Clean
<1>9. ClosedIsLeaving'
  <2>1. \A u \in Threads : pc[u] = "unset" => pc'[u] = pc[u]
    BY <1>1, <1>2
  <2> QED
    BY <1>1, <1>3, <1>4, <2>1 DEF ClosedIsLeaving
<1> QED
  BY <1>6, <1>7, <1>8, <1>9

\* A connection that is accepted is that of no known socket.
LEMMA AcceptLeaving ==
    ASSUME Registering, Leaving, NEW id \in Ids, Accept(id)
    PROVE  Leaving'
<1> USE Names DEF Leaving
<1>1. /\ accepted' = accepted + 1
      /\ peer' = [peer EXCEPT ![accepted'] = id]
      /\ up' = up \cup {accepted'}
      /\ UNCHANGED <<pc, Sockets, isClosed, closeLock, reported, slot, sock>>
  BY DEF Accept, registry, socket
<1>2. /\ accepted \in Nat /\ peer \in [Conns -> Ids]
      /\ Sockets \in [Ids -> Streams \cup {None}]
  BY DEF Registering, RegisterTypes
<1>3. ASSUME NEW s \in Streams, pc[s] \notin FreshLabels
      PROVE  peer'[s[1]] = peer[s[1]] /\ s[1] # accepted'
  <2>1. s[1] <= accepted /\ s[1] \in Conns
    BY <1>3 DEF Registering, Served, FreshLabels
  <2>2. s[1] # accepted'
    BY <1>1, <1>2, <2>1 DEF Conns
  <2> QED
    BY <1>1, <1>2, <2>1, <2>2
<1>4. \A s \in Streams : pc[s] \notin FreshLabels /\ Clean(s) => Clean(s)'
  BY <1>1, <1>3 DEF Clean
<1>5. LeaveTypes' /\ InUse' /\ ClosedIsLeaving'
  BY <1>1 DEF LeaveTypes, InUse, ClosedIsLeaving
<1>6. Known'
  BY <1>1, <1>2, <1>3 DEF Known
<1>7. Remains'
  BY <1>1, <1>4 DEF Remains, Known
<1>8. \A t \in Threads : pc[t] \in CloseLabels =>
        sock[t] \in Streams /\ pc[sock[t]] \notin FreshLabels
  BY DEF InUse, Using, LeaveTypes, Known
<1>9. Closing'
  BY <1>1, <1>4, <1>8 DEF Closing, CloseLabels
<1> QED
  BY <1>5, <1>6, <1>7, <1>9

\* A step of Socket.Close: it changes nothing of any other socket.
LEMMA CloseLeaving ==
    ASSUME Registering, Leaving,
           NEW t \in Threads, NEW l, NEW s \in Streams, s = sock[t], Goto(t, l),
           pc[t] \in CloseLabels \cup {"close"},
           l \in CloseLabels \cup {"remove", "exit", "crashed"},
           closeLock[s] \in {t, None},
           UNCHANGED <<peer, sock>>,
           up' \subseteq up,
           \A k \in Ids : Sockets'[k] \in {Sockets[k], None},
           LeaveTypes',
           \A r \in Streams : r # s =>
               /\ slot'[r] = slot[r] /\ isClosed'[r] = isClosed[r]
               /\ closeLock'[r] = closeLock[r] /\ reported'[r] = reported[r],
           l \in CloseLabels => closeLock'[s] = t,
           l \in {"closing", "closed"} => ~isClosed'[s],
           l = "closed" => Clean(s)',
           l \in {"unset", "delete", "report"} => isClosed'[s] /\ reported'[s] = 0,
           isClosed'[s] => Clean(s)',
           ~isClosed'[s] => reported'[s] = 0,
           reported'[s] <= 1,
           ClosedIsLeaving'
    PROVE  Leaving'
<1> USE Names DEF Leaving
<1>1. /\ pc'[t] = l
      /\ \A u \in Threads : u # t => pc'[u] = pc[u]
  BY DEF Goto, Registering, RegisterTypes
<1>2. \A u \in Threads : pc'[u] \in FreshLabels => pc[u] \in FreshLabels /\ u # t
  BY <1>1 DEF FreshLabels, CloseLabels
<1>3. pc[s] \notin FreshLabels
  BY DEF Known
<1>4. \A r \in Streams : r # s /\ Clean(r) => Clean(r)'
  BY DEF Clean
<1>5. Known'
  <2>1. \A k \in Ids : Sockets'[k] # None =>
          peer'[Sockets'[k][1]] = k /\ pc'[Sockets'[k]] \notin FreshLabels
    BY <1>2 DEF Known, Registering, RegisterTypes
  <2>2. ASSUME NEW u \in Threads, sock'[u] # None
        PROVE  pc'[sock'[u]] \notin FreshLabels
    <3>1. sock'[u] = sock[u] /\ sock[u] # None
      BY <2>2
    <3>2. sock[u] \in Threads /\ pc[sock[u]] \notin FreshLabels
      BY <3>1 DEF Known, LeaveTypes
    <3> QED
      BY <1>2, <3>1, <3>2
  <2>3. \A u \in Streams : pc'[u] \in FreshLabels => ~isClosed'[u]
    BY <1>2, <1>3 DEF Known
  <2> QED
    BY <2>1, <2>2, <2>3 DEF Known
<1>6. InUse'
  BY <1>1 DEF InUse
<1>7. ASSUME NEW u \in Threads, u # t, pc'[u] \in CloseLabels
      PROVE  sock[u] \in Streams /\ sock[u] # s /\ pc[u] = pc'[u]
  <2>1. pc[u] = pc'[u]
    BY <1>1, <1>7
  <2>2. sock[u] \in Streams
    BY <1>7, <2>1 DEF InUse, Using, LeaveTypes
  <2>3. closeLock[sock[u]] = u /\ u # None
    BY <1>7, <2>1 DEF Closing
  <2> QED
    BY <1>7, <2>1, <2>2, <2>3
<1>8. Closing'
  <2> SUFFICES ASSUME NEW u \in Threads, pc'[u] \in CloseLabels
               PROVE  /\ closeLock'[sock'[u]] = u
                      /\ pc'[u] \in {"closing", "closed"} => ~isClosed'[sock'[u]]
                      /\ pc'[u] = "closed" => Clean(sock[u])'
                      /\ pc'[u] \in {"unset", "delete", "report"} =>
                           isClosed'[sock'[u]] /\ reported'[sock'[u]] = 0
    BY DEF Closing, CloseLabels
  <2>1. CASE u = t
    BY <1>1, <2>1
  <2>2. CASE u # t
    BY <1>4, <1>7, <2>2 DEF Closing
  <2> QED
    BY <2>1, <2>2
<1>9. Remains'
  BY <1>4 DEF Remains
<1> QED
  BY <1>5, <1>6, <1>8, <1>9

\* The close mutex is free, and the socket may have been closed meanwhile.
LEMMA EnterCloseLeaving ==
    ASSUME Registering, Leaving, NEW t \in Threads, EnterClose(t)
    PROVE  Leaving'
<1> USE Names DEF Leaving, CloseLabels
<1> DEFINE s == sock[t]
<1>1. /\ pc[t] = "close" /\ closeLock[s] = None
      /\ UNCHANGED <<peer, sock, up, Sockets, slot, isClosed, reported>>
  BY DEF EnterClose, net, registry
<1>2. s \in Streams
  BY <1>1 DEF InUse, Using, LeaveTypes
<1>3. Sockets' \in [Ids -> Streams \cup {None}]
  BY <1>1 DEF Registering, RegisterTypes
<1>4. CASE isClosed[s]
  <2>1. PICK l \in {"remove", "exit"} : Goto(t, l)
    BY <1>4 DEF EnterClose, Return
  <2>2. UNCHANGED closeLock /\ sock' = [sock EXCEPT ![t] = sock[t]]
    BY <1>1, <1>4 DEF EnterClose, LeaveTypes
  <2>3. slot' \in [Streams -> [0 .. MaxChannels - 1 -> Streams \cup {New, Nil}]]
    BY <1>1 DEF LeaveTypes
  <2> QED
    BY <1>1, <1>3, <2>1, <2>2, <2>3, MoveLeaving DEF Using, FreshLabels
<1>5. CASE ~isClosed[s]
  <2>1. Goto(t, "closing") /\ closeLock' = [closeLock EXCEPT ![s] = t]
    BY <1>5 DEF EnterClose
  <2>2. LeaveTypes' /\ closeLock'[s] = t
        /\ \A r \in Streams : r # s => closeLock'[r] = closeLock[r]
    BY <1>1, <1>2, <2>1 DEF LeaveTypes
  <2>3. \A u \in Threads : pc[u] = "unset" => pc'[u] = "unset"
    BY <1>1, <2>1 DEF Goto, Registering, RegisterTypes
  <2>4. ClosedIsLeaving'
    BY <1>1, <2>3 DEF ClosedIsLeaving
  <2>5. reported'[s] = 0 /\ ~isClosed'[s]
    BY <1>1, <1>2, <1>5 DEF Remains
  <2> HIDE DEF s, Leaving
  <2> QED
    BY <1>1, <1>2, <2>1, <2>2, <2>4, <2>5, CloseLeaving DEF s
<1> QED
  BY <1>4, <1>5

\* Every channel is closed, and the connection.
LEMMA OnClosingLeaving ==
    ASSUME Registering, Leaving, NEW t \in Threads, OnClosing(t)
    PROVE  Leaving'
<1> USE Names DEF Leaving, CloseLabels
<1> DEFINE s == sock[t]
           row == [i \in 0 .. MaxChannels - 1 |-> Nil]
<1>1. /\ pc[t] = "closing" /\ Goto(t, "closed")
      /\ up' = up \ {s[1]} /\ slot' = [slot EXCEPT ![s] = row]
      /\ UNCHANGED <<peer, sock, Sockets, isClosed, closeLock, reported>>
  BY DEF OnClosing, net, registry
<1>2. s \in Streams /\ closeLock[s] = t /\ ~isClosed[s] /\ reported[s] = 0
  BY <1>1 DEF InUse, Using, LeaveTypes, Closing, Remains
<1>3. row \in [0 .. MaxChannels - 1 -> Streams \cup {New, Nil}]
      /\ \A i \in 0 .. MaxChannels - 1 : row[i] = Nil
  OBVIOUS
<1> HIDE DEF row
<1>4. slot'[s] = row /\ \A r \in Streams : r # s => slot'[r] = slot[r]
  BY <1>1, <1>2 DEF LeaveTypes
<1>5. LeaveTypes'
  BY <1>1, <1>3 DEF LeaveTypes
<1>6. Clean(s)'
  BY <1>1, <1>3, <1>4 DEF Clean
<1>7. \A u \in Threads : pc[u] = "unset" => pc'[u] = "unset"
  BY <1>1 DEF Goto, Registering, RegisterTypes
<1>8. ClosedIsLeaving'
  BY <1>1, <1>7 DEF ClosedIsLeaving
<1> HIDE DEF s, Leaving
<1> QED
  BY <1>1, <1>2, <1>4, <1>5, <1>6, <1>8, CloseLeaving DEF s

\* If the socket is registered, the callback that removes it is running.
LEMMA SetClosedLeaving ==
    ASSUME Registering, Leaving, NEW t \in Threads, SetClosed(t)
    PROVE  Leaving'
<1> USE Names DEF Leaving, CloseLabels
<1> DEFINE s == sock[t]
           l == IF Owner(t) = None THEN "report" ELSE "unset"
<1>1. /\ pc[t] = "closed" /\ Goto(t, l)
      /\ isClosed' = [isClosed EXCEPT ![s] = TRUE]
      /\ UNCHANGED <<peer, sock, up, Sockets, slot, closeLock, reported>>
  BY DEF SetClosed, net, registry
<1>2. s \in Streams /\ closeLock[s] = t /\ reported[s] = 0 /\ Clean(s)
  BY <1>1 DEF InUse, Using, LeaveTypes, Closing, Remains
<1>3. isClosed'[s] /\ \A r \in Streams : r # s => isClosed'[r] = isClosed[r]
  BY <1>1, <1>2 DEF LeaveTypes
<1>4. LeaveTypes' /\ Clean(s)'
  BY <1>1, <1>2 DEF LeaveTypes, Clean
<1>5. \A u \in Threads : pc[u] = "unset" => pc'[u] = "unset"
  BY <1>1 DEF Goto, Registering, RegisterTypes
<1>6. ClosedIsLeaving'
  <2> SUFFICES ASSUME NEW k \in Ids, Sockets[k] # None, isClosed'[Sockets[k]]
               PROVE  \E u \in Threads : sock[u] = Sockets[k] /\ pc'[u] = "unset"
    BY <1>1 DEF ClosedIsLeaving
  <2>1. CASE Sockets[k] = s
    <3>1. peer[s[1]] = k
      BY <1>2, <2>1 DEF Known
    <3>2. Owner(t) # None
      BY <1>2, <2>1, <3>1 DEF Owner, Id
    <3>3. pc'[t] = "unset"
      BY <1>1, <3>2 DEF Goto, Registering, RegisterTypes
    <3> QED
      BY <2>1, <3>3
  <2>2. CASE Sockets[k] # s
    BY <1>3, <1>5, <2>2 DEF ClosedIsLeaving, Registering, RegisterTypes
  <2> QED
    BY <2>1, <2>2
<1>7. PICK next \in {"report", "unset"} : Goto(t, next)
  BY <1>1
<1>8. /\ UNCHANGED <<peer, sock, up, Sockets, slot, closeLock, reported>>
      /\ reported'[s] = 0 /\ closeLock'[s] = t /\ pc[t] = "closed"
  BY <1>1, <1>2
<1> HIDE DEF s, l, Leaving
<1> QED
  BY <1>2, <1>3, <1>4, <1>6, <1>7, <1>8, CloseLeaving DEF s

\* The callback removes the entry of the id; any other closed socket has its
\* own callback.
LEMMA CallbackLeaving ==
    ASSUME Registering, Leaving, NEW t \in Threads, Unset(t) \/ Delete(t)
    PROVE  Leaving'
<1> USE Names DEF Leaving, CloseLabels
<1> DEFINE s == sock[t]
<1>1. PICK l \in {"delete", "report", "crashed"} : Goto(t, l)
  BY DEF Unset, Delete, Enter
<1>2. /\ pc[t] \in {"unset", "delete"}
      /\ Sockets' = [Sockets EXCEPT ![Id(s)] = None]
      /\ UNCHANGED <<peer, sock, up, slot, isClosed, closeLock, reported>>
  BY DEF Unset, Delete, net, socket
<1>3. s \in Streams /\ closeLock[s] = t /\ isClosed[s] /\ reported[s] = 0 /\ Clean(s)
  BY <1>2 DEF InUse, Using, LeaveTypes, Closing, Remains
<1>4. Sockets \in [Ids -> Streams \cup {None}] /\ Id(s) = peer[s[1]]
  BY <1>3 DEF Registering, RegisterTypes, Id
<1>5. \A k \in Ids : Sockets'[k] = IF k = Id(s) THEN None ELSE Sockets[k]
  BY <1>2, <1>4
<1>6. \A u \in Threads : u # t => pc'[u] = pc[u]
  BY <1>1 DEF Goto, Registering, RegisterTypes
<1>7. ClosedIsLeaving'
  <2> SUFFICES ASSUME NEW k \in Ids, Sockets'[k] # None, isClosed[Sockets'[k]]
               PROVE  \E u \in Threads : sock[u] = Sockets'[k] /\ pc'[u] = "unset"
    BY <1>2 DEF ClosedIsLeaving
  <2>1. k # Id(s) /\ Sockets'[k] = Sockets[k]
    BY <1>5
  <2>2. peer[Sockets[k][1]] = k
    BY <2>1 DEF Known
  <2>3. PICK u \in Threads : sock[u] = Sockets[k] /\ pc[u] = "unset"
    BY <2>1 DEF ClosedIsLeaving
  <2>4. u # t
    BY <1>4, <2>1, <2>2, <2>3
  <2> QED
    BY <1>6, <2>1, <2>3, <2>4
<1>8. LeaveTypes' /\ Clean(s)'
  BY <1>2, <1>3 DEF LeaveTypes, Clean
<1>9. \A k \in Ids : Sockets'[k] \in {Sockets[k], None}
  BY <1>5
<1> HIDE DEF s, Leaving
<1> QED
  BY <1>1, <1>2, <1>3, <1>7, <1>8, <1>9, CloseLeaving DEF s

\* The application is told, and the close mutex is let go.
LEMMA ReportLeaving ==
    ASSUME Registering, Leaving, NEW t \in Threads, Report(t)
    PROVE  Leaving'
<1> USE Names DEF Leaving, CloseLabels
<1> DEFINE s == sock[t]
<1>1. PICK l \in {"remove", "exit"} : Goto(t, l)
  BY DEF Report, Return
<1>2. /\ pc[t] = "report"
      /\ reported' = [reported EXCEPT ![s] = @ + 1]
      /\ closeLock' = [closeLock EXCEPT ![s] = None]
      /\ UNCHANGED <<peer, sock, up, Sockets, slot, isClosed>>
  BY DEF Report, net, registry
<1>3. s \in Streams /\ closeLock[s] = t /\ isClosed[s] /\ reported[s] = 0 /\ Clean(s)
  BY <1>2 DEF InUse, Using, LeaveTypes, Closing, Remains
<1>4. /\ reported'[s] = 1 /\ Clean(s)' /\ LeaveTypes'
      /\ \A r \in Streams : r # s =>
           closeLock'[r] = closeLock[r] /\ reported'[r] = reported[r]
  BY <1>2, <1>3 DEF LeaveTypes, Clean
<1>5. \A u \in Threads : pc[u] = "unset" => pc'[u] = "unset"
  BY <1>1, <1>2 DEF Goto, Registering, RegisterTypes
<1>6. ClosedIsLeaving'
  BY <1>2, <1>5 DEF ClosedIsLeaving
<1> HIDE DEF s, Leaving
<1> QED
  BY <1>1, <1>2, <1>3, <1>4, <1>6, CloseLeaving DEF s

LEMMA LeavingStep == Registering /\ Leaving /\ [Next]_vars => Leaving'
<1> SUFFICES ASSUME Registering, Leaving, [Next]_vars
             PROVE  Leaving'
  OBVIOUS
<1>1. CASE \E k \in Ids : Accept(k)
  BY <1>1, AcceptLeaving
<1>2. CASE \E c \in Conns : \E i \in Channels : AcceptStream(c, i)
  BY <1>2, AcceptStreamLeaving
<1>3. ASSUME NEW t \in Threads, CloseSteps(t)
      PROVE  Leaving'
  BY <1>3, EnterCloseLeaving, OnClosingLeaving, SetClosedLeaving, CallbackLeaving,
     ReportLeaving DEF CloseSteps
<1>4. CASE \E t \in Streams : ServeStream(t) \/ SendStep(t) \/ EndStream(t)
  BY <1>3, <1>4, Names, StreamLeaving, CreateSocketLeaving
     DEF ServeStream, SendStep, ReaderStep
<1>5. CASE (\E k \in Ids : CallCloseSocket(k)) \/ CallClose \/ RunApp
  BY <1>3, <1>5, Names, AppLeaving DEF RunApp
<1>6. CASE Listen \/ (\E c \in Conns : LoseConn(c)) \/ UNCHANGED vars
  <2>1. /\ up' \subseteq up
        /\ UNCHANGED <<pc, peer, Sockets, slot, isClosed, closeLock, reported, sock>>
    BY <1>6 DEF Listen, EvaluateListener, AcceptFails, LoseConn, vars, net, registry,
                socket
  <2>2. \A s \in Streams : Clean(s) => Clean(s)'
    BY <2>1 DEF Clean
  <2>3. LeaveTypes' /\ Known' /\ InUse' /\ ClosedIsLeaving'
    BY <2>1 DEF Leaving, LeaveTypes, Known, InUse, ClosedIsLeaving
  <2>4. Remains'
    BY <2>1, <2>2 DEF Leaving, Remains
  <2>5. \A t \in Threads : pc[t] = "closed" => sock[t] \in Streams
    BY DEF Leaving, InUse, Using, CloseLabels, LeaveTypes
  <2>6. Closing'
    BY <2>1, <2>2, <2>5 DEF Leaving, Closing
  <2> QED
    BY <2>3, <2>4, <2>6 DEF Leaving
<1> QED
  BY <1>1, <1>2, <1>4, <1>5, <1>6 DEF Next, SendStep

\* However closes and registrations of any number of peers interleave, a
\* closed socket that is still registered has its callback at work.
THEOREM ClosedSocketLeaves == Spec => []ClosedIsLeaving
<1>1. Leaving => ClosedIsLeaving
  BY DEF Leaving
<1> QED
  BY <1>1, RegisteringInit, RegisteringStep, LeavingInit, LeavingStep, PTL DEF Spec

\* Whoever closes a socket, and however often, the application hears once that
\* it is gone, and only when its channels, its connection and its entry are.
THEOREM SocketReportedOnce == Spec => []ReportedOnce
<1>1. Registering /\ Leaving => ReportedOnce
  <2> SUFFICES ASSUME Registering, Leaving, NEW s \in Streams
               PROVE  /\ reported[s] <= 1
                      /\ reported[s] = 1 => /\ isClosed[s] /\ s[1] \notin up
                                            /\ \A i \in Channels : slot[s][i] = Nil
                                            /\ s \notin {Sockets[k] : k \in Ids}
    BY DEF ReportedOnce
  <2>1. reported[s] <= 1
    BY DEF Leaving, Remains
  <2>2. ASSUME reported[s] = 1 PROVE isClosed[s] /\ Clean(s)
    BY <2>2 DEF Leaving, Remains
  <2>3. Channels \subseteq 0 .. MaxChannels - 1
    BY ServerAssumption DEF Channels, Registering, RegisterTypes
  <2>4. ASSUME reported[s] = 1, NEW k \in Ids, Sockets[k] = s PROVE FALSE
    <3>1. PICK t \in Threads : sock[t] = s /\ pc[t] = "unset"
      BY <2>2, <2>4, Names DEF Leaving, ClosedIsLeaving
    <3> QED
      BY <2>4, <3>1 DEF Leaving, Closing
  <2> QED
    BY <2>1, <2>2, <2>3, <2>4 DEF Clean
<1> QED
  BY <1>1, RegisteringInit, RegisteringStep, LeavingInit, LeavingStep, PTL DEF Spec

-----------------------------------------------------------------------------
(* Types: what Registering and Leaving do not say already.                 *)

NetTypes ==
    /\ listening \in {"evaluate", "accept", "exit", "crashed"}
    /\ shutting \in BOOLEAN /\ netOpen \in BOOLEAN /\ closed \in BOOLEAN
    /\ mapNil \in BOOLEAN /\ crashed \in BOOLEAN

ThreadTypes ==
    /\ lock \in Threads \cup {None}
    /\ ended \subseteq Streams /\ remaining \subseteq Streams
    /\ reading \in [Streams -> Streams \cup {None}]
    /\ done \in [Streams -> [0 .. MaxChannels - 1 -> BOOLEAN]]

\* A reader's channel was given a stream.
Given == \A t \in Streams : pc[t] \in ReadLabels => Slot(t) # New

LEMMA TypeInit == Init => NetTypes /\ ThreadTypes /\ Given
<1> SUFFICES ASSUME Init PROVE NetTypes /\ ThreadTypes /\ Given
  OBVIOUS
<1>1. NetTypes
  BY DEF Init, NetTypes
<1>2. ThreadTypes
  BY DEF Init, ThreadTypes
<1>3. Given
  BY Names DEF Init, Given, ReadLabels
<1> QED
  BY <1>1, <1>2, <1>3

LEMMA NetTypeStep == NetTypes /\ [Next]_vars => NetTypes'
<1> SUFFICES ASSUME NetTypes, [Next]_vars
             PROVE  NetTypes'
  OBVIOUS
<1> USE DEF NetTypes, net, closer, registry, socket
<1>1. ASSUME NEW t \in Threads, CloseSteps(t)
      PROVE  NetTypes'
  BY <1>1 DEF CloseSteps, EnterClose, OnClosing, SetClosed, Unset, Delete, Report, Enter
<1>2. ASSUME NEW t \in Streams, ServeStream(t) \/ SendStep(t) \/ EndStream(t)
      PROVE  NetTypes'
  <2>1. CASE LockToRegister(t) \/ ReadFails(t) \/ CloseGoChannel(t)
             \/ CallOnDisconnect(t) \/ Scan(t) \/ EndStream(t)
    BY <2>1 DEF LockToRegister, ReadFails, CloseGoChannel, CallOnDisconnect, Scan,
                EndStream
  <2>2. CASE CreateSocket(t) \/ FindSocket(t) \/ StartReader(t) \/ SendStep(t)
    <3>1. UNCHANGED <<net, closer, mapNil>> /\ crashed' \in BOOLEAN
      BY <2>2 DEF CreateSocket, FindSocket, StartReader, Enter, SendStep,
                  ReadMessage, HandOver, HandOverToNobody
    <3> QED
      BY <3>1
  <2> QED
    BY <1>1, <1>2, <2>1, <2>2, Names DEF ServeStream, SendStep
<1>3. CASE (\E k \in Ids : CallCloseSocket(k)) \/ CallClose \/ RunApp
  <2>1. CASE (\E k \in Ids : CallCloseSocket(k) \/ RangeNext(k))
             \/ LockToClose \/ Remove \/ RangeEnd
    BY <2>1 DEF CallCloseSocket, RangeNext, LockToClose, Remove, RangeEnd
  <2>2. CASE CallClose \/ SetServerClosed
    BY <2>2 DEF CallClose, SetServerClosed
  <2>3. CASE GetToClose
    BY <2>3 DEF GetToClose, Enter
  <2> QED
    BY <1>1, <1>3, <2>1, <2>2, <2>3, Names DEF RunApp
<1>4. CASE \/ \E k \in Ids : Accept(k)
           \/ \E c \in Conns : LoseConn(c)
           \/ \E c \in Conns : \E i \in Channels : AcceptStream(c, i)
           \/ UNCHANGED vars
  BY <1>4 DEF Accept, LoseConn, AcceptStream, vars
<1>5. CASE Listen
  <2>1. CASE AcceptFails
    BY <2>1 DEF AcceptFails
  <2>2. CASE EvaluateListener
    <3>1. UNCHANGED <<netOpen, closed, closer, mapNil>> /\ crashed' \in BOOLEAN
          /\ listening' \in {"accept", "exit", "crashed"}
      BY <2>2 DEF EvaluateListener
    <3> QED
      BY <3>1
  <2> QED
    BY <1>5, <2>1, <2>2 DEF Listen
<1> QED
  BY <1>2, <1>3, <1>4, <1>5 DEF Next, SendStep

\* No channel goes back to having had no stream.
LEMMA SlotsGiven ==
    ASSUME Registering, Leaving, [Next]_vars,
           NEW s \in Streams, NEW i \in 0 .. MaxChannels - 1, slot'[s][i] = New
    PROVE  slot[s][i] = New
<1> USE DEF net, closer, registry, socket
<1>1. New \notin Streams \cup {Nil}
  BY ServerAssumption DEF New, Nil, Streams, Conns
<1>2. ASSUME NEW t \in Threads, CloseSteps(t)
      PROVE  slot[s][i] = New
  <2>1. CASE OnClosing(t)
    <3>1. slot' = [slot EXCEPT ![sock[t]] = [j \in 0 .. MaxChannels - 1 |-> Nil]]
      BY <2>1 DEF OnClosing
    <3>2. slot'[s] = slot[s] \/ slot'[s] = [j \in 0 .. MaxChannels - 1 |-> Nil]
      BY <3>1 DEF Leaving, LeaveTypes
    <3> QED
      BY <1>1, <3>2
  <2> QED
    BY <1>2, <2>1 DEF CloseSteps, EnterClose, SetClosed, Unset, Delete, Report
<1>3. ASSUME NEW t \in Streams, ServeStream(t) \/ SendStep(t) \/ EndStream(t)
      PROVE  slot[s][i] = New
  <2>1. CASE StartReader(t) \/ CallOnDisconnect(t)
    <3>1. sock[t] \in Streams /\ t[2] \in 0 .. MaxChannels - 1 /\ LeaveTypes
      BY <2>1, Names DEF StartReader, CallOnDisconnect, Leaving, LeaveTypes, InUse, Using
    <3>2. \/ UNCHANGED slot
          \/ slot' = [slot EXCEPT ![sock[t]][t[2]] = Nil]
          \/ slot[sock[t]][t[2]] # Nil /\ slot' = [slot EXCEPT ![sock[t]][t[2]] = t]
      BY <2>1 DEF StartReader, CallOnDisconnect, Slot
    <3>3. CASE slot' = [slot EXCEPT ![sock[t]][t[2]] = Nil]
      BY <3>1, <3>3, OneSlot
    <3>4. CASE slot[sock[t]][t[2]] # Nil /\ slot' = [slot EXCEPT ![sock[t]][t[2]] = t]
      BY <3>1, <3>4, OneSlot
    <3> QED
      BY <3>2, <3>3, <3>4
  <2> QED
    BY <1>2, <1>3, <2>1, Names
       DEF ServeStream, LockToRegister, CreateSocket, FindSocket, ReadFails, Scan,
           SendStep, ReadMessage, HandOver, HandOverToNobody, CloseGoChannel,
           EndStream
<1>4. CASE (\E k \in Ids : CallCloseSocket(k)) \/ CallClose \/ RunApp
  BY <1>2, <1>4, Names
     DEF RunApp, CallCloseSocket, CallClose, RangeNext, LockToClose, GetToClose,
         Remove, RangeEnd, SetServerClosed
<1>5. CASE \/ Listen \/ (\E k \in Ids : Accept(k)) \/ (\E c \in Conns : LoseConn(c))
           \/ (\E c \in Conns : \E j \in Channels : AcceptStream(c, j))
           \/ UNCHANGED vars
  BY <1>5 DEF Listen, EvaluateListener, AcceptFails, Accept, LoseConn, AcceptStream,
              vars
<1> QED
  BY <1>3, <1>4, <1>5 DEF Next, SendStep

\* Who reads was reading, or has just been given the channel.
LEMMA ReadersStarted ==
    ASSUME Registering, LeaveTypes, [Next]_vars, NEW u \in Streams, pc'[u] \in ReadLabels
    PROVE  \/ pc[u] \in ReadLabels /\ UNCHANGED sock[u]
           \/ StartReader(u)
<1> USE Names DEF ReadLabels
<1>0. \A t \in Threads : \A l : Goto(t, l) =>
        pc'[t] = l /\ \A v \in Threads : v # t => pc'[v] = pc[v]
  BY DEF Goto, Registering, RegisterTypes
<1>1. ASSUME NEW t \in Threads, CloseSteps(t)
      PROVE  pc[u] \in ReadLabels /\ UNCHANGED sock[u]
  <2>1. PICK l \in CloseLabels \cup {"remove", "exit", "crashed"} : Goto(t, l)
    BY <1>1 DEF CloseSteps, EnterClose, OnClosing, SetClosed, Unset, Delete, Report,
                Return, Enter, CloseLabels
  <2>2. l \notin ReadLabels /\ UNCHANGED sock
    BY <1>1 DEF CloseSteps, EnterClose, OnClosing, SetClosed, Unset, Delete, Report,
                CloseLabels
  <2> QED
    BY <1>0, <2>1, <2>2
<1>2. ASSUME NEW t \in Streams, ServeStream(t) \/ SendStep(t) \/ EndStream(t)
      PROVE  \/ pc[u] \in ReadLabels /\ UNCHANGED sock[u]
             \/ StartReader(u)
  <2>1. CASE FindSocket(t)
    <3>1. PICK l \in {"start", "crashed"} : Goto(t, l)
      BY <2>1 DEF FindSocket, Enter
    <3>2. u # t /\ pc[u] \in ReadLabels
      BY <1>0, <3>1
    <3>3. sock' = [sock EXCEPT ![t] = Sockets[Id(t)]]
      BY <2>1 DEF FindSocket
    <3> QED
      BY <3>2, <3>3
  <2>2. CASE StartReader(t)
    <3>1. PICK l : Goto(t, l)
      BY <2>2 DEF StartReader, Enter
    <3>2. UNCHANGED sock
      BY <2>2 DEF StartReader
    <3> QED
      BY <1>0, <2>2, <3>1, <3>2
  <2>3. CASE SendStep(t)
    <3>1. PICK l : Goto(t, l)
      BY <2>3, SendMoves
    <3>2. pc[t] \in ReadLabels /\ UNCHANGED sock
      BY <2>3, SendMoves
    <3> QED
      BY <1>0, <3>1, <3>2
  <2>4. CASE LockToRegister(t) \/ CreateSocket(t) \/ ReadFails(t) \/ Scan(t)
             \/ CloseGoChannel(t) \/ CallOnDisconnect(t) \/ EndStream(t)
    <3>1. PICK l \in {"create", "find", "end", "disconnect", "close", "exit", "scan",
                      "crashed"} : Goto(t, l)
      BY <2>4 DEF LockToRegister, Test, CreateSocket, Enter, ReadFails, Scan,
                  CloseGoChannel, CallOnDisconnect, EndStream
    <3>2. UNCHANGED sock
      BY <2>4 DEF LockToRegister, CreateSocket, ReadFails, Scan, CloseGoChannel,
                  CallOnDisconnect, EndStream
    <3> QED
      BY <1>0, <3>1, <3>2
  <2> QED
    BY <1>1, <1>2, <2>1, <2>2, <2>3, <2>4 DEF ServeStream, SendStep
<1>3. CASE (\E k \in Ids : CallCloseSocket(k)) \/ CallClose \/ RunApp
  <2>1. CASE \/ (\E k \in Ids : CallCloseSocket(k) \/ RangeNext(k))
             \/ CallClose \/ LockToClose \/ GetToClose \/ Remove \/ RangeEnd
             \/ SetServerClosed
    <3>1. PICK l : Goto(App, l)
      BY <2>1 DEF CallCloseSocket, CallClose, RangeNext, LockToClose, GetToClose,
                  Enter, Remove, RangeEnd, SetServerClosed
    <3>2. \/ UNCHANGED sock
          \/ sock' = [sock EXCEPT ![App] = Sockets[key]]
          \/ sock' = [sock EXCEPT ![App] = None]
      BY <2>1 DEF CallCloseSocket, CallClose, RangeNext, LockToClose, GetToClose,
                  Remove, RangeEnd, SetServerClosed
    <3>3. u # App /\ pc[u] \in ReadLabels
      BY <1>0, <3>1
    <3>4. sock'[u] = sock[u]
      BY <3>2, <3>3 DEF LeaveTypes
    <3> QED
      BY <3>3, <3>4
  <2> QED
    BY <1>1, <1>3, <2>1 DEF RunApp
<1>4. CASE \E c \in Conns : \E i \in Channels : AcceptStream(c, i)
  <2> PICK c \in Conns, i \in Channels : AcceptStream(c, i)
    BY <1>4
  <2>1. <<c, i>> \in Threads
    BY ServerAssumption DEF Threads, Streams, Channels, Registering, RegisterTypes
  <2>2. PICK l \in {"register", "exit"} : Goto(<<c, i>>, l)
    BY DEF AcceptStream
  <2>3. UNCHANGED sock
    BY DEF AcceptStream
  <2> QED
    BY <1>0, <2>1, <2>2, <2>3
<1>5. CASE \/ Listen \/ (\E k \in Ids : Accept(k)) \/ (\E c \in Conns : LoseConn(c))
           \/ UNCHANGED vars
  BY <1>5 DEF Listen, EvaluateListener, AcceptFails, Accept, LoseConn, vars
<1> QED
  BY <1>2, <1>3, <1>4, <1>5 DEF Next, SendStep

LEMMA GivenStep == Registering /\ Leaving /\ Given /\ [Next]_vars => Given'
<1> SUFFICES ASSUME Registering, Leaving, Given, [Next]_vars,
                    NEW t \in Streams, pc'[t] \in ReadLabels, Slot(t)' = New
             PROVE  FALSE
  BY DEF Given
<1> USE Names
<1>1. CASE pc[t] \in ReadLabels /\ UNCHANGED sock[t]
  <2>1. sock[t] \in Streams
    BY <1>1 DEF Leaving, LeaveTypes, InUse, Using, ReadLabels
  <2> QED
    BY <1>1, <2>1, SlotsGiven DEF Slot, Given
<1>2. CASE StartReader(t)
  <2>1. sock[t] \in Streams /\ sock' = sock
    BY <1>2 DEF StartReader, Leaving, LeaveTypes, InUse, Using
  <2>2. Slot(t) # Nil
    BY <1>2 DEF StartReader, Enter, Goto, Registering, RegisterTypes, ReadLabels
  <2>3. slot' = [slot EXCEPT ![sock[t]][t[2]] = t]
    BY <1>2, <2>2 DEF StartReader
  <2>4. Slot(t)' = t
    BY <2>1, <2>3 DEF Slot, Leaving, LeaveTypes
  <2> QED
    BY <2>4, ServerAssumption DEF New, Streams, Conns
<1> QED
  BY <1>1, <1>2, ReadersStarted DEF Leaving

LEMMA ThreadTypeStep ==
    Registering /\ Leaving /\ Given /\ ThreadTypes /\ [Next]_vars => ThreadTypes'
<1> SUFFICES ASSUME Registering, Leaving, Given, ThreadTypes, [Next]_vars
             PROVE  ThreadTypes'
  OBVIOUS
<1> USE DEF ThreadTypes, registry, readers
<1>1. ASSUME NEW t \in Threads, CloseSteps(t)
      PROVE  ThreadTypes'
  BY <1>1 DEF CloseSteps, EnterClose, OnClosing, SetClosed, Unset, Delete, Report,
              Cancelled
<1>2. ASSUME NEW t \in Streams, ServeStream(t) \/ SendStep(t) \/ EndStream(t)
      PROVE  ThreadTypes'
  <2>1. CASE LockToRegister(t) \/ CreateSocket(t) \/ FindSocket(t) \/ Scan(t)
             \/ CallOnDisconnect(t)
    BY <2>1, Names DEF LockToRegister, CreateSocket, FindSocket, Scan, CallOnDisconnect
  <2>5. CASE CloseGoChannel(t)
    BY <2>5 DEF CloseGoChannel
  <2>2. CASE StartReader(t) \/ ReadFails(t)
    BY <2>2 DEF StartReader, ReadFails
  <2>3. CASE SendStep(t)
    <3>1. pc[t] \in ReadLabels
      BY <2>3, SendMoves
    <3>2. sock[t] \in Streams
      BY <3>1, Names DEF Leaving, LeaveTypes, InUse, Using, ReadLabels
    <3>3. Slot(t) \in Streams \cup {Nil}
      <4>1. slot[sock[t]] \in [0 .. MaxChannels - 1 -> Streams \cup {New, Nil}]
        BY <3>2 DEF Leaving, LeaveTypes
      <4>2. t[2] \in 0 .. MaxChannels - 1
        BY Names
      <4>3. Slot(t) # New
        BY <3>1 DEF Given
      <4> QED
        BY <4>1, <4>2, <4>3 DEF Slot
    <3>4. (IF Slot(t) = Nil THEN None ELSE Slot(t)) \in Streams \cup {None}
      BY <3>3
    <3>5. \/ UNCHANGED reading
          \/ \E s \in Streams \cup {None} : reading' = [reading EXCEPT ![t] = s]
      BY <2>3, <3>4 DEF SendStep, ReadMessage, HandOver, HandOverToNobody, Resume
    <3>6. UNCHANGED <<lock, ended, remaining, done>>
      BY <2>3, SendMoves
    <3> QED
      BY <3>5, <3>6
  <2>4. CASE EndStream(t)
    <3>1. reading[t][1] \in up /\ up \subseteq 1 .. accepted
      BY <2>4 DEF EndStream, Readable, Registering, RegisterTypes
    <3>2. reading[t] \in Streams
      BY <3>1 DEF None
    <3> QED
      BY <2>4, <3>2 DEF EndStream
  <2> QED
    BY <1>1, <1>2, <2>1, <2>2, <2>3, <2>4, <2>5, Names DEF ServeStream, SendStep
<1>3. CASE (\E k \in Ids : CallCloseSocket(k)) \/ CallClose \/ RunApp
  <2>1. Registered \subseteq Streams
    BY DEF Registered, Registering, RegisterTypes
  <2>2. CASE \/ (\E k \in Ids : CallCloseSocket(k) \/ RangeNext(k))
             \/ CallClose \/ LockToClose \/ GetToClose \/ Remove \/ RangeEnd
             \/ SetServerClosed
    BY <2>1, <2>2, Names
       DEF CallCloseSocket, CallClose, RangeNext, LockToClose, GetToClose, Remove,
           RangeEnd, SetServerClosed
  <2> QED
    BY <1>1, <1>3, <2>2, Names DEF RunApp
<1>4. CASE \/ Listen \/ (\E k \in Ids : Accept(k)) \/ (\E c \in Conns : LoseConn(c))
           \/ (\E c \in Conns : \E i \in Channels : AcceptStream(c, i))
           \/ UNCHANGED vars
  BY <1>4 DEF Listen, EvaluateListener, AcceptFails, Accept, LoseConn, AcceptStream,
              vars
<1> QED
  BY <1>2, <1>3, <1>4 DEF Next, SendStep

\* Every variable keeps its type, for any number of peers, connections and
\* channels.
THEOREM TypeCorrect == Spec => []TypeOK
<1> DEFINE Inv == Registering /\ Leaving /\ NetTypes /\ ThreadTypes /\ Given
<1>1. Init => Inv
  BY RegisteringInit, LeavingInit, TypeInit
<1>2. Inv /\ [Next]_vars => Inv'
  BY RegisteringStep, LeavingStep, NetTypeStep, ThreadTypeStep, GivenStep
<1>3. Inv => TypeOK
  <2> SUFFICES ASSUME Inv PROVE TypeOK
    OBVIOUS
  <2>1. pc \in [Threads -> Labels]
    BY DEF Registering, RegisterTypes, StreamLabels, AppLabels, AppLocked, CloseLabels,
           Labels
  <2>2. up \subseteq Conns
    <3>1. accepted \in 0 .. MaxConns /\ up \subseteq 1 .. accepted
      BY DEF Registering, RegisterTypes
    <3>2. MaxConns \in Nat
      BY ServerAssumption
    <3> QED
      BY <3>1, <3>2 DEF Conns
  <2> QED
    BY <2>1, <2>2 DEF TypeOK, Registering, RegisterTypes, Leaving, LeaveTypes,
                      NetTypes, ThreadTypes
<1> QED
  BY <1>1, <1>2, <1>3, PTL DEF Spec

=============================================================================
