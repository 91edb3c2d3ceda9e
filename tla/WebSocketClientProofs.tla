-------------------------- MODULE WebSocketClientProofs --------------------------
(***************************************************************************)
(* For any number of reconnects: a client that says it is connected is     *)
(* being watched by a reader, or is being taken down.                      *)
(***************************************************************************)
EXTENDS WebSocketClient, TLAPS

Types ==
    /\ pc \in [Threads -> Labels]
    /\ reading \in [Conns -> 0 .. MaxConns]
    /\ calls \in 0 .. MaxConns
    /\ Conn \in 0 .. MaxConns
    /\ \A k \in Conns : k > calls => pc[Caller(k)] = "none"

\* Who watches the connection.
Starting(k) == pc[Caller(k)] \in {"connected", "handler"}
Reading(k) == \/ pc[Reader(k)] \in {"test", "evaluate"}
              \/ pc[Reader(k)] = "read" /\ reading[k] = Conn
TakingDown(t) == pc[t] \in {"disconnect", "ticker", "conn", "unset", "flag"}

SomeWatch ==
    \/ \E k \in Conns : Starting(k) \/ Reading(k)
    \/ \E t \in Threads : TakingDown(t)

IInv == Types /\ (Connected /\ Alive => SomeWatch)

LEMMA Distinct ==
    /\ \A k \in Conns : Caller(k) \in Threads /\ Reader(k) \in Threads
    /\ Closer \in Threads
    /\ \A j, k \in Conns : /\ Caller(j) # Reader(k)
                           /\ Caller(j) = Caller(k) => j = k
                           /\ Reader(j) = Reader(k) => j = k
BY DEF Caller, Reader, Closer, Threads, Callers, Readers

LEMMA IInvInit == Init => IInv
BY ClientAssumption, Distinct
   DEF Init, IInv, Types, Labels, Conns, Alive, Caller, Closer

-----------------------------------------------------------------------------
(* How a thread that goes from one label to another keeps the watch.       *)

WatchLabels == {"connected", "handler", "test", "evaluate", "read",
                "disconnect", "ticker", "conn", "unset", "flag"}

\* The step of a thread that does not watch leaves the watch to the others.
LEMMA OthersWatch ==
    ASSUME Types, SomeWatch, NEW t \in Threads, NEW l, Goto(t, l),
           UNCHANGED <<reading, Conn>>, pc[t] \notin WatchLabels
    PROVE  SomeWatch'
<1>1. \A u \in Threads : u # t => pc'[u] = pc[u]
  BY DEF Goto, Types
<1>2. \A u \in Threads : pc[u] \in WatchLabels => pc'[u] = pc[u]
  BY <1>1
<1>3. CASE \E k \in Conns : Starting(k) \/ Reading(k)
  BY <1>2, <1>3, Distinct DEF SomeWatch, Starting, Reading, WatchLabels
<1>4. CASE \E u \in Threads : TakingDown(u)
  BY <1>2, <1>4 DEF SomeWatch, TakingDown, WatchLabels
<1> QED
  BY <1>3, <1>4 DEF SomeWatch

\* A thread in Disconnect watches.
LEMMA TakerWatches ==
    ASSUME Types, NEW t \in Threads, NEW l, Goto(t, l),
           l \in {"disconnect", "ticker", "conn", "unset", "flag"}
    PROVE  SomeWatch'
<1>1. pc'[t] = l
  BY DEF Goto, Types
<1> QED
  BY <1>1 DEF SomeWatch, TakingDown

\* The types survive a step from label to label.
LEMMA TypesKept ==
    ASSUME Types, NEW t \in Threads, NEW l \in Labels, Goto(t, l),
           UNCHANGED <<calls, Conn>>, pc[t] # "none",
           reading' \in [Conns -> 0 .. MaxConns]
    PROVE  Types'
BY Distinct DEF Types, Goto

-----------------------------------------------------------------------------
(* The steps.                                                              *)

LEMMA DialStep ==
    ASSUME IInv, Dial
    PROVE  IInv'
<1> DEFINE t == Caller(calls')
<1>1. calls' \in Conns /\ calls' = calls + 1
  BY ClientAssumption DEF Dial, IInv, Types, Conns
<1>2. t \in Threads /\ pc[t] = "none"
  BY <1>1, Distinct DEF IInv, Types, Conns
<1>3. Goto(t, "assign") /\ UNCHANGED <<reading, Conn, Connected, crashed>>
  BY DEF Dial, locals, fields
<1>4. Types'
  <2>1. pc' = [pc EXCEPT ![t] = "assign"]
    BY <1>3 DEF Goto
  <2>2. pc' \in [Threads -> Labels]
    BY <1>2, <2>1 DEF IInv, Types, Labels
  <2>3. ASSUME NEW k \in Conns, k > calls'
        PROVE  pc'[Caller(k)] = "none"
    <3>1. k > calls /\ k # calls'
      BY <1>1, <2>3 DEF Conns, IInv, Types
    <3>2. Caller(k) # t /\ Caller(k) \in Threads
      BY <1>1, <3>1, Distinct
    <3> QED
      BY <1>2, <2>1, <3>1, <3>2 DEF IInv, Types
  <2>4. calls' \in 0 .. MaxConns
    BY <1>1 DEF Conns
  <2> QED
    BY <1>3, <2>2, <2>3, <2>4 DEF IInv, Types
<1> QED
  BY <1>2, <1>3, <1>4, OthersWatch DEF IInv, WatchLabels, Alive

LEMMA CallerStep ==
    ASSUME IInv, NEW k \in Conns,
           \/ SetConn(k) \/ SetConnected(k) \/ StartReader(k) \/ StartHeart(k)
           \/ RangeTicker(k) \/ Tick(k)
    PROVE  IInv'
<1> DEFINE t == Caller(k)
<1>1. t \in Threads /\ Reader(k) \in Threads /\ t # Reader(k)
  BY Distinct
<1> USE DEF IInv
<1>2. CASE SetConn(k)
  <2>1. Goto(t, "connected") /\ pc[t] = "assign" /\ Conn' = k
        /\ UNCHANGED <<calls, reading>>
    BY <1>2 DEF SetConn, workers, locals
  <2>2. pc'[t] = "connected"
    BY <1>1, <2>1 DEF Goto, Types
  <2>3. pc' \in [Threads -> Labels]
    BY <1>1, <2>1 DEF Types, Goto, Labels
  <2>4. \A j \in Conns : j > calls => pc'[Caller(j)] = "none"
    BY <1>1, <2>1, Distinct DEF Types, Goto
  <2>5. Types'
    BY <2>1, <2>3, <2>4 DEF Types, Conns
  <2> QED
    BY <2>2, <2>5 DEF SomeWatch, Starting
<1>3. CASE SetConnected(k)
  <2>1. Goto(t, "handler") /\ pc[t] = "connected"
        /\ UNCHANGED <<calls, reading, Conn>>
    BY <1>3 DEF SetConnected, workers, locals
  <2>2. pc'[t] = "handler"
    BY <1>1, <2>1 DEF Goto, Types
  <2>3. Types'
    BY <1>1, <2>1, TypesKept DEF Types, Labels
  <2> QED
    BY <2>2, <2>3 DEF SomeWatch, Starting
<1>4. CASE StartReader(k)
  <2>1. /\ pc[t] = "handler" /\ crashed' = (Conn = 0)
        /\ pc' = IF Conn = 0 THEN [pc EXCEPT ![t] = "crashed"]
                 ELSE [pc EXCEPT ![t] = "heart", ![Reader(k)] = "test"]
        /\ UNCHANGED <<calls, reading, Conn>>
    BY <1>4 DEF StartReader, workers, locals, fields
  <2>2. Conn # 0 => pc'[Reader(k)] = "test"
    BY <1>1, <2>1 DEF Types
  <2>3. pc' \in [Threads -> Labels]
    BY <1>1, <2>1 DEF Types, Labels
  <2>4. \A j \in Conns : j > calls => pc'[Caller(j)] = "none"
    BY <1>1, <2>1, Distinct DEF Types
  <2> QED
    BY <2>1, <2>2, <2>3, <2>4 DEF Types, SomeWatch, Reading, Alive
<1>5. CASE StartHeart(k)
  <2>1. Goto(t, "range") /\ pc[t] = "heart"
        /\ UNCHANGED <<calls, reading, Conn, Connected, crashed>>
    BY <1>5 DEF StartHeart, workers
  <2>2. Types'
    BY <1>1, <2>1, TypesKept DEF Types, Labels
  <2> QED
    BY <1>1, <2>1, <2>2, OthersWatch DEF WatchLabels, Alive
<1>6. CASE RangeTicker(k)
  <2>1. Goto(t, IF heartTicker = 0 THEN "crashed" ELSE "wait") /\ pc[t] = "range"
        /\ UNCHANGED <<calls, reading, Conn, Connected>>
    BY <1>6 DEF RangeTicker, Enter, workers, fields
  <2>2. Types'
    BY <1>1, <2>1, TypesKept DEF Types, Labels
  <2>3. Alive
    BY <2>1 DEF Goto
  <2> QED
    BY <1>1, <2>1, <2>2, <2>3, OthersWatch DEF WatchLabels
<1>7. CASE Tick(k)
  <2>1. Goto(t, "disconnect") /\ pc[t] = "wait"
        /\ UNCHANGED <<calls, reading, Conn>>
    BY <1>7 DEF Tick, workers, fields
  <2>2. Types'
    BY <1>1, <2>1, TypesKept DEF Types, Labels
  <2> QED
    BY <1>1, <2>1, <2>2, TakerWatches
<1> QED
  BY <1>2, <1>3, <1>4, <1>5, <1>6, <1>7

LEMMA ReaderStep ==
    ASSUME IInv, NEW k \in Conns,
           \/ TestReader(k) \/ EvaluateConn(k) \/ ReadMessage(k)
           \/ ReadFails(k) \/ ReadClose(k)
    PROVE  IInv'
<1> DEFINE t == Reader(k)
<1>1. t \in Threads
  BY Distinct
<1> USE DEF IInv
<1>2. CASE EvaluateConn(k)
  <2>1. /\ Goto(t, IF Conn = 0 THEN "crashed" ELSE "read") /\ pc[t] = "evaluate"
        /\ crashed' = (Conn = 0) /\ reading' = [reading EXCEPT ![k] = Conn]
        /\ UNCHANGED <<calls, Conn>>
    BY <1>2 DEF EvaluateConn, Enter, workers, fields
  <2>2. Types'
    BY <1>1, <2>1, TypesKept DEF Types, Labels
  <2>3. Conn # 0 => pc'[t] = "read" /\ reading'[k] = Conn'
    BY <1>1, <2>1 DEF Goto, Types
  <2> QED
    BY <2>1, <2>2, <2>3 DEF SomeWatch, Reading, Alive
<1>3. CASE TestReader(k) \/ ReadMessage(k) \/ ReadFails(k) \/ ReadClose(k)
  <2>1. PICK l \in {"test", "evaluate", "disconnect"} : Goto(t, l)
    BY <1>3 DEF TestReader, ReadMessage, ReadFails, ReadClose
  <2>2. /\ pc[t] # "none"
        /\ reading' = reading \/ reading' = [reading EXCEPT ![k] = 0]
        /\ UNCHANGED <<calls, Conn>>
    BY <1>3 DEF TestReader, ReadMessage, ReadFails, ReadClose, workers, locals, fields
  <2>3. reading' \in [Conns -> 0 .. MaxConns]
    BY <2>2, ClientAssumption DEF Types
  <2>4. Types'
    BY <1>1, <2>1, <2>2, <2>3, TypesKept DEF Labels
  <2>5. pc'[t] = l
    BY <1>1, <2>1 DEF Goto, Types
  <2> QED
    BY <1>1, <2>4, <2>5 DEF SomeWatch, Reading, TakingDown
<1> QED
  BY <1>2, <1>3

LEMMA DisconnectStep ==
    ASSUME IInv, NEW t \in Threads, Disconnect(t)
    PROVE  IInv'
<1> USE DEF IInv
<1>1. Return(t) \in Labels
  BY DEF Return, Labels
<1>2. CASE TestConnected(t)
  <2>1. /\ Goto(t, IF Connected THEN "ticker" ELSE Return(t))
        /\ pc[t] = "disconnect"
        /\ UNCHANGED <<calls, reading, Conn, Connected>>
    BY <1>2 DEF TestConnected, workers, fields
  <2>2. Types'
    BY <1>1, <2>1, TypesKept DEF Types, Labels
  <2> QED
    BY <2>1, <2>2, TakerWatches
<1>3. CASE ClearConnected(t)
  <2>1. Goto(t, Return(t)) /\ pc[t] = "flag" /\ Connected' = FALSE
        /\ UNCHANGED <<calls, reading, Conn>>
    BY <1>3 DEF ClearConnected
  <2> QED
    BY <1>1, <2>1, TypesKept DEF Types
<1>4. CASE UnsetConn(t)
  <2>1. Goto(t, "flag") /\ pc[t] = "unset" /\ Conn' = 0
        /\ UNCHANGED <<calls, reading>>
    BY <1>4 DEF UnsetConn, workers, locals
  <2>2. pc' \in [Threads -> Labels]
    BY <2>1 DEF Types, Goto, Labels
  <2>3. \A j \in Conns : j > calls => pc'[Caller(j)] = "none"
    BY <2>1, Distinct DEF Types, Goto
  <2>4. Types'
    BY <2>1, <2>2, <2>3, ClientAssumption DEF Types
  <2> QED
    BY <2>1, <2>2, <2>4, TakerWatches
<1>5. CASE StopTicker(t) \/ CloseConn(t)
  <2>1. PICK l \in {"conn", "unset", "flag"} : Goto(t, l)
    BY <1>5 DEF StopTicker, CloseConn
  <2>2. pc[t] # "none" /\ UNCHANGED <<calls, reading, Conn>>
    BY <1>5 DEF StopTicker, CloseConn, workers, locals, fields
  <2>3. Types'
    BY <2>1, <2>2, TypesKept DEF Types, Labels
  <2> QED
    BY <2>1, <2>3, TakerWatches
<1> QED
  BY <1>2, <1>3, <1>4, <1>5 DEF Disconnect

LEMMA CloserStep ==
    ASSUME IInv, OnClosing \/ SetClosed
    PROVE  IInv'
<1> DEFINE t == Closer
<1>1. t \in Threads
  BY Distinct
<1> USE DEF IInv
<1>2. CASE OnClosing
  <2>1. Goto(t, "disconnect") /\ pc[t] = "idle"
        /\ UNCHANGED <<calls, reading, Conn>>
    BY <1>2 DEF OnClosing, workers, locals
  <2>2. Types'
    BY <1>1, <2>1, TypesKept DEF Types, Labels
  <2> QED
    BY <1>1, <2>1, <2>2, TakerWatches
<1>3. CASE SetClosed
  <2>1. Goto(t, "exit") /\ pc[t] = "set closed"
        /\ UNCHANGED <<calls, reading, Conn, Connected, crashed>>
    BY <1>3 DEF SetClosed, workers, locals
  <2>2. Types'
    BY <1>1, <2>1, TypesKept DEF Types, Labels
  <2> QED
    BY <1>1, <2>1, <2>2, OthersWatch DEF WatchLabels, Alive
<1> QED
  BY <1>2, <1>3

LEMMA IInvStep == IInv /\ [Next]_vars => IInv'
<1> SUFFICES ASSUME IInv, [Next]_vars
             PROVE  IInv'
  OBVIOUS
<1>1. CASE Dial
  BY <1>1, DialStep
<1>2. CASE \E k \in Conns : RunCaller(k) \/ RunReader(k) \/ ReadMessage(k)
  BY <1>2, CallerStep, ReaderStep, DisconnectStep, Distinct
     DEF RunCaller, RunReader
<1>3. CASE OnClosing \/ RunCloser
  BY <1>3, CloserStep, DisconnectStep, Distinct DEF RunCloser
<1>4. CASE GiveUp \/ (\E k \in Conns : LoseLink(k)) \/ UNCHANGED vars
  <2>1. UNCHANGED <<pc, calls, reading, Conn, Connected, crashed>>
    BY <1>4 DEF GiveUp, LoseLink, vars, workers, locals, fields
  <2> QED
    BY <2>1 DEF IInv, Types, SomeWatch, Starting, Reading, TakingDown, Alive
<1> QED
  BY <1>1, <1>2, <1>3, <1>4 DEF Next

\* A client that says it is connected has a reader on its current connection,
\* or one that is about to look, or is being taken down: no interleaving of
\* reconnects, close handlers, heartbeats and Close leaves it unattended.
THEOREM WatchedWhenConnected == Spec => []Watched
<1>1. IInv => Watched
  BY DEF IInv, SomeWatch, Starting, Reading, TakingDown, Watched
<1> QED
  BY <1>1, IInvInit, IInvStep, PTL DEF Spec

-----------------------------------------------------------------------------
(* Types.                                                                  *)

LEMMA TypeInit == Init => TypeOK
<1> SUFFICES ASSUME Init PROVE TypeOK
  OBVIOUS
<1>1. pc \in [Threads -> Labels]
  BY DEF Init, Labels
<1>2. /\ link \in [Conns -> Links]
      /\ reading \in [Conns -> 0 .. MaxConns] /\ ticker \in [Conns -> 0 .. MaxConns]
      /\ calls \in 0 .. MaxConns
      /\ Conn \in 0 .. MaxConns /\ heartTicker \in 0 .. MaxConns
  BY ClientAssumption DEF Init, Links
<1> QED
  BY <1>1, <1>2 DEF Init, TypeOK

\* A thread goes to a label; the other variables are the case's own.
LEMMA PcType ==
    ASSUME TypeOK, NEW t, NEW l \in Labels, Goto(t, l)
    PROVE  pc' \in [Threads -> Labels]
BY DEF TypeOK, Goto

LEMMA CallerTypes ==
    ASSUME TypeOK, NEW k \in Conns,
           \/ SetConn(k) \/ SetConnected(k) \/ StartReader(k) \/ StartHeart(k)
           \/ RangeTicker(k) \/ Tick(k)
    PROVE  TypeOK'
<1> USE DEF TypeOK, workers, locals, fields
<1>1. CASE SetConn(k)
  <2>1. pc' \in [Threads -> Labels]
    BY <1>1, PcType DEF SetConn, Labels
  <2> QED
    BY <1>1, <2>1 DEF SetConn, Conns
<1>2. CASE SetConnected(k)
  <2>1. pc' \in [Threads -> Labels]
    BY <1>2, PcType DEF SetConnected, Labels
  <2> QED
    BY <1>2, <2>1 DEF SetConnected
<1>3. CASE StartReader(k)
  BY <1>3 DEF StartReader, Labels
<1>4. CASE StartHeart(k)
  <2>1. pc' \in [Threads -> Labels]
    BY <1>4, PcType DEF StartHeart, Labels
  <2> QED
    BY <1>4, <2>1 DEF StartHeart, Conns
<1>5. CASE RangeTicker(k)
  <2>1. pc' \in [Threads -> Labels]
    BY <1>5, PcType DEF RangeTicker, Enter, Labels
  <2> QED
    BY <1>5, <2>1 DEF RangeTicker, Enter
<1>6. CASE Tick(k)
  <2>1. pc' \in [Threads -> Labels]
    BY <1>6, PcType DEF Tick, Labels
  <2> QED
    BY <1>6, <2>1, ClientAssumption DEF Tick
<1> QED
  BY <1>1, <1>2, <1>3, <1>4, <1>5, <1>6

LEMMA ReaderTypes ==
    ASSUME TypeOK, NEW k \in Conns,
           \/ TestReader(k) \/ EvaluateConn(k) \/ ReadMessage(k) \/ ReadFails(k)
           \/ ReadClose(k)
    PROVE  TypeOK'
<1> USE DEF TypeOK, workers, locals, fields
<1>1. pc' \in [Threads -> Labels]
  <2>1. PICK l \in {"disconnect", "evaluate", "read", "test", "crashed"} :
               Goto(Reader(k), l)
    BY DEF TestReader, EvaluateConn, Enter, ReadMessage, ReadFails, ReadClose
  <2>2. l \in Labels
    BY DEF Labels
  <2> QED
    BY <2>1, <2>2, PcType
<1>2. CASE TestReader(k)
  BY <1>1, <1>2 DEF TestReader
<1>3. CASE EvaluateConn(k)
  BY <1>1, <1>3 DEF EvaluateConn, Enter
<1>4. CASE ReadMessage(k)
  BY <1>1, <1>4, ClientAssumption DEF ReadMessage
<1>5. CASE ReadFails(k)
  BY <1>1, <1>5, ClientAssumption DEF ReadFails
<1>6. CASE ReadClose(k)
  <2>1. Reconnect' \in BOOLEAN
    <3>1. Reconnect' = Reconnect \/ Reconnect' = FALSE
      BY <1>6 DEF ReadClose
    <3> QED
      BY <3>1, Zenon
  <2>2. /\ link' \in [Conns -> Links] /\ twice' \subseteq Readers
        /\ reading' \in [Conns -> 0 .. MaxConns]
    <3>1. Reader(k) \in Readers
      BY DEF Readers
    <3>2. /\ twice' = twice \cup {Reader(k)}
          /\ reading' = [reading EXCEPT ![k] = 0]
          /\ link' = [link EXCEPT ![reading[k]] = "lost"]
      BY <1>6 DEF ReadClose
    <3>3. link' \in [Conns -> Links]
      BY <3>2 DEF Links
    <3>4. reading' \in [Conns -> 0 .. MaxConns]
      BY <3>2, ClientAssumption
    <3> QED
      BY <3>1, <3>2, <3>3, <3>4
  <2>3. UNCHANGED <<workers, ticker, ticking, Conn, heartTicker, Connected,
                    IsClosed, crashed>>
    BY <1>6 DEF ReadClose
  <2> QED
    BY <1>1, <2>1, <2>2, <2>3
<1> QED
  BY <1>2, <1>3, <1>4, <1>5, <1>6

LEMMA DisconnectTypes ==
    ASSUME TypeOK, NEW t \in Threads, Disconnect(t)
    PROVE  TypeOK'
<1> USE DEF TypeOK, workers, locals, fields
<1>1. Return(t) \in Labels
  BY DEF Return, Labels
<1>2. CASE TestConnected(t)
  <2>1. PICK l \in Labels : Goto(t, l)
    BY <1>1, <1>2 DEF TestConnected, Labels
  <2>2. pc' \in [Threads -> Labels]
    BY <2>1, PcType
  <2> QED
    BY <1>2, <2>2 DEF TestConnected
<1>3. CASE StopTicker(t)
  <2>1. pc' \in [Threads -> Labels]
    BY <1>3, PcType DEF StopTicker, Labels
  <2> QED
    BY <1>3, <2>1, ClientAssumption DEF StopTicker
<1>4. CASE CloseConn(t)
  <2>1. pc' \in [Threads -> Labels]
    <3>1. PICK l \in {"flag", "unset"} : Goto(t, l)
      BY <1>4 DEF CloseConn
    <3> QED
      BY <3>1, PcType DEF Labels
  <2>2. link' \in [Conns -> Links]
    BY <1>4 DEF CloseConn, Links
  <2> QED
    BY <1>4, <2>1, <2>2 DEF CloseConn
<1>5. CASE UnsetConn(t)
  <2>1. pc' \in [Threads -> Labels]
    BY <1>5, PcType DEF UnsetConn, Labels
  <2> QED
    BY <1>5, <2>1, ClientAssumption DEF UnsetConn
<1>6. CASE ClearConnected(t)
  <2>1. pc' \in [Threads -> Labels]
    BY <1>1, <1>6, PcType DEF ClearConnected
  <2>2. working' \in Nat /\ twice' \subseteq Readers
    BY <1>6 DEF ClearConnected
  <2> QED
    BY <1>6, <2>1, <2>2 DEF ClearConnected
<1> QED
  BY <1>2, <1>3, <1>4, <1>5, <1>6 DEF Disconnect

LEMMA TypeStep == TypeOK /\ [Next]_vars => TypeOK'
<1> SUFFICES ASSUME TypeOK, [Next]_vars
             PROVE  TypeOK'
  OBVIOUS
<1> USE DEF workers, locals, fields
<1>1. CASE GiveUp
  BY <1>1 DEF GiveUp, TypeOK
<1>2. CASE Dial
  <2>1. pc' \in [Threads -> Labels]
    BY <1>2, PcType DEF Dial, Labels
  <2>2. working' \in Nat /\ calls' \in 0 .. MaxConns
    BY <1>2, ClientAssumption DEF Dial, TypeOK
  <2>3. link' \in [Conns -> Links]
    BY <1>2 DEF Dial, TypeOK, Links
  <2> QED
    BY <1>2, <2>1, <2>2, <2>3 DEF Dial, TypeOK
<1>3. ASSUME NEW k \in Conns, RunCaller(k) \/ RunReader(k) \/ ReadMessage(k) \/ LoseLink(k)
      PROVE  TypeOK'
  <2>1. CASE LoseLink(k)
    BY <2>1 DEF LoseLink, TypeOK, Links
  <2> QED
    BY <1>3, <2>1, Distinct, CallerTypes, ReaderTypes, DisconnectTypes
       DEF RunCaller, RunReader
<1>4. CASE OnClosing
  <2>1. pc' \in [Threads -> Labels]
    BY <1>4, PcType DEF OnClosing, Labels
  <2> QED
    BY <1>4, <2>1 DEF OnClosing, TypeOK
<1>5. CASE SetClosed
  <2>1. pc' \in [Threads -> Labels]
    BY <1>5, PcType DEF SetClosed, Labels
  <2> QED
    BY <1>5, <2>1 DEF SetClosed, TypeOK
<1>6. CASE UNCHANGED vars
  BY <1>6 DEF vars, TypeOK
<1> QED
  BY <1>1, <1>2, <1>3, <1>4, <1>5, <1>6, Distinct, DisconnectTypes DEF Next, RunCloser

\* Every field and local variable of the client's goroutines keeps its type.
THEOREM TypeCorrect == Spec => []TypeOK
BY TypeInit, TypeStep, PTL DEF Spec

================================================================================
