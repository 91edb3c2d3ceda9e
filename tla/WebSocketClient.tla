---------------------------- MODULE WebSocketClient ----------------------------
(***************************************************************************)
(* The WebSocket client that reconnects by itself: each call of Connect    *)
(* that gets a connection (the caller, which goes on as the heartbeat),    *)
(* the reader that it starts, the goroutines of ReconnectWorking, and the  *)
(* application, which closes the client.  They share the fields of Client  *)
(* and take no lock; Disconnect is a procedure that each of them may run.  *)
(* A panic ends the program.                                               *)
(***************************************************************************)
EXTENDS Integers

CONSTANT MaxConns   \* bound: connections established; more dials only fail

ASSUME ClientAssumption == MaxConns \in Nat \ {0}

Conns == 1 .. MaxConns
Caller(k) == <<"caller", k>>    \* Connect and Heart of connection k
Reader(k) == <<"reader", k>>
Closer == <<"closer", 0>>       \* WebSocketClose

Callers == {Caller(k) : k \in Conns}
Readers == {Reader(k) : k \in Conns}
Threads == Callers \cup Readers \cup {Closer}

VARIABLES
    pc,
    working,    \* goroutines that sleep or dial
    calls,      \* connections established so far
    link,       \* what each connection is like
    reading,    \* the connection a reader's pending read is on, or 0
    ticker,     \* the ticker each heartbeat ranges over, or 0
    ticking,    \* the tickers that were not stopped
    twice,      \* the readers whose close handler runs Disconnect: the deferred
                \* Disconnect comes after it
    Conn,       \* Client.Conn, or 0
    heartTicker,    \* Client.heartTicker, or 0
    Connected, Reconnect, IsClosed,
    crashed

vars == <<pc, working, calls, link, reading, ticker, ticking, twice,
          Conn, heartTicker, Connected, Reconnect, IsClosed, crashed>>

\* A connection that is up answers every ping; one that is silent neither
\* answers nor breaks; "bye" is one whose peer sent a close frame.
Links == {"none", "up", "silent", "lost", "bye", "closed"}

fields == <<Conn, heartTicker, Connected, Reconnect, IsClosed>>
workers == <<working, calls>>
locals == <<reading, ticker, ticking, twice>>

Alive == ~crashed
Goto(t, label) == Alive /\ pc' = [pc EXCEPT ![t] = label]
Enter(t, label, panics) ==
    /\ Goto(t, IF panics THEN "crashed" ELSE label)
    /\ crashed' = panics

-----------------------------------------------------------------------------
(* ReconnectWorking, and Connect up to Dial.                               *)

\* ReconnectWorking wakes up and sees that there is nothing to do; a call of
\* Connect whose dial fails does not try again.
GiveUp ==
    /\ Alive
    /\ working > 0
    /\ ~Reconnect \/ Connected
    /\ working' = working - 1
    /\ UNCHANGED <<pc, calls, link, locals, fields, crashed>>

\* It dials, and again when the dial fails, until it gets a connection.  The
\* step after this one may come at any time after the test.
Dial ==
    /\ working > 0
    /\ Reconnect /\ ~Connected
    /\ calls < MaxConns
    /\ working' = working - 1
    /\ calls' = calls + 1
    /\ link' = [link EXCEPT ![calls'] = "up"]
    /\ Goto(Caller(calls'), "assign")
    /\ UNCHANGED <<locals, fields, crashed>>

-----------------------------------------------------------------------------
(* The rest of Connect, for connection k.                                  *)

SetConn(k) ==
    /\ pc[Caller(k)] = "assign"
    /\ Conn' = k
    /\ Goto(Caller(k), "connected")
    /\ UNCHANGED <<workers, link, locals, heartTicker, Connected, Reconnect,
                   IsClosed, crashed>>

SetConnected(k) ==
    /\ pc[Caller(k)] = "connected"
    /\ Connected' = TRUE
    /\ Goto(Caller(k), "handler")
    /\ UNCHANGED <<workers, link, locals, Conn, heartTicker, Reconnect, IsClosed,
                   crashed>>

\* SetCloseHandler of c.Conn, which somebody may have set to nil; then the
\* reader is started.
StartReader(k) ==
    /\ pc[Caller(k)] = "handler"
    /\ Alive
    /\ crashed' = (Conn = 0)
    /\ pc' = IF Conn = 0 THEN [pc EXCEPT ![Caller(k)] = "crashed"]
             ELSE [pc EXCEPT ![Caller(k)] = "heart", ![Reader(k)] = "test"]
    /\ UNCHANGED <<workers, link, locals, fields>>

-----------------------------------------------------------------------------
(* The reader.                                                             *)

\* Slip: IsClosed is not looked at.
Leaving_Open == Conn = 0 \/ ~Connected

Leaving == Conn = 0 \/ ~Connected \/ IsClosed

TestReader(k) ==
    /\ pc[Reader(k)] = "test"
    /\ Goto(Reader(k), IF Leaving THEN "disconnect" ELSE "evaluate")
    /\ UNCHANGED <<workers, link, locals, fields, crashed>>

\* c.Conn is read again.
EvaluateConn(k) ==
    /\ pc[Reader(k)] = "evaluate"
    /\ Enter(Reader(k), "read", Conn = 0)
    /\ reading' = [reading EXCEPT ![k] = Conn]
    /\ UNCHANGED <<workers, link, ticker, ticking, twice, fields>>

\* A message that is not JSON ends the reader.
ReadMessage(k) ==
    /\ pc[Reader(k)] = "read"
    /\ link[reading[k]] = "up"
    /\ \E label \in {"test", "disconnect"} : Goto(Reader(k), label)
    /\ reading' = [reading EXCEPT ![k] = 0]
    /\ UNCHANGED <<workers, link, ticker, ticking, twice, fields, crashed>>

ReadFails(k) ==
    /\ pc[Reader(k)] = "read"
    /\ link[reading[k]] \in {"lost", "closed"}
    /\ Goto(Reader(k), "disconnect")
    /\ reading' = [reading EXCEPT ![k] = 0]
    /\ UNCHANGED <<workers, link, ticker, ticking, twice, fields, crashed>>

\* The close handler, run by ReadMessage: "disconnect by admin" ends the
\* reconnecting, other codes do not.
ReadClose(k) ==
    /\ pc[Reader(k)] = "read"
    /\ link[reading[k]] = "bye"
    /\ link' = [link EXCEPT ![reading[k]] = "lost"]
    /\ Reconnect' \in {Reconnect, FALSE}
    /\ Goto(Reader(k), "disconnect")
    /\ reading' = [reading EXCEPT ![k] = 0]
    /\ twice' = twice \cup {Reader(k)}
    /\ UNCHANGED <<workers, ticker, ticking, Conn, heartTicker, Connected,
                   IsClosed, crashed>>

-----------------------------------------------------------------------------
(* Heart.                                                                  *)

StartHeart(k) ==
    /\ pc[Caller(k)] = "heart"
    /\ heartTicker' = k
    /\ ticking' = ticking \cup {k}
    /\ Goto(Caller(k), "range")
    /\ UNCHANGED <<workers, link, reading, ticker, twice, Conn, Connected,
                   Reconnect, IsClosed, crashed>>

RangeTicker(k) ==
    /\ pc[Caller(k)] = "range"
    /\ Enter(Caller(k), "wait", heartTicker = 0)
    /\ ticker' = [ticker EXCEPT ![k] = heartTicker]
    /\ UNCHANGED <<workers, link, reading, ticking, twice, fields>>

\* Slip: the age of the last message is not looked at.
Tick_Ageless(k) ==
    /\ pc[Caller(k)] = "wait"
    /\ ticker[k] \in ticking
    /\ Leaving
    /\ Goto(Caller(k), "disconnect")
    /\ ticker' = [ticker EXCEPT ![k] = 0]
    /\ UNCHANGED <<workers, link, reading, ticking, twice, fields, crashed>>

\* A tick that ends the heartbeat: nothing has come in for HeartTimeout and
\* ten seconds.  A ticker that was stopped never ticks, nor ends the range.
Tick(k) ==
    /\ pc[Caller(k)] = "wait"
    /\ ticker[k] \in ticking
    /\ Leaving \/ (Conn # 0 /\ link[Conn] # "up")
    /\ Goto(Caller(k), "disconnect")
    /\ ticker' = [ticker EXCEPT ![k] = 0]
    /\ UNCHANGED <<workers, link, reading, ticking, twice, fields, crashed>>

-----------------------------------------------------------------------------
(* Disconnect, run by thread t.                                            *)

\* Where Disconnect returns to.
Return(t) ==
    CASE t \in twice -> "disconnect"
      [] t = Closer -> "set closed"
      [] OTHER -> "exit"

TestConnected(t) ==
    /\ pc[t] = "disconnect"
    /\ Goto(t, IF Connected THEN "ticker" ELSE Return(t))
    /\ twice' = IF Connected THEN twice ELSE twice \ {t}
    /\ UNCHANGED <<workers, link, reading, ticker, ticking, fields, crashed>>

\* After OnDisconnected.
StopTicker(t) ==
    /\ pc[t] = "ticker"
    /\ ticking' = ticking \ {heartTicker}
    /\ heartTicker' = 0
    /\ Goto(t, "conn")
    /\ UNCHANGED <<workers, link, reading, ticker, twice, Conn, Connected,
                   Reconnect, IsClosed, crashed>>

\* Tested and closed at once: between the two Conn may become nil, which
\* panics, or another connection, which is closed then as well.
CloseConn(t) ==
    /\ pc[t] = "conn"
    /\ Goto(t, IF Conn = 0 THEN "flag" ELSE "unset")
    /\ link' = [k \in Conns |-> IF k = Conn THEN "closed" ELSE link[k]]
    /\ UNCHANGED <<workers, locals, fields, crashed>>

UnsetConn(t) ==
    /\ pc[t] = "unset"
    /\ Conn' = 0
    /\ Goto(t, "flag")
    /\ UNCHANGED <<workers, link, locals, heartTicker, Connected, Reconnect,
                   IsClosed, crashed>>

\* Slip: Connected is not cleared.
ClearConnected_Kept(t) ==
    /\ pc[t] = "flag"
    /\ working' = IF Reconnect THEN working + 1 ELSE working
    /\ Goto(t, Return(t))
    /\ twice' = twice \ {t}
    /\ UNCHANGED <<calls, link, reading, ticker, ticking, fields, crashed>>

ClearConnected(t) ==
    /\ pc[t] = "flag"
    /\ Connected' = FALSE
    /\ working' = IF Reconnect THEN working + 1 ELSE working
    /\ Goto(t, Return(t))
    /\ twice' = twice \ {t}
    /\ UNCHANGED <<calls, link, reading, ticker, ticking, Conn, heartTicker,
                   Reconnect, IsClosed, crashed>>

Disconnect(t) ==
    \/ TestConnected(t) \/ StopTicker(t) \/ CloseConn(t)
    \/ UnsetConn(t) \/ ClearConnected(t)

-----------------------------------------------------------------------------
(* Close.                                                                  *)

OnClosing ==
    /\ pc[Closer] = "idle"
    /\ Reconnect' = FALSE
    /\ Goto(Closer, "disconnect")
    /\ UNCHANGED <<workers, link, locals, Conn, heartTicker, Connected, IsClosed,
                   crashed>>

SetClosed ==
    /\ pc[Closer] = "set closed"
    /\ IsClosed' = TRUE
    /\ Goto(Closer, "exit")
    /\ UNCHANGED <<workers, link, locals, Conn, heartTicker, Connected, Reconnect,
                   crashed>>

-----------------------------------------------------------------------------
(* The network.                                                            *)

LoseLink(k) ==
    /\ Alive
    /\ link[k] = "up"
    /\ link' \in {[link EXCEPT ![k] = l] : l \in {"silent", "lost", "bye"}}
    /\ UNCHANGED <<pc, workers, locals, fields, crashed>>

\* WebSocketConnect is called once, and dials.
Init ==
    /\ pc = [t \in Threads |-> IF t = Closer THEN "idle" ELSE "none"]
    /\ working = 1 /\ calls = 0
    /\ link = [k \in Conns |-> "none"]
    /\ reading = [k \in Conns |-> 0]
    /\ ticker = [k \in Conns |-> 0]
    /\ ticking = {} /\ twice = {}
    /\ Conn = 0 /\ heartTicker = 0
    /\ Connected = FALSE /\ Reconnect = TRUE /\ IsClosed = FALSE
    /\ crashed = FALSE

RunCaller(k) ==
    \/ SetConn(k) \/ SetConnected(k) \/ StartReader(k) \/ StartHeart(k)
    \/ RangeTicker(k) \/ Tick(k) \/ Disconnect(Caller(k))
RunReader(k) ==
    \/ TestReader(k) \/ EvaluateConn(k) \/ ReadFails(k) \/ ReadClose(k)
    \/ Disconnect(Reader(k))
RunCloser == SetClosed \/ Disconnect(Closer)

Next ==
    \/ GiveUp \/ Dial
    \/ \E k \in Conns : RunCaller(k) \/ RunReader(k) \/ ReadMessage(k) \/ LoseLink(k)
    \/ OnClosing
    \/ RunCloser

Spec == Init /\ [][Next]_vars

\* Every goroutine is scheduled and every sleep ends; a server that is dialled
\* again and again is reached at last.
LiveSpec ==
    /\ Spec
    /\ WF_vars(GiveUp \/ Dial)
    /\ \A k \in Conns : WF_vars(RunCaller(k)) /\ WF_vars(RunReader(k))
    /\ WF_vars(RunCloser)

-----------------------------------------------------------------------------
(* Properties.                                                             *)

Labels == {"none", "assign", "connected", "handler", "heart", "range", "wait",
           "test", "evaluate", "read", "disconnect", "ticker", "conn",
           "unset", "flag", "idle", "set closed", "exit", "crashed"}

\* Every variable has its type.
TypeOK ==
    /\ pc \in [Threads -> Labels]
    /\ working \in Nat /\ calls \in 0 .. MaxConns
    /\ link \in [Conns -> Links]
    /\ reading \in [Conns -> 0 .. MaxConns]
    /\ ticker \in [Conns -> 0 .. MaxConns]
    /\ ticking \subseteq Conns /\ twice \subseteq Readers
    /\ Conn \in 0 .. MaxConns /\ heartTicker \in 0 .. MaxConns
    /\ Connected \in BOOLEAN /\ Reconnect \in BOOLEAN /\ IsClosed \in BOOLEAN
    /\ crashed \in BOOLEAN

\* A client that says it is connected is being watched: a reader is on the
\* current connection or about to be, or somebody is taking it down.
Watched ==
    Connected /\ Alive =>
        \/ \E k \in Conns : pc[Caller(k)] \in {"connected", "handler"}
        \/ \E k \in Conns : \/ pc[Reader(k)] \in {"test", "evaluate"}
                            \/ pc[Reader(k)] = "read" /\ reading[k] = Conn
        \/ \E t \in Threads : pc[t] \in {"disconnect", "ticker", "conn",
                                         "unset", "flag"}

\* "Internal reconnecting" (changelog 1.0.26.072901): however the connection
\* is lost, and whoever finds out first, the client is connected again.
Up == Connected /\ Conn # 0 /\ link[Conn] = "up"
Reconnects == []<>(Up \/ ~Reconnect \/ calls = MaxConns \/ ~Alive)

\* A client that was closed ends up disconnected, also when a reconnect was
\* dialling.
ClosedStaysDown == <>[](IsClosed => ~Connected \/ ~Alive)

=============================================================================
