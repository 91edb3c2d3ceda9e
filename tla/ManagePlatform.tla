---------------------------- MODULE ManagePlatform ----------------------------
(***************************************************************************)
(* The connection of a host to its management platform, and the agents it  *)
(* starts: the loop of ProxyServerCreate, which dials, listens for "proxy" *)
(* messages, authenticates the agents (AgentAuth) in between, and retries; *)
(* one goroutine of Hearts per round of that loop; and the application,    *)
(* which closes the platform.  They share the fields of ManagePlatform     *)
(* without a lock.  A panic ends the program.                              *)
(***************************************************************************)
EXTENDS AgentAuth

CONSTANTS
    MaxRounds,      \* bound: rounds of the loop, each with its own connection
    MaxFailedReads  \* reads that fail on one connection until gorilla panics
                    \* (1000)

ASSUME PlatformAssumption ==
    /\ MaxRounds \in Nat \ {0}
    /\ MaxFailedReads \in Nat \ {0}

Rounds == 1 .. MaxRounds

VARIABLES
    loop,       \* where the loop of ProxyServerCreate is
    round,      \* the rounds begun; connections and hearts are named after them
    link,       \* what each connection is like
    reading,    \* the connection that ListenAgentConnect reads, or 0
    failures,   \* failed reads of each connection
    wsConn,     \* ManagePlatform.wsConn, or 0
    late,       \* lastMessageTime is more than Hearts + 10 seconds ago
    second,     \* ListenAgentConnect has another address to try
    agents,     \* the keys of Agents
    servers,    \* servers started for each proxy
    heart,      \* where each goroutine of Hearts is
    ticker,     \* the ticker it ranges over, or 0
    heartTicker,    \* ManagePlatform.heartTicker, or 0
    ticking,    \* the tickers that were not stopped
    app,        \* where the application is in ServerClose
    isClosed,   \* ManagePlatform.IsClosed
    ctxNil,     \* managerCtx is nil
    crashed

heartVars == <<heart, ticker, heartTicker, ticking>>
agentVars == <<second, agents, servers>>
appVars == <<app, isClosed, ctxNil>>
connVars == <<link, reading, failures, wsConn, late>>
vars == <<loop, round, connVars, agentVars, heartVars, appVars, authVars, crashed>>

Alive == ~crashed
At(label) == Alive /\ loop = label
Enter(label, panics) ==
    /\ loop' = IF panics THEN "crashed" ELSE label
    /\ crashed' = panics

-----------------------------------------------------------------------------
(* The loop of ProxyServerCreate.                                          *)

CheckManager ==
    /\ At("check")
    /\ isClosed \/ ctxNil \/ round < MaxRounds
    /\ IF isClosed \/ ctxNil
       THEN loop' = "exit" /\ UNCHANGED round
       ELSE loop' = "connect" /\ round' = round + 1
    /\ UNCHANGED <<connVars, agentVars, heartVars, appVars, authVars, crashed>>

\* ConnectToPlatform.  A dial that fails leaves wsConn as it was.
Dial ==
    /\ At("connect")
    /\ \/ /\ Enter("assign", ctxNil)
          /\ link' = [link EXCEPT ![round] = IF ctxNil THEN @ ELSE "up"]
       \/ Enter("heart", ctxNil) /\ UNCHANGED link
    /\ UNCHANGED <<round, reading, failures, wsConn, late, agentVars, heartVars,
                   appVars, authVars>>

\* The connection is kept and the host registers itself.
SetConn ==
    /\ At("assign")
    /\ loop' = "heart"
    /\ wsConn' = round
    /\ UNCHANGED <<round, link, reading, failures, late, agentVars, heartVars,
                   appVars, authVars, crashed>>

StartHeart ==
    /\ At("heart")
    /\ Enter("listen", ctxNil)
    /\ heart' = IF ctxNil THEN heart ELSE [heart EXCEPT ![round] = "ticker"]
    /\ UNCHANGED <<round, connVars, agentVars, ticker, heartTicker, ticking,
                   appVars, authVars>>

\* ListenAgentConnect returns nil, which the loop takes for a reason to begin
\* again at once.
LeaveListening ==
    /\ At("listen")
    /\ wsConn = 0 \/ isClosed
    /\ loop' = "check"
    /\ UNCHANGED <<round, connVars, agentVars, heartVars, appVars, authVars,
                   crashed>>

KeepListening ==
    /\ At("listen")
    /\ wsConn # 0
    /\ ~isClosed
    /\ loop' = "evaluate"
    /\ UNCHANGED <<round, connVars, agentVars, heartVars, appVars, authVars,
                   crashed>>

\* wsConn is read again.
EvaluateConn ==
    /\ At("evaluate")
    /\ Enter("read", wsConn = 0)
    /\ reading' = wsConn
    /\ UNCHANGED <<round, link, failures, wsConn, late, agentVars, heartVars,
                   appVars, authVars>>

\* Slip: a message that is no JSON ends ListenAgentConnect with its error.
ReadOther_Returns ==
    /\ At("read")
    /\ link[reading] = "up"
    /\ loop' = "failed"
    /\ late' = FALSE
    /\ reading' = 0
    /\ UNCHANGED <<round, link, failures, wsConn, agentVars, heartVars, appVars,
                   authVars, crashed>>

\* A message that announces no proxy; one that is no JSON does not count as a
\* sign of life.
ReadOther ==
    /\ At("read")
    /\ link[reading] = "up"
    /\ loop' = "listen"
    /\ late' \in {late, FALSE}
    /\ reading' = 0
    /\ UNCHANGED <<round, link, failures, wsConn, agentVars, heartVars, appVars,
                   authVars, crashed>>

\* "proxy": an agent that exists is left alone.  With AllowExternal there are
\* two addresses.
ReadProxy(i) ==
    /\ At("read")
    /\ link[reading] = "up"
    /\ late' = FALSE
    /\ IF i \in agents
       THEN loop' = "listen" /\ UNCHANGED <<second, authVars>>
       ELSE loop' = "auth" /\ StartAuth(i) /\ second' \in BOOLEAN
    /\ reading' = 0
    /\ UNCHANGED <<round, link, failures, wsConn, agents, servers, heartVars,
                   appVars, crashed>>

ReadFails ==
    /\ At("read")
    /\ link[reading] \in {"lost", "closed"}
    /\ Enter("failed", failures[reading] + 1 >= MaxFailedReads)
    /\ failures' = [failures EXCEPT ![reading] = @ + 1]
    /\ reading' = 0
    /\ UNCHANGED <<round, link, wsConn, late, agentVars, heartVars, appVars,
                   authVars>>

\* Slip: the error ends the loop.
Pause_Ends ==
    /\ At("failed")
    /\ loop' = "exit"
    /\ UNCHANGED <<round, connVars, agentVars, heartVars, appVars, authVars,
                   crashed>>

\* The error: three seconds of sleep, or the end.
Pause ==
    /\ At("failed")
    /\ loop' = IF isClosed \/ ctxNil THEN "exit" ELSE "check"
    /\ UNCHANGED <<round, connVars, agentVars, heartVars, appVars, authVars,
                   crashed>>

-----------------------------------------------------------------------------
(* ListenAgentConnect connects a proxy.                                    *)

RunAuth ==
    /\ At("auth")
    /\ Authenticate
    /\ UNCHANGED <<loop, round, connVars, agentVars, heartVars, appVars, crashed>>

\* The agent's server is created and listens; the second address is not tried.
AddAgent ==
    /\ At("auth")
    /\ phase = "done"
    /\ phase' = "idle"
    /\ loop' = "listen"
    /\ agents' = agents \cup {idx}
    /\ servers' = [servers EXCEPT ![idx] = @ + 1]
    /\ second' = FALSE
    /\ attempt' = 1 /\ inFlight' = {}
    /\ UNCHANGED <<round, connVars, heartVars, appVars, idx, accepted, crashed>>

AuthFails ==
    /\ At("auth")
    /\ phase = "failed"
    /\ IF second
       THEN StartAuth(idx) /\ UNCHANGED loop
       ELSE /\ phase' = "idle" /\ loop' = "listen"
            /\ attempt' = 1 /\ inFlight' = {}
            /\ UNCHANGED <<idx, accepted>>
    /\ second' = FALSE
    /\ UNCHANGED <<round, connVars, agents, servers, heartVars, appVars, crashed>>

-----------------------------------------------------------------------------
(* Hearts, the goroutine of round h.                                       *)

HeartGoto(h, label) == Alive /\ heart' = [heart EXCEPT ![h] = label]

NewTicker(h) ==
    /\ heart[h] = "ticker"
    /\ HeartGoto(h, "range")
    /\ heartTicker' = h
    /\ ticking' = ticking \cup {h}
    /\ UNCHANGED <<loop, round, connVars, agentVars, ticker, appVars, authVars,
                   crashed>>

RangeTicker(h) ==
    /\ heart[h] = "range"
    /\ HeartGoto(h, IF heartTicker = 0 THEN "crashed" ELSE "wait")
    /\ crashed' = (heartTicker = 0)
    /\ ticker' = [ticker EXCEPT ![h] = heartTicker]
    /\ UNCHANGED <<loop, round, connVars, agentVars, heartTicker, ticking,
                   appVars, authVars>>

\* A tick that finds no connection, or a closed platform, ends the heartbeat;
\* one that finds the platform silent ends the connection too.  The test of
\* config.Id is left out: it never changes.
Tick(h) ==
    /\ heart[h] = "wait"
    /\ ticker[h] \in ticking
    /\ \/ (wsConn = 0 \/ isClosed) /\ HeartGoto(h, "leave")
       \/ wsConn # 0 /\ ~isClosed /\ late /\ HeartGoto(h, "timeout")
    /\ ticker' = [ticker EXCEPT ![h] = 0]
    /\ UNCHANGED <<loop, round, connVars, agentVars, heartTicker, ticking,
                   appVars, authVars, crashed>>

\* wsConn is read again: whatever connection there is now is closed.
CloseSilent(h) ==
    /\ heart[h] = "timeout"
    /\ HeartGoto(h, IF wsConn = 0 THEN "crashed" ELSE "leave")
    /\ crashed' = (wsConn = 0)
    /\ link' = [r \in Rounds |-> IF r = wsConn THEN "closed" ELSE link[r]]
    /\ UNCHANGED <<loop, round, reading, failures, wsConn, late, agentVars,
                   ticker, heartTicker, ticking, appVars, authVars>>

\* The deferred function stops the ticker in the field, its own or not, and
\* sets the field to nil.
LeaveHearts(h) ==
    /\ heart[h] = "leave"
    /\ HeartGoto(h, "exit")
    /\ ticking' = ticking \ {heartTicker}
    /\ heartTicker' = 0
    /\ UNCHANGED <<loop, round, connVars, agentVars, ticker, appVars, authVars,
                   crashed>>

RunHeart(h) ==
    \/ NewTicker(h) \/ RangeTicker(h) \/ Tick(h) \/ CloseSilent(h)
    \/ LeaveHearts(h)

-----------------------------------------------------------------------------
(* ServerClose: ManagePlatform.Close, then managerCtx = nil.               *)

AppGoto(from, to) == Alive /\ app = from /\ app' = to

OnClosing ==
    /\ AppGoto("idle", "closing")
    /\ ticking' = ticking \ {heartTicker}
    /\ heartTicker' = 0
    /\ UNCHANGED <<loop, round, connVars, agentVars, heart, ticker, isClosed,
                   ctxNil, authVars, crashed>>

SetClosed ==
    /\ AppGoto("closing", "closed")
    /\ isClosed' = TRUE
    /\ UNCHANGED <<loop, round, connVars, agentVars, heartVars, ctxNil, authVars,
                   crashed>>

\* Slip: the connection is not closed.
CloseConn_Left ==
    /\ AppGoto("closed", "unset")
    /\ UNCHANGED <<loop, round, connVars, agentVars, heartVars, isClosed, ctxNil,
                   authVars, crashed>>

\* OnClosed closes the connection there is, if any, and then forgets the one
\* there is by then: the loop may have set another in between.
CloseConn ==
    /\ AppGoto("closed", IF wsConn = 0 THEN "forget" ELSE "unset")
    /\ link' = [r \in Rounds |-> IF r = wsConn THEN "closed" ELSE link[r]]
    /\ UNCHANGED <<loop, round, reading, failures, wsConn, late, agentVars,
                   heartVars, isClosed, ctxNil, authVars, crashed>>

UnsetConn ==
    /\ AppGoto("unset", "forget")
    /\ wsConn' = 0
    /\ UNCHANGED <<loop, round, link, reading, failures, late, agentVars,
                   heartVars, isClosed, ctxNil, authVars, crashed>>

ForgetManager ==
    /\ AppGoto("forget", "exit")
    /\ ctxNil' = TRUE
    /\ UNCHANGED <<loop, round, connVars, agentVars, heartVars, isClosed,
                   authVars, crashed>>

-----------------------------------------------------------------------------
(* The network and the platform.                                           *)

LoseLink ==
    /\ Alive
    /\ \E r \in Rounds, l \in {"silent", "lost"} :
         /\ link[r] = "up"
         /\ link' = [link EXCEPT ![r] = l]
    /\ UNCHANGED <<loop, round, reading, failures, wsConn, late, agentVars,
                   heartVars, appVars, authVars, crashed>>

\* Time passes and nothing comes in.
GrowLate ==
    /\ Alive
    /\ ~late
    /\ \A r \in Rounds : link[r] # "up"
    /\ round > 0
    /\ late' = TRUE
    /\ UNCHANGED <<loop, round, link, reading, failures, wsConn, agentVars,
                   heartVars, appVars, authVars, crashed>>

Init ==
    /\ loop = "check" /\ round = 0
    /\ link = [r \in Rounds |-> "none"]
    /\ reading = 0
    /\ failures = [r \in Rounds |-> 0]
    /\ wsConn = 0
    /\ late = FALSE
    /\ second = FALSE /\ agents = {} /\ servers = [i \in Idxs |-> 0]
    /\ heart = [h \in Rounds |-> "none"]
    /\ ticker = [h \in Rounds |-> 0]
    /\ heartTicker = 0 /\ ticking = {}
    /\ app = "idle" /\ isClosed = FALSE /\ ctxNil = FALSE
    /\ AuthInit
    /\ crashed = FALSE

RunLoop ==
    \/ CheckManager \/ Dial \/ SetConn \/ StartHeart \/ LeaveListening
    \/ KeepListening \/ EvaluateConn \/ ReadFails \/ Pause
    \/ RunAuth \/ AddAgent \/ AuthFails

\* The rest of ServerClose.
FinishClose == SetClosed \/ CloseConn \/ UnsetConn \/ ForgetManager

Next ==
    \/ RunLoop \/ ReadOther
    \/ \E i \in Idxs : ReadProxy(i)
    \/ \E h \in Rounds : RunHeart(h)
    \/ OnClosing \/ FinishClose
    \/ LoseLink \/ GrowLate

Spec == Init /\ [][Next]_vars

\* The loop, the hearts and a Close that was begun go on, sleeps and time-outs
\* end, and time passes.  Nothing says that a dial succeeds or a message comes.
LiveSpec ==
    /\ Spec
    /\ WF_vars(RunLoop) /\ WF_vars(GrowLate)
    /\ \A h \in Rounds : WF_vars(RunHeart(h))
    /\ WF_vars(FinishClose)

-----------------------------------------------------------------------------
(* Properties.                                                             *)

\* Every variable has its type.
TypeOK ==
    /\ AuthTypeOK
    /\ loop \in {"check", "connect", "assign", "heart", "listen", "evaluate",
                 "read", "failed", "auth", "exit", "crashed"}
    /\ round \in 0 .. MaxRounds
    /\ link \in [Rounds -> {"none", "up", "silent", "lost", "closed"}]
    /\ reading \in 0 .. MaxRounds /\ wsConn \in 0 .. MaxRounds
    /\ failures \in [Rounds -> Nat]
    /\ late \in BOOLEAN /\ second \in BOOLEAN
    /\ agents \subseteq Idxs /\ servers \in [Idxs -> Nat]
    /\ heart \in [Rounds -> {"none", "ticker", "range", "wait", "timeout",
                             "leave", "exit", "crashed"}]
    /\ ticker \in [Rounds -> 0 .. MaxRounds] /\ heartTicker \in 0 .. MaxRounds
    /\ ticking \subseteq Rounds
    /\ app \in {"idle", "closing", "closed", "unset", "forget", "exit"}
    /\ isClosed \in BOOLEAN /\ ctxNil \in BOOLEAN /\ crashed \in BOOLEAN

\* The server of an agent runs on a socket whose REQ the proxy has taken, in
\* spite of late and repeated answers, and there is one server for each proxy.
AgentsAccepted ==
    /\ agents \subseteq accepted
    /\ \A i \in Idxs : servers[i] <= 1

\* The host never holds two connections to the platform, and knows the one it
\* holds: whenever it dials again, the connection it had is dead, whoever ended
\* it.  Only Close may forget a connection that is up, one set meanwhile.
OneConnection ==
    \A r \in Rounds : link[r] = "up" =>
        r = round /\ (r = wsConn \/ loop = "assign" \/ isClosed)

\* "A lost connection is dialled again" (changelog 1.0.26.052801): a connection
\* that breaks leads to the next round, and so does one that falls silent while
\* a heartbeat ticks, its own or that of an earlier round.
Watching == \E h \in Rounds : heart[h] = "wait" /\ ticker[h] \in ticking
Kept == \E r \in Rounds :
    r = wsConn /\ link[r] \in (IF Watching THEN {"up"} ELSE {"up", "silent"})
Reconnects ==
    []<>(\/ Kept
         \/ isClosed \/ (round = MaxRounds /\ loop = "check") \/ ~Alive)

\* When the platform is closed the loop ends, wherever it was: in a dial, a
\* read, an authentication or a pause.
LoopEnds == []<>(~ctxNil \/ loop = "exit" \/ ~Alive)

=============================================================================
