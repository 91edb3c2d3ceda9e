-------------------------- MODULE ManagePlatformProofs --------------------------
(***************************************************************************)
(* For any number of proxies, rounds and attempts: every agent's server    *)
(* runs on a socket its proxy has accepted, each proxy has one server, the *)
(* host holds one connection to the platform at most, and every variable   *)
(* keeps its type.                                                         *)
(***************************************************************************)
EXTENDS ManagePlatform, TLAPS

-----------------------------------------------------------------------------
(* Agents.                                                                 *)

\* An answer to a REQ is in flight, or was received, only for a proxy that
\* took the REQ.
AnswerMeansAccepted ==
    "req" \in inFlight \/ phase = "done" => idx \in accepted

\* Only a proxy without an agent is being connected.
ConnectsNew == loop = "auth" => idx \notin agents

\* A proxy has a server if and only if it has an agent.
ServerPerAgent ==
    servers = [i \in Idxs |-> IF i \in agents THEN 1 ELSE 0]

AgentInv ==
    /\ idx \in Idxs /\ agents \subseteq Idxs
    /\ agents \subseteq accepted
    /\ AnswerMeansAccepted
    /\ ConnectsNew
    /\ ServerPerAgent

LEMMA AgentInit == Init => AgentInv
BY DEF Init, AuthInit, AgentInv, AnswerMeansAccepted, ConnectsNew, ServerPerAgent

\* Authenticating changes neither the proxy nor the agents.
LEMMA AuthenticateAgents ==
    ASSUME AgentInv, RunAuth
    PROVE  AgentInv'
<1>1. UNCHANGED <<loop, agents, servers>>
  BY DEF RunAuth, agentVars
<1>2. Authenticate
  BY DEF RunAuth
<1> USE DEF AgentInv, AnswerMeansAccepted, ConnectsNew, ServerPerAgent
<1>3. CASE SendSyn
  BY <1>1, <1>3 DEF SendSyn
<1>4. CASE SendReq
  BY <1>1, <1>4 DEF SendReq
<1>5. CASE SocketFails
  BY <1>1, <1>5 DEF SocketFails
<1>6. CASE ReceiveSyn
  BY <1>1, <1>6 DEF ReceiveSyn
<1>7. CASE ReceiveReq
  BY <1>1, <1>7 DEF ReceiveReq, NextAttempt
<1>8. CASE TimeOut
  BY <1>1, <1>8 DEF TimeOut, NextAttempt
<1> QED
  BY <1>2, <1>3, <1>4, <1>5, <1>6, <1>7, <1>8 DEF Authenticate

LEMMA ReadProxyAgents ==
    ASSUME AgentInv, NEW i \in Idxs, ReadProxy(i)
    PROVE  AgentInv'
<1> USE DEF ReadProxy, AgentInv, AnswerMeansAccepted, ConnectsNew,
            ServerPerAgent
<1>1. CASE i \in agents
  BY <1>1 DEF authVars
<1>2. CASE i \notin agents
  <2>1. StartAuth(i) /\ UNCHANGED <<agents, servers>>
    BY <1>2
  <2> QED
    BY <1>2, <2>1 DEF StartAuth
<1> QED
  BY <1>1, <1>2

LEMMA AddAgentAgents ==
    ASSUME AgentInv, AddAgent
    PROVE  AgentInv'
<1> USE DEF AddAgent, At, AgentInv
<1>1. ServerPerAgent'
  BY DEF ServerPerAgent, ConnectsNew
<1> QED
  BY <1>1 DEF AnswerMeansAccepted, ConnectsNew

LEMMA AuthFailsAgents ==
    ASSUME AgentInv, AuthFails
    PROVE  AgentInv'
BY DEF AuthFails, At, StartAuth, AgentInv, AnswerMeansAccepted, ConnectsNew,
       ServerPerAgent

LEMMA AgentStep == AgentInv /\ [Next]_vars => AgentInv'
<1> SUFFICES ASSUME AgentInv, [Next]_vars
             PROVE  AgentInv'
  OBVIOUS
<1>1. CASE RunAuth
  BY <1>1, AuthenticateAgents
<1>2. CASE \E i \in Idxs : ReadProxy(i)
  BY <1>2, ReadProxyAgents
<1>3. CASE AddAgent
  BY <1>3, AddAgentAgents
<1>4. CASE AuthFails
  BY <1>4, AuthFailsAgents
<1>5. CASE \/ CheckManager \/ Dial \/ SetConn \/ StartHeart \/ LeaveListening
           \/ KeepListening \/ EvaluateConn \/ ReadFails \/ Pause \/ ReadOther
  <2>1. loop' # "auth" /\ UNCHANGED <<agentVars, authVars>>
    BY <1>5 DEF CheckManager, Dial, SetConn, StartHeart, LeaveListening,
                KeepListening, EvaluateConn, ReadFails, Pause, ReadOther, Enter
  <2> QED
    BY <2>1 DEF agentVars, authVars, AgentInv, AnswerMeansAccepted, ConnectsNew,
                ServerPerAgent
<1>6. CASE \/ \E h \in Rounds : RunHeart(h)
           \/ OnClosing \/ FinishClose
           \/ LoseLink \/ GrowLate \/ UNCHANGED vars
  <2>1. UNCHANGED <<loop, agentVars, authVars>>
    BY <1>6 DEF RunHeart, NewTicker, RangeTicker, Tick, CloseSilent, LeaveHearts,
                OnClosing, FinishClose, SetClosed, CloseConn, UnsetConn,
                ForgetManager, LoseLink, GrowLate, vars
  <2> QED
    BY <2>1 DEF agentVars, authVars, AgentInv, AnswerMeansAccepted, ConnectsNew,
                ServerPerAgent
<1> QED
  BY <1>1, <1>2, <1>3, <1>4, <1>5, <1>6 DEF Next, RunLoop

\* The server of an agent runs on a socket that its proxy accepted, whatever
\* datagrams were lost, delayed, reordered or duplicated, and a proxy that is
\* announced again gets no second server.
THEOREM AgentsAreAccepted == Spec => []AgentsAccepted
<1>1. AgentInv => AgentsAccepted
  BY DEF AgentInv, AgentsAccepted, ServerPerAgent
<1> QED
  BY <1>1, AgentInit, AgentStep, PTL DEF Spec

-----------------------------------------------------------------------------
(* Connections.                                                            *)

LinkTypes ==
    /\ wsConn \in 0 .. MaxRounds
    /\ round \in 0 .. MaxRounds
    /\ link \in [Rounds -> {"none", "up", "silent", "lost", "closed"}]
    /\ loop \in {"connect", "assign"} => round \in Rounds
    /\ app \in {"closed", "unset", "forget"} => isClosed

Up(r) == r \in Rounds /\ link[r] = "up"

\* A connection that is up is that of the last round: the one the host uses,
\* or was dialled just now, or was set while the platform was closed.
UpIsUsed ==
    \A r \in Rounds :
        Up(r) => r = round /\ (r = wsConn \/ loop = "assign" \/ isClosed)

\* Where the loop has found out that there is no connection left, unless the
\* platform is closed, when it goes no further.
NoneLeft ==
    \/ loop \in {"connect", "assign"}
    \/ loop \in {"failed", "check"} /\ ~isClosed
NoneUp ==
    NoneLeft => \A r \in Rounds : Up(r) => loop = "assign" /\ r = round

\* The connection being read is the one in use.
ReadsUsed ==
    loop = "read" => reading \in Rounds /\ wsConn \in {0, reading}

LinkInv == LinkTypes /\ UpIsUsed /\ NoneUp /\ ReadsUsed

LEMMA LinkInit == Init => LinkInv
BY PlatformAssumption
   DEF Init, Rounds, LinkInv, LinkTypes, UpIsUsed, NoneUp, ReadsUsed, Up

\* The steps of the loop that open a connection or find one dead.
LEMMA LoopLinks ==
    ASSUME LinkInv,
           \/ CheckManager \/ Dial \/ SetConn \/ StartHeart \/ LeaveListening
           \/ KeepListening \/ EvaluateConn \/ ReadFails \/ Pause
    PROVE  LinkInv'
<1> USE DEF LinkInv, LinkTypes, UpIsUsed, NoneUp, NoneLeft, ReadsUsed, Up, At,
            connVars, appVars, Rounds
<1>1. CASE CheckManager
  BY <1>1, PlatformAssumption DEF CheckManager
<1>2. CASE Dial
  BY <1>2 DEF Dial, Enter
<1>3. CASE SetConn
  BY <1>3 DEF SetConn
<1>4. CASE StartHeart
  BY <1>4 DEF StartHeart, Enter
<1>5. CASE LeaveListening
  BY <1>5 DEF LeaveListening
<1>6. CASE KeepListening
  BY <1>6 DEF KeepListening
<1>7. CASE EvaluateConn
  BY <1>7 DEF EvaluateConn, Enter
<1>8. CASE ReadFails
  BY <1>8 DEF ReadFails, Enter
<1>9. CASE Pause
  BY <1>9 DEF Pause
<1> QED
  BY <1>1, <1>2, <1>3, <1>4, <1>5, <1>6, <1>7, <1>8, <1>9

\* The steps of the others that end a connection.
LEMMA EndLinks ==
    ASSUME LinkInv,
           \/ \E h \in Rounds : CloseSilent(h)
           \/ CloseConn \/ UnsetConn \/ LoseLink
    PROVE  LinkInv'
<1> USE DEF LinkInv, LinkTypes, UpIsUsed, NoneUp, NoneLeft, ReadsUsed, Up,
            connVars, appVars
<1>1. CASE (\E h \in Rounds : CloseSilent(h)) \/ CloseConn
  <2>1. link' = [r \in Rounds |-> IF r = wsConn THEN "closed" ELSE link[r]]
    BY <1>1 DEF CloseSilent, CloseConn
  <2>2. UNCHANGED <<loop, round, wsConn, reading, isClosed, ctxNil>>
    BY <1>1 DEF CloseSilent, CloseConn
  <2>3. app' \in {"closed", "unset", "forget"} =>
            app \in {"closed", "unset", "forget"}
    BY <1>1 DEF CloseSilent, CloseConn, AppGoto
  <2>4. \A r \in Rounds : Up(r)' => Up(r)
    BY <2>1
  <2> QED
    BY <2>1, <2>2, <2>3, <2>4
<1>2. CASE UnsetConn
  <2>1. /\ wsConn' = 0 /\ isClosed
        /\ UNCHANGED <<loop, round, link, reading, isClosed, ctxNil>>
    BY <1>2 DEF UnsetConn, AppGoto
  <2>2. wsConn' \in 0 .. MaxRounds
    BY <2>1, PlatformAssumption
  <2> QED
    BY <2>1, <2>2
<1>3. CASE LoseLink
  <2>1. PICK r \in Rounds : \E l \in {"silent", "lost"} :
               link' = [link EXCEPT ![r] = l]
    BY <1>3 DEF LoseLink
  <2>2. UNCHANGED <<loop, round, wsConn, reading, appVars>>
    BY <1>3 DEF LoseLink
  <2> QED
    BY <2>1, <2>2
<1> QED
  BY <1>1, <1>2, <1>3

LEMMA LinkStep == LinkInv /\ [Next]_vars => LinkInv'
<1> SUFFICES ASSUME LinkInv, [Next]_vars
             PROVE  LinkInv'
  OBVIOUS
<1>1. CASE \/ CheckManager \/ Dial \/ SetConn \/ StartHeart \/ LeaveListening
           \/ KeepListening \/ EvaluateConn \/ ReadFails \/ Pause
  BY <1>1, LoopLinks
<1>2. CASE \/ \E h \in Rounds : CloseSilent(h)
           \/ CloseConn \/ UnsetConn \/ LoseLink
  BY <1>2, EndLinks
<1>3. CASE \/ ReadOther \/ \E i \in Idxs : ReadProxy(i)
           \/ RunAuth \/ AddAgent \/ AuthFails
  <2>1. /\ loop \in {"read", "auth"} /\ loop' \in {"listen", "auth"}
        /\ UNCHANGED <<round, link, wsConn, app, isClosed>>
    BY <1>3 DEF ReadOther, ReadProxy, RunAuth, AddAgent, AuthFails, At, connVars,
                appVars
  <2> QED
    BY <2>1 DEF LinkInv, LinkTypes, UpIsUsed, NoneUp, NoneLeft, ReadsUsed, Up
<1>4. CASE \/ \E h \in Rounds : \/ NewTicker(h) \/ RangeTicker(h) \/ Tick(h)
                                \/ LeaveHearts(h)
           \/ OnClosing \/ SetClosed \/ ForgetManager \/ GrowLate
           \/ UNCHANGED vars
  <2>1. /\ UNCHANGED <<loop, round, link, wsConn, reading>>
        /\ isClosed => isClosed'
        /\ \/ UNCHANGED app
           \/ app' = "closing"
           \/ isClosed' /\ app' \in {"closed", "exit"}
    <3>1. CASE ForgetManager
      BY <3>1 DEF ForgetManager, AppGoto, LinkInv, LinkTypes, connVars
    <3> QED
      BY <1>4, <3>1 DEF NewTicker, RangeTicker, Tick, LeaveHearts, AppGoto,
             OnClosing, SetClosed, GrowLate, vars, connVars, appVars
  <2> QED
    BY <2>1 DEF LinkInv, LinkTypes, UpIsUsed, NoneUp, NoneLeft, ReadsUsed, Up
<1> QED
  BY <1>1, <1>2, <1>3, <1>4 DEF Next, RunLoop, RunHeart, FinishClose

\* The host never holds two connections to the platform: it dials only when
\* the one it had is dead, though its hearts and Close end connections too.
\* Until it is closed it knows the one it holds.
THEOREM OneConnectionHeld == Spec => []OneConnection
<1>1. LinkInv => OneConnection
  BY DEF LinkInv, UpIsUsed, Up, OneConnection
<1> QED
  BY <1>1, LinkInit, LinkStep, PTL DEF Spec

-----------------------------------------------------------------------------
(* Types.                                                                  *)

LEMMA TypeInit == Init => TypeOK
<1> SUFFICES ASSUME Init PROVE TypeOK
  OBVIOUS
<1>1. AuthTypeOK
  BY AuthAssumption DEF Init, AuthInit, AuthTypeOK
<1>2. /\ round \in 0 .. MaxRounds /\ reading \in 0 .. MaxRounds
      /\ wsConn \in 0 .. MaxRounds /\ heartTicker \in 0 .. MaxRounds
      /\ ticker \in [Rounds -> 0 .. MaxRounds]
  BY PlatformAssumption DEF Init
<1> QED
  BY <1>1, <1>2 DEF Init, TypeOK

LEMMA FirstAttempt == Attempts \in Nat /\ 1 \in 1 .. Attempts
BY AuthAssumption

LEMMA AttemptCounted ==
    ASSUME NEW label, attempt \in 1 .. Attempts, NextAttempt(label)
    PROVE  attempt' \in 1 .. Attempts /\ phase' \in {label, "failed"}
<1>1. attempt' \in 1 .. Attempts
  BY FirstAttempt DEF NextAttempt
<1>2. phase' \in {label, "failed"}
  BY DEF NextAttempt
<1> QED
  BY <1>1, <1>2

LEMMA FailureCounted ==
    ASSUME failures \in [Rounds -> Nat],
           failures' = [failures EXCEPT ![reading] = @ + 1]
    PROVE  failures' \in [Rounds -> Nat]
<1>1. \A r \in Rounds : failures[r] \in Nat /\ failures[r] + 1 \in Nat
  OBVIOUS
<1>2. \A r \in Rounds : failures'[r] \in {failures[r], failures[r] + 1}
  OBVIOUS
<1>3. failures' = [r \in Rounds |-> failures'[r]]
  OBVIOUS
<1> QED
  BY <1>1, <1>2, <1>3

\* The attempts are counted, and no more are made than allowed.
LEMMA AuthTypes ==
    ASSUME AuthTypeOK,
           \/ Authenticate
           \/ \E i \in Idxs : StartAuth(i)
           \/ UNCHANGED authVars
    PROVE  AuthTypeOK'
<1> USE DEF AuthTypeOK
<1>1. CASE SendSyn
  BY <1>1 DEF SendSyn
<1>2. CASE SendReq
  BY <1>2 DEF SendReq
<1>3. CASE SocketFails
  BY <1>3 DEF SocketFails
<1>4. CASE ReceiveSyn
  BY FirstAttempt, <1>4 DEF ReceiveSyn
<1>6. CASE ReceiveReq \/ TimeOut
  <2>1. attempt' \in 1 .. Attempts /\ phase' \in {"send syn", "send req", "failed", "done"}
    BY <1>6, AttemptCounted DEF ReceiveReq, TimeOut
  <2>2. inFlight' \subseteq inFlight /\ UNCHANGED <<idx, accepted>>
    BY <1>6 DEF ReceiveReq, TimeOut
  <2> QED
    BY <2>1, <2>2
<1>7. CASE \E i \in Idxs : StartAuth(i)
  BY FirstAttempt, <1>7 DEF StartAuth
<1>8. CASE UNCHANGED authVars
  BY <1>8 DEF authVars
<1> QED
  BY <1>1, <1>2, <1>3, <1>4, <1>6, <1>7, <1>8 DEF Authenticate

LEMMA LoopTypes ==
    ASSUME TypeOK, RunLoop \/ ReadOther \/ \E i \in Idxs : ReadProxy(i)
    PROVE  TypeOK'
<1> USE PlatformAssumption DEF TypeOK, connVars, agentVars, heartVars, appVars, At,
        Enter, Rounds
<1>1. CASE CheckManager
  <2>1. round' \in 0 .. MaxRounds
    BY <1>1 DEF CheckManager
  <2>2. loop' \in {"exit", "connect"}
    BY <1>1 DEF CheckManager
  <2>3. AuthTypeOK'
    BY <1>1, AuthTypes DEF CheckManager
  <2>4. UNCHANGED <<connVars, agentVars, heartVars, appVars, crashed>>
    BY <1>1 DEF CheckManager
  <2> QED
    BY <2>1, <2>2, <2>3, <2>4
<1>2. CASE Dial
  BY <1>2, AuthTypes DEF Dial
<1>3. CASE SetConn
  BY <1>3, AuthTypes DEF SetConn
<1>4. CASE StartHeart
  BY <1>4, AuthTypes DEF StartHeart
<1>5. CASE LeaveListening \/ KeepListening \/ Pause
  BY <1>5, AuthTypes DEF LeaveListening, KeepListening, Pause
<1>6. CASE EvaluateConn
  BY <1>6, AuthTypes DEF EvaluateConn
<1>7. CASE ReadFails
  <2> DEFINE panics == failures[reading] + 1 >= MaxFailedReads
  <2>1. loop' = (IF panics THEN "crashed" ELSE "failed") /\ crashed' = panics
    BY <1>7 DEF ReadFails
  <2>2. panics \in BOOLEAN
    OBVIOUS
  <2>3. failures' = [failures EXCEPT ![reading] = @ + 1]
    BY <1>7 DEF ReadFails
  <2>4. failures' \in [Rounds -> Nat]
    BY <2>3, FailureCounted
  <2> HIDE DEF panics
  <2> QED
    BY <1>7, <2>1, <2>2, <2>4, AuthTypes DEF ReadFails
<1>8. CASE ReadOther
  <2>1. late' = late \/ late' = FALSE
    BY <1>8 DEF ReadOther
  <2>2. late' \in BOOLEAN
    BY <2>1, Zenon
  <2> QED
    BY <1>8, <2>2, AuthTypes DEF ReadOther
<1>9. CASE \E i \in Idxs : ReadProxy(i)
  <2> PICK i \in Idxs : ReadProxy(i)
    BY <1>9
  <2>1. \/ loop' = "listen" /\ UNCHANGED <<second, authVars>>
        \/ loop' = "auth" /\ StartAuth(i) /\ second' \in BOOLEAN
    BY DEF ReadProxy
  <2>2. AuthTypeOK'
    BY <2>1, AuthTypes
  <2>3. second' \in BOOLEAN /\ loop' \in {"listen", "auth"}
    BY <2>1
  <2>4. /\ late' = FALSE /\ reading' = 0
        /\ UNCHANGED <<round, link, failures, wsConn, agents, servers, heartVars,
                       appVars, crashed>>
    BY DEF ReadProxy
  <2>5. reading' \in 0 .. MaxRounds /\ late' \in BOOLEAN
    <3>1. 0 \in 0 .. MaxRounds
      BY PlatformAssumption
    <3>2. late' = FALSE /\ reading' = 0
      BY <2>4
    <3> QED
      BY <3>1, <3>2
  <2>6. /\ heart' = heart /\ ticker' = ticker /\ heartTicker' = heartTicker
        /\ ticking' = ticking /\ app' = app /\ isClosed' = isClosed
        /\ ctxNil' = ctxNil /\ crashed' = crashed
        /\ round' = round /\ link' = link /\ failures' = failures
        /\ wsConn' = wsConn /\ agents' = agents /\ servers' = servers
    BY <2>4
  <2> QED
    BY <2>2, <2>3, <2>5, <2>6
<1>10. CASE RunAuth
  BY <1>10, AuthTypes DEF RunAuth
<1>11. CASE AddAgent
  <2>2. AuthTypeOK'
    BY <1>11, FirstAttempt DEF AddAgent, AuthTypeOK
  <2>3. agents' \subseteq Idxs /\ servers' \in [Idxs -> Nat]
    BY <1>11 DEF AddAgent, AuthTypeOK
  <2> QED
    BY <1>11, <2>2, <2>3 DEF AddAgent
<1>12. CASE AuthFails
  <2>1. AuthTypeOK'
    BY <1>12, FirstAttempt DEF AuthFails, AuthTypeOK, StartAuth
  <2> QED
    BY <1>12, <2>1 DEF AuthFails
<1> QED
  BY <1>1, <1>2, <1>3, <1>4, <1>5, <1>6, <1>7, <1>8, <1>9, <1>10, <1>11, <1>12
     DEF RunLoop

LEMMA TypeStep == TypeOK /\ [Next]_vars => TypeOK'
<1> SUFFICES ASSUME TypeOK, [Next]_vars
             PROVE  TypeOK'
  OBVIOUS
<1>1. CASE RunLoop \/ ReadOther \/ \E i \in Idxs : ReadProxy(i)
  BY <1>1, LoopTypes
<1> USE PlatformAssumption DEF TypeOK, connVars, agentVars, heartVars, appVars, Rounds
<1>2. CASE \E h \in Rounds : RunHeart(h)
  <2> PICK h \in Rounds : RunHeart(h)
    BY <1>2
  <2>1. CASE NewTicker(h)
    BY <2>1, AuthTypes DEF NewTicker, HeartGoto
  <2>2. CASE RangeTicker(h)
    BY <2>2, AuthTypes DEF RangeTicker, HeartGoto
  <2>3. CASE Tick(h)
    <3>1. ticker' \in [Rounds -> 0 .. MaxRounds]
      BY <2>3 DEF Tick
    <3>2. heart' \in [Rounds -> {"none", "ticker", "range", "wait", "timeout",
                                "leave", "exit", "crashed"}]
      BY <2>3 DEF Tick, HeartGoto
    <3> QED
      BY <2>3, <3>1, <3>2, AuthTypes DEF Tick
  <2>4. CASE CloseSilent(h)
    BY <2>4, AuthTypes DEF CloseSilent, HeartGoto
  <2>5. CASE LeaveHearts(h)
    BY <2>5, AuthTypes DEF LeaveHearts, HeartGoto
  <2> QED
    BY <2>1, <2>2, <2>3, <2>4, <2>5 DEF RunHeart
<1>3. CASE OnClosing \/ FinishClose
  <2> USE DEF AppGoto
  <2>1. CASE OnClosing
    BY <2>1, AuthTypes DEF OnClosing
  <2>2. CASE SetClosed
    BY <2>2, AuthTypes DEF SetClosed
  <2>3. CASE ForgetManager
    BY <2>3, AuthTypes DEF ForgetManager
  <2>4. CASE CloseConn
    BY <2>4, AuthTypes DEF CloseConn
  <2>5. CASE UnsetConn
    BY <2>5, AuthTypes DEF UnsetConn
  <2> QED
    BY <1>3, <2>1, <2>2, <2>3, <2>4, <2>5 DEF FinishClose
<1>5. CASE LoseLink
  BY <1>5, AuthTypes DEF LoseLink
<1>6. CASE GrowLate
  BY <1>6, AuthTypes DEF GrowLate
<1>7. CASE UNCHANGED vars
  BY <1>7, AuthTypes DEF vars
<1> QED
  BY <1>1, <1>2, <1>3, <1>5, <1>6, <1>7 DEF Next

\* Every variable keeps its type; a SYN or REQ is never sent more than Attempts
\* times.
THEOREM TypeCorrect == Spec => []TypeOK
BY TypeInit, TypeStep, PTL DEF Spec

=============================================================================
