------------------------------- MODULE AgentAuth -------------------------------
(***************************************************************************)
(* How an agent authenticates itself to a proxy over UDP (authAgent): a    *)
(* SYN, whose answer carries the agent's own address, then a signed REQ,   *)
(* each sent at most Attempts times and awaited for 100 ms.  Every attempt *)
(* to connect to a proxy uses a new UDP socket.  Datagrams are lost,       *)
(* delayed beyond any time-out, reordered and duplicated.                  *)
(***************************************************************************)
EXTENDS Integers

CONSTANTS
    Idxs,       \* ProxyInfo.Idx
    Attempts    \* how often a SYN or REQ is sent (3)

ASSUME AuthAssumption == Attempts \in Nat \ {0}

VARIABLES
    phase,      \* where authAgent is
    idx,        \* the proxy it talks to
    attempt,
    inFlight,   \* the proxy's answers that may still arrive, by their flag
    accepted    \* the proxies that took the REQ sent from the last socket

authVars == <<phase, idx, attempt, inFlight, accepted>>

\* A new socket, and the first SYN.
StartAuth(i) ==
    /\ phase' = "send syn"
    /\ idx' = i
    /\ attempt' = 1
    /\ inFlight' = {}
    /\ accepted' = accepted \ {i}

SendSyn ==
    /\ phase = "send syn"
    /\ phase' = "await syn"
    /\ inFlight' \in {inFlight, inFlight \cup {"syn"}}
    /\ UNCHANGED <<idx, attempt, accepted>>

\* The proxy that takes a REQ answers it, once per copy.
SendReq ==
    /\ phase = "send req"
    /\ phase' = "await req"
    /\ \/ UNCHANGED <<inFlight, accepted>>
       \/ /\ accepted' = accepted \cup {idx}
          /\ inFlight' \in {inFlight, inFlight \cup {"req"}}
    /\ UNCHANGED <<idx, attempt>>

\* A write, or the setting of the deadline after it, fails.  A UDP socket that
\* cannot be had and an address that cannot be resolved count as a first write.
SocketFails ==
    /\ phase \in {"send syn", "await syn", "send req", "await req"}
    /\ phase' = "failed"
    /\ UNCHANGED <<idx, attempt, inFlight, accepted>>

\* Whatever arrives is taken for the answer to the SYN.
ReceiveSyn ==
    /\ phase = "await syn"
    /\ \E d \in inFlight : inFlight' \in {inFlight, inFlight \ {d}}
    /\ phase' = "send req"
    /\ attempt' = 1
    /\ UNCHANGED <<idx, accepted>>

\* Slip: the loop counts one attempt too many.
NextAttempt_OneMore(label) ==
    /\ phase' = IF attempt <= Attempts THEN label ELSE "failed"
    /\ attempt' = IF attempt <= Attempts THEN attempt + 1 ELSE attempt

NextAttempt(label) ==
    /\ phase' = IF attempt < Attempts THEN label ELSE "failed"
    /\ attempt' = IF attempt < Attempts THEN attempt + 1 ELSE attempt

\* Slip: a late answer to a SYN passes for one to the REQ.
ReceiveReq_AnyFlag ==
    /\ phase = "await req"
    /\ \E d \in inFlight : inFlight' \in {inFlight, inFlight \ {d}}
    /\ phase' = "done"
    /\ UNCHANGED <<idx, attempt, accepted>>

\* Anything but the answer to a REQ uses the attempt up, and so does a deadline
\* that cannot be taken back.
ReceiveReq ==
    /\ phase = "await req"
    /\ \E d \in inFlight :
         /\ inFlight' \in {inFlight, inFlight \ {d}}
         /\ \/ d = "req" /\ phase' = "done" /\ UNCHANGED attempt
            \/ NextAttempt("send req")
    /\ UNCHANGED <<idx, accepted>>

TimeOut ==
    /\ \/ phase = "await syn" /\ NextAttempt("send syn")
       \/ phase = "await req" /\ NextAttempt("send req")
    /\ UNCHANGED <<idx, inFlight, accepted>>

Authenticate ==
    \/ SendSyn \/ SendReq \/ SocketFails \/ ReceiveSyn \/ ReceiveReq \/ TimeOut

AuthInit ==
    /\ phase = "idle"
    /\ idx \in Idxs
    /\ attempt = 1
    /\ inFlight = {}
    /\ accepted = {}

AuthTypeOK ==
    /\ phase \in {"idle", "send syn", "await syn", "send req", "await req",
                  "done", "failed"}
    /\ idx \in Idxs
    /\ attempt \in 1 .. Attempts
    /\ inFlight \subseteq {"syn", "req"}
    /\ accepted \subseteq Idxs

=============================================================================
