---------------------------- MODULE Subscriptions ----------------------------
(***************************************************************************)
(* The pairs of web sockets by which the node server connects clients to   *)
(* the upstream server: subscriptions, which the SubscriptionManager keeps *)
(* (services/subscription-manager.ts), and all other web sockets, which    *)
(* the server merely forwards (server.ts, forwardWS).  Both wire the two   *)
(* ends of a pair with the same handlers (client/web-socket-utils.ts).     *)
(*                                                                         *)
(* The end points, and the web socket library between them and this code,  *)
(* are external: an end opens or fails to, errs, is closed by its peer, or *)
(* is lost; a socket that closes emits one close event.  Of the messages   *)
(* that are relayed only one that comes too early is modelled; the peers   *)
(* send JSON.  An exception out of an event handler ends the process.      *)
(***************************************************************************)
EXTENDS Naturals

CONSTANTS Clients,     \* the web sockets that clients open, each once
          Subscribers  \* those that ask for a subscription

ASSUME ClientsAssumption == Subscribers \subseteq Clients

VARIABLES subscriptions,  \* the keys of SubscriptionManager.subscriptions
          socket,         \* of both ends of each pair, the readyState
          sent,           \* of each end, the code that the node gave to close()
          running         \* whether the process of the node is

vars == <<subscriptions, socket, sent, running>>

Ends     == {"downstream", "upstream"}
Other(e) == IF e = "downstream" THEN "upstream" ELSE "downstream"
States   == {"none", "connecting", "open", "closing", "closed"}

\* The codes of the protocol that the code tells apart or sends.  A close event may
\* report any of them; the reserved ones must not be given to close().
NoStatus == 1005
Abnormal == 1006
Reserved == {NoStatus, Abnormal}
Codes    == {1000, 1001, 1002} \cup Reserved
NotSent  == 0

Init == /\ subscriptions = {}
        /\ socket = [c \in Clients |-> [e \in Ends |-> "none"]]
        /\ sent = [c \in Clients |-> [e \in Ends |-> NotSent]]
        /\ running = TRUE

-----------------------------------------------------------------------------
(* Closing an end.                                                         *)

\* others.filter(isOpen).forEach(ws => ws.close(code)), where there is one other: what
\* is recorded of the codes.
Send(c, e, code) ==
    sent' = IF socket[c][Other(e)] = "open"
            THEN [sent EXCEPT ![c][Other(e)] = code]
            ELSE sent

\* A bug it could have: the handlers are wired to the end they handle.
OwnEnd(c, e, state) == [socket[c] EXCEPT ![e] = state]

\* Both ends of a pair once this one is in the given state and has made the other close.
PassOn(c, e, state) ==
    [socket[c] EXCEPT ![e] = state, ![Other(e)] = IF @ = "open" THEN "closing" ELSE @]

\* A bug that handleClose could have: it maps only one of the reserved codes.
MapOne(code) == IF code = NoStatus THEN 1002 ELSE code

\* The switch of handleClose.
Propagate(code) == CASE code = NoStatus -> 1002
                     [] code = Abnormal -> 1001
                     [] OTHER -> code

-----------------------------------------------------------------------------
(* Steps of the node server.                                               *)

\* addSubscription: the pair is registered before its upstream end is open.
Subscribe(c) ==
    /\ c \in Subscribers
    /\ socket[c].downstream = "none"
    /\ socket' = [socket EXCEPT ![c] = [downstream |-> "open", upstream |-> "connecting"]]
    /\ subscriptions' = subscriptions \cup {c}
    /\ UNCHANGED <<sent, running>>

\* The model URI is missing or invalid, or the upstream socket cannot be created.
Reject(c) ==
    /\ c \in Subscribers
    /\ socket[c].downstream = "none"
    /\ socket' = [socket EXCEPT ![c].downstream = "closing"]
    /\ sent' = [sent EXCEPT ![c].downstream = 1001]
    /\ UNCHANGED <<subscriptions, running>>

\* A bug it could have: a forwarded socket is registered like a subscription.
RegistersForwarded(c) ==
    /\ c \notin Subscribers
    /\ socket[c].downstream = "none"
    /\ socket' = [socket EXCEPT ![c] = [downstream |-> "open", upstream |-> "connecting"]]
    /\ subscriptions' = subscriptions \cup {c}
    /\ UNCHANGED <<sent, running>>

\* forwardWS.
Forward(c) ==
    /\ c \notin Subscribers
    /\ socket[c].downstream = "none"
    /\ socket' = [socket EXCEPT ![c] = [downstream |-> "open", upstream |-> "connecting"]]
    /\ UNCHANGED <<subscriptions, sent, running>>

\* Its upstream socket cannot be created: the catch calls handleError without a socket
\* to close, which throws before it comes to the client's.
ForwardFails(c) ==
    /\ c \notin Subscribers
    /\ socket[c].downstream = "none"
    /\ socket' = [socket EXCEPT ![c].downstream = "open"]
    /\ UNCHANGED <<subscriptions, sent, running>>

UpstreamOpens(c) ==
    /\ socket[c].upstream = "connecting"
    /\ socket' = [socket EXCEPT ![c].upstream = "open"]
    /\ UNCHANGED <<subscriptions, sent, running>>

\* A bug that the clean-up could have: it is wired to one end only.
CleanUpDownstream(c, e) == IF e = "downstream" THEN subscriptions \ {c} ELSE subscriptions

\* cleanupHandler, on the close event of either end: what is left in the map.  (It does
\* the same again on the other end's; a forwarded pair was never in the map.)
CleanUp(c, e) == subscriptions \ {c}

\* The upstream handshake fails: `error', then `close' with an abnormal code, in one
\* go.  The second finds the client's end closing already.
UpstreamConnectFails(c) ==
    /\ socket[c].upstream = "connecting"
    /\ socket' = [socket EXCEPT ![c] = PassOn(c, "upstream", "closed")]
    /\ Send(c, "upstream", 1002)
    /\ subscriptions' = CleanUp(c, "upstream")
    /\ UNCHANGED running

\* handleError: the socket that errs starts closing, and the other one is closed.
SocketError(c, e) ==
    /\ socket[c][e] \in {"open", "closing"}
    /\ socket[c].upstream # "none"
    /\ socket' = [socket EXCEPT ![c] = PassOn(c, e, "closing")]
    /\ Send(c, e, 1002)
    /\ UNCHANGED <<subscriptions, running>>

\* The close event: clean up, then handleClose.  A client without an upstream socket
\* has no handler, and neither does anything.
SocketClosed(c, e) ==
    /\ socket[c][e] = "closing"
    /\ socket' = [socket EXCEPT ![c] = PassOn(c, e, "closed")]
    /\ \E code \in Codes : Send(c, e, Propagate(code))
    /\ subscriptions' = CleanUp(c, e)
    /\ UNCHANGED running

-----------------------------------------------------------------------------
(* Exceptions that nothing catches.                                        *)

\* The process ends, and with it all connections.
EndProcess ==
    /\ running' = FALSE
    /\ socket' = [d \in Clients |->
                    [e \in Ends |-> IF socket[d][e] = "none" THEN "none" ELSE "closed"]]
    /\ subscriptions' = {}
    /\ UNCHANGED sent

\* What the client sends is read until it closes, after the node's close() as well.
ReadsFrom(c) == \/ socket[c].downstream = "open"
                \/ socket[c].downstream = "closing" /\ sent[c].downstream # NotSent

\* A message from the client before the upstream socket is open: send throws out of the
\* event handler.
EarlyMessage(c) == /\ ReadsFrom(c)
                   /\ socket[c].upstream = "connecting"
                   /\ EndProcess

\* An error of a client's socket that was given no handlers, for want of an upstream one.
UnheardError(c) == /\ ReadsFrom(c)
                   /\ socket[c].upstream = "none"
                   /\ EndProcess

-----------------------------------------------------------------------------
(* Steps of the peers and of the network.                                  *)

\* The peer's close frame arrives, or the connection is lost.
PeerEnds(c, e) == /\ socket[c][e] = "open"
                  /\ socket' = [socket EXCEPT ![c][e] = "closing"]
                  /\ UNCHANGED <<subscriptions, sent, running>>

-----------------------------------------------------------------------------
Node(c) == \/ Subscribe(c) \/ Reject(c) \/ Forward(c) \/ ForwardFails(c)
           \/ UpstreamOpens(c) \/ UpstreamConnectFails(c)
           \/ EarlyMessage(c) \/ UnheardError(c)
           \/ \E e \in Ends : SocketError(c, e) \/ SocketClosed(c, e)

Next == running /\ \E c \in Clients : Node(c) \/ \E e \in Ends : PeerEnds(c, e)

Spec == Init /\ [][Next]_vars

\* A handshake succeeds or fails, and a socket that is closing emits its close event
\* (the library gives a silent peer 30 seconds).  No peer has to end a session.
Fairness == \A c \in Clients :
    /\ WF_vars(UpstreamOpens(c) \/ UpstreamConnectFails(c))
    /\ \A e \in Ends : WF_vars(SocketClosed(c, e))

FairSpec == Spec /\ Fairness
-----------------------------------------------------------------------------
(* Properties.                                                             *)

\* The values of the variables; only subscriptions are in the map.
TypeOK == /\ subscriptions \subseteq Subscribers
          /\ socket \in [Clients -> [Ends -> States]]
          /\ sent \in [Clients -> [Ends -> Codes \cup {NotSent}]]
          /\ running \in BOOLEAN

\* A close code that was received is not given to close() if it may not be: the
\* library would throw, out of an event handler.
SendableCodes == \A c \in Clients, e \in Ends : sent[c][e] \notin Reserved

\* The map holds exactly the pairs of which neither end has emitted its close event,
\* those still connecting included: broadcasts reach all of them, and nobody else is
\* kept in memory.
SubscriptionsAreLive ==
    subscriptions = {c \in Subscribers : /\ socket[c].downstream \in {"open", "closing"}
                                         /\ socket[c].upstream \notin {"none", "closed"}}

\* When one end of a pair ends, the other does, once both are open.
EndsTogether ==
    \A c \in Clients, e \in Ends :
        socket[c][e] = "closing" /\ socket[c][Other(e)] = "open"
        ~> socket[c][Other(e)] = "closed"

\* However the upstream end ends, its handshake included, the client's end does.
UpstreamEndReachesClient ==
    \A c \in Clients :
        socket[c].upstream = "closed" ~> socket[c].downstream = "closed"

\* The converse: closure is propagated `appropriately to other connections'
\* (the doc of handleClose).
ClientEndReachesUpstream ==
    \A c \in Clients :
        socket[c].downstream = "closed" ~> socket[c].upstream \in {"none", "closed"}
=============================================================================
