------------------------- MODULE SubscriptionsProofs -------------------------
(***************************************************************************)
(* The safety properties of Subscriptions for any number of web sockets.   *)
(*                                                                         *)
(* SubscriptionsAreLive is nearly inductive: a client that is rejected, or *)
(* whose forwarding fails, must have no upstream end yet, which Paired     *)
(* adds.                                                                   *)
(***************************************************************************)
EXTENDS Subscriptions, TLAPS

\* The upstream end of a pair is made with, or after, the client's.
Paired == \A c \in Clients : socket[c].downstream = "none" => socket[c].upstream = "none"

Inv == TypeOK /\ Paired /\ SendableCodes /\ SubscriptionsAreLive

Step(c) == Node(c) \/ \E e \in Ends : PeerEnds(c, e)

-----------------------------------------------------------------------------
\* What handleClose sends on may be sent, whatever code it received.
LEMMA PropagateIsSendable ==
    ASSUME NEW code \in Codes
    PROVE  Propagate(code) \in Codes \ Reserved
  BY DEF Codes, Reserved, NoStatus, Abnormal, Propagate

\* What a close of one end records keeps the types, and is sendable if the code is.
LEMMA SendKeeps ==
    ASSUME sent \in [Clients -> [Ends -> Codes \cup {NotSent}]],
           SendableCodes, NEW c \in Clients, NEW e \in Ends,
           NEW code \in Codes \ Reserved, Send(c, e, code)
    PROVE  sent' \in [Clients -> [Ends -> Codes \cup {NotSent}]] /\ SendableCodes'
<1>1. Other(e) \in Ends
  BY DEF Ends, Other
<1>2. sent' = sent \/ sent' = [sent EXCEPT ![c][Other(e)] = code]
  BY DEF Send
<1>3. CASE sent' = sent
  BY <1>3 DEF SendableCodes
<1>4. CASE sent' = [sent EXCEPT ![c][Other(e)] = code]
  <2>1. sent' \in [Clients -> [Ends -> Codes \cup {NotSent}]]
    BY <1>1, <1>4
  <2>2. \A d \in Clients, f \in Ends : sent'[d][f] \in {sent[d][f], code}
    BY <1>1, <1>4
  <2>. QED
    BY <2>1, <2>2 DEF SendableCodes
<1>. QED
  BY <1>2, <1>3, <1>4

\* An end that reaches another state takes its partner along, and no other pair.
LEMMA PassOnKeeps ==
    ASSUME TypeOK, NEW c \in Clients, NEW e \in Ends, NEW state \in States,
           socket' = [socket EXCEPT ![c] = PassOn(c, e, state)]
    PROVE  /\ socket' \in [Clients -> [Ends -> States]]
           /\ \A d \in Clients \ {c} : socket'[d] = socket[d]
           /\ socket'[c][e] = state
           /\ socket'[c][Other(e)] = IF socket[c][Other(e)] = "open" THEN "closing"
                                     ELSE socket[c][Other(e)]
<1>1. Other(e) \in Ends /\ Other(e) # e
  BY DEF Ends, Other
<1>2. PassOn(c, e, state) \in [Ends -> States]
  BY <1>1 DEF TypeOK, PassOn, States
<1>. QED
  BY <1>1, <1>2 DEF TypeOK, PassOn

-----------------------------------------------------------------------------
\* The strengthened invariant holds initially.
LEMMA InitInv == Init => Inv
<1> USE ClientsAssumption
<1> SUFFICES ASSUME Init
             PROVE  Inv
  OBVIOUS
<1>1. \A c \in Clients, e \in Ends : /\ socket[c][e] = "none" /\ sent[c][e] = NotSent
  BY DEF Init
<1>2. TypeOK
  BY DEF Init, TypeOK, States
<1>3. SendableCodes
  BY <1>1 DEF SendableCodes, NotSent, Reserved, NoStatus, Abnormal
<1>4. Paired /\ SubscriptionsAreLive
  BY <1>1, ClientsAssumption DEF Init, Paired, SubscriptionsAreLive, Ends
<1>. QED
  BY <1>2, <1>3, <1>4 DEF Inv

\* Every step preserves it.
LEMMA StepInv == ASSUME Inv, NEW c \in Clients, Step(c)
                 PROVE  Inv'
<1>a. ASSUME NEW e \in Ends, NEW state \in States,
             socket' = [socket EXCEPT ![c] = PassOn(c, e, state)]
      PROVE  /\ socket' \in [Clients -> [Ends -> States]]
             /\ \A d \in Clients \ {c} : socket'[d] = socket[d]
             /\ socket'[c][e] = state
             /\ socket'[c][Other(e)] = IF socket[c][Other(e)] = "open" THEN "closing"
                                       ELSE socket[c][Other(e)]
  BY <1>a, PassOnKeeps DEF Inv
<1> USE DEF Inv, TypeOK, Paired, SubscriptionsAreLive, Ends, States
<1>0. {1001, 1002} \subseteq Codes \ Reserved
  BY DEF Codes, Reserved, NoStatus, Abnormal
<1>1. CASE Subscribe(c)
  <2>1. SendableCodes'
    BY <1>1 DEF Subscribe, SendableCodes
  <2>. QED
    BY <1>1, <2>1 DEF Subscribe
<1>2. CASE Reject(c)
  <2>1. socket' = [socket EXCEPT ![c].downstream = "closing"] /\ socket[c].upstream = "none"
    BY <1>2 DEF Reject
  <2>2. sent' \in [Clients -> [Ends -> Codes \cup {NotSent}]] /\ SendableCodes'
    <3>1. \A d \in Clients, f \in Ends : sent'[d][f] \in {sent[d][f], 1001}
      BY <1>2 DEF Reject
    <3>. QED
      BY <1>0, <1>2, <3>1 DEF Reject, SendableCodes
  <2>. QED
    BY <1>2, <2>1, <2>2 DEF Reject
<1>3. CASE Forward(c)
  <2>1. SendableCodes'
    BY <1>3 DEF Forward, SendableCodes
  <2>. QED
    BY <1>3, <2>1 DEF Forward
<1>4. CASE UpstreamOpens(c)
  <2>1. SendableCodes'
    BY <1>4 DEF UpstreamOpens, SendableCodes
  <2>. QED
    BY <1>4, <2>1 DEF UpstreamOpens
<1>5. CASE UpstreamConnectFails(c)
  <2>1. sent' \in [Clients -> [Ends -> Codes \cup {NotSent}]] /\ SendableCodes'
    BY <1>0, <1>5, SendKeeps DEF UpstreamConnectFails
  <2>2. /\ socket' \in [Clients -> [Ends -> States]]
        /\ \A d \in Clients \ {c} : socket'[d] = socket[d]
        /\ socket'[c].upstream = "closed"
        /\ socket'[c].downstream = IF socket[c].downstream = "open" THEN "closing"
                                   ELSE socket[c].downstream
    BY <1>5, <1>a DEF UpstreamConnectFails, Other
  <2>. QED
    BY <1>5, <2>1, <2>2 DEF UpstreamConnectFails, CleanUp
<1>6. ASSUME NEW e \in Ends, SocketError(c, e)
      PROVE  Inv'
  <2>1. sent' \in [Clients -> [Ends -> Codes \cup {NotSent}]] /\ SendableCodes'
    BY <1>0, <1>6, SendKeeps DEF SocketError
  <2>2. /\ socket' \in [Clients -> [Ends -> States]]
        /\ \A d \in Clients \ {c} : socket'[d] = socket[d]
        /\ socket'[c][e] = "closing"
        /\ socket'[c][Other(e)] = IF socket[c][Other(e)] = "open" THEN "closing"
                                  ELSE socket[c][Other(e)]
    BY <1>6, <1>a DEF SocketError
  <2>. QED
    BY <1>6, <2>1, <2>2 DEF SocketError, Other
<1>7. ASSUME NEW e \in Ends, SocketClosed(c, e)
      PROVE  Inv'
  <2>1. sent' \in [Clients -> [Ends -> Codes \cup {NotSent}]] /\ SendableCodes'
    BY <1>7, SendKeeps, PropagateIsSendable DEF SocketClosed
  <2>2. /\ socket' \in [Clients -> [Ends -> States]]
        /\ \A d \in Clients \ {c} : socket'[d] = socket[d]
        /\ socket'[c][e] = "closed"
        /\ socket'[c][Other(e)] = IF socket[c][Other(e)] = "open" THEN "closing"
                                  ELSE socket[c][Other(e)]
    BY <1>7, <1>a DEF SocketClosed
  <2>. QED
    BY <1>7, <2>1, <2>2 DEF SocketClosed, CleanUp, Other
<1>8. ASSUME NEW e \in Ends, PeerEnds(c, e)
      PROVE  Inv'
  <2>1. SendableCodes'
    BY <1>8 DEF PeerEnds, SendableCodes
  <2>. QED
    BY <1>8, <2>1 DEF PeerEnds
<1>9. CASE EarlyMessage(c) \/ UnheardError(c)
  <2>0. EndProcess
    BY <1>9 DEF EarlyMessage, UnheardError
  <2>1. SendableCodes'
    BY <2>0 DEF EndProcess, SendableCodes
  <2>2. \A d \in Clients, e \in Ends :
            socket'[d][e] = IF socket[d][e] = "none" THEN "none" ELSE "closed"
    BY <2>0 DEF EndProcess
  <2>3. socket' \in [Clients -> [Ends -> States]] /\ running' \in BOOLEAN
    BY <2>0 DEF EndProcess
  <2>4. Paired'
    BY <2>2
  <2>5. \A d \in Clients : socket'[d].downstream \notin {"open", "closing"}
    BY <2>2
  <2>6. SubscriptionsAreLive'
    BY <2>0, <2>5, ClientsAssumption DEF EndProcess
  <2>. QED
    BY <2>0, <2>1, <2>3, <2>4, <2>6 DEF EndProcess
<1>10. CASE ForwardFails(c)
  <2>1. SendableCodes'
    BY <1>10 DEF ForwardFails, SendableCodes
  <2>. QED
    BY <1>10, <2>1, ClientsAssumption DEF ForwardFails
<1>. QED
  BY <1>1, <1>2, <1>3, <1>4, <1>5, <1>6, <1>7, <1>8, <1>9, <1>10 DEF Step, Node

-----------------------------------------------------------------------------
\* The strengthened invariant, of every behaviour.
THEOREM Invariance == Spec => []Inv
<1>1. Inv /\ [Next]_vars => Inv'
  <2>1. ASSUME Inv, UNCHANGED vars
        PROVE  Inv'
    BY <2>1 DEF vars, Inv, TypeOK, Paired, SendableCodes, SubscriptionsAreLive
  <2>. QED
    BY <2>1, StepInv DEF Next, Step
<1>. QED
  BY InitInv, <1>1, PTL DEF Spec

\* Only subscriptions are kept in the map, never a forwarded web socket.
THEOREM TypeCorrect == Spec => []TypeOK
<1>1. Inv => TypeOK
  BY DEF Inv
<1>. QED
  BY <1>1, Invariance, PTL

\* handleClose never passes on a close code that close() would throw on.
THEOREM CodesAreSendable == Spec => []SendableCodes
<1>1. Inv => SendableCodes
  BY DEF Inv
<1>. QED
  BY <1>1, Invariance, PTL

\* Broadcasts reach all pairs that are connected or connecting, and the map keeps no
\* other: subscriptions are cleaned up with the first end that goes, and only then.
THEOREM MapHoldsTheLive == Spec => []SubscriptionsAreLive
<1>1. Inv => SubscriptionsAreLive
  BY DEF Inv
<1>. QED
  BY <1>1, Invariance, PTL
=============================================================================
