----------------------- MODULE TransactionTableProofs -----------------------
(***************************************************************************)
(* The safety properties of TransactionTable for any number of models and  *)
(* of calls, and any assignment of calls to models.                        *)
(*                                                                         *)
(* LiveIsRegistered is not inductive: a socket that opens must find its    *)
(* context still registered, so the invariant also speaks of sockets that  *)
(* are still connecting (Registered), and no other context takes the entry *)
(* because the upstream server holds one live transaction per model        *)
(* (OneLive), so that a POST answered later belongs to an ended one.       *)
(***************************************************************************)
EXTENDS TransactionTable, TLAPS

\* The socket exists only once the POST was answered, and the upstream server knows
\* every transaction that has a socket, and none that was never asked for.
Progress ==
    \A c \in Calls :
        /\ phase[c] \in {"idle", "posting"} => socket[c] = "none"
        /\ phase[c] = "idle" => upstream[c] = "none"
        /\ socket[c] # "none" => upstream[c] # "none"
        /\ upstream[c] \in {"joined", "ended"} => socket[c] # "none"
        /\ upstream[c] = "joined" => socket[c] # "connecting"
        /\ socket[c] = "connecting" => upstream[c] = "accepted"

\* The upstream server holds at most one live transaction on a model.
OneLive == \A c, d \in Calls :
              ModelOf[c] = ModelOf[d] /\ Live(c) /\ Live(d) => c = d

\* A context is registered from the moment its socket starts to connect until the
\* transaction ends on either side.
Registered == \A c \in Calls :
                 \/ socket[c] = "connecting"
                 \/ socket[c] = "open" /\ upstream[c] = "joined"
                 => transactions[ModelOf[c]] = c

Inv == TypeOK /\ Progress /\ OneLive /\ Registered /\ RegisteredWillClose

-----------------------------------------------------------------------------
\* closeTransaction removes the call's own entry and no other one.
LEMMA CloseRemovesOwn ==
    ASSUME TypeOK, NEW c \in Calls
    PROVE  /\ CloseTransaction(c) \in [Models -> Calls \cup {NoCall}]
           /\ \A m \in Models : CloseTransaction(c)[m] # c
           /\ \A m \in Models : transactions[m] # c => CloseTransaction(c)[m] = transactions[m]
           /\ \A m \in Models : CloseTransaction(c)[m] \in {transactions[m], NoCall}
  BY TableAssumption DEF TypeOK, CloseTransaction

\* The strengthened invariant holds initially.
LEMMA InitInv == Init => Inv
  BY TableAssumption
  DEF Init, Inv, TypeOK, Progress, OneLive, Registered, RegisteredWillClose, Live,
      Phases, Sockets, Greetings, Upstreams

\* Every step preserves the types.
LEMMA TypeStep == ASSUME TypeOK, NEW c \in Calls, Server(c) \/ Environment(c)
                  PROVE  TypeOK'
<1> USE TableAssumption DEF TypeOK, Phases, Sockets, Greetings, Upstreams
<1>1. CASE RejectUri(c)
  BY <1>1 DEF RejectUri
<1>2. CASE Nest(c)
  BY <1>2 DEF Nest
<1>3. CASE Post(c)
  BY <1>3 DEF Post
<1>4. CASE PostFails(c)
  BY <1>4 DEF PostFails
<1>5. CASE PostResponse(c)
  BY <1>5 DEF PostResponse
<1>6. CASE SocketOpens(c)
  BY <1>6 DEF SocketOpens
<1>7. CASE HandshakeFails(c)
  BY <1>7, CloseRemovesOwn DEF HandshakeFails
<1>8. CASE ReceiveUuid(c)
  BY <1>8 DEF ReceiveUuid
<1>9. CASE SocketError(c)
  BY <1>9 DEF SocketError
<1>10. CASE SocketClosed(c)
  BY <1>10, CloseRemovesOwn DEF SocketClosed
<1>11. CASE UpstreamAccepts(c)
  BY <1>11 DEF UpstreamAccepts
<1>12. CASE UpstreamGreets(c)
  BY <1>12 DEF UpstreamGreets
<1>13. CASE UpstreamEnds(c)
  BY <1>13 DEF UpstreamEnds
<1>14. CASE CloseFrame(c)
  BY <1>14 DEF CloseFrame
<1>15. CASE ConnectionLost(c)
  BY <1>15 DEF ConnectionLost
<1> QED
  BY <1>1, <1>2, <1>3, <1>4, <1>5, <1>6, <1>7, <1>8, <1>9, <1>10, <1>11, <1>12, <1>13,
     <1>14, <1>15
  DEF Server, Environment

\* Every step preserves what is known of the calls one by one, and OneLive.
LEMMA ProgressStep ==
    ASSUME Inv, NEW c \in Calls, Server(c) \/ Environment(c)
    PROVE  Progress' /\ OneLive'
<1> USE DEF Inv, TypeOK, Progress, OneLive, Live
<1>1. CASE RejectUri(c) \/ Nest(c) \/ Post(c) \/ PostFails(c)
  BY <1>1 DEF RejectUri, Nest, Post, PostFails
<1>2. CASE PostResponse(c)
  BY <1>2 DEF PostResponse
<1>3. CASE SocketOpens(c)
  BY <1>3 DEF SocketOpens
<1>4. CASE HandshakeFails(c)
  BY <1>4 DEF HandshakeFails
<1>5. CASE ReceiveUuid(c) \/ UpstreamGreets(c)
  BY <1>5 DEF ReceiveUuid, UpstreamGreets
<1>6. CASE SocketError(c) \/ CloseFrame(c) \/ ConnectionLost(c)
  BY <1>6 DEF SocketError, CloseFrame, ConnectionLost
<1>7. CASE SocketClosed(c)
  BY <1>7 DEF SocketClosed
<1>8. CASE UpstreamAccepts(c)
  BY <1>8 DEF UpstreamAccepts
<1>9. CASE UpstreamEnds(c)
  BY <1>9 DEF UpstreamEnds
<1> QED
  BY <1>1, <1>2, <1>3, <1>4, <1>5, <1>6, <1>7, <1>8, <1>9 DEF Server, Environment

\* Every step preserves the two facts about the entries of the map.
LEMMA EntryStep ==
    ASSUME Inv, NEW c \in Calls, Server(c) \/ Environment(c)
    PROVE  Registered' /\ RegisteredWillClose'
<1> USE TableAssumption
    DEF Inv, TypeOK, Progress, Registered, RegisteredWillClose
<1>1. CASE RejectUri(c) \/ Nest(c) \/ Post(c) \/ PostFails(c) \/ UpstreamAccepts(c)
  BY <1>1 DEF RejectUri, Nest, Post, PostFails, UpstreamAccepts
<1>2. CASE PostResponse(c)
  <2>1. \A d \in Calls : ModelOf[d] = ModelOf[c] /\ d # c => ~Live(d)
    BY <1>2 DEF PostResponse, OneLive, Live
  <2>2. Registered'
    BY <1>2, <2>1 DEF PostResponse, Live
  <2>3. RegisteredWillClose'
    BY <1>2 DEF PostResponse
  <2> QED
    BY <2>2, <2>3
<1>3. CASE SocketOpens(c)
  BY <1>3 DEF SocketOpens
<1>4. CASE HandshakeFails(c) \/ SocketClosed(c)
  <2>1. /\ transactions' = CloseTransaction(c)
        /\ socket' = [socket EXCEPT ![c] = "closed"]
        /\ \A d \in Calls \ {c} : upstream'[d] = upstream[d]
    BY <1>4 DEF HandshakeFails, SocketClosed
  <2> QED
    BY <2>1, CloseRemovesOwn
<1>5. CASE ReceiveUuid(c) \/ UpstreamGreets(c)
  BY <1>5 DEF ReceiveUuid, UpstreamGreets
<1>6. CASE SocketError(c) \/ CloseFrame(c) \/ ConnectionLost(c)
  BY <1>6 DEF SocketError, CloseFrame, ConnectionLost
<1>7. CASE UpstreamEnds(c)
  BY <1>7 DEF UpstreamEnds
<1> QED
  BY <1>1, <1>2, <1>3, <1>4, <1>5, <1>6, <1>7 DEF Server, Environment

\* The strengthened invariant is one: no race of calls, messages and close events
\* leads out of it.
THEOREM Invariance == Spec => []Inv
<1>1. Init => Inv
  BY InitInv
<1>2. Inv /\ [Next]_vars => Inv'
  <2> SUFFICES ASSUME Inv, [Next]_vars
               PROVE  Inv'
    OBVIOUS
  <2>1. CASE Next
    <3>1. PICK c \in Calls : Server(c) \/ Environment(c)
      BY <2>1 DEF Next
    <3>2. TypeOK'
      BY <3>1, TypeStep DEF Inv
    <3>3. Progress' /\ OneLive'
      BY <3>1, ProgressStep
    <3>4. Registered' /\ RegisteredWillClose'
      BY <3>1, EntryStep
    <3> QED
      BY <3>2, <3>3, <3>4 DEF Inv
  <2>2. CASE UNCHANGED vars
    BY <2>2 DEF vars, Inv, TypeOK, Progress, OneLive, Live, Registered, RegisteredWillClose
  <2> QED
    BY <2>1, <2>2
<1> QED
  BY <1>1, <1>2, PTL DEF Spec

\* The variables keep their types, and entries are filed under their own model.
THEOREM TypeCorrect == Spec => []TypeOK
<1>1. Inv => TypeOK
  BY DEF Inv
<1> QED
  BY <1>1, Invariance, PTL

\* No dead context stays in the map.
THEOREM NoDeadEntry == Spec => []RegisteredWillClose
<1>1. Inv => RegisteredWillClose
  BY DEF Inv
<1> QED
  BY <1>1, Invariance, PTL

\* The transaction that is live on both ends is the one edits find.
THEOREM LiveTransactionIsFound == Spec => []LiveIsRegistered
<1>1. Inv => LiveIsRegistered
  BY DEF Inv, Registered, LiveIsRegistered, IsOpen
<1> QED
  BY <1>1, Invariance, PTL

\* A late POST response takes an entry only from a transaction that has ended.
THEOREM NeverEvictsLive == Spec => EvictsOnlyEnded
<1> DEFINE Evicts == \A m \in Models :
              transactions[m] # NoCall /\ transactions'[m] \notin {transactions[m], NoCall}
              => upstream[transactions[m]] = "ended"
<1>1. Inv /\ [Next]_vars => [Evicts]_vars
  <2> SUFFICES ASSUME Inv, NEW c \in Calls, Server(c) \/ Environment(c)
               PROVE  Evicts
    BY DEF Next
  <2>1. CASE PostResponse(c)
    <3> SUFFICES ASSUME NEW m \in Models, transactions[m] # NoCall,
                        transactions'[m] \notin {transactions[m], NoCall}
                 PROVE  upstream[transactions[m]] = "ended"
      OBVIOUS
    <3>1. m = ModelOf[c] /\ transactions[m] \in Calls /\ transactions[m] # c
      BY <2>1, TableAssumption DEF PostResponse, Inv, TypeOK
    <3>2. ModelOf[transactions[m]] = ModelOf[c]
      BY <3>1 DEF Inv, TypeOK
    <3>3. ~Live(transactions[m])
      BY <2>1, <3>1, <3>2 DEF PostResponse, Inv, OneLive, Live
    <3>4. upstream[transactions[m]] # "none"
      BY <3>1 DEF Inv, RegisteredWillClose, Progress
    <3> QED
      BY <3>1, <3>3, <3>4 DEF Live, Inv, TypeOK, Upstreams
  <2>2. CASE HandshakeFails(c) \/ SocketClosed(c)
    BY <2>2, CloseRemovesOwn DEF HandshakeFails, SocketClosed, Inv
  <2>3. CASE UNCHANGED transactions
    BY <2>3
  <2> QED
    BY <2>1, <2>2, <2>3
    DEF Server, Environment, RejectUri, Nest, Post, PostFails, SocketOpens, ReceiveUuid,
        SocketError, UpstreamAccepts, UpstreamGreets, UpstreamEnds, CloseFrame, ConnectionLost
<1> QED
  BY <1>1, Invariance, PTL DEF Spec, EvictsOnlyEnded
=============================================================================
