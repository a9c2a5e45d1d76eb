-------------------------- MODULE TransactionTable --------------------------
(***************************************************************************)
(* How the node server opens transactions on the upstream Model Server and *)
(* keeps track of them: the `transactions' map of the internal client      *)
(* (client/model-server-client.ts) and the life of the web socket that     *)
(* backs every DefaultTransactionContext in it.                            *)
(*                                                                         *)
(* openTransaction tests the map, then awaits a POST, then writes the map: *)
(* calls that all saw an empty entry race each other, and each of them may *)
(* end up owning a context.  A context is identified with the call that    *)
(* created it, so the map holds calls.                                     *)
(*                                                                         *)
(* The upstream server is external.  What the code relies on is modelled:  *)
(* it refuses a second transaction on a model while one is live there (the *)
(* reason given for a rejected openTransaction), it sends the transaction's*)
(* UUID first, and a transaction that was joined by its socket ends by     *)
(* closing that socket.                                                    *)
(***************************************************************************)
CONSTANTS Models,   \* the (normalised) model URIs, keys of the map
          Calls,    \* the calls of openTransaction, each made at most once
          ModelOf,  \* the model URI each call names
          NoCall    \* the absence of a map entry, or of a context

ASSUME TableAssumption == /\ ModelOf \in [Calls -> Models]
                          /\ NoCall \notin Calls

VARIABLES transactions,  \* InternalModelServerClient.transactions
          phase,         \* where each call's promise stands
          context,       \* the context that the promise resolved with
          socket,        \* readyState of the context's web socket
          uuid,          \* the greeting that completes the opening exchange
          upstream       \* the transaction as the upstream server sees it

vars == <<transactions, phase, context, socket, uuid, upstream>>

Phases    == {"idle", "posting", "opening", "resolved", "rejected"}
Sockets   == {"none", "connecting", "open", "closing", "closed"}
Greetings == {"pending", "sent", "received", "rejected"}
Upstreams == {"none", "accepted", "joined", "ended"}

Init == /\ transactions = [m \in Models |-> NoCall]
        /\ phase    = [c \in Calls |-> "idle"]
        /\ context  = [c \in Calls |-> NoCall]
        /\ socket   = [c \in Calls |-> "none"]
        /\ uuid     = [c \in Calls |-> "pending"]
        /\ upstream = [c \in Calls |-> "none"]

-----------------------------------------------------------------------------
(* What the code asks of the state.                                        *)

\* transactions.has(key) for the model that the call names.
HasTransaction(c) == transactions[ModelOf[c]] # NoCall

\* DefaultTransactionContext.isOpen: the socket is assigned when it opens and
\* cleared when it closes, and in between its readyState decides.
IsOpen(c) == socket[c] = "open"

\* The upstream server holds a transaction for the call, joined or not.
Live(c) == upstream[c] \in {"accepted", "joined"}

-----------------------------------------------------------------------------
(* Steps of the node server.                                               *)

\* The model URI does not validate.
RejectUri(c) == /\ phase[c] = "idle"
                /\ phase' = [phase EXCEPT ![c] = "rejected"]
                /\ UNCHANGED <<transactions, context, socket, uuid, upstream>>

\* A context is registered: the call gets a child of it, whatever its socket.
Nest(c) == /\ phase[c] = "idle"
           /\ HasTransaction(c)
           /\ phase' = [phase EXCEPT ![c] = "resolved"]
           /\ context' = [context EXCEPT ![c] = transactions[ModelOf[c]]]
           /\ UNCHANGED <<transactions, socket, uuid, upstream>>

\* None is registered: ask the upstream server for a transaction.
Post(c) == /\ phase[c] = "idle"
           /\ ~HasTransaction(c)
           /\ phase' = [phase EXCEPT ![c] = "posting"]
           /\ UNCHANGED <<transactions, context, socket, uuid, upstream>>

\* The POST is refused or fails, possibly after the server has acted on it.
PostFails(c) == /\ phase[c] = "posting"
                /\ phase' = [phase EXCEPT ![c] = "rejected"]
                /\ UNCHANGED <<transactions, context, socket, uuid, upstream>>

\* A bug it could have: a context is registered for a refused POST, too.
RegistersRefused(c) ==
    /\ phase[c] = "posting"
    /\ phase' = [phase EXCEPT ![c] = "opening"]
    /\ transactions' = [transactions EXCEPT ![ModelOf[c]] = c]
    /\ socket' = [socket EXCEPT ![c] = "connecting"]
    /\ UNCHANGED <<context, uuid, upstream>>

\* The response arrives: register a new context and open its socket, without
\* looking at the map again.
PostResponse(c) ==
    /\ phase[c] = "posting"
    /\ upstream[c] = "accepted"
    /\ phase' = [phase EXCEPT ![c] = "opening"]
    /\ transactions' = [transactions EXCEPT ![ModelOf[c]] = c]
    /\ socket' = [socket EXCEPT ![c] = "connecting"]
    /\ UNCHANGED <<context, uuid, upstream>>

\* Bugs that closeTransaction could have: it deletes whatever is registered,
\* deletes nothing, or leaves `undefined' in the map, which has() then finds.
DeleteAnyEntry(c) == [transactions EXCEPT ![ModelOf[c]] = NoCall]
KeepEntry(c)      == transactions
UndefinedEntry(c) == [transactions EXCEPT ![ModelOf[c]] = IF @ = c THEN "undefined" ELSE @]

\* The map once closeTransaction has run for the call's context: the entry goes
\* only if it is still that context's own.
CloseTransaction(c) ==
    [transactions EXCEPT ![ModelOf[c]] = IF @ = c THEN NoCall ELSE @]

\* socket.onopen.
SocketOpens(c) == /\ socket[c] = "connecting"
                  /\ upstream[c] = "accepted"
                  /\ socket' = [socket EXCEPT ![c] = "open"]
                  /\ upstream' = [upstream EXCEPT ![c] = "joined"]
                  /\ UNCHANGED <<transactions, phase, context, uuid>>

\* The handshake fails: the socket emits `error', then `close', in one go.  The
\* server may or may not have dropped the transaction.
HandshakeFails(c) ==
    /\ socket[c] = "connecting"
    /\ socket' = [socket EXCEPT ![c] = "closed"]
    /\ phase' = [phase EXCEPT ![c] = "rejected"]
    /\ transactions' = CloseTransaction(c)
    /\ \E u \in {"accepted", "ended"} : upstream' = [upstream EXCEPT ![c] = u]
    /\ UNCHANGED <<context, uuid>>

\* The first message on the socket resolves the UUID and the opening promise.
ReceiveUuid(c) ==
    /\ socket[c] = "open"
    /\ uuid[c] = "sent"
    /\ uuid' = [uuid EXCEPT ![c] = "received"]
    /\ phase' = [phase EXCEPT ![c] = "resolved"]
    /\ context' = [context EXCEPT ![c] = c]
    /\ UNCHANGED <<transactions, socket, upstream>>

\* socket.onerror on an open socket: it starts closing, and the opening promise
\* is rejected unless it has settled.
SocketError(c) ==
    /\ socket[c] = "open"
    /\ socket' = [socket EXCEPT ![c] = "closing"]
    /\ phase' = [phase EXCEPT ![c] = IF @ = "opening" THEN "rejected" ELSE @]
    /\ UNCHANGED <<transactions, context, uuid, upstream>>

\* socket.onclose: closeTransaction, then the acceptor of the UUID gives up.  Its
\* rejection reaches `uuid' only; the opening promise does not hear of it.
SocketClosed(c) ==
    /\ socket[c] = "closing"
    /\ socket' = [socket EXCEPT ![c] = "closed"]
    /\ transactions' = CloseTransaction(c)
    /\ uuid' = [uuid EXCEPT ![c] = IF @ = "received" THEN @ ELSE "rejected"]
    /\ UNCHANGED <<phase, context, upstream>>

-----------------------------------------------------------------------------
(* Steps of the upstream server and of the network.                        *)

\* The server creates the transaction, unless one is live on the model.
UpstreamAccepts(c) ==
    /\ phase[c] = "posting"
    /\ upstream[c] = "none"
    /\ \A d \in Calls : ModelOf[d] = ModelOf[c] => ~Live(d)
    /\ upstream' = [upstream EXCEPT ![c] = "accepted"]
    /\ UNCHANGED <<transactions, phase, context, socket, uuid>>

\* The server greets the socket that joined with the transaction's UUID.
UpstreamGreets(c) ==
    /\ upstream[c] = "joined"
    /\ uuid[c] = "pending"
    /\ uuid' = [uuid EXCEPT ![c] = "sent"]
    /\ UNCHANGED <<transactions, phase, context, socket, upstream>>

\* The server ends the transaction: closed, rolled back or failed.
UpstreamEnds(c) == /\ upstream[c] = "joined"
                   /\ upstream' = [upstream EXCEPT ![c] = "ended"]
                   /\ UNCHANGED <<transactions, phase, context, socket, uuid>>

\* The server's close frame arrives.
CloseFrame(c) == /\ socket[c] = "open"
                 /\ upstream[c] = "ended"
                 /\ socket' = [socket EXCEPT ![c] = "closing"]
                 /\ UNCHANGED <<transactions, phase, context, uuid, upstream>>

\* The connection is lost; the server has not noticed.
ConnectionLost(c) == /\ socket[c] = "open"
                     /\ upstream[c] = "joined"
                     /\ socket' = [socket EXCEPT ![c] = "closing"]
                     /\ UNCHANGED <<transactions, phase, context, uuid, upstream>>

-----------------------------------------------------------------------------
Server(c)   == \/ RejectUri(c) \/ Nest(c) \/ Post(c)
               \/ PostFails(c) \/ PostResponse(c)
               \/ SocketOpens(c) \/ HandshakeFails(c) \/ ReceiveUuid(c)
               \/ SocketError(c) \/ SocketClosed(c)

Environment(c) == \/ UpstreamAccepts(c) \/ UpstreamGreets(c)
                  \/ UpstreamEnds(c) \/ CloseFrame(c) \/ ConnectionLost(c)

Next == \E c \in Calls : Server(c) \/ Environment(c)

Spec == Init /\ [][Next]_vars

\* A POST is answered or fails, a handshake succeeds or fails, and what was sent
\* on a socket, its closing included, is delivered.  Nobody has to call, and the
\* upstream server need not end a transaction.
Fairness == \A c \in Calls :
    /\ WF_vars(PostResponse(c) \/ PostFails(c))
    /\ WF_vars(SocketOpens(c) \/ HandshakeFails(c))
    /\ WF_vars(UpstreamGreets(c))
    /\ WF_vars(ReceiveUuid(c))
    /\ WF_vars(CloseFrame(c))
    /\ WF_vars(SocketClosed(c))

FairSpec == Spec /\ Fairness
-----------------------------------------------------------------------------
(* Properties.                                                             *)

\* The values of the variables, and that an entry is filed under its own model.
TypeOK == /\ transactions \in [Models -> Calls \cup {NoCall}]
          /\ phase \in [Calls -> Phases]
          /\ context \in [Calls -> Calls \cup {NoCall}]
          /\ socket \in [Calls -> Sockets]
          /\ uuid \in [Calls -> Greetings]
          /\ upstream \in [Calls -> Upstreams]
          /\ \A m \in Models : transactions[m] # NoCall => ModelOf[transactions[m]] = m

\* A registered context is one whose close event is still to come.  Were a dead
\* context left in the map, every later openTransaction on that model would nest
\* in it and the model could not be edited again.
RegisteredWillClose ==
    \A m \in Models :
        transactions[m] # NoCall =>
            socket[transactions[m]] \in {"connecting", "open", "closing"}

\* A transaction that is live on both ends is the registered one, whichever calls
\* raced to open it and however late the close event of an older one: edits that
\* should join it find it.
LiveIsRegistered ==
    \A c \in Calls :
        IsOpen(c) /\ upstream[c] = "joined" => transactions[ModelOf[c]] = c

\* The write after the POST never evicts a context that the upstream server still
\* holds a transaction for.
EvictsOnlyEnded ==
    [][\A m \in Models :
          transactions[m] # NoCall /\ transactions'[m] \notin {transactions[m], NoCall}
          => upstream[transactions[m]] = "ended"]_vars

\* A transaction that has ended upstream is forgotten, so that the next
\* openTransaction on its model starts a new one.
EndedIsForgotten ==
    \A c \in Calls : upstream[c] = "ended" ~> \A m \in Models : transactions[m] # c

\* A call that created a transaction returns its context or a rejected promise
\* (the @returns of InternalModelServerClientApi.openTransaction).
OpeningSettles ==
    \A c \in Calls : phase[c] = "opening" ~> phase[c] \in {"resolved", "rejected"}
=============================================================================
