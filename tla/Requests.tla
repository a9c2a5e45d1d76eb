-------------------------------- MODULE Requests --------------------------------
(***************************************************************************)
(* The HTTP side of ModelServer (server.ts): the routers that the route    *)
(* providers configure, the backstop, the forwarding of requests to the    *)
(* upstream server, start and stop; and one request on its way through     *)
(* them.  Requests share nothing but backstopPaths, which does not change  *)
(* any more when the first one arrives.                                    *)
(*                                                                         *)
(* The handlers are those of routes/*.ts or a plug-in's: each may answer,  *)
(* now or when some promise settles, may delegate with next(), may do both *)
(* or neither (packages/modelserver-node/README.md, Routing Mechanism).    *)
(* All the layers of a router that take a request are one handler here.    *)
(* Express dispatches a request to the routers in the order of their       *)
(* creation.  A path is known here without its trailing slashes; a request *)
(* is verbatim if it spells its path as the router does, which Express     *)
(* does not ask for: it ignores case and trailing slashes, and matches     *)
(* patterns.                                                               *)
(***************************************************************************)
EXTENDS Naturals, FiniteSets

CONSTANTS NumRouters,  \* the number of routers that the providers create
          Paths,
          Standard,    \* those of the upstream server's API: STANDARD_ROUTES
          Beneath,     \* the paths beneath each, itself included
          Root,        \* the path of each router
          Methods,     \* with "ws", the upgrade to a web socket
          MaxHandled,  \* bound: the routes that a router handles
          NoRequest

ASSUME RequestsAssumption == /\ NumRouters \in Nat
                             /\ Standard \subseteq Paths
                             /\ Beneath \in [Paths -> SUBSET Paths]
                             /\ Root \in [1..NumRouters -> Paths]

VARIABLES
  phase,          \* of the server
  routers,        \* what the route providers configured
  backstopPaths,
  request,        \* the request, once it has arrived
  pc,             \* where it stands
  at,             \* the router it has come to, or NumRouters + 1 for app.all('*')
  query,          \* its modeluri parameter: "raw" or "validated"
  did,            \* history: what each router's handler did
  late,           \* the routers whose handler has yet to answer
  sent,           \* the modeluri that was sent upstream, or "nothing"
  response,       \* who responded first, or "nobody"
  collided        \* whether somebody else tried to respond, too

server   == <<phase, routers, backstopPaths>>
handling == <<query, did, late>>
answers  == <<response, collided>>
vars     == <<server, request, pc, at, handling, sent, answers>>

Routers  == 1..NumRouters
Deeds    == {"called", "validated", "answered", "delegated", "threw", "rejected"}
Requests == [path : Paths, method : Methods, verbatim : BOOLEAN]
Handlers == {handles \in SUBSET (Paths \X Methods) : Cardinality(handles) <= MaxHandled}
Kinds    == [handles : Handlers, middleware : BOOLEAN,
             forwardToUpstream : {"omitted", "forward", "deny"}]

\* A router handles paths beneath its own.
Configured(r) == {kind \in Kinds : \A h \in kind.handles : h[1] \in Beneath[Root[r]]}

Init == /\ phase = "configured"
        /\ routers \in [Routers -> Kinds]
        /\ \A r \in Routers : routers[r] \in Configured(r)
        /\ backstopPaths = {}
        /\ request = NoRequest /\ pc = "none" /\ at = 1
        /\ query = "raw" /\ sent = "nothing"
        /\ did = [r \in Routers |-> {}]
        /\ late = {}
        /\ response = "nobody" /\ collided = FALSE

-----------------------------------------------------------------------------
(* The server.                                                             *)

\* The paths of a router's layers: its handlers' (that of a web socket's ends in
\* `.websocket', and no request has it) and, for a middleware, its own.
LayerPaths(r) == {h[1] : h \in {i \in routers[r].handles : i[2] # "ws"}}
                 \cup (IF routers[r].middleware THEN {Root[r]} ELSE {})

\* Bugs that install could have: the upstream server's paths are backstopped, too, if
\* the option is not given; layers are taken for paths.
AlwaysOmitted(r) == IF routers[r].forwardToUpstream = "forward" THEN {} ELSE LayerPaths(r)
Layers(r)        == routers[r].handles

\* The paths that a router has backstopped: unless it is to forward, all of them if it
\* denies, otherwise those that the upstream server does not have.
Backstopped(r) ==
    CASE routers[r].forwardToUpstream = "forward" -> {}
      [] routers[r].forwardToUpstream = "deny"    -> LayerPaths(r)
      [] routers[r].forwardToUpstream = "omitted" -> LayerPaths(r) \ Standard

\* serve: install the routers, and start to initialise the client.
Install == /\ phase = "configured"
           /\ backstopPaths' = UNION {Backstopped(r) : r \in Routers}
           /\ phase' = "initializing"
           /\ UNCHANGED <<routers, request, pc, at, handling, sent, answers>>

\* The client is initialised, or fails to be.
Initialized == /\ phase = "initializing"
               /\ phase' \in {"listening", "failed"}
               /\ UNCHANGED <<routers, backstopPaths, request, pc, at, handling,
                              sent, answers>>

\* stop: no new connections; the request under way goes on.  (Before there is a server
\* that listens, it would do nothing, and its promise stay pending.)
Stop == /\ phase = "listening"
        /\ phase' = "closed"
        /\ UNCHANGED <<routers, backstopPaths, request, pc, at, handling, sent, answers>>

-----------------------------------------------------------------------------
(* A request and its handlers.                                             *)

Arrive == /\ phase = "listening"
          /\ pc = "none"
          /\ request' \in Requests
          /\ pc' = "routing"
          /\ UNCHANGED <<server, at, handling, sent, answers>>

\* A router takes a request beneath its path if it has a middleware, or handles it.
Takes(r) == /\ request.path \in Beneath[Root[r]]
            /\ \/ routers[r].middleware
               \/ <<request.path, request.method>> \in routers[r].handles

Dispatching(r) == pc = "routing" /\ at = r

\* The router has nothing for this request.
PassBy(r) == /\ Dispatching(r)
             /\ ~Takes(r)
             /\ at' = r + 1
             /\ UNCHANGED <<server, request, pc, handling, sent, answers>>

\* Whoever comes second finds the headers sent, and throws.
Respond(who) == IF response = "nobody"
                THEN response' = who /\ UNCHANGED collided
                ELSE collided' = TRUE /\ UNCHANGED response

\* A bug that withValidatedModelUri could have: the query stays as it was.
LeavesQuery(validates) == query' = query

\* The validated model URI overrides the query parameter.
OverrideQuery(validates) == query' = IF validates THEN "validated" ELSE query

\* What a handler did, and whether it called next().
Done(r, deeds) ==
    /\ did' = [did EXCEPT ![r] = deeds \cup {"called"}]
    /\ OverrideQuery("validated" \in deeds)
    /\ IF "delegated" \in deeds
       THEN at' = r + 1 /\ UNCHANGED pc
       ELSE pc' = "ended" /\ UNCHANGED at

\* A handler is called and returns.  It may validate the model URI, answer and delegate;
\* one that does not do the last either stops the request.
Handle(r) == /\ Dispatching(r)
             /\ Takes(r)
             /\ \E deeds \in SUBSET {"validated", "answered", "delegated"} :
                   /\ Done(r, deeds)
                   /\ IF "answered" \in deeds THEN Respond("local") ELSE UNCHANGED answers
             /\ UNCHANGED <<server, request, late, sent>>

\* The same, but it answers when the promise of an operation settles: relay or
\* handleError.
HandleLater(r) == /\ Dispatching(r)
                  /\ Takes(r)
                  /\ \E others \in SUBSET {"validated", "delegated"} :
                        Done(r, others \cup {"answered"})
                  /\ late' = late \cup {r}
                  /\ UNCHANGED <<server, request, sent, answers>>

Settle(r) == /\ r \in late
             /\ late' = late \ {r}
             /\ Respond("local")
             /\ UNCHANGED <<server, request, pc, at, query, did, sent>>

\* withValidatedModelUri, with a model URI that is not valid: 400.
RejectUri(r) == /\ Dispatching(r)
                /\ Takes(r)
                /\ Done(r, {"answered"})
                /\ Respond("local")
                /\ UNCHANGED <<server, request, late, sent>>

\* A handler throws: Express answers with 500, if nobody has yet.
Throw(r) == /\ Dispatching(r)
            /\ Takes(r)
            /\ Done(r, {"threw"})
            /\ response' = IF response = "nobody" THEN "local" ELSE response
            /\ UNCHANGED <<server, request, late, sent, collided>>

\* An asynchronous one does, or the endpoint handler that it has passed to
\* withValidatedModelUri: nobody awaits them, and so nobody answers.
Reject(r) == /\ Dispatching(r)
             /\ Takes(r)
             /\ \E deeds \in SUBSET {"validated"} : Done(r, deeds \cup {"rejected"})
             /\ UNCHANGED <<server, request, late, sent, answers>>

\* Such a promise, or the one in which a second response throws, is rejected and nobody
\* handles that.  It ends the process, except on the oldest Node.js that is supported,
\* which only warns.
ProcessEnds == /\ phase # "ended"
               /\ collided \/ \E r \in Routers : "rejected" \in did[r]
               /\ phase' = "ended"
               /\ pc' = "ended"
               /\ late' = {}
               /\ UNCHANGED <<routers, backstopPaths, request, at, query, did, sent, answers>>

-----------------------------------------------------------------------------
(* Forwarding: app.all('*').                                               *)

Forwarding == pc = "routing" /\ at = NumRouters + 1

ForwardWS == /\ Forwarding
             /\ request.method = "ws"
             /\ sent' = "raw"
             /\ Respond("upstream")
             /\ pc' = "ended"
             /\ UNCHANGED <<server, request, at, handling>>

\* A bug it could have: it lets requests pass that a handler has answered.
OnlyUnanswered == /\ request.verbatim /\ request.path \in backstopPaths
                  /\ response = "nobody"

\* req.path is compared as it is, and nothing else is.
ShouldBackstop == request.verbatim /\ request.path \in backstopPaths

\* Not forwarded.  If no handler has responded, nobody does.
Backstop == /\ Forwarding
            /\ request.method # "ws"
            /\ ShouldBackstop
            /\ pc' = "ended"
            /\ UNCHANGED <<server, request, at, handling, sent, answers>>

\* The query as the handlers have left it, even if one of them has responded.
Forward == /\ Forwarding
           /\ request.method # "ws"
           /\ ~ShouldBackstop
           /\ sent' = query
           /\ pc' = "forwarded"
           /\ UNCHANGED <<server, request, at, handling, answers>>

\* The upstream server responds or cannot be reached: either is passed on.
UpstreamResponds == /\ pc = "forwarded"
                    /\ pc' = "ended"
                    /\ Respond("upstream")
                    /\ UNCHANGED <<server, request, at, handling, sent>>

-----------------------------------------------------------------------------
Serve == Install \/ Initialized

Dispatch == \/ \E r \in Routers : \/ PassBy(r) \/ Handle(r) \/ HandleLater(r)
                                  \/ RejectUri(r) \/ Throw(r) \/ Reject(r)
            \/ ForwardWS \/ Backstop \/ Forward

Next == \/ Serve \/ Stop \/ Arrive \/ Dispatch
        \/ (\E r \in Routers : Settle(r)) \/ UpstreamResponds \/ ProcessEnds

Spec == Init /\ [][Next]_vars

\* The server's own steps happen; handlers return, and the operations that they wait
\* for settle; the upstream server responds, or the connection to it fails.
Fairness == /\ WF_vars(Serve)
            /\ WF_vars(Dispatch)
            /\ \A r \in Routers : WF_vars(Settle(r))
            /\ WF_vars(UpstreamResponds)

FairSpec == Spec /\ Fairness
-----------------------------------------------------------------------------
(* Properties.                                                             *)

\* The values of the variables.
TypeOK == /\ phase \in {"configured", "initializing", "listening", "failed", "closed",
                        "ended"}
          /\ routers \in [Routers -> Kinds]
          /\ backstopPaths \subseteq Paths
          /\ request \in Requests \cup {NoRequest}
          /\ pc \in {"none", "routing", "forwarded", "ended"}
          /\ pc # "none" => request \in Requests
          /\ at \in 1..(NumRouters + 1)
          /\ query \in {"raw", "validated"}
          /\ did \in [Routers -> SUBSET Deeds]
          /\ late \subseteq Routers
          /\ sent \in {"nothing", "raw", "validated"}
          /\ response \in {"nobody", "local", "upstream"}
          /\ collided \in BOOLEAN

\* A router keeps the path of the request to this server (plugin-ext
\* route-provider.ts): it says so, or says nothing and the path is not one of the
\* upstream server's.  The request spells the path as the router does.
Kept ==
    /\ pc # "none"
    /\ request.verbatim
    /\ \E r \in Routers :
          /\ request.path \in LayerPaths(r)
          /\ \/ routers[r].forwardToUpstream = "deny"
             \/ routers[r].forwardToUpstream = "omitted" /\ request.path \notin Standard

\* A handler that answers, and calls next() all the same, collides with nobody on a
\* path kept to this server, unless another router's handler answers or throws; on any
\* other path, with the upstream server only if the request was sent to it.
AnswersDoNotCollide ==
    collided => \E r \in Routers :
        /\ {"answered", "delegated"} \subseteq did[r]
        /\ \/ \E q \in Routers : q > r /\ did[q] \cap {"answered", "threw"} # {}
           \/ sent # "nothing" /\ (~Kept \/ request.method = "ws")

\* Once a handler has validated the model URI, the upstream server is sent no other.
ForwardedAsValidated ==
    sent = "raw" /\ request.method # "ws" => \A r \in Routers : "validated" \notin did[r]

\* A handler stopped the request and does not answer it.
Dropped == \E r \in Routers : "called" \in did[r] /\ did[r] \cap {"answered", "delegated"} = {}

\* The backstop stopped the request, and no handler answers it: none has taken it, as
\* the path is kept whatever the method, or those that did have only delegated it.
Swallowed == /\ pc = "ended" /\ Kept /\ request.method # "ws"
             /\ \A r \in Routers : "answered" \notin did[r]

\* A request is answered, whichever routers and handlers it passes and whenever their
\* operations settle, but for three cases: a handler stops it without an answer, the
\* backstop stops it when no handler has answered, or the process ends.
EveryRequestAnswered ==
    pc = "routing" ~> response # "nobody" \/ Dropped \/ Swallowed \/ phase = "ended"
=============================================================================
