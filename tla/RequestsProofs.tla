---------------------------- MODULE RequestsProofs ----------------------------
(***************************************************************************)
(* The safety properties of Requests for any routers, paths and handlers.  *)
(*                                                                         *)
(* What makes them inductive is the order of the dispatch (Order): the     *)
(* routers behind the request have delegated it or have had nothing for    *)
(* it, those before it have done nothing; and that backstopPaths is what   *)
(* the routers ask for when a request arrives (Installed).                 *)
(***************************************************************************)
EXTENDS Requests, TLAPS

\* Once the routes are installed, the backstop has the paths of all the routers.
Installed ==
    /\ phase # "configured" => backstopPaths = UNION {Backstopped(r) : r \in Routers}
    /\ pc # "none" => phase # "configured"

\* The request has come to router `at', which has not been called yet while it is
\* being dispatched.
Order ==
    /\ \A r \in Routers :
          /\ r > at => did[r] = {}
          /\ r < at /\ did[r] # {} => "delegated" \in did[r] /\ "threw" \notin did[r]
          /\ pc = "routing" /\ r = at => did[r] = {}
    /\ pc = "none" => at = 1 /\ \A r \in Routers : did[r] = {}

\* What was forwarded has passed all the routers.
Forwarded ==
    /\ pc = "forwarded" => sent # "nothing" /\ request.method # "ws"
    /\ sent # "nothing" => at = NumRouters + 1 /\ pc \in {"forwarded", "ended"}

\* Whoever has responded, or will, has a deed to show.
Responders ==
    /\ \A r \in late : "answered" \in did[r]
    /\ response = "local" => \E r \in Routers \ late : did[r] \cap {"answered", "threw"} # {}
    /\ response = "upstream" => pc = "ended" /\ sent # "nothing"
    /\ pc = "none" => response = "nobody" /\ ~collided

\* A request on a path that is kept to this server has been sent upstream only if it is
\* for a web socket.
KeptStays == sent # "nothing" /\ request.method # "ws" => ~Kept

\* A validated model URI is in the query.
Overridden == \A r \in Routers : "validated" \in did[r] => query = "validated"

Inv == /\ TypeOK /\ Installed /\ Order /\ Forwarded /\ Responders /\ Overridden
       /\ KeptStays /\ AnswersDoNotCollide /\ ForwardedAsValidated

-----------------------------------------------------------------------------
\* A router's layers have paths.
LEMMA LayersHavePaths == ASSUME TypeOK, NEW r \in Routers
                         PROVE  LayerPaths(r) \subseteq Paths
  BY RequestsAssumption DEF TypeOK, LayerPaths, Kinds, Handlers, Routers

\* And so has what is backstopped of them.
LEMMA BackstoppedArePaths == ASSUME TypeOK, NEW r \in Routers
                             PROVE  Backstopped(r) \subseteq Paths
<1>1. routers[r] \in Kinds
  BY DEF TypeOK
<1>2. routers[r].forwardToUpstream \in {"omitted", "forward", "deny"}
  BY <1>1 DEF Kinds
<1>. QED
  BY <1>2, LayersHavePaths DEF Backstopped

\* The backstop knows every path that is kept to this server, and no other.
LEMMA KeptIsBackstopped == ASSUME TypeOK, Installed, pc # "none"
                           PROVE  Kept <=> ShouldBackstop
<1>1. \A r \in Routers : routers[r].forwardToUpstream \in {"omitted", "forward", "deny"}
  BY DEF TypeOK, Kinds
<1>2. ASSUME NEW r \in Routers
      PROVE  request.path \in Backstopped(r) <=>
                /\ request.path \in LayerPaths(r)
                /\ \/ routers[r].forwardToUpstream = "deny"
                   \/ routers[r].forwardToUpstream = "omitted" /\ request.path \notin Standard
  BY <1>1 DEF Backstopped
<1>3. backstopPaths = UNION {Backstopped(r) : r \in Routers}
  BY DEF Installed
<1>. QED
  BY <1>2, <1>3 DEF Kept, ShouldBackstop

\* The backstop does not change with the request.
LEMMA InstalledKept == ASSUME Installed, UNCHANGED server, phase # "configured"
                       PROVE  Installed'
<1>1. \A r \in Routers : LayerPaths(r)' = LayerPaths(r)
  BY DEF server, LayerPaths
<1>2. \A r \in Routers : Backstopped(r)' = Backstopped(r)
  BY <1>1, Zenon DEF server, Backstopped
<1>3. UNION {Backstopped(r)' : r \in Routers} = UNION {Backstopped(r) : r \in Routers}
  BY <1>2
<1>. QED
  BY <1>3 DEF server, Installed, Routers

-----------------------------------------------------------------------------
\* What a call of next(), or the want of one, does to the dispatch.
LEMMA DoneKeeps ==
    ASSUME Inv, NEW r \in Routers, Dispatching(r),
           NEW deeds \in SUBSET Deeds, ~({"delegated", "threw"} \subseteq deeds),
           Done(r, deeds)
    PROVE  /\ did' \in [Routers -> SUBSET Deeds]
           /\ query' \in {"raw", "validated"}
           /\ at' \in 1..(NumRouters + 1)
           /\ pc' \in {"routing", "ended"}
           /\ did[r] = {}
           /\ did'[r] = deeds \cup {"called"}
           /\ \A q \in Routers \ {r} : did'[q] = did[q]
           /\ Order'
           /\ Overridden'
<1>1. pc = "routing" /\ at = r /\ did[r] = {} /\ r \in Nat /\ NumRouters \in Nat
  BY RequestsAssumption DEF Inv, Order, Dispatching, Routers
<1>2. /\ did' \in [Routers -> SUBSET Deeds]
      /\ did'[r] = deeds \cup {"called"}
      /\ \A q \in Routers \ {r} : did'[q] = did[q]
  BY DEF Inv, TypeOK, Done, Deeds
<1>3. query' \in {"raw", "validated"}
  BY DEF Inv, TypeOK, Done, OverrideQuery
<1>4. /\ "delegated" \in deeds => at' = r + 1 /\ pc' = "routing"
      /\ "delegated" \notin deeds => at' = r /\ pc' = "ended"
  BY <1>1 DEF Done
<1>5. at' \in 1..(NumRouters + 1) /\ pc' \in {"routing", "ended"}
  BY <1>1, <1>4 DEF Routers
<1>6. Order'
  <2>1. CASE "delegated" \in deeds
    BY <1>1, <1>2, <1>4, <2>1 DEF Inv, Order, Routers
  <2>2. CASE "delegated" \notin deeds
    BY <1>1, <1>2, <1>4, <2>2 DEF Inv, Order, Routers
  <2>. QED
    BY <2>1, <2>2
<1>7. Overridden'
  BY <1>2 DEF Inv, Overridden, Done, OverrideQuery
<1>. QED
  BY <1>1, <1>2, <1>3, <1>5, <1>6, <1>7

\* A collision stays one.
LEMMA CollisionStays ==
    ASSUME Inv, collided, UNCHANGED <<routers, request>>,
           pc' # "none", sent # "nothing" => sent' # "nothing",
           \A r \in Routers : did[r] \subseteq did'[r]
    PROVE  AnswersDoNotCollide'
<1>1. Kept' => Kept
  BY DEF Inv, Responders, Kept, LayerPaths
<1>. QED
  BY <1>1 DEF Inv, AnswersDoNotCollide

\* Two handlers that respond: the first of them has delegated.
LEMMA LocalCollision ==
    ASSUME Order', at' \in Nat, NEW r \in Routers, NEW q \in Routers, r # q,
           did'[r] \cap {"answered", "threw"} # {},
           did'[q] \cap {"answered", "threw"} # {}
    PROVE  AnswersDoNotCollide'
<1>1. ASSUME NEW a \in Routers, NEW b \in Routers, a < b,
             did'[a] \cap {"answered", "threw"} # {},
             did'[b] \cap {"answered", "threw"} # {}
      PROVE  AnswersDoNotCollide'
  <2>1. ~(b > at')
    BY <1>1 DEF Order
  <2>2. a < at'
    BY <1>1, <2>1 DEF Routers
  <2>3. {"answered", "delegated"} \subseteq did'[a]
    BY <1>1, <2>2 DEF Order
  <2>. QED
    BY <1>1, <2>3 DEF AnswersDoNotCollide
<1>2. r < q \/ q < r
  BY DEF Routers
<1>. QED
  BY <1>1, <1>2

\* A handler and the upstream server: what was forwarded had been delegated.
LEMMA UpstreamCollision ==
    ASSUME Order', KeptStays', NumRouters \in Nat,
           sent' # "nothing", at' = NumRouters + 1,
           NEW r \in Routers, did'[r] \cap {"answered", "threw"} # {}
    PROVE  AnswersDoNotCollide'
<1>1. r < at'
  BY DEF Routers
<1>2. {"answered", "delegated"} \subseteq did'[r]
  BY <1>1 DEF Order
<1>. QED
  BY <1>2 DEF AnswersDoNotCollide, KeptStays

-----------------------------------------------------------------------------
\* A handler that responds, or promises to, or stops: what is left to show of the
\* invariant once DoneKeeps has shown the rest.
LEMMA HandlerKeeps ==
    ASSUME Inv, NEW r \in Routers, Dispatching(r),
           NEW deeds \in SUBSET Deeds, ~({"delegated", "threw"} \subseteq deeds),
           Done(r, deeds),
           UNCHANGED <<server, request, sent>>,
           \/ /\ UNCHANGED late
              /\ \/ "answered" \in deeds /\ Respond("local")
                 \/ /\ "threw" \in deeds
                    /\ response' = IF response = "nobody" THEN "local" ELSE response
                    /\ UNCHANGED collided
                 \/ UNCHANGED answers
           \/ /\ "answered" \in deeds
              /\ late' = late \cup {r}
              /\ UNCHANGED answers
    PROVE  Inv'
<1>1. /\ did' \in [Routers -> SUBSET Deeds]
      /\ query' \in {"raw", "validated"}
      /\ at' \in 1..(NumRouters + 1)
      /\ pc' \in {"routing", "ended"}
      /\ did[r] = {}
      /\ did'[r] = deeds \cup {"called"}
      /\ \A q \in Routers \ {r} : did'[q] = did[q]
      /\ Order'
      /\ Overridden'
  BY DoneKeeps
<1>2. pc = "routing" /\ sent = "nothing" /\ response \in {"nobody", "local"} /\ r \notin late
  BY <1>1 DEF Inv, TypeOK, Dispatching, Forwarded, Responders
<1>3. /\ late' \in {late, late \cup {r}}
      /\ response' \in {"nobody", "local"}
      /\ collided' \in BOOLEAN
  BY <1>2 DEF Inv, TypeOK, Respond, answers
<1>4. TypeOK'
  BY <1>1, <1>2, <1>3 DEF Inv, TypeOK, server
<1>5. Installed' /\ Forwarded' /\ KeptStays' /\ ForwardedAsValidated'
  <2>1. Installed'
    BY <1>2, InstalledKept DEF Inv, Installed
  <2>. QED
    BY <1>1, <1>2, <2>1 DEF Forwarded, KeptStays, ForwardedAsValidated
<1>6. Responders'
  <2>1. \A q \in late' : "answered" \in did'[q]
    BY <1>1, <1>2, <1>3 DEF Inv, TypeOK, Responders
  <2>2. ASSUME response' = "local"
        PROVE  \E q \in Routers \ late' : did'[q] \cap {"answered", "threw"} # {}
    <3>1. CASE response = "local"
      <4>1. PICK q \in Routers \ late : did[q] \cap {"answered", "threw"} # {}
        BY <3>1 DEF Inv, Responders
      <4>2. q # r /\ q \notin late' /\ did'[q] = did[q]
        BY <1>1, <1>3, <4>1
      <4>. QED
        BY <4>1, <4>2
    <3>2. CASE response = "nobody"
      <4>1. deeds \cap {"answered", "threw"} # {} /\ late' = late
        BY <2>2, <3>2 DEF answers
      <4>. QED
        BY <1>1, <1>2, <4>1
    <3>. QED
      BY <1>2, <3>1, <3>2
  <2>. QED
    BY <1>1, <1>3, <2>1, <2>2 DEF Responders
<1>7. AnswersDoNotCollide'
  <2>1. CASE collided
    <3>1. \A q \in Routers : did[q] \subseteq did'[q]
      BY <1>1
    <3>. QED
      BY <1>1, <2>1, <3>1, CollisionStays DEF server
  <2>2. CASE ~collided /\ collided'
    <3>1. response = "local" /\ "answered" \in deeds
      BY <1>2, <2>2 DEF Respond, answers
    <3>2. PICK q \in Routers \ late : did[q] \cap {"answered", "threw"} # {}
      BY <3>1 DEF Inv, Responders
    <3>3. q # r /\ did'[q] \cap {"answered", "threw"} # {}
      BY <1>1, <3>2
    <3>4. at' \in Nat
      BY <1>1
    <3>. QED
      BY <1>1, <3>1, <3>2, <3>3, <3>4, LocalCollision
  <2>3. CASE ~collided'
    BY <2>3 DEF AnswersDoNotCollide
  <2>. QED
    BY <2>1, <2>2, <2>3
<1>. QED
  BY <1>1, <1>4, <1>5, <1>6, <1>7 DEF Inv

\* The strengthened invariant holds initially.
LEMMA InitInv == Init => Inv
<1> SUFFICES ASSUME Init
             PROVE  Inv
  OBVIOUS
<1>1. TypeOK
  <2>1. at \in 1..(NumRouters + 1)
    BY RequestsAssumption DEF Init
  <2>2. did \in [Routers -> SUBSET Deeds]
    BY DEF Init
  <2>. QED
    BY <2>1, <2>2 DEF Init, TypeOK
<1>2. Installed /\ Order /\ Forwarded /\ Responders /\ Overridden
  BY <1>1 DEF Init, Installed, Order, Forwarded, Responders, Overridden
<1>3. KeptStays /\ AnswersDoNotCollide /\ ForwardedAsValidated
  BY DEF Init, KeptStays, AnswersDoNotCollide, ForwardedAsValidated
<1>. QED
  BY <1>1, <1>2, <1>3 DEF Inv

-----------------------------------------------------------------------------
\* The server's steps, the arrival and the steps past a router without a handler
\* preserve it.
LEMMA ServerStepInv ==
    ASSUME Inv, Install \/ Initialized \/ Stop \/ Arrive \/ \E r \in Routers : PassBy(r)
    PROVE  Inv'
<1>1. CASE Install
  <2>1. pc = "none"
    BY <1>1 DEF Inv, Installed, Install
  <2>2. \A r \in Routers : Backstopped(r) \subseteq Paths
    BY BackstoppedArePaths DEF Inv
  <2>3. backstopPaths' \subseteq Paths
    BY <1>1, <2>2 DEF Install
  <2>4. TypeOK'
    BY <1>1, <2>3 DEF Inv, TypeOK, Install, handling, answers
  <2>5. Installed'
    <3>1. \A r \in Routers : LayerPaths(r)' = LayerPaths(r)
      BY <1>1 DEF Install, LayerPaths
    <3>2. \A r \in Routers : Backstopped(r)' = Backstopped(r)
      BY <1>1, <3>1, Zenon DEF Install, Backstopped
    <3>3. UNION {Backstopped(r)' : r \in Routers} = UNION {Backstopped(r) : r \in Routers}
      BY <3>2
    <3>. QED
      BY <1>1, <2>1, <3>3 DEF Install, Installed, Routers
  <2>6. Order' /\ Forwarded' /\ Responders' /\ Overridden'
    BY <1>1 DEF Inv, Install, Order, Forwarded, Responders, Overridden, handling, answers
  <2>7. KeptStays' /\ AnswersDoNotCollide' /\ ForwardedAsValidated'
    BY <1>1, <2>1 DEF Inv, Install, Forwarded, Responders, KeptStays, AnswersDoNotCollide,
                      ForwardedAsValidated, handling, answers
  <2>. QED
    BY <2>4, <2>5, <2>6, <2>7 DEF Inv
<1>2. CASE Initialized \/ Stop
  <2>0. /\ UNCHANGED <<routers, backstopPaths, request, pc, at, query, did, late, sent,
                       response, collided>>
        /\ phase # "configured"
        /\ phase' \in {"listening", "failed", "closed"}
    BY <1>2 DEF Initialized, Stop, handling, answers
  <2>1. TypeOK'
    BY <2>0 DEF Inv, TypeOK
  <2>2. Installed'
    <3>1. \A r \in Routers : LayerPaths(r)' = LayerPaths(r)
      BY <2>0 DEF LayerPaths
    <3>2. \A r \in Routers : Backstopped(r)' = Backstopped(r)
      BY <2>0, <3>1, Zenon DEF Backstopped
    <3>3. UNION {Backstopped(r)' : r \in Routers} = UNION {Backstopped(r) : r \in Routers}
      BY <3>2
    <3>. QED
      BY <2>0, <3>3 DEF Inv, Installed, Routers
  <2>3. Order' /\ Forwarded' /\ Responders' /\ Overridden'
    BY <2>0 DEF Inv, Order, Forwarded, Responders, Overridden
  <2>4. Kept' <=> Kept
    BY <2>0 DEF Kept, LayerPaths
  <2>5. KeptStays' /\ AnswersDoNotCollide' /\ ForwardedAsValidated'
    BY <2>0, <2>4 DEF Inv, KeptStays, AnswersDoNotCollide, ForwardedAsValidated
  <2>. QED
    BY <2>1, <2>2, <2>3, <2>5 DEF Inv
<1>3. CASE Arrive
  <2>0. UNCHANGED server /\ phase # "configured"
    BY <1>3 DEF Arrive
  <2>1. TypeOK'
    BY <1>3 DEF Inv, TypeOK, Arrive, server, handling, answers
  <2>2. Installed'
    BY <2>0, InstalledKept DEF Inv
  <2>3. Order' /\ Forwarded' /\ Responders' /\ Overridden'
    BY <1>3 DEF Inv, Arrive, Order, Forwarded, Responders, Overridden, handling, answers
  <2>4. KeptStays' /\ AnswersDoNotCollide' /\ ForwardedAsValidated'
    BY <1>3 DEF Inv, Arrive, Forwarded, Responders, KeptStays, AnswersDoNotCollide,
                ForwardedAsValidated, answers
  <2>. QED
    BY <2>1, <2>2, <2>3, <2>4 DEF Inv
<1>4. ASSUME NEW r \in Routers, PassBy(r)
      PROVE  Inv'
  <2>0. /\ pc = "routing" /\ at = r /\ at' = r + 1 /\ did[r] = {}
        /\ UNCHANGED <<server, request, pc, query, did, late, sent, response, collided>>
    BY <1>4 DEF Inv, Order, PassBy, Dispatching, handling, answers
  <2>1. r \in Nat /\ NumRouters \in Nat /\ r <= NumRouters
    BY RequestsAssumption DEF Routers
  <2>2. TypeOK'
    BY <2>0, <2>1 DEF Inv, TypeOK, server
  <2>3. Installed'
    BY <2>0, InstalledKept DEF Inv, Installed
  <2>4. Order'
    BY <2>0, <2>1 DEF Inv, Order, Routers
  <2>5. Forwarded' /\ Responders' /\ Overridden'
    BY <2>0 DEF Inv, Forwarded, Responders, Overridden
  <2>6. Kept' <=> Kept
    BY <2>0 DEF Kept, LayerPaths, server
  <2>7. KeptStays' /\ AnswersDoNotCollide' /\ ForwardedAsValidated'
    BY <2>0, <2>6 DEF Inv, KeptStays, AnswersDoNotCollide, ForwardedAsValidated
  <2>. QED
    BY <2>2, <2>3, <2>4, <2>5, <2>7 DEF Inv
<1>. QED
  BY <1>1, <1>2, <1>3, <1>4

\* The handlers' steps do.
LEMMA HandlerStepInv ==
    ASSUME Inv, NEW r \in Routers,
           Handle(r) \/ HandleLater(r) \/ RejectUri(r) \/ Throw(r) \/ Reject(r)
    PROVE  Inv'
<1>1. CASE Handle(r)
  <2>1. PICK deeds \in SUBSET {"validated", "answered", "delegated"} :
           /\ Done(r, deeds)
           /\ IF "answered" \in deeds THEN Respond("local") ELSE UNCHANGED answers
    BY <1>1 DEF Handle
  <2>. QED
    BY <1>1, <2>1, HandlerKeeps DEF Handle, Deeds
<1>2. CASE HandleLater(r)
  <2>1. PICK others \in SUBSET {"validated", "delegated"} : Done(r, others \cup {"answered"})
    BY <1>2 DEF HandleLater
  <2>. QED
    BY <1>2, <2>1, HandlerKeeps DEF HandleLater, Deeds
<1>3. CASE RejectUri(r)
  BY <1>3, HandlerKeeps DEF RejectUri, Deeds
<1>4. CASE Throw(r)
  BY <1>4, HandlerKeeps DEF Throw, Deeds
<1>5. CASE Reject(r)
  <2>1. PICK deeds \in SUBSET {"validated"} : Done(r, deeds \cup {"rejected"})
    BY <1>5 DEF Reject
  <2>. QED
    BY <1>5, <2>1, HandlerKeeps DEF Reject, Deeds
<1>. QED
  BY <1>1, <1>2, <1>3, <1>4, <1>5

\* What a step keeps that calls no handler, once the request has arrived.
LEMMA AfterHandlers ==
    ASSUME Inv, UNCHANGED <<server, request, at, query, did>>,
           pc # "none", pc' \in {pc, "forwarded", "ended"}
    PROVE  /\ Installed' /\ Order' /\ Overridden'
           /\ Kept' <=> Kept
<1>1. Installed'
  BY InstalledKept DEF Inv, Installed
<1>2. Order' /\ Overridden'
  BY DEF Inv, Order, Overridden
<1>3. Kept' <=> Kept
  BY DEF Inv, TypeOK, Kept, LayerPaths, server
<1>. QED
  BY <1>1, <1>2, <1>3

\* The upstream server responds to what has been sent to it, and whoever has
\* responded before had delegated the request.
LEMMA UpstreamResponseInv ==
    ASSUME Inv, UNCHANGED <<server, request, at, query, did, late>>,
           at = NumRouters + 1, pc \in {"routing", "forwarded"}, pc' = "ended",
           sent' \in {"raw", "validated"}, request.method = "ws" \/ sent' = sent,
           Respond("upstream")
    PROVE  Inv'
<1>1. Installed' /\ Order' /\ Overridden' /\ (Kept' <=> Kept)
  BY AfterHandlers
<1>2. response' \in {"nobody", "local", "upstream"} /\ collided' \in BOOLEAN
  BY DEF Inv, TypeOK, Respond
<1>3. TypeOK'
  BY <1>2 DEF Inv, TypeOK, server
<1>4. response \in {"nobody", "local"}
  BY DEF Inv, TypeOK, Responders
<1>5. response' = (IF response = "nobody" THEN "upstream" ELSE response)
  BY DEF Respond
<1>6. Forwarded' /\ Responders'
  BY <1>3, <1>4, <1>5 DEF Inv, TypeOK, Forwarded, Responders
<1>7. KeptStays' /\ ForwardedAsValidated'
  BY <1>1 DEF Inv, KeptStays, ForwardedAsValidated
<1>8. AnswersDoNotCollide'
  <2>1. CASE collided
    BY <2>1, CollisionStays DEF server
  <2>2. CASE ~collided /\ collided'
    <3>1. response = "local"
      BY <1>4, <2>2 DEF Respond
    <3>2. PICK r \in Routers : did[r] \cap {"answered", "threw"} # {}
      BY <3>1 DEF Inv, Responders
    <3>3. did'[r] \cap {"answered", "threw"} # {} /\ at' = NumRouters + 1 /\ sent' # "nothing"
      BY <3>2
    <3>. QED
      BY <1>1, <1>7, <3>3, UpstreamCollision, RequestsAssumption
  <2>3. CASE ~collided'
    BY <2>3 DEF AnswersDoNotCollide
  <2>. QED
    BY <2>1, <2>2, <2>3
<1>. QED
  BY <1>1, <1>3, <1>6, <1>7, <1>8 DEF Inv

\* The steps of app.all('*') and the upstream response preserve the invariant.
LEMMA ForwardStepInv ==
    ASSUME Inv, ForwardWS \/ Backstop \/ Forward \/ UpstreamResponds
    PROVE  Inv'
<1>1. CASE ForwardWS
  BY <1>1, UpstreamResponseInv DEF ForwardWS, Forwarding, handling
<1>2. CASE UpstreamResponds
  <2>1. at = NumRouters + 1 /\ sent \in {"raw", "validated"}
    BY <1>2 DEF Inv, TypeOK, Forwarded, UpstreamResponds
  <2>. QED
    BY <1>2, <2>1, UpstreamResponseInv DEF UpstreamResponds, handling
<1>3. CASE Backstop \/ Forward
  <2>0. /\ pc = "routing" /\ at = NumRouters + 1 /\ request.method # "ws"
        /\ UNCHANGED <<server, request, at, query, did, late, response, collided>>
        /\ \/ pc' = "ended" /\ sent' = sent
           \/ pc' = "forwarded" /\ sent' = query /\ ~ShouldBackstop
    BY <1>3 DEF Backstop, Forward, Forwarding, handling, answers
  <2>1. Installed' /\ Order' /\ Overridden' /\ (Kept' <=> Kept)
    BY <2>0, AfterHandlers
  <2>2. TypeOK'
    BY <2>0 DEF Inv, TypeOK, server
  <2>3. sent = "nothing" /\ response # "upstream"
    BY <2>0 DEF Inv, Forwarded, Responders
  <2>4. Forwarded' /\ Responders'
    BY <2>0, <2>3 DEF Inv, TypeOK, Forwarded, Responders
  <2>5. KeptStays'
    BY <2>0, <2>1, <2>3, KeptIsBackstopped DEF Inv, KeptStays
  <2>6. ForwardedAsValidated'
    BY <2>0, <2>3 DEF Inv, Overridden, ForwardedAsValidated
  <2>7. AnswersDoNotCollide'
    <3>1. CASE collided
      BY <2>0, <2>3, <3>1, CollisionStays DEF server
    <3>2. CASE ~collided
      BY <2>0, <3>2 DEF AnswersDoNotCollide
    <3>. QED
      BY <3>1, <3>2 DEF Inv, TypeOK
  <2>. QED
    BY <2>1, <2>2, <2>4, <2>5, <2>6, <2>7 DEF Inv
<1>. QED
  BY <1>1, <1>2, <1>3

\* A handler that answers late collides with one that comes after it, or with the
\* upstream server.
LEMMA SettleInv == ASSUME Inv, NEW r \in Routers, Settle(r) PROVE Inv'
<1>0. /\ UNCHANGED <<server, request, pc, at, query, did, sent>>
      /\ r \in late /\ late' = late \ {r} /\ "answered" \in did[r]
      /\ pc # "none"
  BY DEF Inv, Settle, Responders, Order
<1>1. Installed' /\ Order' /\ Overridden' /\ (Kept' <=> Kept)
  BY <1>0, AfterHandlers
<1>2. response' \in {"nobody", "local", "upstream"} /\ collided' \in BOOLEAN
  BY DEF Inv, TypeOK, Settle, Respond
<1>3. TypeOK'
  BY <1>0, <1>2 DEF Inv, TypeOK, server
<1>4. KeptStays' /\ ForwardedAsValidated' /\ Forwarded'
  BY <1>0, <1>1 DEF Inv, KeptStays, ForwardedAsValidated, Forwarded
<1>5. Responders'
  <2>1. \A q \in late' : "answered" \in did'[q]
    BY <1>0 DEF Inv, Responders
  <2>2. ASSUME response' = "local"
        PROVE  \E q \in Routers \ late' : did'[q] \cap {"answered", "threw"} # {}
    BY <1>0
  <2>3. response' = "upstream" => response = "upstream"
    BY DEF Settle, Respond
  <2>. QED
    BY <1>0, <2>1, <2>2, <2>3 DEF Inv, Responders
<1>6. AnswersDoNotCollide'
  <2>1. CASE collided
    BY <1>0, <2>1, CollisionStays DEF server
  <2>2. CASE ~collided /\ collided'
    <3>1. response # "nobody"
      BY <2>2 DEF Settle, Respond
    <3>2. at' \in Nat /\ NumRouters \in Nat
      BY <1>0, RequestsAssumption DEF Inv, TypeOK
    <3>3. did'[r] \cap {"answered", "threw"} # {}
      BY <1>0
    <3>4. CASE response = "local"
      <4>1. PICK q \in Routers \ late : did[q] \cap {"answered", "threw"} # {}
        BY <3>4 DEF Inv, Responders
      <4>2. q # r /\ did'[q] \cap {"answered", "threw"} # {}
        BY <1>0, <4>1
      <4>. QED
        BY <1>1, <3>2, <3>3, <4>1, <4>2, LocalCollision
    <3>5. CASE response = "upstream"
      <4>1. sent' # "nothing" /\ at' = NumRouters + 1
        BY <1>0, <3>5 DEF Inv, Responders, Forwarded
      <4>. QED
        BY <1>1, <1>4, <3>2, <3>3, <4>1, UpstreamCollision
    <3>. QED
      BY <3>1, <3>4, <3>5 DEF Inv, TypeOK
  <2>3. CASE ~collided'
    BY <2>3 DEF AnswersDoNotCollide
  <2>. QED
    BY <2>1, <2>2, <2>3
<1>. QED
  BY <1>1, <1>3, <1>4, <1>5, <1>6 DEF Inv

\* The end of the process leaves what was done.
LEMMA EndInv == ASSUME Inv, ProcessEnds PROVE Inv'
<1>0. /\ UNCHANGED <<routers, backstopPaths, request, at, query, did, sent, response, collided>>
      /\ phase' = "ended" /\ pc' = "ended" /\ late' = {}
  BY DEF ProcessEnds, answers
<1>1. pc # "none" /\ phase # "configured"
  <2>1. collided => pc # "none"
    BY DEF Inv, Responders
  <2>2. (\E r \in Routers : "rejected" \in did[r]) => pc # "none"
    BY DEF Inv, Order
  <2>. QED
    BY <2>1, <2>2 DEF ProcessEnds, Inv, Installed
<1>2. TypeOK'
  BY <1>0, <1>1 DEF Inv, TypeOK
<1>3. Installed'
  <2>1. \A r \in Routers : LayerPaths(r)' = LayerPaths(r)
    BY <1>0 DEF LayerPaths
  <2>2. \A r \in Routers : Backstopped(r)' = Backstopped(r)
    BY <1>0, <2>1, Zenon DEF Backstopped
  <2>3. UNION {Backstopped(r)' : r \in Routers} = UNION {Backstopped(r) : r \in Routers}
    BY <2>2
  <2>. QED
    BY <1>0, <1>1, <2>3 DEF Inv, Installed, Routers
<1>4. Order' /\ Forwarded' /\ Responders' /\ Overridden'
  BY <1>0, <1>1 DEF Inv, Order, Forwarded, Responders, Overridden
<1>5. Kept' <=> Kept
  BY <1>0, <1>1 DEF Kept, LayerPaths
<1>6. KeptStays' /\ AnswersDoNotCollide' /\ ForwardedAsValidated'
  BY <1>0, <1>5 DEF Inv, KeptStays, AnswersDoNotCollide, ForwardedAsValidated
<1>. QED
  BY <1>2, <1>3, <1>4, <1>6 DEF Inv

\* A stutter changes nothing.
LEMMA StutterInv == ASSUME Inv, UNCHANGED vars PROVE Inv'
<1>0. UNCHANGED <<phase, routers, backstopPaths, request, pc, at, query, did, late, sent,
                  response, collided>>
  BY DEF vars, server, handling, answers
<1>1. \A r \in Routers : LayerPaths(r)' = LayerPaths(r)
  BY <1>0 DEF LayerPaths
<1>2. \A r \in Routers : Backstopped(r)' = Backstopped(r)
  BY <1>0, <1>1, Zenon DEF Backstopped
<1>3. UNION {Backstopped(r)' : r \in Routers} = UNION {Backstopped(r) : r \in Routers}
  BY <1>2
<1>4. Installed'
  BY <1>0, <1>3 DEF Inv, Installed, Routers
<1>5. TypeOK' /\ Order' /\ Forwarded' /\ Responders' /\ Overridden'
  BY <1>0 DEF Inv, TypeOK, Order, Forwarded, Responders, Overridden
<1>6. Kept' <=> Kept
  BY <1>0 DEF Kept, LayerPaths
<1>7. KeptStays' /\ AnswersDoNotCollide' /\ ForwardedAsValidated'
  BY <1>0, <1>6 DEF Inv, KeptStays, AnswersDoNotCollide, ForwardedAsValidated
<1>. QED
  BY <1>4, <1>5, <1>7 DEF Inv

-----------------------------------------------------------------------------
\* The strengthened invariant: every request is dispatched in order, and whoever
\* responds has shown a deed.
THEOREM Invariance == Spec => []Inv
<1>1. Inv /\ [Next]_vars => Inv'
  <2> SUFFICES ASSUME Inv, [Next]_vars
               PROVE  Inv'
    OBVIOUS
  <2>1. CASE Serve \/ Stop \/ Arrive
    BY <2>1, ServerStepInv DEF Serve
  <2>2. CASE Dispatch
    BY <2>2, ServerStepInv, HandlerStepInv, ForwardStepInv DEF Dispatch
  <2>3. CASE \E r \in Routers : Settle(r)
    BY <2>3, SettleInv
  <2>4. CASE UpstreamResponds
    BY <2>4, ForwardStepInv
  <2>5. CASE ProcessEnds
    BY <2>5, EndInv
  <2>6. CASE UNCHANGED vars
    BY <2>6, StutterInv
  <2>. QED
    BY <2>1, <2>2, <2>3, <2>4, <2>5, <2>6 DEF Next
<1>. QED
  BY <1>1, InitInv, PTL DEF Spec

\* The variables have their types.
THEOREM TypeCorrect == Spec => []TypeOK
<1>1. Inv => TypeOK
  BY DEF Inv
<1>. QED
  BY <1>1, Invariance, PTL

\* Two responses to one request take a handler that answers and delegates, and then
\* another that responds, or a path that is forwarded (forwardRequest).
THEOREM NoCollisions == Spec => []AnswersDoNotCollide
<1>1. Inv => AnswersDoNotCollide
  BY DEF Inv
<1>. QED
  BY <1>1, Invariance, PTL

\* The upstream server sees the validated model URI if any handler has validated it
\* (withValidatedModelUri, req.query.modeluri).
THEOREM ValidatedIsForwarded == Spec => []ForwardedAsValidated
<1>1. Inv => ForwardedAsValidated
  BY DEF Inv
<1>. QED
  BY <1>1, Invariance, PTL
=============================================================================
