# A formal model of the Model Server node

The _Model Server node_ (`src/packages/modelserver-node`) is a server in
TypeScript that stands between the clients of an Eclipse EMF.cloud Model Server
and that server, the _upstream_ server. It passes HTTP requests and web sockets
on, and adds what plug-ins contribute: providers of custom commands, of triggers
(edits that follow edits) and of validation. This directory has TLA+ modules of
its parts, TLC configurations that model-check them, and TLAPS proofs.

The node is one process with one thread, but nearly everything it does is
asynchronous. What can go wrong lies between two awaits: another request, a
message, a close event or a plug-in gets in between.

Paths below are relative to `src/packages/modelserver-node/src` unless they start
with `src/`.

## Inventory

| Component | State | Operations | Talks to | Correct if |
| --- | --- | --- | --- | --- |
| transaction table (`client/model-server-client.ts`, `InternalModelServerClient`) | map from model URI to open root transaction | `openTransaction`, `closeTransaction` | upstream (POST), the contexts it opens | the map has exactly the transactions that calls should join |
| transaction context (same file, `DefaultTransactionContext`) | socket, UUID promise, stack of nested contexts with aggregated results | `open`, `edit`, `applyPatch`, `execute`, `commit`, `rollback`, `openTransaction` | upstream (socket), command and trigger registries | an edit is atomic, its answer truthful |
| edit service (`services/edit-service.ts`) | none | `edit` | registries, client, validation manager | no trigger or validation provider missed; every request answered |
| provider registries (`*-provider-registry.ts`) | one map each | `register`, `unregister`, look-ups | plug-ins, edit service, contexts, validation manager | they have what the plug-ins' tokens say; an aggregate waits for all its providers |
| plug-in context (`plugin-context.ts`) | none | `initializePlugins`, `register…Provider` | plug-ins, registries | a failed plug-in takes no part |
| subscription manager (`services/subscription-manager.ts`) | map from client socket to upstream socket | `addSubscription`, clean-up, relay, `broadcastValidation`, `sendValidation` | sockets, validation manager (events) | the map has the live pairs; ends close together; changes reach those who subscribe to them |
| web socket utilities (`client/web-socket-utils.ts`) | listeners of an acceptor | `WebSocketMessageAcceptor`, `JSONSocket`, `handleClose`, `handleError` | all of the above | replies reach their requests |
| validation manager (`services/validation-manager.ts`) | none | `validate`, `performLiveValidation`, `initializeLiveValidation` | upstream, validators, subscriptions | no subscriber misses a change |
| server (`server.ts`) | installed routes, backstop paths | `serve`, `stop`, `forward`, `forwardWS` | upstream, routes | what is kept here stays here; every request answered, once |
| routes (`routes/*.ts`) | none | handlers | edit service, validation manager, client, subscription manager | no change is denied |
| model service (`services/model-service.ts`) | none | `edit`, `undo`, `redo`, `openTransaction`, `create`, … | plug-ins, edit service, client | its changes spoil nobody's validation |
| model URIs, DI, logging, plug-in API, examples | none | conversions, configuration, interfaces | | but for the spelling of URIs, not modelled, see below |

The upstream server, plug-ins and the `ws` library are outside this repository.
They are modelled from how the code uses them, and marked external.

The hard behaviours are listed with their lines under `hazards` in
`PROJECT.json`. In short: the check-then-await-then-write of `openTransaction`;
late close events; acceptors that take any message; one stack of nested contexts
for all the requests that share a transaction; results that are dropped when they
are merged; look-ups of providers before and after awaits; sockets that close
while others are still connecting; validations that overlap; and handlers that answer
late, twice or never.

## Modules

`TransactionTable` models `openTransaction`, `closeTransaction` and the four
handlers that `open` installs on a context's socket. A context is named by the
call that created it. `phase[c]` is the call's promise; `socket[c]`, `uuid[c]` and
`upstream[c]` are the two ends of its transaction. `Post` and `PostResponse` are the
code before and after the await, so that all races of calls between the test and
the write of the map exist in the model. The node's and the server's view of the
end are separate steps.

`TransactionTableProofs`, `TransactionContextProofs`, `EditServiceProofs`,
`SubscriptionsProofs`, `LiveValidationProofs` and `RequestsProofs` have the theorems
about the modules they are named after. `SingleRequestProofs` has those about a
`TransactionContext` with one user, and `FoldLemmas` what several of them need of finite
sets and folds.

`UpdateResults` has the aggregate results and `mergeModelUpdateResult`.

`TransactionContext` models the context with an open socket, and the part of
`EditService` that drives it. Every request (`Users`) has a stack of the functions
it is in (`frames`): the edit it provides, the transaction functions of command
providers, the rounds of triggers in `commit`. `heap` has the aggregated results,
since several references to one exist at a time (on the stack, in the closures of
acceptors, in `commit`'s variable), and `nested` is the stack of them. An exception
goes up frame by frame (`Throw…`), with what each level does on its way: roll
back, pop or not, answer. `"refused"` and `"balked"` in `frames` are marks that the
code does not look at; properties do. Two simplifications: a user that awaits the
UUID does not exist, as the socket is open and greeted; and the microtasks between
a call and its message are one step with it.

`AtomicTransaction` is what the transaction promises: the edits applied, what
became of them, and the answer. `TransactionContext` implements it for a single
request (property `IsAtomic`, with `status` for the outcome and the owner's
answer).

`Subscriptions` models both kinds of socket pairs, subscribed and forwarded, and
the handlers that both are wired with. What one close event does (clean-up, then
closing the other end) is one action, as it is one turn of the event loop. The relay
of messages keeps no state and is not modelled, but for what ends the process: a
client's message that comes while the upstream socket is connecting, for which `send`
throws out of an event handler (`EarlyMessage`), and an error of a client's socket that
was left without handlers (`UnheardError`). After that nothing happens any more
(`running`).

`LiveValidation` models a request that changes the model from its delegation to
its answer, with the validation in between, and the initial validation of a
subscriber. It reads the upstream model twice per run. `result` is what the upstream
server's reply says, which need not be what it did, and `Relay` passes on. `uri` has
the two spellings of a model's URI that `cleanWindowsPath` tells apart: routes handle a
request under the clean one, the model service under what a plug-in gave it, and a
subscription is registered as its client has spelt it, so that
`ValidationSubscribers` finds only those who spell alike. The option that makes a
subscription one to live validation goes through `ParseQuery`. What plug-ins change by
their model service other than by `edit` is in it as changes without validation
(`ApplyDirectly`). `joined` and `mentioned` are history, for the properties.

`Providers` models the registries and the plug-ins' life. `EditService` extends it
with one edit request: which registry it looks at when. The contents of a
transaction are abstracted there to "made, with or without changes, or failed". The
transaction is the request's own or, if one is open on the model, a child of that
(`mode` is `"nested"`), whose commit asks no triggers.
After a successful edit it looks the validation providers up and waits for all of
them; the rest of live validation is in `LiveValidation`. `lasting` and `consulted`
are history.

`Requests` models the HTTP side: what `serve` makes of the routers that the route
providers configure, and one request on its way through them to a handler, to the
backstop or to the upstream server. Requests share no state but `backstopPaths`,
which no longer changes by then, so that one is enough. Handlers are the code of
`routes/*.ts` and of plug-ins; a handler is what it may do: validate the model URI
(and so override the query), answer now or later, delegate, throw, or reject a promise
that nobody awaits. The last, and a second response to one request, may end the process
(`ProcessEnds`); on the oldest supported Node.js they only log a warning, so that the
model may also go on. The order of
routers, the matching of paths and the answer to an exception are Express's, external.
`verbatim` tells whether the request spells its path as the router does: Express does
not mind case or a trailing slash, the backstop does.

`MC…` modules and `.cfg` files instantiate these.

## Runs

| Run | Shows |
| --- | --- |
| `transaction_table` | With three calls for one model: a registered context still has its close event to come (`RegisteredWillClose`), a live transaction is the registered one (`LiveIsRegistered`), registering never evicts a live one (`EvictsOnlyEnded`), an ended one is forgotten (`EndedIsForgotten`). |
| `transaction_context` | One request: the stack of nested contexts mirrors the functions it is in (`StackMatchesFrames`), each edit gets its own reply (`OwnReply`), what the server makes permanent is, edit by edit, what the request was told (`CommitsWhatIsReported`), nothing is edited after the end was announced (`NoEditAfterEnding`), every request is answered (`EveryRequestAnswered`), and the transaction is atomic with a truthful answer (`IsAtomic`). Plug-ins let exceptions pass here. |
| `concurrent_requests` | Two requests share the context, and plug-ins may catch exceptions: the stack never runs out (`StackCoversFrames`), the server commits only what the owner was told succeeded (`CommitsOnlyOnSuccess`), everyone is answered. |
| `subscriptions` | Reserved close codes are never sent (`SendableCodes`), the map has exactly the live pairs (`SubscriptionsAreLive`), ends close together once both are open (`EndsTogether`), the upstream's end always reaches the client (`UpstreamEndReachesClient`). |
| `live_validation` | A subscriber that was there before a change, and spells the URI as the request does, has been sent diagnostics that cover it when the change is acknowledged, unless the validation failed (`InformedBeforeAnswer`); when all is quiet, and no validation failed and no reply was lost, it has diagnostics of all such changes, but for what plug-ins changed directly (`NoMissedUpdate`); nobody is sent any whose request does not mention the option (`OnlyTheInvited`); who made a change is never told that there was none, unless the upstream server's reply was lost (`ChangesAreNotDenied`). |
| `edit_service` | Registries match the tokens of plug-ins that have not failed (`RegistriesMatchTokens`); no trigger provider of theirs that was there all the time is missed by a request that does not join another's transaction (`TriggersNotMissed`); and a validation that succeeds has the diagnostics of every applicable provider that was (`ValidatorsNotMissed`). |
| `requests` | Answers collide only if a handler answers and delegates, and then with another router's handler, or with the upstream server's if the path is not kept to this server (`AnswersDoNotCollide`); once a handler has validated the model URI no other is sent upstream (`ForwardedAsValidated`); a request is answered unless a handler drops it, the backstop stops it when no handler has answered, or the process ends (`EveryRequestAnswered`). |

Each passing run has a mutant for every property: a plausible bug in a definition,
with which the property fails.

Five runs show where the code departs from what its comments or documentation say:

| Run | Disagreement |
| --- | --- |
| `opening_settles` | A socket that closes between its opening and the UUID leaves `openTransaction` pending for ever (`model-server-client.ts:425`). |
| `own_reply` | Two edits in flight on a shared transaction are both resolved with the first reply (`model-server-client.ts:549`). |
| `failed_edit` | An edit that the server failed is answered with success: a result without a patch is not merged (`model-server-client.ts:609`). |
| `balked_triggers` | A trigger transaction that returns false does not roll anything back (`model-server-client.ts:671`). |
| `client_end` | A client that leaves while its upstream socket is connecting leaves that socket open (`web-socket-utils.ts:303`). |

More departures are in the models without a run of their own. The properties make no
claim about them, and say so; each has a hazard with its line:

- A plug-in that failed to initialise is reported as removed (`plugin-context.ts:118`;
  `src/packages/modelserver-plugin-ext/src/plugin.ts:83`: it should not participate),
  while what it registered stays and is consulted (`Providers`).
- `livevalidation=no` subscribes to live validation, as `parseQuery` replaces a false
  value by the parameter's text (`routes/subscription.ts:94`; `LiveValidation`).
- A subscription whose URI has slashes before a Windows drive letter is accepted, and
  validated once, but registered with the URI as it came (`routes/subscription.ts:69`),
  which never equals that of a request (`LiveValidation`).
- A request that joins an open transaction leaves its triggers to that one's commit,
  which may be past asking (`client/model-server-client.ts:714`; `EditService`).
- A path kept to this server is forwarded if it is spelt otherwise than the router does,
  against `src/packages/modelserver-plugin-ext/src/route-provider.ts:23`; and a request
  on it with a method that nobody handles gets no response (`server.ts:193`;
  `Requests`).
- A failed asynchronous handler leaves its request without a response and may end the
  process (`routes/route-utils.ts:73`; `Requests`), and so does a message that comes too
  early (`services/subscription-manager.ts:75`; `Subscriptions`).
- If the upstream socket of a forwarded web socket cannot be created, the client's end
  stays open (`server.ts:265`; `Subscriptions`).
- `ModelService.edit` is documented to join an open transaction
  (`src/packages/modelserver-plugin-ext/src/model-service.ts:66`), but without trigger
  providers an edit is sent past it (`services/edit-service.ts:96`).
- `stop` before the server listens never settles (`server.ts:166`).

### Bounds

- Calls of `openTransaction`: 3, on one model. Two race; a third finds what they
  left. Models are separate keys, and no step for one touches another.
- `MaxEdits` (5 for one request, 3 for two) counts attempted edits, `MaxContexts` (4
  and 3) contexts ever pushed. Five edits allow an edit, a provided command's, and
  those of two rounds of triggers. With two requests, an edit is reserved for the one
  that has not made its own, so that a bound never makes it wait for the other.
- Socket pairs: two subscribed and one forwarded. Pairs share only the map and the
  process; the proofs have any number.
- Two requests and two subscribers for live validation, each subscriber once: an undo
  (or the like) and a plug-in's, which is an edit or bypasses the validation. A run
  depends on others only through the model and the map. There are two spellings of the
  URI, and whoever gives one gives either. Subscribers are symmetric; only invariants
  are checked there.
- Three trigger providers, of which two react, three command registrations of two
  types, two validation providers, two plug-ins; `MaxRounds` is 2, so that what a round
  of triggers changes is looked at by another. Registrations of one kind by one plug-in
  are symmetric; only invariants are checked there.
- Two routers, one on the API's root and one beneath it on a path of a plug-in's own,
  with every choice of options and middleware, and of one route each (`MaxHandled`);
  three paths, of which the upstream server has one; two HTTP methods, so that a path
  can be handled for another than the request's, and web sockets.
  Two are enough for an earlier and a later handler of one request, and for a backstop
  set by another router than the one that took it; the proofs have any number.

### Fairness and deadlock

Fairness is assumed of the node's own turns, since the event loop runs what is
ready, and of delivery: a POST or a handshake ends one way or the other, a message
sent on an open connection arrives, and a socket that is closing emits its close
event (the library has a timer for a peer that does not answer). Plug-in functions
end, handlers return, and the operations that they wait for settle (but for the
one that `opening_settles` is about). Nobody has to make a request or end a session, no connection has to be lost,
and the upstream server need not end a transaction on its own. Runs have
`CHECK_DEADLOCK FALSE` because the system may come to rest: calls, edits and
sessions are bounded, and all may be over. `OpeningSettles` and
`ClientEndReachesUpstream` are refuted under the same fairness.

## Proofs

`TransactionTableProofs` proves, for any sets of models and calls: type
correctness, `RegisteredWillClose`, `LiveIsRegistered` and `EvictsOnlyEnded`. The
only assumption is `TableAssumption`: every call names a model, and `NoCall` is not a
call.

None of the properties is inductive alone. `Inv` adds how far a call and the two
ends of its transaction can be apart (a call that has no response has no socket; a
socket that is open has a transaction that was joined), that a context is
registered from the moment its socket starts to connect until its transaction ends
on either side (`Registered`), and that at most one transaction is live per model. The last is the key:
a response can only arrive for a transaction that the server accepted when no other
was live, so that the entry it overwrites belongs to one that has ended. Each
action has a step, grouped by the lemmas for the parts of the invariant.

`SubscriptionsProofs` proves, for any sockets, type correctness, `SendableCodes` and
`SubscriptionsAreLive`; its assumption is that subscribers are clients. The map and the
states of the sockets change together, so that the invariant is nearly inductive; what
is missing is that a client that is rejected has no upstream end yet (`Paired`).

`LiveValidationProofs` proves, for any requests and subscribers, type correctness,
`ChangesAreNotDenied`, `InformedBeforeAnswer`, `NoMissedUpdate` and `OnlyTheInvited`; it
assumes that requests are not subscribers, that those for the edit service are requests,
and that those a plug-in makes are among these. `Knows` says that what a
run has read includes the change it follows, because the run starts after it, and that
who made a change has a result that says so.
`Informed` adds the case of a request that found nobody to validate for: whoever calls
the model as it does and is subscribed later joined after its change. `Awaited` is the
argument for `NoMissedUpdate`: a change that is made starts a run that has read nothing
yet, and a new subscriber starts one too, so that someone without diagnostics of the
changes it is to hear of always has a run to wait for that will have read them all
(`Promised`), unless one failed or a reply was lost.

`RequestsProofs` proves, for any number of routers with any paths, options and
handlers, type correctness, `AnswersDoNotCollide` and `ForwardedAsValidated`; it assumes that the standard paths are paths, and that every
router has a path and every path a set of paths beneath it. `KeptIsBackstopped` is the
lemma about the backstop: once a request has arrived, `backstopPaths` has a path if and
only if some router keeps it. `Order` is the induction over the dispatch: the routers
behind the request have passed it on and those before it have done nothing. `Responders`
says that every response so far, and every one that is still to come, is the deed of
some handler, so that a collision takes two of them, or one and the upstream server;
`KeptStays` that the latter was sent nothing of what is kept here.

`EditServiceProofs` proves, for any plug-ins and registrations, type correctness,
`RegistriesMatchTokens`, `TriggersNotMissed` and `ValidatorsNotMissed`. Its assumptions
are `RegistrationsAssumption` (the three kinds of registrations are disjoint, each is of
one plug-in, and each command provider of one type) and `EditAssumption` (what reacts is a
trigger provider, what applies a validation provider, and the bound on rounds is a
number). The property about the tokens leaves failed plug-ins out and is not inductive for
it; `AllMatch`, which has all of them, is. It rests on what `filter` leaves of an array:
exactly its elements that satisfy the condition (`FilteredIsSubsequence`,
`WithoutRemoves`). The rest follows what a request has
yet to do, unless it joined a transaction: who is in the history variable `lasting` still holds its token, so that it is
in the registry when that is looked up; from then on it has been asked or is on the list
of those to ask.

`TransactionContextProofs` proves, for any number of requests that share a context, with
plug-ins that may catch exceptions, type correctness, `StackCoversFrames` and
`CommitsOnlyOnSuccess`. Its assumption is `ContextAssumption`: there are finitely many
requests, the owner is one of them, and the bounds are numbers. `FramesNest` says which
functions can be in which. `StackCoversFrames` is a sum over all requests of the contexts
each has yet to pop; a step of one changes its own summand and the length of the stack
by the same amount, or leaves more on the stack (`UserKeepsInv`). The commit is told
because everything that is ever merged succeeded (`OnlySuccessIsMerged`: the very reason
why a failed edit goes unnoticed in `failed_edit`) and the answer precedes the close
message (`ToldBeforeClose`).

`SingleRequestProofs` adds what holds of a request that is alone (`Users = {Owner}`,
`OneRequest`). `OneEdit`: at most one edit is on its way, be it as a message, at the
server or as a reply, and exactly then an acceptor waits for it; `OwnReply` follows. With
two requests it is false, which is what `own_reply` shows. `Accounted` is the heart: as
long as the transaction lasts and the request has not failed, the patches of the contexts
on the stack from the bottom up, on top of what `commit` has aggregated, and the reply
under way, are the server's log. The prover gets it as the existence of the sequence of
partial sums (`AddsUp`), since a concatenation over a stack would be a recursion. A push
adds an empty patch, a reply adds to the top, a pop moves the top's patch down, and
`commit` takes the whole; for the last the stack must have the root alone
(`StackMatches`), and for the second no context may be on the stack twice nor be the one
that `commit` aggregates into (`ContextsDiffer`).

Where plug-ins catch exceptions (`PluginsCatch`) all of this is lost from the moment that
an exception may have been caught, and TLC shows that `StackMatchesFrames`,
`NoEditAfterEnding` and `IsAtomic` fail then: the theorems about these three assume
`~PluginsCatch`. But an exception is thrown only in a transaction that is `Doomed`: a
roll-back message is on its way, or the server or the socket has ended it. That lasts
(`DoomedLasts`), so that a close message sent after it cannot commit anything, and
`CommitsWhatIsReported` holds all the same. The theorem about it has no such assumption,
nor has the one about `OwnReply`; they cover more than the run, whose plug-ins catch
nothing.
`RequestIsAtomic` is the refinement: each of the four kinds of steps a request takes
(it sends an edit, goes on, fails, succeeds), each step of the connection and each of the
server is one of `AtomicTransaction` or leaves its variables unchanged.

`FoldLemmas` has the induction that these need: over the subsets of a finite set, with
the predicate as a set. The library's induction theorems take an operator, which the
installed provers cannot instantiate, but `WFMin` and `NatLessThanWellFounded` take sets,
and are enough to show that a fold exists, obeys its recursive equation, and how a sum
changes with one summand. Folds of the community modules are used for this reason, and
not `SelectSeq`, which the provers cannot expand.

Only model-checked: liveness (`EndedIsForgotten`, `EveryRequestAnswered`, `EndsTogether`,
`UpstreamEndReachesClient`), which is out of the prover's reach, and the five
disagreements, which are counterexamples. Every other property of a passing run is a
theorem, for all values of the constants that its assumptions and hypotheses admit.

## Not modelled

- Reading, saving and closing models by the client API and the model service: they
  choose an overload of the library client (`get` with a type guard drops the format,
  `client/model-server-client.ts:242`), pass the request on and keep no state. DI and
  logging have no behaviour of their own, the plug-in API is interfaces, and the examples
  are no part of the server.
- Conversion and validation of model URIs, formats and commands: pure functions on
  strings and objects. An invalid one appears as a rejected request, and of the
  conversion of URIs `LiveValidation` has what it makes equal.
- An edit with an empty patch, which `applyPatch` fails without sending it
  (`client/model-server-client.ts:464`): for the request it is an edit that the upstream
  server fails.
- The messages that web sockets relay, but for one that comes too early: the peers are
  taken to send what the protocol has, and the relay keeps no state.
- Middlewares that apply globally, and what happens to a connection when the server
  stops.
- Edits that bypass an open transaction, because no triggers are registered: what the
  upstream server does with them is not known here.
- The contents of diagnostics: a merge is the set of those who contributed.

## Plan

1. A composition of `TransactionTable` and `TransactionContext`: requests that join a
   transaction whose socket is still connecting or about to end, with the close event
   in between, and the answer they get.
2. What a request that shares a transaction may rely on beyond `StackCoversFrames` and
   `CommitsOnlyOnSuccess`: whether a condition on how requests overlap, weaker than
   having one, keeps `OwnReply` and `CommitsWhatIsReported`.
3. An abstract specification of the registries, and of what a subscriber sees of live
   validation, and the refinements.
4. Several requests in `EditService` that share one transaction: which of their changes
   are triggered, and a condition under which all are.
5. An edit without triggers next to an open transaction, once it is known what the
   upstream server does with it.
