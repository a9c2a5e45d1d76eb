---------------------------- MODULE LiveValidation ----------------------------
(***************************************************************************)
(* Requests that change a model and the live validation that follows them *)
(* (routes/*.ts, services/validation-manager.ts).  An edit, undo, redo,    *)
(* creation or replacement is delegated to the upstream server, then the   *)
(* model is validated for the subscribers of the moment, then the request  *)
(* is answered; every new subscriber gets a validation of its own.  A run  *)
(* gets the model from the upstream server, then has that server validate  *)
(* it, then the validators of plug-ins, with an await in between each time,*)
(* and runs do not exclude each other.                                     *)
(*                                                                         *)
(* What a plug-in changes by the model service that it is given            *)
(* (services/model-service.ts), its edits excepted, or by a transaction of *)
(* its own, goes to the upstream server without any of that.               *)
(*                                                                         *)
(* The state of the model is the set of the edits applied to it.  The      *)
(* upstream server is external; what a request reads there includes the    *)
(* edits it has answered, and however the URI is spelt it is one model.    *)
(* The node tells spellings apart: who is told of a change depends on what *)
(* its subscription called the model.  Subscriptions join and leave as in  *)
(* module Subscriptions.                                                   *)
(***************************************************************************)
CONSTANTS Edits,        \* the requests that change the model
          Patches,      \* those for the edit service; not undo, redo, creation, update
          Services,     \* those that a plug-in makes by its model service
          Subscribers   \* the subscriptions to the model, each made once

ASSUME RunsAssumption == /\ Edits \cap Subscribers = {}
                         /\ Services \subseteq Patches
                         /\ Patches \subseteq Edits

Runs == Edits \cup Subscribers

VARIABLES applied,     \* the upstream model
          subscribed,  \* the subscriptions in the manager's map
          options,     \* of each, whether its livevalidation option is truthy
          uri,         \* what each calls the model; and what each request calls it
          mentioned,   \* history: whether its request had such a parameter
          stage,       \* of each run, its progress
          model,       \* the model that it has got
          core,        \* the model that the upstream server validated for it
          result,      \* of each request, what the upstream server's result says
          answer,      \* of each request, what it was answered
          joined,      \* history: the model when each subscriber joined
          received     \* of each subscriber, the diagnostics it was sent

read    == <<model, core>>
clients == <<subscribed, options, mentioned, joined>>
vars    == <<applied, clients, uri, stage, read, result, answer, received>>

Models == SUBSET Edits
Stages == {"idle", "due", "getting", "validating", "customising", "done",
           "skipped", "failed", "refused", "lost", "direct", "returned"}

\* A URI may have slashes before the drive letter that are not part of it.
Spellings == {"plain", "slashed"}

\* What the core and the custom diagnostics are about, merged.
Diagnostics == [core : Models, custom : Models]

Init == /\ applied = {}
        /\ subscribed = {}
        /\ options = [s \in Subscribers |-> FALSE]
        /\ mentioned = [s \in Subscribers |-> FALSE]
        /\ uri = [r \in Runs |-> "plain"]
        /\ stage = [r \in Runs |-> "idle"]
        /\ model = [r \in Runs |-> {}]
        /\ core = [r \in Runs |-> {}]
        /\ result = [e \in Edits |-> "none"]
        /\ answer = [e \in Edits |-> "none"]
        /\ joined = [s \in Subscribers |-> {}]
        /\ received = [s \in Subscribers |-> {}]

Goto(r, st) == stage' = [stage EXCEPT ![r] = st]

-----------------------------------------------------------------------------
(* Answers.                                                                *)

\* handleError, and handleUriError: an error response.
AnswerError(e) == answer' = [answer EXCEPT ![e] = "error"]

\* relay: the result that the request has, in a response that says `success' even when
\* the result does not.
Relay(e) == answer' = [answer EXCEPT ![e] = result[e]]

\* A bug that performLiveValidation could have: its failure fails the request.
Rethrow(r) == IF r \in Edits THEN AnswerError(r) ELSE UNCHANGED answer

\* Its catch: the request does not suffer from a failed validation.
Recover(r) == IF r \in Edits THEN Relay(r) ELSE UNCHANGED answer

-----------------------------------------------------------------------------
(* Requests.                                                               *)

\* getNormalizedUri, which the routes have applied to the URI.
Clean(spelling) == "plain"

\* The URI that a request is handled with.  A plug-in gives its model service one.
Address(e) == \E spelling \in Spellings :
                 uri' = [uri EXCEPT ![e] = IF e \in Services THEN spelling ELSE Clean(spelling)]

\* The upstream server's part is done, with a result.
Reply(e, res) == /\ result' = [result EXCEPT ![e] = res]
                 /\ Address(e)
                 /\ Goto(e, "due")

\* The model URI or the body is not valid, or the upstream server answers with an
\* error: the request is answered without validation.
Refuse(e) == /\ stage[e] = "idle"
             /\ Goto(e, "refused")
             /\ AnswerError(e)
             /\ UNCHANGED <<applied, clients, uri, read, result, received>>

\* The upstream server makes the change; the node learns of it later.
Apply(e) == /\ stage[e] = "idle"
            /\ applied' = applied \cup {e}
            /\ Reply(e, "success")
            /\ UNCHANGED <<clients, read, answer, received>>

\* It changes nothing and says so: there is nothing to undo, say.  A transaction says
\* that it succeeded even when its edit failed (module TransactionContext).
ChangeNothing(e) == /\ stage[e] = "idle"
                    /\ \/ Reply(e, "failure")
                       \/ e \in Patches /\ Reply(e, "success")
                    /\ UNCHANGED <<applied, clients, read, answer, received>>

\* The model service's undo, redo and create, and a transaction of the plug-in's own:
\* the client asks the upstream server, and nobody else.
ApplyDirectly(e) == /\ stage[e] = "idle"
                    /\ e \in Services
                    /\ applied' = applied \cup {e}
                    /\ result' = [result EXCEPT ![e] = "success"]
                    /\ Goto(e, "direct")
                    /\ UNCHANGED <<clients, uri, read, answer, received>>

\* The plug-in gets the result.
ReturnResult(e) == /\ stage[e] = "direct"
                   /\ Goto(e, "returned")
                   /\ Relay(e)
                   /\ UNCHANGED <<applied, clients, uri, read, result, received>>

\* The upstream server's answer is lost.
LoseReply(e) == /\ stage[e] \in {"due", "direct"}
                /\ Goto(e, "lost")
                /\ AnswerError(e)
                /\ UNCHANGED <<applied, clients, uri, read, result, received>>

\* getValidationSubscribers: those who call the model what the request calls it.
ValidationSubscribers(e) == {s \in subscribed : options[s] /\ uri[s] = uri[e]}

\* performPatchValidation: what the edit service did not do is not validated, any other
\* request is; nor is there validation without subscribers now.
Validates(e) == /\ e \in Patches => result[e] = "success"
                /\ ValidationSubscribers(e) # {}

\* performLiveValidation, or the answer if there is nothing to validate.
PerformLiveValidation(e) ==
    /\ stage[e] = "due"
    /\ \/ Validates(e) /\ Goto(e, "getting") /\ UNCHANGED answer
       \/ ~Validates(e) /\ Goto(e, "skipped") /\ Relay(e)
    /\ UNCHANGED <<applied, clients, uri, read, result, received>>

-----------------------------------------------------------------------------
(* Subscriptions.                                                          *)

\* What the request for a subscription can say: the parameter is absent, or given more
\* than once; blank; or a text.
Parameters == {"absent", "blank", "yes", "no"}
Text(parameter) == parameter \notin {"absent", "blank"}

\* A bug that parseQuery could have: the option has the other default.
UnlessDeclined(parameter) == parameter # "no"

\* Whether the option is truthy.  Its typed value, if that is false, is overwritten with
\* the text of the parameter, whatever it says.
ParseQuery(parameter) == parameter = "yes" \/ Text(parameter)

\* A bug it could have: only the first subscriber is given a validation of its own.
InitialisesFirst(s, option) == Goto(s, IF option /\ subscribed = {} THEN "getting" ELSE "done")

\* The listener of `subscribed': initializeLiveValidation, if it has the option.
InitializeLiveValidation(s, option) == Goto(s, IF option THEN "getting" ELSE "done")

\* interceptSubscribeWS and addSubscription: the URI is checked, but registered as the
\* client has spelt it; then `subscribed' is fired.
Subscribe(s) == /\ stage[s] = "idle"
                /\ subscribed' = subscribed \cup {s}
                /\ \E parameter \in Parameters :
                      /\ options' = [options EXCEPT ![s] = ParseQuery(parameter)]
                      /\ mentioned' = [mentioned EXCEPT ![s] = Text(parameter)]
                      /\ InitializeLiveValidation(s, ParseQuery(parameter))
                /\ \E spelling \in Spellings : uri' = [uri EXCEPT ![s] = spelling]
                /\ joined' = [joined EXCEPT ![s] = applied]
                /\ UNCHANGED <<applied, read, result, answer, received>>

\* cleanupHandler.  What is sent to it from now on, nobody reads.
Unsubscribe(s) == /\ s \in subscribed
                  /\ subscribed' = subscribed \ {s}
                  /\ UNCHANGED <<applied, options, mentioned, joined, uri, stage, read,
                                 result, answer, received>>

-----------------------------------------------------------------------------
(* validate().                                                             *)

GetModel(r) == /\ stage[r] = "getting"
               /\ model' = [model EXCEPT ![r] = applied]
               /\ Goto(r, "validating")
               /\ UNCHANGED <<applied, clients, uri, core, result, answer, received>>

\* What a validation has read ends with it.
Forget(r) == /\ model' = [model EXCEPT ![r] = {}]
             /\ core' = [core EXCEPT ![r] = {}]

CoreValidation(r) == /\ stage[r] = "validating"
                     /\ core' = [core EXCEPT ![r] = applied]
                     /\ Goto(r, "customising")
                     /\ UNCHANGED <<applied, clients, uri, model, result, answer, received>>

\* A request to the upstream server fails, or a plug-in's validator does.  Both
\* callers catch this.
ValidationFails(r) == /\ stage[r] \in {"getting", "validating", "customising"}
                      /\ Goto(r, "failed")
                      /\ Recover(r)
                      /\ Forget(r)
                      /\ UNCHANGED <<applied, clients, uri, result, received>>

\* A bug it could have: the custom validators' diagnostics are not merged.
CoreOnly(r) == [core |-> core[r]]

\* Diagnostic.merge of the two.
Result(r) == [core |-> core[r], custom |-> model[r]]

Send(r, to) == received' = [s \in Subscribers |-> IF s \in to THEN received[s] \cup {Result(r)}
                                                              ELSE received[s]]

\* A bug it could have: a subscriber that was sent diagnostics is passed over.
BroadcastsToFirst(e) == Send(e, {s \in ValidationSubscribers(e) : received[s] = {}})

\* broadcastValidation: to the subscribers that there are now.
BroadcastValidation(e) == Send(e, ValidationSubscribers(e))

\* The custom validators are done: broadcast, and answer the request.
FinishEdit(e) == /\ stage[e] = "customising"
                 /\ BroadcastValidation(e)
                 /\ Goto(e, "done")
                 /\ Relay(e)
                 /\ Forget(e)
                 /\ UNCHANGED <<applied, clients, uri, result>>

\* They are done: send the diagnostics to the new subscriber.
FinishInitial(s) == /\ stage[s] = "customising"
                    /\ Send(s, {s} \cap subscribed)
                    /\ Goto(s, "done")
                    /\ Forget(s)
                    /\ UNCHANGED <<applied, clients, uri, result, answer>>

-----------------------------------------------------------------------------
Next == \/ \E e \in Edits : \/ Refuse(e) \/ Apply(e) \/ ChangeNothing(e) \/ LoseReply(e)
                            \/ ApplyDirectly(e) \/ ReturnResult(e)
                            \/ PerformLiveValidation(e) \/ FinishEdit(e)
        \/ \E s \in Subscribers : Subscribe(s) \/ Unsubscribe(s) \/ FinishInitial(s)
        \/ \E r \in Runs : GetModel(r) \/ CoreValidation(r) \/ ValidationFails(r)

Spec == Init /\ [][Next]_vars
-----------------------------------------------------------------------------
(* Properties.                                                             *)

\* The values of the variables; all diagnostics have both their parts.
TypeOK == /\ applied \in Models
          /\ subscribed \subseteq Subscribers
          /\ options \in [Subscribers -> BOOLEAN]
          /\ mentioned \in [Subscribers -> BOOLEAN]
          /\ uri \in [Runs -> Spellings]
          /\ stage \in [Runs -> Stages]
          /\ model \in [Runs -> Models]
          /\ core \in [Runs -> Models]
          /\ result \in [Edits -> {"none", "success", "failure"}]
          /\ answer \in [Edits -> {"none", "success", "failure", "error"}]
          /\ joined \in [Subscribers -> Models]
          /\ received \in [Subscribers -> SUBSET Diagnostics]

Covers(d, ms) == ms \subseteq d.core \cap d.custom

\* When a request that changed the model is answered, unless its validation failed,
\* every live validation subscriber that was there before the change, and calls the
\* model as the request does, has been sent diagnostics, core and custom, that take the
\* change into account -- whatever other changes and validations were under way.  To one
\* that calls it otherwise nothing is promised: the subscription keeps the URI as the
\* client wrote it, which the routes' never equals if it has those slashes.
InformedBeforeAnswer ==
    \A e \in Edits : \A s \in ValidationSubscribers(e) :
        /\ e \in applied \ joined[s]
        /\ answer[e] = "success"
        /\ stage[e] \notin {"failed", "returned"}
        => \E d \in received[s] : Covers(d, {e})

\* What plug-ins have changed without validation.
Direct == {e \in Edits : stage[e] \in {"direct", "returned"}}

\* The changes that a subscriber hears of: requests that call the model as it does.
Target(s) == {e \in applied \ Direct : s \in ValidationSubscribers(e)}

\* When all is quiet, no validation failed and no reply of the upstream server was lost
\* (then nobody validates, though there may be a change), every live validation
\* subscriber has been sent diagnostics of all changes made by requests that call the
\* model as it does, however its subscription and the changes interleaved.  (They need
\* not be the last it was sent.)  A subscription with those slashes hears of no route's
\* changes after its own first validation, and the others of no plug-in's that writes
\* them.
NoMissedUpdate ==
    (\A r \in Runs : stage[r] \in {"idle", "done", "skipped", "refused", "returned"})
    => \A s \in subscribed : options[s] => \E d \in received[s] : Covers(d, Target(s))

\* A subscriber whose request has no text for the option (parseQuery) is sent no
\* diagnostics, whoever else is.  (One that says `no' is, in spite of it.)
OnlyTheInvited == \A s \in Subscribers : received[s] # {} => mentioned[s]

\* A change is never denied: a request that made one is not answered with an error or
\* with an unsuccessful result, whatever became of its validation, unless the upstream
\* server's reply was lost.  (A success does not say that there was a change.)
ChangesAreNotDenied ==
    \A e \in applied : answer[e] \in {"failure", "error"} => stage[e] = "lost"
=============================================================================
