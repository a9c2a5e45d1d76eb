------------------------ MODULE LiveValidationProofs ------------------------
(***************************************************************************)
(* The safety properties of LiveValidation for any number of requests and  *)
(* of subscribers.                                                         *)
(*                                                                         *)
(* None of them is inductive.  Knows relates what a run has read, and the  *)
(* result that it has, to the edit that it follows; Informed adds what a   *)
(* request that skipped validation relies on: all subscribers that call    *)
(* the model as it does came after its edit.  For NoMissedUpdate, every    *)
(* subscriber that has no diagnostics of the changes it is to hear of has  *)
(* a run to wait for, which will have (Awaited).                           *)
(***************************************************************************)
EXTENDS LiveValidation, TLAPS

Unanswered == {"idle", "due", "getting", "validating", "customising", "direct"}

\* A request changes the model as it leaves idle, or never, and has the result that says
\* so; it is answered as it ends, and what its run has read has its own change.
Knows ==
    \A e \in Edits :
        /\ stage[e] = "idle" => e \notin applied
        /\ stage[e] \in Unanswered => answer[e] = "none"
        /\ stage[e] \in {"refused", "lost"} => answer[e] = "error"
        /\ e \in applied => result[e] = "success"
        /\ e \in applied /\ stage[e] \in {"validating", "customising"} => e \in model[e]
        /\ e \in applied /\ stage[e] = "customising" => e \in core[e]

\* A subscriber that is there saw a change as it joined, or is sent it when the
\* request's validation ends.
Informed ==
    \A e \in Edits : \A s \in ValidationSubscribers(e) :
        e \in applied \ joined[s]
        => /\ stage[e] # "skipped"
           /\ stage[e] = "done" => \E d \in received[s] : Covers(d, {e})

\* The run will end with diagnostics for the subscriber, of all the changes it is to hear
\* of, or fail.
Promised(r, s) ==
    /\ r = s \/ (r \in Edits /\ uri[r] = uri[s])
    /\ \/ stage[r] = "due" /\ (r \in Patches => result[r] = "success")
       \/ stage[r] = "getting"
       \/ stage[r] = "validating" /\ Target(s) \subseteq model[r]
       \/ stage[r] = "customising" /\ Target(s) \subseteq model[r] /\ Target(s) \subseteq core[r]

\* Unless a run failed or a reply was lost, a subscriber has diagnostics of the changes
\* it is to hear of, or is going to have them.
Awaited ==
    (\A r \in Runs : stage[r] \notin {"failed", "lost"})
    => \A s \in subscribed : options[s] =>
          \/ \E d \in received[s] : Covers(d, Target(s))
          \/ \E r \in Runs : Promised(r, s)

\* A subscriber that is there has made its subscription; one that is sent diagnostics,
\* or waits for its first, has the option, and so must have mentioned it.
Subscribed ==
    /\ \A s \in subscribed : stage[s] # "idle"
    /\ \A s \in Subscribers :
          /\ stage[s] \in {"getting", "validating", "customising"} => options[s]
          /\ options[s] => mentioned[s]
          /\ stage[s] = "idle" => received[s] = {}

Inv == /\ TypeOK /\ Subscribed /\ Knows /\ Informed /\ Awaited
       /\ ChangesAreNotDenied /\ OnlyTheInvited

EditStep(e) == \/ Refuse(e) \/ Apply(e) \/ ChangeNothing(e) \/ LoseReply(e)
               \/ ApplyDirectly(e) \/ ReturnResult(e)
               \/ PerformLiveValidation(e) \/ FinishEdit(e)
SubscriberStep(s) == Subscribe(s) \/ Unsubscribe(s) \/ FinishInitial(s)
RunStep(r) == GetModel(r) \/ CoreValidation(r) \/ ValidationFails(r)

-----------------------------------------------------------------------------
\* The strengthened invariant holds initially.
LEMMA InitInv == Init => Inv
<1> SUFFICES ASSUME Init
             PROVE  Inv
  OBVIOUS
<1>1. TypeOK
  BY DEF Init, TypeOK, Models, Stages, Spellings
<1>2. \A e \in Edits : stage[e] = "idle" /\ answer[e] = "none"
  BY DEF Init, Runs
<1>3. Knows /\ ChangesAreNotDenied
  BY <1>2 DEF Init, Knows, ChangesAreNotDenied, Unanswered, Models
<1>4. Subscribed /\ Informed /\ Awaited /\ OnlyTheInvited
  BY DEF Init, Runs, Subscribed, Informed, Awaited, OnlyTheInvited, ValidationSubscribers
<1>. QED
  BY <1>1, <1>3, <1>4 DEF Inv

\* A result is about what the run has read, and what was sent stays sent.
LEMMA SendAdds ==
    ASSUME TypeOK, NEW r \in Runs, NEW to, Send(r, to)
    PROVE  /\ received' \in [Subscribers -> SUBSET Diagnostics]
           /\ \A s \in Subscribers : received[s] \subseteq received'[s]
           /\ \A s \in Subscribers \cap to : Result(r) \in received'[s]
           /\ \A s \in Subscribers \ to : received'[s] = received[s]
<1>1. Result(r) \in Diagnostics
  BY DEF TypeOK, Result, Diagnostics
<1>. QED
  BY <1>1 DEF TypeOK, Send

\* The result of a run covers what both its parts have.
LEMMA ResultCovers ==
    ASSUME NEW r, NEW ms, ms \subseteq core[r], ms \subseteq model[r]
    PROVE  Covers(Result(r), ms)
  BY DEF Covers, Result

\* relay reports the result.
LEMMA RelayAnswers ==
    ASSUME TypeOK, NEW e \in Edits, Relay(e)
    PROVE  /\ answer' \in [Edits -> {"none", "success", "failure", "error"}]
           /\ answer'[e] = result[e]
           /\ \A f \in Edits \ {e} : answer'[f] = answer[f]
  BY DEF TypeOK, Relay

\* A run that ends forgets what it has read, no other does.
LEMMA ForgetsOwn ==
    ASSUME TypeOK, NEW r \in Runs, Forget(r)
    PROVE  /\ model' \in [Runs -> Models] /\ core' \in [Runs -> Models]
           /\ \A q \in Runs \ {r} : model'[q] = model[q] /\ core'[q] = core[q]
  BY DEF TypeOK, Forget, Models

\* A subscriber goes on to have, or to await, diagnostics if nothing more must be covered
\* and no run breaks its promise.
LEMMA AwaitedKept ==
    ASSUME Awaited, UNCHANGED <<subscribed, options>>, subscribed \subseteq Subscribers,
           \A s \in subscribed : Target(s)' \subseteq Target(s),
           \A s \in Subscribers : received[s] \subseteq received'[s],
           \A r \in Runs : stage[r] \in {"failed", "lost"} => stage'[r] = stage[r],
           \A r \in Runs, s \in subscribed : options[s] /\ Promised(r, s) => Promised(r, s)'
    PROVE  Awaited'
<1> SUFFICES ASSUME \A r \in Runs : stage'[r] \notin {"failed", "lost"},
                    NEW s \in subscribed, options[s]
             PROVE  \/ \E d \in received'[s] : Covers(d, Target(s)')
                    \/ \E r \in Runs : Promised(r, s)'
  BY DEF Awaited
<1>1. \A r \in Runs : stage[r] \notin {"failed", "lost"}
  OBVIOUS
<1>2. \/ \E d \in received[s] : Covers(d, Target(s))
      \/ \E r \in Runs : Promised(r, s)
  BY <1>1 DEF Awaited
<1>3. CASE \E d \in received[s] : Covers(d, Target(s))
  BY <1>3 DEF Covers
<1>4. CASE \E r \in Runs : Promised(r, s)
  BY <1>4
<1>. QED
  BY <1>2, <1>3, <1>4

\* What a subscriber is to hear of, while URIs and subscriptions stay.
LEMMA TargetKept ==
    ASSUME UNCHANGED <<applied, uri, subscribed, options>>, Direct' = Direct
    PROVE  \A s : Target(s)' = Target(s)
  BY DEF Target, ValidationSubscribers

\* The first step of a request breaks no promise, if it makes one to those who are to
\* hear of its change.
LEMMA StartKeepsAwaited ==
    ASSUME Inv, NEW e \in Edits, stage[e] = "idle", NEW st \in Stages \ {"failed", "lost"},
           Goto(e, st), UNCHANGED <<subscribed, options, model, core, received>>,
           applied' \subseteq applied \cup {e},
           \A f \in Edits \ {e} : result'[f] = result[f],
           \A r \in Runs \ {e} : uri'[r] = uri[r],
           \A s \in subscribed : e \in Target(s)' => Promised(e, s)'
    PROVE  Awaited'
<1>0. Edits \cap Subscribers = {} /\ Edits \subseteq Runs /\ subscribed \subseteq Runs \ {e}
  BY RunsAssumption DEF Runs, Inv, TypeOK
<1>1. stage'[e] = st /\ \A r \in Runs \ {e} : stage'[r] = stage[r]
  BY <1>0 DEF Inv, TypeOK, Goto
<1> SUFFICES ASSUME \A r \in Runs : stage'[r] \notin {"failed", "lost"},
                    NEW s \in subscribed, options[s], e \notin Target(s)'
             PROVE  \/ \E d \in received[s] : Covers(d, Target(s)')
                    \/ \E r \in Runs : Promised(r, s)'
  BY <1>0 DEF Awaited
<1>2. \A f \in Edits \ {e} : f \in Direct' <=> f \in Direct
  BY <1>0, <1>1 DEF Direct
<1>3. Target(s)' \subseteq Target(s)
  BY <1>0, <1>2 DEF Target, ValidationSubscribers, Inv, TypeOK, Direct, Models
<1>4. ASSUME NEW r \in Runs, Promised(r, s)
      PROVE  Promised(r, s)'
  <2>1. r # e
    BY <1>4 DEF Promised
  <2>2. uri'[s] = uri[s] /\ uri'[r] = uri[r] /\ stage'[r] = stage[r]
    BY <1>0, <1>1, <2>1
  <2>3. (r \in Patches => result[r] = "success") => (r \in Patches => result'[r] = "success")
    BY <2>1, RunsAssumption
  <2>. QED
    BY <1>3, <1>4, <2>2, <2>3 DEF Promised
<1>5. \A r \in Runs : stage[r] \notin {"failed", "lost"}
  BY <1>1
<1>6. \/ \E d \in received[s] : Covers(d, Target(s))
      \/ \E r \in Runs : Promised(r, s)
  BY <1>5 DEF Awaited, Inv
<1>. QED
  BY <1>3, <1>4, <1>6 DEF Covers

\* The result of a run that ends covers what it has promised.
LEMMA PromiseCovers ==
    ASSUME NEW r, NEW s, stage[r] = "customising", Promised(r, s)
    PROVE  Covers(Result(r), Target(s))
  BY ResultCovers DEF Promised

-----------------------------------------------------------------------------
\* Every step of a request preserves the strengthened invariant.
LEMMA EditInv == ASSUME Inv, NEW e \in Edits, EditStep(e)
                 PROVE  Inv'
<1>0. /\ Edits \cap Subscribers = {} /\ Edits \subseteq Runs /\ Subscribers \subseteq Runs
      /\ Patches \subseteq Edits
  BY RunsAssumption DEF Runs
<1> USE <1>0 DEF Inv, TypeOK, Goto, read, clients
<1>1. CASE Refuse(e)
  <2>1. TypeOK' /\ Subscribed' /\ OnlyTheInvited'
    BY <1>1 DEF Refuse, AnswerError, Subscribed, OnlyTheInvited, Stages
  <2>2. Knows' /\ ChangesAreNotDenied'
    BY <1>1 DEF Refuse, AnswerError, Knows, ChangesAreNotDenied, Unanswered, Models
  <2>3. Informed'
    BY <1>1 DEF Refuse, Informed, ValidationSubscribers, Knows
  <2>4. Awaited'
    <3>1. \A s \in subscribed : e \notin Target(s)'
      BY <1>1 DEF Refuse, Knows, Target
    <3>. QED
      BY <1>1, <3>1, StartKeepsAwaited DEF Refuse, Stages
  <2>. QED
    BY <2>1, <2>2, <2>3, <2>4
<1>2. CASE Apply(e)
  <2>0. /\ uri' \in [Runs -> Spellings] /\ \A r \in Runs \ {e} : uri'[r] = uri[r]
        /\ result' = [result EXCEPT ![e] = "success"] /\ stage' = [stage EXCEPT ![e] = "due"]
    BY <1>2 DEF Apply, Reply, Address, Clean, Spellings
  <2>1. TypeOK' /\ Subscribed' /\ OnlyTheInvited'
    BY <1>2, <2>0 DEF Apply, Subscribed, OnlyTheInvited, Stages, Models
  <2>2. Knows' /\ ChangesAreNotDenied'
    BY <1>2, <2>0 DEF Apply, Knows, ChangesAreNotDenied, Unanswered, Models
  <2>3. Informed'
    BY <1>2, <2>0 DEF Apply, Informed, ValidationSubscribers
  <2>4. Awaited'
    <3>1. \A s \in subscribed : e \in Target(s)' => Promised(e, s)'
      BY <1>2, <2>0 DEF Apply, Target, ValidationSubscribers, Promised
    <3>. QED
      BY <1>2, <2>0, <3>1, StartKeepsAwaited DEF Apply, Stages
  <2>. QED
    BY <2>1, <2>2, <2>3, <2>4
<1>3. CASE ChangeNothing(e)
  <2>0. /\ uri' \in [Runs -> Spellings] /\ \A r \in Runs \ {e} : uri'[r] = uri[r]
        /\ result' \in [Edits -> {"none", "success", "failure"}]
        /\ \A f \in Edits \ {e} : result'[f] = result[f]
        /\ stage' = [stage EXCEPT ![e] = "due"]
    BY <1>3 DEF ChangeNothing, Reply, Address, Clean, Spellings
  <2>1. TypeOK' /\ Subscribed' /\ OnlyTheInvited'
    BY <1>3, <2>0 DEF ChangeNothing, Subscribed, OnlyTheInvited, Stages
  <2>2. Knows' /\ ChangesAreNotDenied'
    BY <1>3, <2>0 DEF ChangeNothing, Knows, ChangesAreNotDenied, Unanswered, Models
  <2>3. Informed'
    BY <1>3, <2>0 DEF ChangeNothing, Informed, ValidationSubscribers
  <2>4. Awaited'
    <3>1. \A s \in subscribed : e \notin Target(s)'
      BY <1>3 DEF ChangeNothing, Knows, Target
    <3>. QED
      BY <1>3, <2>0, <3>1, StartKeepsAwaited DEF ChangeNothing, Stages
  <2>. QED
    BY <2>1, <2>2, <2>3, <2>4
<1>4. CASE LoseReply(e)
  <2>1. TypeOK' /\ Subscribed' /\ OnlyTheInvited'
    BY <1>4 DEF LoseReply, AnswerError, Subscribed, OnlyTheInvited, Stages
  <2>2. Knows' /\ ChangesAreNotDenied'
    BY <1>4 DEF LoseReply, AnswerError, Knows, ChangesAreNotDenied, Unanswered, Models
  <2>3. Informed'
    BY <1>4 DEF LoseReply, Informed, ValidationSubscribers
  <2>4. Awaited'
    BY <1>4 DEF LoseReply, Awaited
  <2>. QED
    BY <2>1, <2>2, <2>3, <2>4
<1>5. CASE PerformLiveValidation(e) /\ ~Validates(e)
  <2>1. Relay(e) /\ stage' = [stage EXCEPT ![e] = "skipped"]
    BY <1>5 DEF PerformLiveValidation
  <2>2. TypeOK' /\ Subscribed' /\ OnlyTheInvited'
    BY <1>5, <2>1, RelayAnswers DEF PerformLiveValidation, Subscribed, OnlyTheInvited, Stages
  <2>3. Knows' /\ ChangesAreNotDenied'
    BY <1>5, <2>1, RelayAnswers
    DEF PerformLiveValidation, Knows, ChangesAreNotDenied, Unanswered, Models
  <2>4. Informed'
    <3>1. e \in applied => ValidationSubscribers(e) = {}
      BY <1>5 DEF Validates, Knows
    <3>. QED
      BY <1>5, <2>1, <3>1 DEF PerformLiveValidation, Informed, ValidationSubscribers
  <2>5. Awaited'
    <3>1. \A s : Target(s)' = Target(s)
      <4>1. Direct' = Direct
        BY <1>5, <2>1 DEF PerformLiveValidation, Direct
      <4>. QED
        BY <1>5, <4>1, TargetKept DEF PerformLiveValidation
    <3>2. \A s \in subscribed : options[s] => ~Promised(e, s)
      BY <1>5 DEF PerformLiveValidation, Validates, Promised, ValidationSubscribers
    <3>3. \A r \in Runs, s \in subscribed : options[s] /\ Promised(r, s) => Promised(r, s)'
      BY <1>5, <2>1, <3>1, <3>2 DEF PerformLiveValidation, Promised
    <3>. QED
      BY <1>5, <2>1, <3>1, <3>3, AwaitedKept DEF PerformLiveValidation
  <2>. QED
    BY <2>2, <2>3, <2>4, <2>5
<1>6. CASE PerformLiveValidation(e) /\ Validates(e)
  <2>0. stage[e] = "due" /\ stage' = [stage EXCEPT ![e] = "getting"]
    BY <1>6 DEF PerformLiveValidation
  <2>1. TypeOK' /\ Subscribed' /\ OnlyTheInvited'
    BY <1>6, <2>0 DEF PerformLiveValidation, Subscribed, OnlyTheInvited, Stages
  <2>2. Knows' /\ ChangesAreNotDenied'
    BY <1>6, <2>0 DEF PerformLiveValidation, Knows, ChangesAreNotDenied, Unanswered, Models
  <2>3. Informed'
    BY <1>6, <2>0 DEF PerformLiveValidation, Informed, ValidationSubscribers
  <2>4. Awaited'
    <3>1. \A s : Target(s)' = Target(s)
      <4>1. Direct' = Direct
        BY <2>0 DEF Direct
      <4>. QED
        BY <1>6, <4>1, TargetKept DEF PerformLiveValidation
    <3>2. \A r \in Runs, s \in subscribed : Promised(r, s) => Promised(r, s)'
      BY <1>6, <2>0, <3>1 DEF PerformLiveValidation, Promised
    <3>. QED
      BY <1>6, <2>0, <3>1, <3>2, AwaitedKept DEF PerformLiveValidation
  <2>. QED
    BY <2>1, <2>2, <2>3, <2>4
<1>7. CASE FinishEdit(e)
  <2>0. Relay(e) /\ Forget(e) /\ stage[e] = "customising" /\ stage' = [stage EXCEPT ![e] = "done"]
    BY <1>7 DEF FinishEdit
  <2>1. /\ received' \in [Subscribers -> SUBSET Diagnostics]
        /\ \A s \in Subscribers : received[s] \subseteq received'[s]
        /\ \A s \in ValidationSubscribers(e) : Result(e) \in received'[s]
        /\ \A s \in Subscribers \ ValidationSubscribers(e) : received'[s] = received[s]
    BY <1>7, SendAdds DEF FinishEdit, BroadcastValidation, ValidationSubscribers
  <2>2. TypeOK'
    BY <1>7, <2>0, <2>1, RelayAnswers, ForgetsOwn DEF FinishEdit, Stages
  <2>3. Subscribed' /\ OnlyTheInvited'
    BY <1>7, <2>0, <2>1 DEF FinishEdit, Subscribed, OnlyTheInvited, ValidationSubscribers
  <2>4. Knows' /\ ChangesAreNotDenied'
    BY <1>7, <2>0, RelayAnswers, ForgetsOwn
    DEF FinishEdit, Knows, ChangesAreNotDenied, Unanswered, Models
  <2>5. Informed'
    <3>1. e \in applied => Covers(Result(e), {e})
      BY <2>0, ResultCovers DEF Knows
    <3>. QED
      BY <1>7, <2>0, <2>1, <3>1 DEF FinishEdit, Informed, ValidationSubscribers
  <2>6. Awaited'
    <3>1. \A s : Target(s)' = Target(s)
      <4>1. Direct' = Direct
        BY <2>0 DEF Direct
      <4>. QED
        BY <1>7, <4>1, TargetKept DEF FinishEdit
    <3>2. ASSUME NEW s \in subscribed, options[s], Promised(e, s)
          PROVE  \E d \in received'[s] : Covers(d, Target(s)')
      <4>1. s \in ValidationSubscribers(e)
        BY <3>2 DEF Promised, ValidationSubscribers
      <4>. QED
        BY <2>0, <2>1, <3>1, <3>2, <4>1, PromiseCovers
    <3>3. \A r \in Runs \ {e} : \A s : Promised(r, s) => Promised(r, s)'
      BY <1>7, <2>0, <3>1, ForgetsOwn DEF FinishEdit, Promised
    <3>. QED
      BY <1>7, <2>0, <2>1, <3>1, <3>2, <3>3 DEF FinishEdit, Awaited
  <2>. QED
    BY <2>2, <2>3, <2>4, <2>5, <2>6
<1>8. CASE ApplyDirectly(e)
  <2>1. TypeOK' /\ Subscribed' /\ OnlyTheInvited'
    BY <1>8 DEF ApplyDirectly, Subscribed, OnlyTheInvited, Stages, Models
  <2>2. Knows' /\ ChangesAreNotDenied'
    BY <1>8 DEF ApplyDirectly, Knows, ChangesAreNotDenied, Unanswered, Models
  <2>3. Informed'
    BY <1>8 DEF ApplyDirectly, Informed, ValidationSubscribers
  <2>4. Awaited'
    <3>1. \A s \in subscribed : e \notin Target(s)'
      BY <1>8 DEF ApplyDirectly, Target, Direct
    <3>. QED
      BY <1>8, <3>1, StartKeepsAwaited DEF ApplyDirectly, Stages
  <2>. QED
    BY <2>1, <2>2, <2>3, <2>4
<1>9. CASE ReturnResult(e)
  <2>0. stage[e] = "direct" /\ stage' = [stage EXCEPT ![e] = "returned"]
    BY <1>9 DEF ReturnResult
  <2>1. TypeOK' /\ Subscribed' /\ OnlyTheInvited'
    BY <1>9, <2>0, RelayAnswers DEF ReturnResult, Subscribed, OnlyTheInvited, Stages
  <2>2. Knows' /\ ChangesAreNotDenied'
    BY <1>9, <2>0, RelayAnswers DEF ReturnResult, Knows, ChangesAreNotDenied, Unanswered, Models
  <2>3. Informed'
    BY <1>9, <2>0 DEF ReturnResult, Informed, ValidationSubscribers
  <2>4. Awaited'
    <3>1. \A s : Target(s)' = Target(s)
      <4>1. Direct' = Direct
        BY <2>0 DEF Direct
      <4>. QED
        BY <1>9, <4>1, TargetKept DEF ReturnResult
    <3>2. \A r \in Runs, s \in subscribed : Promised(r, s) => Promised(r, s)'
      BY <1>9, <2>0, <3>1 DEF ReturnResult, Promised
    <3>. QED
      BY <1>9, <2>0, <3>1, <3>2, AwaitedKept DEF ReturnResult
  <2>. QED
    BY <2>1, <2>2, <2>3, <2>4
<1>. QED
  BY <1>1, <1>2, <1>3, <1>4, <1>5, <1>6, <1>7, <1>8, <1>9 DEF EditStep

\* Every step of a subscriber does.
LEMMA SubscriberInv == ASSUME Inv, NEW s \in Subscribers, SubscriberStep(s)
                       PROVE  Inv'
<1>0. Edits \cap Subscribers = {} /\ Edits \subseteq Runs /\ Subscribers \subseteq Runs
  BY RunsAssumption DEF Runs
<1> USE <1>0 DEF Inv, TypeOK, Goto, read, clients
<1>1. CASE Subscribe(s)
  <2>0. PICK parameter \in Parameters :
           /\ options' = [options EXCEPT ![s] = ParseQuery(parameter)]
           /\ mentioned' = [mentioned EXCEPT ![s] = Text(parameter)]
           /\ stage' = [stage EXCEPT ![s] = IF ParseQuery(parameter) THEN "getting" ELSE "done"]
    BY <1>1 DEF Subscribe, InitializeLiveValidation
  <2>1. ParseQuery(parameter) \in BOOLEAN /\ (ParseQuery(parameter) <=> Text(parameter))
        /\ Text(parameter) \in BOOLEAN
    BY <2>0 DEF ParseQuery, Text, Parameters
  <2>2. stage[s] = "idle" /\ s \notin subscribed
    BY <1>1 DEF Subscribe, Subscribed
  <2>3. uri' \in [Runs -> Spellings] /\ \A r \in Runs \ {s} : uri'[r] = uri[r]
    BY <1>1 DEF Subscribe
  <2>4. TypeOK'
    BY <1>1, <2>0, <2>1, <2>3 DEF Subscribe, Stages, Models
  <2>5. Subscribed' /\ OnlyTheInvited'
    BY <1>1, <2>0, <2>1 DEF Subscribe, Subscribed, OnlyTheInvited
  <2>6. Knows' /\ ChangesAreNotDenied'
    BY <1>1, <2>0 DEF Subscribe, Knows, ChangesAreNotDenied
  <2>7. Informed'
    BY <1>1, <2>0, <2>2, <2>3 DEF Subscribe, Informed, ValidationSubscribers
  <2>8. Awaited'
    <3>1. \A t \in subscribed : Target(t)' = Target(t)
      BY <1>1, <2>0, <2>2, <2>3 DEF Subscribe, Target, Direct, ValidationSubscribers, Models
    <3>2. \A q \in Runs, t \in subscribed : Promised(q, t) => Promised(q, t)'
      BY <1>1, <2>0, <2>2, <2>3, <3>1 DEF Subscribe, Promised
    <3>3. options'[s] => Promised(s, s)'
      BY <2>0, <2>1 DEF Promised
    <3>4. \A q \in Runs : stage[q] \in {"failed", "lost"} => stage'[q] = stage[q]
      BY <2>0, <2>2
    <3> SUFFICES ASSUME \A q \in Runs : stage'[q] \notin {"failed", "lost"},
                        NEW t \in subscribed', options'[t], t # s
                 PROVE  \/ \E d \in received'[t] : Covers(d, Target(t)')
                        \/ \E q \in Runs : Promised(q, t)'
      BY <3>3 DEF Awaited
    <3>5. t \in subscribed /\ options[t]
      BY <1>1, <2>0 DEF Subscribe
    <3>6. \/ \E d \in received[t] : Covers(d, Target(t))
          \/ \E q \in Runs : Promised(q, t)
      BY <3>4, <3>5 DEF Awaited
    <3>. QED
      BY <1>1, <3>1, <3>2, <3>5, <3>6 DEF Subscribe
  <2>. QED
    BY <2>4, <2>5, <2>6, <2>7, <2>8
<1>2. CASE Unsubscribe(s)
  <2>1. TypeOK' /\ Subscribed' /\ OnlyTheInvited'
    BY <1>2 DEF Unsubscribe, Subscribed, OnlyTheInvited
  <2>2. Knows' /\ ChangesAreNotDenied'
    BY <1>2 DEF Unsubscribe, Knows, ChangesAreNotDenied
  <2>3. Informed'
    BY <1>2 DEF Unsubscribe, Informed, ValidationSubscribers
  <2>4. Awaited'
    <3>1. \A t \in subscribed' : Target(t)' = Target(t)
      BY <1>2 DEF Unsubscribe, Target, Direct, ValidationSubscribers
    <3>2. \A q \in Runs, t \in subscribed' : Promised(q, t) => Promised(q, t)'
      BY <1>2, <3>1 DEF Unsubscribe, Promised
    <3>. QED
      BY <1>2, <3>1, <3>2 DEF Unsubscribe, Awaited
  <2>. QED
    BY <2>1, <2>2, <2>3, <2>4
<1>3. CASE FinishInitial(s)
  <2>0. Forget(s) /\ stage[s] = "customising" /\ stage' = [stage EXCEPT ![s] = "done"]
    BY <1>3 DEF FinishInitial
  <2>1. /\ received' \in [Subscribers -> SUBSET Diagnostics]
        /\ \A t \in Subscribers : received[t] \subseteq received'[t]
        /\ s \in subscribed => Result(s) \in received'[s]
        /\ \A t \in Subscribers \ {s} : received'[t] = received[t]
    BY <1>3, SendAdds DEF FinishInitial
  <2>2. TypeOK'
    BY <1>3, <2>0, <2>1, ForgetsOwn DEF FinishInitial, Stages
  <2>3. Subscribed' /\ OnlyTheInvited'
    BY <1>3, <2>0, <2>1 DEF FinishInitial, Subscribed, OnlyTheInvited
  <2>4. Knows' /\ ChangesAreNotDenied'
    BY <1>3, <2>0, ForgetsOwn DEF FinishInitial, Knows, ChangesAreNotDenied
  <2>5. Informed'
    BY <1>3, <2>0, <2>1 DEF FinishInitial, Informed, ValidationSubscribers
  <2>6. Awaited'
    <3>1. \A t : Target(t)' = Target(t)
      <4>1. Direct' = Direct
        BY <2>0 DEF Direct
      <4>. QED
        BY <1>3, <4>1, TargetKept DEF FinishInitial
    <3>2. \A t : Promised(s, t) => t = s
      BY DEF Promised
    <3>3. s \in subscribed /\ Promised(s, s) => \E d \in received'[s] : Covers(d, Target(s)')
      BY <2>0, <2>1, <3>1, PromiseCovers
    <3>4. \A r \in Runs \ {s} : \A t : Promised(r, t) => Promised(r, t)'
      BY <1>3, <2>0, <3>1, ForgetsOwn DEF FinishInitial, Promised
    <3>. QED
      BY <1>3, <2>0, <2>1, <3>1, <3>2, <3>3, <3>4 DEF FinishInitial, Awaited
  <2>. QED
    BY <2>2, <2>3, <2>4, <2>5, <2>6
<1>. QED
  BY <1>1, <1>2, <1>3 DEF SubscriberStep

\* Every step of a validation does.
LEMMA RunInv == ASSUME Inv, NEW r \in Runs, RunStep(r)
                PROVE  Inv'
<1>0. Edits \cap Subscribers = {} /\ Edits \subseteq Runs /\ Subscribers \subseteq Runs
  BY RunsAssumption DEF Runs
<1> USE <1>0 DEF Inv, TypeOK, Goto, clients
<1>1. CASE GetModel(r)
  <2>1. TypeOK' /\ Subscribed' /\ OnlyTheInvited'
    BY <1>1 DEF GetModel, Subscribed, OnlyTheInvited, Stages
  <2>2. Knows' /\ ChangesAreNotDenied'
    BY <1>1 DEF GetModel, Knows, ChangesAreNotDenied, Unanswered, Models
  <2>3. Informed'
    BY <1>1 DEF GetModel, Informed, ValidationSubscribers
  <2>4. Awaited'
    <3>1. \A s : Target(s)' = Target(s)
      <4>1. Direct' = Direct
        BY <1>1 DEF GetModel, Direct
      <4>. QED
        BY <1>1, <4>1, TargetKept DEF GetModel
    <3>2. \A s : Target(s) \subseteq applied
      BY DEF Target
    <3>3. \A q \in Runs, s \in subscribed : Promised(q, s) => Promised(q, s)'
      BY <1>1, <3>1, <3>2 DEF GetModel, Promised
    <3>. QED
      BY <1>1, <3>1, <3>3, AwaitedKept DEF GetModel
  <2>. QED
    BY <2>1, <2>2, <2>3, <2>4
<1>2. CASE CoreValidation(r)
  <2>1. TypeOK' /\ Subscribed' /\ OnlyTheInvited'
    BY <1>2 DEF CoreValidation, Subscribed, OnlyTheInvited, Stages
  <2>2. Knows' /\ ChangesAreNotDenied'
    BY <1>2 DEF CoreValidation, Knows, ChangesAreNotDenied, Unanswered, Models
  <2>3. Informed'
    BY <1>2 DEF CoreValidation, Informed, ValidationSubscribers
  <2>4. Awaited'
    <3>1. \A s : Target(s)' = Target(s)
      <4>1. Direct' = Direct
        BY <1>2 DEF CoreValidation, Direct
      <4>. QED
        BY <1>2, <4>1, TargetKept DEF CoreValidation
    <3>2. \A s : Target(s) \subseteq applied
      BY DEF Target
    <3>3. \A q \in Runs, s \in subscribed : Promised(q, s) => Promised(q, s)'
      BY <1>2, <3>1, <3>2 DEF CoreValidation, Promised
    <3>. QED
      BY <1>2, <3>1, <3>3, AwaitedKept DEF CoreValidation
  <2>. QED
    BY <2>1, <2>2, <2>3, <2>4
<1>3. CASE ValidationFails(r)
  <2>0. Forget(r) /\ stage[r] \in {"getting", "validating", "customising"}
        /\ stage' = [stage EXCEPT ![r] = "failed"]
    BY <1>3 DEF ValidationFails
  <2>1. /\ answer' \in [Edits -> {"none", "success", "failure", "error"}]
        /\ \A e \in Edits : answer'[e] = IF e = r THEN result[e] ELSE answer[e]
    BY <1>3, RelayAnswers DEF ValidationFails, Recover
  <2>2. TypeOK' /\ Subscribed' /\ OnlyTheInvited'
    BY <1>3, <2>0, <2>1, ForgetsOwn DEF ValidationFails, Subscribed, OnlyTheInvited, Stages
  <2>3. Knows' /\ ChangesAreNotDenied'
    BY <1>3, <2>0, <2>1, ForgetsOwn
    DEF ValidationFails, Knows, ChangesAreNotDenied, Unanswered, Models
  <2>4. Informed'
    BY <1>3, <2>0 DEF ValidationFails, Informed, ValidationSubscribers
  <2>5. Awaited'
    BY <2>0 DEF Awaited
  <2>. QED
    BY <2>2, <2>3, <2>4, <2>5
<1>. QED
  BY <1>1, <1>2, <1>3 DEF RunStep

-----------------------------------------------------------------------------
\* The strengthened invariant, of every behaviour.
THEOREM Invariance == Spec => []Inv
<1>1. Inv /\ [Next]_vars => Inv'
  <2>1. ASSUME Inv, UNCHANGED vars
        PROVE  Inv'
    <3>0. UNCHANGED <<applied, subscribed, options, mentioned, uri, stage, model, core,
                      result, answer, joined, received>>
      BY <2>1 DEF vars, read, clients
    <3>1. TypeOK' /\ Subscribed' /\ Knows' /\ ChangesAreNotDenied' /\ OnlyTheInvited'
      BY <2>1, <3>0 DEF Inv, TypeOK, Subscribed, Knows, ChangesAreNotDenied, OnlyTheInvited
    <3>2. \A s : Target(s)' = Target(s)
      BY <3>0, TargetKept DEF Direct
    <3>3. \A r \in Runs, s \in subscribed : Promised(r, s) => Promised(r, s)'
      BY <3>0, <3>2 DEF Promised
    <3>4. Awaited'
      BY <2>1, <3>0, <3>2, <3>3, AwaitedKept DEF Inv, TypeOK
    <3>5. Informed'
      BY <2>1, <3>0 DEF Inv, Informed, ValidationSubscribers
    <3>. QED
      BY <3>1, <3>4, <3>5 DEF Inv
  <2>. QED
    BY <2>1, EditInv, SubscriberInv, RunInv
    DEF Next, EditStep, SubscriberStep, RunStep
<1>. QED
  BY InitInv, <1>1, PTL DEF Spec

\* The variables keep their types; diagnostics always have both their parts.
THEOREM TypeCorrect == Spec => []TypeOK
<1>1. Inv => TypeOK
  BY DEF Inv
<1>. QED
  BY <1>1, Invariance, PTL

\* No request that changed the model reports a failure because of its validation, for any
\* number of overlapping requests and validations.
THEOREM ChangesAreAcknowledged == Spec => []ChangesAreNotDenied
<1>1. Inv => ChangesAreNotDenied
  BY DEF Inv
<1>. QED
  BY <1>1, Invariance, PTL

\* Once a request is answered, all who were subscribed before it, and call the model as
\* it does, have the diagnostics that take it into account, whatever requests,
\* subscriptions and validations overlap.
THEOREM SubscribersAreInformed == Spec => []InformedBeforeAnswer
<1>1. Inv => InformedBeforeAnswer
  <2> SUFFICES ASSUME Inv, NEW e \in Edits, NEW s \in ValidationSubscribers(e),
                      e \in applied \ joined[s],
                      answer[e] = "success", stage[e] \notin {"failed", "returned"}
               PROVE  \E d \in received[s] : Covers(d, {e})
    BY DEF InformedBeforeAnswer
  <2>1. stage[e] \in {"done", "skipped"}
    BY RunsAssumption
    DEF Inv, TypeOK, Knows, Unanswered, Stages, Runs
  <2>. QED
    BY <2>1 DEF Inv, Informed
<1>. QED
  BY <1>1, Invariance, PTL

\* No interleaving of edits, subscriptions and validations leaves a subscriber without
\* diagnostics of the changes made by requests that call the model as it does.
THEOREM NoUpdateIsMissed == Spec => []NoMissedUpdate
<1>1. Inv => NoMissedUpdate
  <2> SUFFICES ASSUME Inv, NEW s \in subscribed, options[s],
                      \A r \in Runs : stage[r] \in {"idle", "done", "skipped", "refused",
                                                   "returned"}
               PROVE  \E d \in received[s] : Covers(d, Target(s))
    BY DEF NoMissedUpdate
  <2>1. \A r \in Runs : ~Promised(r, s)
    BY DEF Promised
  <2>. QED
    BY <2>1 DEF Inv, Awaited
<1>. QED
  BY <1>1, Invariance, PTL

\* A subscriber that did not mention the option is sent no diagnostics, whatever edits,
\* subscriptions and validations overlap.
THEOREM UninvitedAreSpared == Spec => []OnlyTheInvited
<1>1. Inv => OnlyTheInvited
  BY DEF Inv
<1>. QED
  BY <1>1, Invariance, PTL
=============================================================================
