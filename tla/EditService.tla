----------------------------- MODULE EditService -----------------------------
(***************************************************************************)
(* An edit request as EditService processes it (services/edit-service.ts), *)
(* while plug-ins come and go: which providers it consults, when it looks  *)
(* them up, and whether it runs in a transaction, of its own or joining    *)
(* one that is open.  What happens within the transaction, and between the *)
(* requests that share one, is the subject of TransactionContext; here the *)
(* edits of the request, of its command's provider or of a trigger         *)
(* provider succeed, with or without changes, or end the request, and no   *)
(* other request joins the transaction that this one opened.  Of the live  *)
(* validation that follows a successful edit (LiveValidation), here is the *)
(* part of the validation providers.                                       *)
(*                                                                         *)
(* What canHandle, canTrigger, getTriggers and validate answer is up to    *)
(* the plug-ins.                                                           *)
(***************************************************************************)
EXTENDS Providers, Naturals

CONSTANTS Reactive,   \* the trigger providers whose canTrigger holds of any patch
          Applicable, \* the validation providers whose filter admits the model
          MaxRounds   \* bound: rounds of triggers in a commit

ASSUME EditAssumption == /\ Reactive \subseteq Triggers
                         /\ Applicable \subseteq Validators
                         /\ MaxRounds \in Nat

VARIABLES stage,     \* where the request stands
          mode,      \* how its edit is forwarded
          changed,   \* whether the last edits changed the model
          asked,     \* the trigger providers that the round has yet to ask
          balked,    \* whether a trigger transaction has returned false
          rounds,    \* the rounds of triggers so far
          consulted, \* history: the trigger providers asked in this round
          lasting,   \* history: the trigger and validation providers registered ever
                     \* since the last edits were made, by plug-ins that have not failed
          pending,   \* the validation providers that have yet to answer
          diagnosed  \* those whose diagnostics are there

request    == <<stage, mode, changed, asked, balked, rounds, consulted, lasting>>
validation == <<pending, diagnosed>>
vars       == <<phase, held, registries, request, validation>>

Init == /\ ProvidersInit
        /\ stage = "idle"
        /\ mode = "none"
        /\ changed = FALSE
        /\ asked = <<>>
        /\ balked = FALSE
        /\ rounds = 0
        /\ consulted = {}
        /\ lasting = {}
        /\ pending = {} /\ diagnosed = {}

\* Any plug-in's step, at any point of the request.
Plugin == /\ PluginStep
          /\ lasting' = {r \in lasting : held'[r] = "held" /\ phase'[PluginOf[r]] # "failed"}
          /\ UNCHANGED <<stage, mode, changed, asked, balked, rounds, consulted, validation>>

-----------------------------------------------------------------------------
(* From the request to its edit.                                           *)

\* openTransaction: a transaction of the request's own, or if one is open on the model a
\* child of that.
OpenTransaction == {"transaction", "nested"}

\* A bug it could have: only what a plug-in provided is thought to trigger anything.
FunctionsOnly(isFunction) == mode' \in IF isFunction THEN OpenTransaction ELSE {"simple"}

\* forwardEdit: a transaction if triggers may follow or the edit is a function.
ChooseMode(isFunction) ==
    mode' \in IF triggers # <<>> \/ isFunction THEN OpenTransaction ELSE {"simple"}

ForwardEdit(isFunction) == /\ ChooseMode(isFunction)
                           /\ stage' = "editing"
                           /\ lasting' = Participating(Triggers \cup Validators)

\* edit: a primitive command, or a patch.
Edit == /\ stage = "idle"
        /\ ForwardEdit(FALSE)
        /\ UNCHANGED <<phase, held, registries, changed, asked, balked, rounds, consulted,
                       validation>>

\* handleCommand: a custom command that some provider of its type can handle, or one
\* that stands for itself.
HandleCommand(type) ==
    /\ stage = "idle"
    /\ type \notin Primitive
    /\ \/ /\ HasProvider(type)
          /\ stage' = "providing"
          /\ UNCHANGED <<mode, lasting>>
       \/ ForwardEdit(FALSE)
    /\ UNCHANGED <<phase, held, registries, changed, asked, balked, rounds, consulted,
                   validation>>

\* Its provider has answered, with an edit or a function.  (If with nothing, that is
\* forwarded like an edit.)
Provided == /\ stage = "providing"
            /\ \E isFunction \in BOOLEAN : ForwardEdit(isFunction)
            /\ UNCHANGED <<phase, held, registries, changed, asked, balked, rounds, consulted,
                   validation>>

Fail == /\ stage' = "failed"
        /\ UNCHANGED <<phase, held, registries, mode, changed, asked, balked, rounds,
                       consulted, lasting, validation>>

\* The provider fails: there is no transaction to roll back yet.
ProviderFails == stage = "providing" /\ Fail

\* The edit is rejected, or its function balks or fails.
EditFails == stage = "editing" /\ Fail

\* The edit is made.  In a transaction of its own, commit() follows.  The commit of a
\* child only pops its nested context: it leaves the triggers to the one that opened the
\* transaction, and the request is done.
EditMade == /\ stage = "editing"
            /\ changed' \in BOOLEAN
            /\ stage' = IF mode = "transaction" THEN "committing" ELSE "done"
            /\ UNCHANGED <<phase, held, registries, mode, asked, balked, rounds,
                           consulted, lasting, validation>>

-----------------------------------------------------------------------------
(* commit() of the request's own transaction and its rounds of triggers.   *)

\* A bug it could have: all providers are asked.
AllProviders == triggers

\* TriggerProviderRegistry.getProviders.
Providers == Filtered(triggers, Reactive)

\* The head of the loop: if there are changes, look up who can trigger; if nobody can,
\* commit.
GetTriggers ==
    /\ stage = "committing"
    /\ changed
    /\ rounds < MaxRounds
    /\ consulted' = {}
    /\ IF Providers = <<>>
       THEN stage' = "done" /\ UNCHANGED <<asked, changed, rounds>>
       ELSE /\ stage' = "triggering"
            /\ asked' = Providers
            /\ changed' = FALSE
            /\ rounds' = rounds + 1
    /\ UNCHANGED <<phase, held, registries, mode, balked, lasting, validation>>

\* There are none.
Commit == /\ stage = "committing"
          /\ ~changed
          /\ stage' = "done"
          /\ UNCHANGED <<phase, held, registries, mode, changed, asked, balked, rounds,
                         consulted, lasting, validation>>

\* multiTriggerProvider, or the provider itself if it is the only one: the next one is
\* asked for its edits, and makes them.  If its transaction balks, none is asked after
\* it.
AskProvider ==
    /\ stage = "triggering"
    /\ asked # <<>>
    /\ consulted' = consulted \cup {Head(asked)}
    /\ changed' \in {changed, TRUE}
    /\ \E balks \in BOOLEAN :
          /\ asked' = IF balks THEN <<>> ELSE Tail(asked)
          /\ balked' = (balked \/ balks)
    /\ UNCHANGED <<phase, held, registries, stage, mode, rounds, lasting, validation>>

\* It fails, and the transaction with it.
TriggersFail == stage = "triggering" /\ Fail

\* The end of a round: what it changed may trigger more.
TriggersMade ==
    /\ stage = "triggering"
    /\ asked = <<>>
    /\ stage' = "committing"
    /\ lasting' = Participating(Triggers \cup Validators)
    /\ UNCHANGED <<phase, held, registries, mode, changed, asked, balked, rounds, consulted,
                   validation>>

-----------------------------------------------------------------------------
(* The validation that follows a successful edit, if anyone subscribes to  *)
(* it: validate() of the ValidationProviderRegistry.                       *)

edit == <<phase, held, registries, mode, changed, asked, balked, rounds, consulted, lasting>>

\* getValidator: all providers whose filter admits the model are called at once.
GetValidator == /\ stage = "done"
                /\ stage' = "validating"
                /\ pending' = ToSet(validators) \cap Applicable
                /\ UNCHANGED <<edit, diagnosed>>

\* One of them answers.
ValidatorReturns(v) == /\ stage = "validating"
                       /\ v \in pending
                       /\ pending' = pending \ {v}
                       /\ diagnosed' = diagnosed \cup {v}
                       /\ UNCHANGED <<edit, stage>>

\* Promise.all: one fails, and the validation with it.
ValidatorFails == /\ stage = "validating"
                  /\ pending # {}
                  /\ stage' = "unvalidated"
                  /\ UNCHANGED <<edit, validation>>

\* A bug it could have: the first answer is enough.
FirstIsEnough == /\ stage = "validating"
                 /\ pending = {} \/ diagnosed # {}
                 /\ stage' = "validated"
                 /\ UNCHANGED <<edit, validation>>

\* multiValidator, summarize: when all have answered, their diagnostics are merged.  (If
\* there is none, all is well at once.)
Summarize == /\ stage = "validating"
             /\ pending = {}
             /\ stage' = "validated"
             /\ UNCHANGED <<edit, validation>>

-----------------------------------------------------------------------------
Request == \/ Edit \/ (\E type \in Types : HandleCommand(type))
           \/ Provided \/ ProviderFails \/ EditFails \/ EditMade
           \/ GetTriggers \/ Commit \/ AskProvider \/ TriggersFail \/ TriggersMade
           \/ GetValidator \/ ValidatorFails \/ Summarize
           \/ \E v \in Validators : ValidatorReturns(v)

Next == Plugin \/ Request

Spec == Init /\ [][Next]_vars
-----------------------------------------------------------------------------
(* Properties.                                                             *)

\* The values of the variables; only reactive trigger providers and
\* applicable validation providers are ever asked.
TypeOK == /\ phase \in [Plugins -> {"initialising", "initialised", "failed"}]
          /\ held \in [Registrations -> {"none", "held", "cancelled"}]
          /\ DOMAIN commands \subseteq Types
          /\ \A type \in DOMAIN commands : commands[type] \in Seq(Commands)
          /\ triggers \in Seq(Triggers)
          /\ validators \in Seq(Validators)
          /\ stage \in {"idle", "providing", "editing", "committing", "triggering",
                        "done", "failed", "validating", "validated", "unvalidated"}
          /\ mode \in {"none", "simple", "transaction", "nested"}
          /\ changed \in BOOLEAN
          /\ asked \in Seq(Reactive)
          /\ balked \in BOOLEAN
          /\ rounds \in 0..MaxRounds
          /\ consulted \subseteq Reactive
          /\ lasting \subseteq Triggers \cup Validators
          /\ pending \cup diagnosed \subseteq Applicable

\* No trigger is missed by a request that does not join another's transaction, although
\* plug-ins register while it waits for a command's provider, for its edits or for other
\* triggers: unless a trigger balked, changes are followed by asking every reactive
\* trigger provider that was registered all the time from before they were made until
\* they were dealt with, by a plug-in that has not failed.  Nothing is claimed of a request that joins: what it changed may
\* be popped while the other's commit awaits its own triggers, and triggers none then.
TriggersNotMissed ==
    mode # "nested" /\ ~balked =>
        /\ stage = "done" /\ changed => lasting \cap Reactive = {}
        /\ stage = "triggering" /\ asked = <<>> => lasting \cap Reactive \subseteq consulted

\* No validation provider is missed, although plug-ins register and leave while the
\* request runs: if the validation succeeds, it has the diagnostics of every applicable
\* provider that was registered all the time since the edits were made, by a plug-in that
\* has not failed.
ValidatorsNotMissed ==
    stage = "validated" => lasting \cap Applicable \subseteq diagnosed
=============================================================================
