------------------------------ MODULE Providers ------------------------------
(***************************************************************************)
(* The registries of the command, trigger and validation providers and the *)
(* plug-ins that fill them (plugin-context.ts, *-provider-registry.ts).    *)
(*                                                                         *)
(* A plug-in is external: while it initialises, and ever after, it         *)
(* registers providers and cancels registrations, for nothing stops a      *)
(* plug-in that failed to initialise.  A registration is identified with   *)
(* its provider: none is shared.  The server starts all plug-ins but waits *)
(* for none, so that requests are served meanwhile.                        *)
(***************************************************************************)
EXTENDS SequencesExt

CONSTANTS Plugins,
          Commands, Triggers, Validators,  \* the registrations, each made once
          PluginOf,                        \* who makes a registration
          TypeOf,                          \* the command type it is for
          Primitive                        \* the types of primitive commands

Registrations == Commands \cup Triggers \cup Validators
Types         == {TypeOf[c] : c \in Commands}

ASSUME RegistrationsAssumption ==
    /\ Commands \cap Triggers = {}
    /\ Commands \cap Validators = {}
    /\ Triggers \cap Validators = {}
    /\ PluginOf \in [Registrations -> Plugins]
    /\ DOMAIN TypeOf = Commands

VARIABLES phase,       \* of each plug-in, how far its initialisation is
          held,        \* the registration tokens that plug-ins hold
          commands,    \* CommandProviderRegistry.providers, by type
          triggers,    \* TriggerProviderRegistry.providers, in order of insertion
          validators   \* ValidationProviderRegistry.providers, likewise

registries == <<commands, triggers, validators>>

ProvidersInit == /\ phase = [p \in Plugins |-> "initialising"]
                 /\ held = [r \in Registrations |-> "none"]
                 /\ commands = <<>>
                 /\ triggers = <<>>
                 /\ validators = <<>>

-----------------------------------------------------------------------------
\* Array.prototype.filter: the elements of s that are in the set, in their order.
Filtered(s, set) ==
    FoldLeft(LAMBDA kept, x : IF x \in set THEN Append(kept, x) ELSE kept, <<>>, s)

\* s without a provider.
Without(s, provider) == Filtered(s, ToSet(s) \ {provider})

-----------------------------------------------------------------------------
(* CommandProviderRegistry.  An entry of the map is an array of providers. *)

HasProvider(type) == type \in DOMAIN commands

\* getProviders: of a type, in order of registration.
CommandProviders(type) == IF HasProvider(type) THEN commands[type] ELSE <<>>

SetEntry(type, providers) ==
    [ty \in DOMAIN commands \cup {type} |-> IF ty = type THEN providers ELSE commands[ty]]

DeleteEntry(type) == [ty \in DOMAIN commands \ {type} |-> commands[ty]]

\* register, and unregister: the map then.
Registered(c) == SetEntry(TypeOf[c], Append(CommandProviders(TypeOf[c]), c))

\* A bug it could have: an array that becomes empty stays in the map.
KeepsEmpty(c) == SetEntry(TypeOf[c], Without(commands[TypeOf[c]], c))

Unregistered(c) ==
    LET updated == Without(commands[TypeOf[c]], c)
    IN IF updated = <<>> THEN DeleteEntry(TypeOf[c]) ELSE SetEntry(TypeOf[c], updated)

-----------------------------------------------------------------------------
(* Steps of the plug-ins.                                                  *)

\* A registration is made once.
CanRegister(r) == held[r] = "none"

RegisterCommand(c) == /\ CanRegister(c)
                      /\ TypeOf[c] \notin Primitive
                      /\ held' = [held EXCEPT ![c] = "held"]
                      /\ commands' = Registered(c)
                      /\ UNCHANGED <<phase, triggers, validators>>

\* A primitive command cannot be provided for: initialize() fails with the error.  (An
\* attempt after that changes nothing.)
RegisterPrimitive(c) == /\ CanRegister(c)
                        /\ TypeOf[c] \in Primitive
                        /\ phase[PluginOf[c]] = "initialising"
                        /\ phase' = [phase EXCEPT ![PluginOf[c]] = "failed"]
                        /\ UNCHANGED <<held, registries>>

RegisterTrigger(t) == /\ CanRegister(t)
                      /\ held' = [held EXCEPT ![t] = "held"]
                      /\ triggers' = Append(triggers, t)
                      /\ UNCHANGED <<phase, commands, validators>>

RegisterValidator(v) == /\ CanRegister(v)
                        /\ held' = [held EXCEPT ![v] = "held"]
                        /\ validators' = Append(validators, v)
                        /\ UNCHANGED <<phase, commands, triggers>>

\* A plug-in cancels a registration: what is left of the registries.  (Its token's
\* unregister() finds nothing the second time.)
Unregister(r) ==
    /\ held[r] = "held"
    /\ held' = [held EXCEPT ![r] = "cancelled"]
    /\ commands' = IF r \in Commands THEN Unregistered(r) ELSE commands
    /\ triggers' = IF r \in Triggers THEN Without(triggers, r) ELSE triggers
    /\ validators' = IF r \in Validators THEN Without(validators, r) ELSE validators
    /\ UNCHANGED phase

\* initialize() returns true, or returns false or fails.  When all have, the failures
\* are logged, and that is all.
Initialize(p) ==
    /\ phase[p] = "initialising"
    /\ \E result \in {"initialised", "failed"} : phase' = [phase EXCEPT ![p] = result]
    /\ UNCHANGED <<held, registries>>

PluginStep == \/ \E c \in Commands : RegisterCommand(c) \/ RegisterPrimitive(c)
              \/ \E t \in Triggers : RegisterTrigger(t)
              \/ \E v \in Validators : RegisterValidator(v)
              \/ \E r \in Registrations : Unregister(r)
              \/ \E p \in Plugins : Initialize(p)

-----------------------------------------------------------------------------
(* Properties.                                                             *)

\* The registrations of plug-ins that have not failed to initialise.
Participants == {r \in Registrations : phase[PluginOf[r]] # "failed"}

\* Of the given registrations, those that such a plug-in holds.
Participating(registrations) ==
    {r \in registrations : held[r] = "held" /\ phase[PluginOf[r]] # "failed"}

\* Whatever plug-ins register and cancel in whichever order, each registry has of the
\* plug-ins that have not failed exactly the providers whose tokens are held, a command's
\* under its own type; and the types that it says it has providers for are those of some
\* provider.  Nothing is claimed of a plug-in that failed: reportFailedInit says that it
\* is removed from the system, but its providers stay.
RegistriesMatchTokens ==
    /\ \A type \in Types :
          /\ ToSet(CommandProviders(type)) \cap Participants
             = {c \in Participating(Commands) : TypeOf[c] = type}
          /\ HasProvider(type) <=> CommandProviders(type) # <<>>
    /\ ToSet(triggers) \cap Participants = Participating(Triggers)
    /\ ToSet(validators) \cap Participants = Participating(Validators)
=============================================================================
