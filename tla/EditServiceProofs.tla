-------------------------- MODULE EditServiceProofs --------------------------
(***************************************************************************)
(* The safety properties of Providers and EditService for any plug-ins and *)
(* registrations.                                                          *)
(*                                                                         *)
(* RegistriesMatchTokens is not inductive, for it says nothing of plug-ins *)
(* that failed; with the types, AllMatch is, which is of all plug-ins.     *)
(* What a request has yet to do is the rest of the argument: the history   *)
(* variable lasting never has a provider whose token is not held           *)
(* (LastingIsHeld), so that whoever is in it is found in the registries    *)
(* when they are looked up; from then on it has been asked or is about to  *)
(* be (NoneForgotten).                                                     *)
(***************************************************************************)
EXTENDS EditService, FoldLemmas

\* The values of the registries' variables.
RegistriesTypeOK ==
    /\ phase \in [Plugins -> {"initialising", "initialised", "failed"}]
    /\ held \in [Registrations -> {"none", "held", "cancelled"}]
    /\ DOMAIN commands \subseteq Types
    /\ \A type \in DOMAIN commands : commands[type] \in Seq(Commands)
    /\ triggers \in Seq(Triggers)
    /\ validators \in Seq(Validators)

-----------------------------------------------------------------------------
(* What filtering a sequence leaves.                                       *)

\* Filtering keeps exactly the elements that are in the set.
LEMMA FilteredIsSubsequence ==
    ASSUME NEW X, NEW s \in Seq(X), NEW T
    PROVE  /\ Filtered(s, T) \in Seq(X \cap T)
           /\ ToSet(Filtered(s, T)) = ToSet(s) \cap T
<1> DEFINE D == DOMAIN s
           Kept(kept, x) == IF x \in T THEN Append(kept, x) ELSE kept
           Eq(f) == f = [d \in SUBSET D |->
                           IF d = {} THEN <<>> ELSE Kept(f[d \ {Max(d)}], s[Max(d)])]
           fold == CHOOSE f : Eq(f)
           Good == {d \in SUBSET D : /\ fold[d] \in Seq(X \cap T)
                                     /\ ToSet(fold[d]) = {s[i] : i \in d} \cap T}
<1>1. Filtered(s, T) = fold[D]
  BY DEF Filtered, FoldLeft, MapThenFoldSet
<1>2. Len(s) \in Nat /\ D = 1..Len(s) /\ IsFiniteSet(D)
  BY FS_Interval
<1>3. \A d \in SUBSET D : d # {} => Max(d) \in d
  BY <1>2, MaxIsElement
<1>4. Eq(fold)
  <2> DEFINE H == Seq(X)
             step == [i \in D |-> [h \in H |-> Kept(h, s[i])]]
             pick == [d \in SUBSET D |-> Max(d)]
  <2>1. step \in [D -> [H -> H]]
    OBVIOUS
  <2>2. Picks(pick, D)
    BY <1>3 DEF Picks
  <2>3. <<>> \in H
    OBVIOUS
  <2>4. PICK f \in [SUBSET D -> H] : IsFold(f, D, <<>>, step, pick)
    <3> HIDE DEF D, H, step, pick, Kept
    <3>1. IsFiniteSet(D)
      BY <1>2
    <3> QED BY <3>1, <2>1, <2>2, <2>3, FoldExists
  <2>5. \A d \in SUBSET D : d # {} => f[d] = Kept(f[d \ {Max(d)}], s[Max(d)])
    BY <1>3, <2>4 DEF IsFold
  <2>6. Eq(f)
    BY <2>4, <2>5 DEF IsFold
  <2> HIDE DEF Eq
  <2> QED BY <2>6
<1>5. /\ fold[{}] = <<>>
      /\ \A d \in SUBSET D : d # {} => fold[d] = Kept(fold[d \ {Max(d)}], s[Max(d)])
  <2> HIDE DEF fold
  <2> QED BY <1>4
<1> HIDE DEF fold
<1>6. {} \in Good
  <2>1. ToSet(<<>>) = {}
    BY DEF ToSet
  <2>2. <<>> \in Seq(X \cap T)
    OBVIOUS
  <2> QED BY <1>5, <2>1, <2>2
<1>7. ASSUME NEW d \in SUBSET D, d # {} PROVE \E x \in d : d \ {x} \in Good => d \in Good
  <2> DEFINE m == Max(d)
             rest == fold[d \ {m}]
  <2>1. m \in d
    BY <1>3, <1>7
  <2>2. SUFFICES ASSUME d \ {m} \in Good PROVE d \in Good
    BY <2>1
  <2>3. fold[d] = Kept(rest, s[m])
    BY <1>5, <1>7
  <2>4. rest \in Seq(X \cap T) /\ ToSet(rest) = {s[i] : i \in d \ {m}} \cap T
    BY <2>2
  <2>5. {s[i] : i \in d} = {s[i] : i \in d \ {m}} \cup {s[m]}
    BY <2>1
  <2>6. s[m] \in X
    BY <2>1
  <2> HIDE DEF rest, m
  <2>7. CASE s[m] \in T
    <3>1. fold[d] = Append(rest, s[m])
      BY <2>3, <2>7
    <3>2. ToSet(fold[d]) = ToSet(rest) \cup {s[m]}
      BY <3>1, <2>4, AppendAdds
    <3>3. fold[d] \in Seq(X \cap T)
      BY <3>1, <2>4, <2>6, <2>7
    <3>4. ToSet(fold[d]) = {s[i] : i \in d} \cap T
      BY <3>2, <2>4, <2>5, <2>7
    <3> QED BY <3>3, <3>4
  <2>8. CASE s[m] \notin T
    <3>1. fold[d] = rest
      BY <2>3, <2>8
    <3>4. ToSet(fold[d]) = {s[i] : i \in d} \cap T
      BY <3>1, <2>4, <2>5, <2>8
    <3> QED BY <3>1, <3>4, <2>4
  <2> QED BY <2>7, <2>8
<1>8. D \in Good
  <2> HIDE DEF D, Good
  <2>1. IsFiniteSet(D)
    BY <1>2
  <2>2. \A d \in SUBSET D : d # {} => \E x \in d : d \ {x} \in Good => d \in Good
    BY <1>7
  <2>3. \A d \in SUBSET D : d \in Good
    BY <2>1, <1>6, <2>2, SubsetInduction, Zenon
  <2> QED BY <2>3
<1>9. {s[i] : i \in D} = ToSet(s)
  BY DEF ToSet
<1> QED BY <1>1, <1>8, <1>9

\* Without a provider, a sequence has all its other elements.
LEMMA WithoutRemoves ==
    ASSUME NEW X, NEW s \in Seq(X), NEW p
    PROVE  /\ Without(s, p) \in Seq(X)
           /\ ToSet(Without(s, p)) = ToSet(s) \ {p}
<1>1. /\ Without(s, p) \in Seq(X \cap (ToSet(s) \ {p}))
      /\ ToSet(Without(s, p)) = ToSet(s) \cap (ToSet(s) \ {p})
  BY FilteredIsSubsequence DEF Without
<1>2. Seq(X \cap (ToSet(s) \ {p})) \subseteq Seq(X)
  OBVIOUS
<1> QED BY <1>1, <1>2

\* Only the empty sequence has no elements.
LEMMA EmptyHasNone ==
    ASSUME NEW X, NEW s \in Seq(X)
    PROVE  s = <<>> <=> ToSet(s) = {}
<1>1. s # <<>> => s[1] \in ToSet(s)
  BY DEF ToSet
<1>2. s = <<>> => ToSet(s) = {}
  BY DEF ToSet
<1> QED BY <1>1, <1>2

-----------------------------------------------------------------------------
(* The registries.                                                         *)

\* The registrations whose tokens are held.
Held(registrations) == {r \in registrations : held[r] = "held"}

\* Failed plug-ins or not, each registry has exactly the providers whose tokens are held.
AllMatch ==
    /\ \A type \in Types :
          /\ ToSet(CommandProviders(type)) = {c \in Held(Commands) : TypeOf[c] = type}
          /\ HasProvider(type) <=> CommandProviders(type) # <<>>
    /\ ToSet(triggers) = Held(Triggers)
    /\ ToSet(validators) = Held(Validators)

\* A step of a plug-in keeps the registries' types, and their match with the tokens.
LEMMA PluginKeepsMatch ==
    ASSUME RegistriesTypeOK, AllMatch, PluginStep
    PROVE  RegistriesTypeOK' /\ AllMatch'
<1> USE RegistrationsAssumption DEF Registrations, Held
<1>1. ASSUME NEW c \in Commands, RegisterCommand(c)
      PROVE  RegistriesTypeOK' /\ AllMatch'
  <2> DEFINE type == TypeOf[c]
             updated == Append(CommandProviders(type), c)
  <2>1. type \in Types /\ CommandProviders(type) \in Seq(Commands)
    BY DEF Types, CommandProviders, HasProvider, RegistriesTypeOK
  <2>2. updated \in Seq(Commands) /\ updated # <<>>
        /\ ToSet(updated) = ToSet(CommandProviders(type)) \cup {c}
    BY <2>1, AppendAdds
  <2>3. /\ DOMAIN commands' = DOMAIN commands \cup {type}
        /\ commands'[type] = updated
        /\ \A ty \in DOMAIN commands : ty # type => commands'[ty] = commands[ty]
    BY <1>1 DEF RegisterCommand, Registered, SetEntry
  <2>4. held' = [held EXCEPT ![c] = "held"] /\ held[c] = "none"
        /\ UNCHANGED <<phase, triggers, validators>>
    BY <1>1 DEF RegisterCommand, CanRegister
  <2>5. RegistriesTypeOK'
    BY <2>1, <2>2, <2>3, <2>4 DEF RegistriesTypeOK
  <2>6. Held(Triggers)' = Held(Triggers) /\ Held(Validators)' = Held(Validators)
    BY <2>4 DEF RegistriesTypeOK
  <2>7. Held(Commands)' = Held(Commands) \cup {c}
    BY <2>4 DEF RegistriesTypeOK
  <2>8. ASSUME NEW ty \in Types
        PROVE  /\ ToSet(CommandProviders(ty))' = {d \in Held(Commands)' : TypeOf[d] = ty}
               /\ HasProvider(ty)' <=> CommandProviders(ty)' # <<>>
    <3>1. CASE ty = type
      <4>1. CommandProviders(ty)' = updated /\ HasProvider(ty)'
        BY <2>3, <3>1 DEF CommandProviders, HasProvider
      <4> QED BY <2>1, <2>2, <2>7, <3>1, <4>1 DEF AllMatch
    <3>2. CASE ty # type
      <4>1. CommandProviders(ty)' = CommandProviders(ty) /\ (HasProvider(ty)' <=> HasProvider(ty))
        BY <2>3, <3>2 DEF CommandProviders, HasProvider
      <4> QED BY <2>7, <3>2, <4>1 DEF AllMatch
    <3> QED BY <3>1, <3>2
  <2>9. AllMatch'
    BY <2>4, <2>6, <2>8 DEF AllMatch
  <2> QED BY <2>5, <2>9
<1>2. ASSUME NEW c \in Commands, RegisterPrimitive(c)
      PROVE  RegistriesTypeOK' /\ AllMatch'
  BY <1>2 DEF RegisterPrimitive, CanRegister, registries, RegistriesTypeOK,
              AllMatch, CommandProviders, HasProvider
<1>3. ASSUME NEW t \in Triggers, RegisterTrigger(t)
      PROVE  RegistriesTypeOK' /\ AllMatch'
  <2>1. /\ held' = [held EXCEPT ![t] = "held"]
        /\ triggers' = Append(triggers, t)
        /\ UNCHANGED <<phase, commands, validators>>
    BY <1>3 DEF RegisterTrigger
  <2>2. RegistriesTypeOK'
    BY <2>1 DEF RegistriesTypeOK
  <2>3. ToSet(triggers') = ToSet(triggers) \cup {t}
    BY <2>1, AppendAdds DEF RegistriesTypeOK
  <2>4. /\ Held(Triggers)' = Held(Triggers) \cup {t}
        /\ Held(Commands)' = Held(Commands) /\ Held(Validators)' = Held(Validators)
    BY <2>1 DEF RegistriesTypeOK
  <2> QED BY <2>1, <2>2, <2>3, <2>4 DEF AllMatch, CommandProviders, HasProvider
<1>4. ASSUME NEW v \in Validators, RegisterValidator(v)
      PROVE  RegistriesTypeOK' /\ AllMatch'
  <2>1. /\ held' = [held EXCEPT ![v] = "held"]
        /\ validators' = Append(validators, v)
        /\ UNCHANGED <<phase, commands, triggers>>
    BY <1>4 DEF RegisterValidator
  <2>2. RegistriesTypeOK'
    BY <2>1 DEF RegistriesTypeOK
  <2>3. ToSet(validators') = ToSet(validators) \cup {v}
    BY <2>1, AppendAdds DEF RegistriesTypeOK
  <2>4. /\ Held(Validators)' = Held(Validators) \cup {v}
        /\ Held(Commands)' = Held(Commands) /\ Held(Triggers)' = Held(Triggers)
    BY <2>1 DEF RegistriesTypeOK
  <2> QED BY <2>1, <2>2, <2>3, <2>4 DEF AllMatch, CommandProviders, HasProvider
<1>5. ASSUME NEW r \in Registrations, Unregister(r)
      PROVE  RegistriesTypeOK' /\ AllMatch'
  <2>1. /\ held[r] = "held" /\ held' = [held EXCEPT ![r] = "cancelled"] /\ UNCHANGED phase
        /\ commands' = IF r \in Commands THEN Unregistered(r) ELSE commands
        /\ triggers' = IF r \in Triggers THEN Without(triggers, r) ELSE triggers
        /\ validators' = IF r \in Validators THEN Without(validators, r) ELSE validators
    BY <1>5 DEF Unregister
  <2>2. /\ Held(Commands)' = Held(Commands) \ {r}
        /\ Held(Triggers)' = Held(Triggers) \ {r}
        /\ Held(Validators)' = Held(Validators) \ {r}
    BY <2>1 DEF RegistriesTypeOK
  <2>3. /\ triggers' \in Seq(Triggers) /\ ToSet(triggers') = Held(Triggers)'
        /\ validators' \in Seq(Validators) /\ ToSet(validators') = Held(Validators)'
    <3>1. /\ Without(triggers, r) \in Seq(Triggers)
          /\ ToSet(Without(triggers, r)) = ToSet(triggers) \ {r}
      BY WithoutRemoves DEF RegistriesTypeOK
    <3>2. /\ Without(validators, r) \in Seq(Validators)
          /\ ToSet(Without(validators, r)) = ToSet(validators) \ {r}
      BY WithoutRemoves DEF RegistriesTypeOK
    <3> QED BY <2>1, <2>2, <3>1, <3>2 DEF RegistriesTypeOK, AllMatch
  <2>4. /\ DOMAIN commands' \subseteq Types
        /\ \A ty \in DOMAIN commands' : commands'[ty] \in Seq(Commands)
        /\ \A ty \in Types :
              /\ ToSet(CommandProviders(ty))' = {d \in Held(Commands)' : TypeOf[d] = ty}
              /\ HasProvider(ty)' <=> CommandProviders(ty)' # <<>>
    <3>1. CASE r \notin Commands
      BY <2>1, <2>2, <3>1 DEF RegistriesTypeOK, AllMatch, CommandProviders,
                              HasProvider
    <3>2. CASE r \in Commands
      <4> DEFINE type == TypeOf[r]
                 updated == Without(commands[type], r)
      <4>1. type \in Types /\ type \in DOMAIN commands
        <5>1. type \in Types
          BY <3>2 DEF Types
        <5>2. r \in ToSet(CommandProviders(type))
          BY <2>1, <3>2, <5>1 DEF AllMatch
        <5>3. CommandProviders(type) # <<>>
          BY <5>2 DEF ToSet
        <5> QED BY <5>1, <5>3 DEF AllMatch, HasProvider
      <4>2. /\ commands[type] \in Seq(Commands) /\ updated \in Seq(Commands)
            /\ ToSet(updated) = ToSet(commands[type]) \ {r}
        BY <4>1, WithoutRemoves DEF RegistriesTypeOK
      <4>3. ToSet(commands[type]) = {d \in Held(Commands) : TypeOf[d] = type}
        BY <4>1 DEF AllMatch, CommandProviders, HasProvider
      <4>4. updated = <<>> <=> ToSet(updated) = {}
        BY <4>2, EmptyHasNone
      <4>5. /\ DOMAIN commands' = IF updated = <<>> THEN DOMAIN commands \ {type} ELSE DOMAIN commands
            /\ updated # <<>> => commands'[type] = updated
            /\ \A ty \in DOMAIN commands : ty # type => commands'[ty] = commands[ty]
        BY <2>1, <3>2, <4>1 DEF Unregistered, DeleteEntry, SetEntry
      <4> HIDE DEF updated
      <4>6. ASSUME NEW ty \in Types, ty # type
            PROVE  /\ CommandProviders(ty)' = CommandProviders(ty)
                   /\ HasProvider(ty)' <=> HasProvider(ty)
        BY <4>5, <4>6 DEF CommandProviders, HasProvider
      <4>7. /\ CommandProviders(type)' = updated
            /\ HasProvider(type)' <=> updated # <<>>
        BY <4>1, <4>5 DEF CommandProviders, HasProvider
      <4>8. /\ DOMAIN commands' \subseteq Types
            /\ \A ty \in DOMAIN commands' : commands'[ty] \in Seq(Commands)
        BY <4>1, <4>2, <4>5 DEF RegistriesTypeOK
      <4>9. ASSUME NEW ty \in Types
            PROVE  /\ ToSet(CommandProviders(ty))' = {d \in Held(Commands)' : TypeOf[d] = ty}
                   /\ HasProvider(ty)' <=> CommandProviders(ty)' # <<>>
        <5>1. CASE ty = type
          BY <2>2, <4>2, <4>3, <4>7, <5>1
        <5>2. CASE ty # type
          BY <2>2, <4>6, <5>2 DEF AllMatch
        <5> QED BY <5>1, <5>2
      <4> QED BY <4>8, <4>9
    <3> QED BY <3>1, <3>2
  <2>5. RegistriesTypeOK'
    BY <2>1, <2>3, <2>4 DEF RegistriesTypeOK
  <2> QED BY <2>3, <2>4, <2>5 DEF AllMatch
<1>6. ASSUME NEW p \in Plugins, Initialize(p)
      PROVE  RegistriesTypeOK' /\ AllMatch'
  BY <1>6 DEF Initialize, registries, RegistriesTypeOK, AllMatch,
              CommandProviders, HasProvider
<1> QED BY <1>1, <1>2, <1>3, <1>4, <1>5, <1>6 DEF PluginStep
-----------------------------------------------------------------------------
(* The request.                                                            *)

\* Whoever is in the history was registered all the time, and so still is.
LastingIsHeld == lasting \subseteq Held(Triggers \cup Validators)

\* Only a transaction of the request's own has triggers; and a request that goes without
\* any has missed no trigger provider.
ModeIsChosen ==
    /\ stage \in {"committing", "triggering"} => mode = "transaction"
    /\ stage \in {"editing", "done"} =>
          mode \in OpenTransaction \/ (mode = "simple" /\ lasting \cap Reactive = {})

\* Until a trigger balks, whoever reacts and was there all the time has been asked in
\* this round or will be; and whoever applies has answered or is awaited.
NoneForgotten ==
    /\ stage = "triggering" /\ ~balked => lasting \cap Reactive \subseteq consulted \cup ToSet(asked)
    /\ stage = "done" /\ changed /\ ~balked /\ mode # "nested" => lasting \cap Reactive = {}
    /\ stage \in {"validating", "validated"} => lasting \cap Applicable \subseteq diagnosed \cup pending
    /\ stage = "validated" => pending = {}

Inv == TypeOK /\ AllMatch /\ LastingIsHeld /\ ModeIsChosen /\ NoneForgotten

\* Initially there is nothing registered and no request.
LEMMA InitInv == Init => Inv
<1> SUFFICES ASSUME Init PROVE Inv
  OBVIOUS
<1> USE EditAssumption, RegistrationsAssumption DEF Init, ProvidersInit
<1>1. TypeOK
  <2>1. /\ phase \in [Plugins -> {"initialising", "initialised", "failed"}]
        /\ held \in [Registrations -> {"none", "held", "cancelled"}]
    OBVIOUS
  <2>2. DOMAIN commands = {}
    OBVIOUS
  <2>3. triggers \in Seq(Triggers) /\ validators \in Seq(Validators) /\ asked \in Seq(Reactive)
    OBVIOUS
  <2>4. RegistriesTypeOK
    BY <2>1, <2>2, <2>3 DEF RegistriesTypeOK
  <2>5. rounds \in 0..MaxRounds
    OBVIOUS
  <2>6. changed \in BOOLEAN /\ balked \in BOOLEAN
    OBVIOUS
  <2> QED BY <2>3, <2>4, <2>5, <2>6 DEF TypeOK, RegistriesTypeOK
<1>2. ToSet(<<>>) = {} /\ \A type \in Types : ~HasProvider(type) /\ CommandProviders(type) = <<>>
  BY DEF ToSet, HasProvider, CommandProviders
<1>3. \A rs \in SUBSET Registrations : Held(rs) = {}
  BY DEF Held, Registrations
<1>4. AllMatch
  BY <1>2, <1>3 DEF AllMatch, Registrations
<1> QED BY <1>1, <1>4 DEF Inv, LastingIsHeld, ModeIsChosen, NoneForgotten

\* A plug-in's step leaves the request alone but for the history, which loses whoever is
\* no longer registered.
LEMMA PluginInv == ASSUME Inv, Plugin PROVE Inv'
<1>1. RegistriesTypeOK' /\ AllMatch'
  <2>1. RegistriesTypeOK
    BY DEF Inv, TypeOK, RegistriesTypeOK
  <2> QED BY <2>1, PluginKeepsMatch DEF Inv, Plugin
<1>2. /\ lasting' = {r \in lasting : held'[r] = "held" /\ phase'[PluginOf[r]] # "failed"}
      /\ UNCHANGED <<stage, mode, changed, asked, balked, rounds, consulted, pending, diagnosed>>
  BY DEF Plugin, validation
<1>3. LastingIsHeld'
  BY <1>2 DEF Inv, LastingIsHeld, Held, Registrations
<1>4. TypeOK'
  BY <1>1, <1>2 DEF Inv, TypeOK, RegistriesTypeOK
<1>5. ModeIsChosen' /\ NoneForgotten'
  BY <1>2 DEF Inv, ModeIsChosen, NoneForgotten
<1> QED BY <1>1, <1>3, <1>4, <1>5 DEF Inv

\* A step that leaves the registries and tokens alone keeps their match.
LEMMA MatchIsKept ==
    ASSUME AllMatch, UNCHANGED <<held, registries>>
    PROVE  AllMatch' /\ Held(Triggers \cup Validators)' = Held(Triggers \cup Validators)
  BY DEF AllMatch, registries, Held, CommandProviders, HasProvider

\* Forwarding an edit chooses a mode, by the trigger providers that are registered.
LEMMA ForwardEditInv ==
    ASSUME Inv, NEW isFunction \in BOOLEAN, ForwardEdit(isFunction), stage \in {"idle", "providing"},
           UNCHANGED <<phase, held, registries, changed, asked, balked, rounds, consulted, validation>>
    PROVE  Inv'
<1> USE EditAssumption
<1>1. /\ stage' = "editing"
      /\ mode' \in IF triggers # <<>> \/ isFunction THEN OpenTransaction ELSE {"simple"}
      /\ lasting' \subseteq Held(Triggers \cup Validators)
  BY DEF ForwardEdit, ChooseMode, Participating, Held
<1>2. AllMatch' /\ Held(Triggers \cup Validators)' = Held(Triggers \cup Validators)
  BY MatchIsKept DEF Inv
<1>3. TypeOK'
  BY <1>1 DEF Inv, TypeOK, registries, validation, Held, OpenTransaction
<1>4. triggers = <<>> => lasting' \cap Reactive = {}
  <2> SUFFICES ASSUME triggers = <<>> PROVE lasting' \cap Reactive = {}
    OBVIOUS
  <2>1. Held(Triggers) = {}
    BY DEF Inv, AllMatch, ToSet
  <2> QED BY <1>1, <2>1 DEF Held
<1>5. ModeIsChosen'
  <2>1. mode' \in OpenTransaction \/ (mode' = "simple" /\ triggers = <<>>)
    BY <1>1
  <2> QED BY <1>1, <1>4, <2>1 DEF ModeIsChosen
<1>6. LastingIsHeld' /\ NoneForgotten'
  BY <1>1, <1>2 DEF LastingIsHeld, NoneForgotten
<1> QED BY <1>2, <1>3, <1>5, <1>6 DEF Inv

\* A failure of the request leaves nothing to do.
LEMMA FailInv == ASSUME Inv, Fail PROVE Inv'
  BY MatchIsKept
  DEF Fail, Inv, TypeOK, LastingIsHeld, ModeIsChosen, NoneForgotten, registries, validation

\* The trigger providers that are looked up: those registered that react.
LEMMA ProvidersFound ==
    ASSUME Inv
    PROVE  /\ Providers \in Seq(Reactive)
           /\ lasting \cap Reactive \subseteq ToSet(Providers)
           /\ Providers = <<>> => lasting \cap Reactive = {}
<1>1. triggers \in Seq(Triggers) /\ ToSet(triggers) = Held(Triggers)
  BY DEF Inv, TypeOK, AllMatch
<1>2. Providers \in Seq(Triggers \cap Reactive) /\ ToSet(Providers) = ToSet(triggers) \cap Reactive
  BY <1>1, FilteredIsSubsequence DEF Providers
<1>3. lasting \cap Reactive \subseteq Held(Triggers)
  BY EditAssumption DEF Inv, LastingIsHeld, Held
<1>4. Seq(Triggers \cap Reactive) \subseteq Seq(Reactive)
  OBVIOUS
<1>5. Providers = <<>> => ToSet(Providers) = {}
  BY DEF ToSet
<1> QED BY <1>1, <1>2, <1>3, <1>4, <1>5

\* Every step of the request keeps the invariant.
LEMMA RequestInv == ASSUME Inv, Request PROVE Inv'
<1> USE EditAssumption
<1>1. CASE Edit
  BY <1>1, ForwardEditInv DEF Edit
<1>2. ASSUME NEW type \in Types, HandleCommand(type) PROVE Inv'
  <2>1. CASE ForwardEdit(FALSE)
    BY <1>2, <2>1, ForwardEditInv DEF HandleCommand
  <2>2. CASE stage' = "providing" /\ UNCHANGED <<mode, lasting>>
    BY <1>2, <2>2, MatchIsKept
    DEF HandleCommand, Inv, TypeOK, LastingIsHeld, ModeIsChosen, NoneForgotten, registries,
        validation
  <2> QED BY <1>2, <2>1, <2>2 DEF HandleCommand
<1>3. CASE Provided
  BY <1>3, ForwardEditInv DEF Provided
<1>4. CASE ProviderFails \/ EditFails \/ TriggersFail
  BY <1>4, FailInv DEF ProviderFails, EditFails, TriggersFail
<1>5. CASE EditMade
  BY <1>5, MatchIsKept
  DEF EditMade, OpenTransaction, Inv, TypeOK, LastingIsHeld, ModeIsChosen, NoneForgotten,
      registries, validation
<1>6. CASE GetTriggers
  <2>1. AllMatch' /\ Held(Triggers \cup Validators)' = Held(Triggers \cup Validators)
    BY <1>6, MatchIsKept DEF GetTriggers, Inv
  <2>2. TypeOK'
    <3>1. asked' \in Seq(Reactive) /\ stage' \in {"done", "triggering"}
      BY <1>6, ProvidersFound DEF GetTriggers, Inv, TypeOK
    <3>2. rounds' \in 0..MaxRounds
      <4>1. rounds \in 0..MaxRounds
        BY DEF Inv, TypeOK
      <4>2. rounds < MaxRounds /\ rounds' \in {rounds, rounds + 1}
        BY <1>6 DEF GetTriggers
      <4> QED BY <4>1, <4>2
    <3>3. changed' \in BOOLEAN
      BY <1>6 DEF GetTriggers, Inv, TypeOK
    <3> QED BY <1>6, <3>1, <3>2, <3>3 DEF GetTriggers, Inv, TypeOK, registries, validation
  <2>3. ModeIsChosen' /\ NoneForgotten' /\ LastingIsHeld'
    BY <1>6, <2>1, ProvidersFound
    DEF GetTriggers, OpenTransaction, Inv, ModeIsChosen, NoneForgotten, LastingIsHeld,
        validation
  <2> QED BY <2>1, <2>2, <2>3 DEF Inv
<1>7. CASE Commit
  <2>1. AllMatch' /\ Held(Triggers \cup Validators)' = Held(Triggers \cup Validators)
    BY <1>7, MatchIsKept DEF Commit, Inv
  <2>2. TypeOK'
    BY <1>7 DEF Commit, Inv, TypeOK, registries, validation
  <2>3. ModeIsChosen' /\ NoneForgotten' /\ LastingIsHeld'
    BY <1>7, <2>1
    DEF Commit, OpenTransaction, Inv, ModeIsChosen, NoneForgotten, LastingIsHeld, validation
  <2> QED BY <2>1, <2>2, <2>3 DEF Inv
<1>8. CASE AskProvider
  <2>1. asked \in Seq(Reactive) /\ asked # <<>>
    BY <1>8 DEF AskProvider, Inv, TypeOK
  <2>2. Head(asked) \in Reactive /\ Tail(asked) \in Seq(Reactive)
    BY <2>1
  <2>3. ToSet(asked) \subseteq {Head(asked)} \cup ToSet(Tail(asked))
    <3> SUFFICES ASSUME NEW r \in ToSet(asked) PROVE r \in {Head(asked)} \cup ToSet(Tail(asked))
      OBVIOUS
    <3>1. PICK i \in 1..Len(asked) : asked[i] = r
      BY <2>1 DEF ToSet
    <3>2. CASE i = 1
      BY <3>1, <3>2, <2>1
    <3>3. CASE i # 1
      <4>1. i - 1 \in DOMAIN Tail(asked) /\ Tail(asked)[i - 1] = asked[i]
        BY <2>1, <3>1, <3>3
      <4> QED BY <3>1, <4>1 DEF ToSet
    <3> QED BY <3>2, <3>3
  <2>4. AllMatch' /\ Held(Triggers \cup Validators)' = Held(Triggers \cup Validators)
    BY <1>8, MatchIsKept DEF AskProvider, Inv
  <2>5. TypeOK'
    <3>1. asked' \in Seq(Reactive)
      BY <1>8, <2>2 DEF AskProvider
    <3>2. changed' \in BOOLEAN /\ balked' \in BOOLEAN
      BY <1>8 DEF AskProvider, Inv, TypeOK
    <3> QED BY <1>8, <2>2, <3>1, <3>2 DEF AskProvider, Inv, TypeOK, registries, validation
  <2>6. ModeIsChosen' /\ NoneForgotten' /\ LastingIsHeld'
    BY <1>8, <2>3, <2>4 DEF AskProvider, Inv, ModeIsChosen, NoneForgotten, LastingIsHeld,
                            validation
  <2> QED BY <2>4, <2>5, <2>6 DEF Inv
<1>9. CASE TriggersMade
  BY <1>9, MatchIsKept
  DEF TriggersMade, Inv, TypeOK, LastingIsHeld, ModeIsChosen, NoneForgotten, registries,
      validation, Held, Participating
<1>10. CASE GetValidator
  <2>1. AllMatch' /\ Held(Triggers \cup Validators)' = Held(Triggers \cup Validators)
    BY <1>10, MatchIsKept DEF GetValidator, Inv, edit
  <2>2. lasting \cap Applicable \subseteq Held(Validators)
    BY DEF Inv, LastingIsHeld, Held
  <2>3. lasting \cap Applicable \subseteq pending'
    BY <1>10, <2>2 DEF GetValidator, Inv, AllMatch
  <2> QED BY <1>10, <2>1, <2>3
          DEF GetValidator, edit, Inv, TypeOK, LastingIsHeld, ModeIsChosen, NoneForgotten,
              registries
<1>11. ASSUME NEW v \in Validators, ValidatorReturns(v) PROVE Inv'
  BY <1>11, MatchIsKept
  DEF ValidatorReturns, edit, Inv, TypeOK, LastingIsHeld, ModeIsChosen, NoneForgotten,
      registries
<1>12. CASE ValidatorFails
  BY <1>12, MatchIsKept
  DEF ValidatorFails, edit, Inv, TypeOK, LastingIsHeld, ModeIsChosen, NoneForgotten,
      registries, validation
<1>13. CASE Summarize
  BY <1>13, MatchIsKept
  DEF Summarize, edit, Inv, TypeOK, LastingIsHeld, ModeIsChosen, NoneForgotten, registries,
      validation
<1> QED BY <1>1, <1>2, <1>3, <1>4, <1>5, <1>6, <1>7, <1>8, <1>9, <1>10, <1>11, <1>12, <1>13
        DEF Request

-----------------------------------------------------------------------------
(* The theorems.                                                           *)

\* The strengthened invariant holds of every behaviour.
THEOREM Invariance == Spec => []Inv
<1>1. Inv /\ [Next]_vars => Inv'
  <2> SUFFICES ASSUME Inv, [Next]_vars PROVE Inv'
    OBVIOUS
  <2>1. CASE UNCHANGED vars
    BY <2>1, MatchIsKept
    DEF vars, request, Inv, TypeOK, LastingIsHeld, ModeIsChosen, NoneForgotten, registries,
        validation
  <2> QED BY <2>1, PluginInv, RequestInv DEF Next
<1> QED BY <1>1, InitInv, PTL DEF Spec

\* Type correctness: in particular only reactive trigger providers and applicable
\* validation providers are ever asked.
THEOREM TypeCorrect == Spec => []TypeOK
  BY Invariance, PTL DEF Inv

\* Whatever plug-ins register and cancel, in whichever order, each registry has of the
\* plug-ins that have not failed exactly the providers whose tokens are held, and has an
\* entry for the command types that some provider is for.
THEOREM TokensMatch == Spec => []RegistriesMatchTokens
<1>1. Inv => RegistriesMatchTokens
  BY DEF Inv, AllMatch, RegistriesMatchTokens, Held, Participants, Participating, Registrations
<1> QED BY <1>1, Invariance, PTL

\* No trigger provider that was registered all the time is missed by a commit.
THEOREM NoTriggerIsMissed == Spec => []TriggersNotMissed
<1>1. Inv => TriggersNotMissed
  <2>1. ToSet(<<>>) = {}
    BY DEF ToSet
  <2> QED BY <2>1 DEF Inv, NoneForgotten, TriggersNotMissed
<1> QED BY <1>1, Invariance, PTL

\* A validation that succeeds has the diagnostics of every validation provider that
\* applies and was registered all the time.
THEOREM NoValidatorIsMissed == Spec => []ValidatorsNotMissed
<1>1. Inv => ValidatorsNotMissed
  BY DEF Inv, NoneForgotten, ValidatorsNotMissed
<1> QED BY <1>1, Invariance, PTL
=============================================================================
