------------------------------ MODULE Providers ------------------------------
(***************************************************************************)
(* The service providers a Mediator resolves through: Services             *)
(* (pymediate/service.py), the Dependency Injector adapter                 *)
(* (providers/dependency_injector.py) and the custom provider of           *)
(* examples/120-custom-provider over a Dishka container.  Collections are  *)
(* combined, providers overridden and the adapter rebuilt between what a   *)
(* mediator asks of its provider, `Type in provider` and `provider[Type]`. *)
(***************************************************************************)
EXTENDS Selection, SequencesExt

CONSTANTS
  Types,        \* service types
  Subclass,     \* <<t, u>>: t is u or a subclass of it
  Instances,    \* what a Services may be given
  TypeOf,       \* instance -> its concrete type
  Container,    \* the providers of the container, in traversal order
  Composition,  \* those that only compose: Configuration, Dependency, Self
  Sources,      \* what a provider may be, or be overridden with
  Declares,     \* source -> the type inferred without calling it, or Unknown
  Makes,        \* source -> the type a call makes, or Awaitable
  OwnSource,    \* provider -> its own source
  StandIns,     \* provider -> the sources it may be overridden with
  Factories,    \* the types Dishka's registry has a factory of
  MaxCollections,
  Unknown, Awaitable

ASSUME ProvidersAssumption ==
  /\ Container \in Seq(ToSet(Container)) /\ MaxCollections \in Nat
  /\ Unknown \notin Types /\ Awaitable \notin Types
  /\ Subclass \subseteq Types \X Types /\ \A t \in Types : <<t, t>> \in Subclass
  /\ Factories \subseteq Types /\ StandIns \in [ToSet(Container) -> SUBSET Sources]
  /\ TypeOf \in [Instances -> Types] /\ OwnSource \in [ToSet(Container) -> Sources]
  /\ Declares \in [Sources -> Types \cup {Unknown}] /\ Makes \in [Sources -> Types \cup {Awaitable}]

VARIABLES
  provider,     \* the kind of the one in use: "services", "adapter" or "dishka"
  using,        \* the collection that is the provider of a mediator, or 0
  collections,  \* the Services made so far: functions from types to instances
  operands,     \* for each, what it was made of: the instances given, in order
  override,     \* provider -> the source that stands in for it; its own if none
  index,        \* _type_providers, a function whose domain are its keys
  indexed,      \* the overrides there were when the adapter was built
  lookup,       \* the last provider[Type]
  said          \* what the last `Type in provider` answered

providersVars == <<provider, using, collections, operands, override, index, indexed, lookup, said>>
services == <<using, collections, operands>>
adapter == <<override, index, indexed>>
asked == <<lookup, said>>

(* What a look-up found, and what a question was answered; a provider just *)
(* made has been asked nothing.                                            *)
Missing(t) == [asked |-> t, outcome |-> "ServiceNotFound", made |-> Unknown]
Given(t, made) == [asked |-> t, outcome |-> "instance", made |-> made]
NotAsked ==
  /\ lookup' = [asked |-> Unknown, outcome |-> "none", made |-> Unknown]
  /\ said' = [asked |-> Unknown, yes |-> FALSE]
Says(t, yes) == said' = [asked |-> t, yes |-> yes] /\ UNCHANGED <<provider, services, adapter, lookup>>
Finds(t, found) == lookup' = found /\ UNCHANGED <<provider, services, adapter, said>>

Shadow(left, right) == [t \in DOMAIN left \cup DOMAIN right |->
                          IF t \in DOMAIN right THEN right[t] ELSE left[t]]

-----------------------------------------------------------------------------
(* Services(...): one instance of each concrete type, or the constructor   *)
(* raises and there is no collection.                                      *)
Distinct(instances) == \A i, j \in DOMAIN instances : TypeOf[instances[i]] = TypeOf[instances[j]] => i = j

ServicesOf(instances) ==
  [t \in {TypeOf[x] : x \in ToSet(instances)} |-> CHOOSE x \in ToSet(instances) : TypeOf[x] = t]

Construct(instances) ==
  /\ provider = "services" /\ Distinct(instances) /\ Len(collections) < MaxCollections
  /\ collections' = Append(collections, ServicesOf(instances))
  /\ operands' = Append(operands, instances)
  /\ UNCHANGED <<provider, using, adapter, asked>>

(* left | right: a new collection; _of takes the mapping as it is.         *)
Combine_InPlace(i, j) ==
  /\ provider = "services" /\ {i, j} \subseteq DOMAIN collections /\ Len(collections) < MaxCollections
  /\ collections' = [collections EXCEPT ![i] = Shadow(@, collections[j])]
                      \o <<Shadow(collections[i], collections[j])>>
  /\ operands' = Append(operands, operands[i] \o operands[j])
  /\ UNCHANGED <<provider, using, adapter, asked>>
Combine(i, j) ==
  /\ provider = "services" /\ {i, j} \subseteq DOMAIN collections /\ Len(collections) < MaxCollections
  /\ collections' = Append(collections, Shadow(collections[i], collections[j]))
  /\ operands' = Append(operands, operands[i] \o operands[j])
  /\ UNCHANGED <<provider, using, adapter, asked>>

(* Mediator(services=...): a collection is taken into use.                 *)
UseServices(k) ==
  /\ provider = "services" /\ k \in DOMAIN collections /\ k # using
  /\ using' = k /\ NotAsked
  /\ UNCHANGED <<provider, collections, operands, adapter>>

ServicesContains(t) == provider = "services" /\ using > 0 /\ Says(t, t \in DOMAIN collections[using])

ServicesGetItem(t) ==
  /\ provider = "services" /\ using > 0
  /\ Finds(t, IF t \notin DOMAIN collections[using] THEN Missing(t)
              ELSE Given(t, TypeOf[collections[using][t]]))

-----------------------------------------------------------------------------
(* _service_type, by way of _callable_return_type: what the effective      *)
(* provider says it makes.                                                 *)
ServiceType_Declared(p) == IF p \in Composition THEN Unknown ELSE Declares[OwnSource[p]]
ServiceType(p) == IF p \in Composition THEN Unknown ELSE Declares[override[p]]

IndexNow ==
  [t \in {ServiceType(p) : p \in ToSet(Container)} \ {Unknown} |->
     Selected(Container, {p \in ToSet(Container) : ServiceType(p) = t})]

BuildAdapter ==
  /\ provider = "adapter"
  /\ index' = IndexNow /\ indexed' = override /\ NotAsked
  /\ UNCHANGED <<provider, services, override>>

(* Overriding with the provider's own source stands for reset_override.    *)
Override(p, source) ==
  /\ provider = "adapter" /\ source # override[p]
  /\ override' = [override EXCEPT ![p] = source]
  /\ UNCHANGED <<provider, services, index, indexed, asked>>

(* __contains__ asks the index of the construction.                        *)
AdapterContains_Live(t) == provider = "adapter" /\ Says(t, t \in DOMAIN IndexNow)
AdapterContains(t) == provider = "adapter" /\ Says(t, t \in DOMAIN index)

(* __getitem__: the first provider indexed, called, and what it made       *)
(* checked (_resolve).                                                     *)
Accepted_Any(made, wanted) == made # Awaitable
Accepted(made, wanted) == made # Awaitable /\ <<made, wanted>> \in Subclass

AdapterGetItem(t) ==
  /\ provider = "adapter"
  /\ Finds(t, IF t \notin DOMAIN index THEN Missing(t)
              ELSE LET made == Makes[override[Head(index[t])]]
                   IN  IF Accepted(made, t) THEN Given(t, made)
                       ELSE [Given(t, made) EXCEPT !.outcome = "TypeError"])

-----------------------------------------------------------------------------
(* Dishka: __contains__ asks the registry for a factory, __getitem__ asks  *)
(* __contains__ first, for the container raises an error of its own.       *)
DishkaContains(t) == provider = "dishka" /\ Says(t, t \in Factories)

DishkaGetItem_Unchecked(t) ==
  /\ provider = "dishka"
  /\ Finds(t, IF t \in Factories THEN Given(t, t) ELSE [Missing(t) EXCEPT !.outcome = "NoFactoryError"])
DishkaGetItem(t) ==
  /\ provider = "dishka"
  /\ Finds(t, IF t \notin Factories THEN Missing(t) ELSE Given(t, t))

ProvidersInit ==
  /\ provider \in {"services", "adapter", "dishka"}
  /\ using = 0 /\ collections = <<>> /\ operands = <<>>
  /\ override = OwnSource /\ index = IndexNow /\ indexed = OwnSource
  /\ lookup = [asked |-> Unknown, outcome |-> "none", made |-> Unknown]
  /\ said = [asked |-> Unknown, yes |-> FALSE]

ProvidersNext ==
  \/ \E instances \in SeqOf(Instances, 2) : Construct(instances)
  \/ \E i, j \in 1 .. MaxCollections : Combine(i, j)
  \/ \E k \in 1 .. MaxCollections : UseServices(k)
  \/ BuildAdapter
  \/ \E p \in ToSet(Container) : \E s \in StandIns[p] : Override(p, s)
  \/ \E t \in Types :
       \/ ServicesContains(t) \/ AdapterContains(t) \/ DishkaContains(t)
       \/ ServicesGetItem(t) \/ AdapterGetItem(t) \/ DishkaGetItem(t)
ProvidersSpec == ProvidersInit /\ [][ProvidersNext]_providersVars

-----------------------------------------------------------------------------
ProvidersTypeOK ==
  /\ Len(operands) = Len(collections) /\ Len(collections) <= MaxCollections
  /\ using \in 0 .. Len(collections)
  /\ override \in [ToSet(Container) -> Sources]
  /\ \A t \in DOMAIN index : index[t] # <<>> /\ ToSet(index[t]) \subseteq ToSet(Container)

(* Every collection, however many were combined into or out of it, still   *)
(* resolves each type it was given to the last instance given of exactly   *)
(* that type, and nothing else; no operand was changed by a later `|`.     *)
LastGivenWins ==
  \A k \in DOMAIN collections :
    LET given == operands[k] IN
    /\ DOMAIN collections[k] = {TypeOf[x] : x \in ToSet(given)}
    /\ \A t \in DOMAIN collections[k] :
         collections[k][t] = Last(Selected(given, {x \in ToSet(given) : TypeOf[x] = t}))

(* The service is of the type that was asked for: of exactly that type in  *)
(* a combined collection, of it or a subclass through an index that an     *)
(* override made stale.                                                    *)
ServesWhatWasAsked == lookup.outcome = "instance" => <<lookup.made, lookup.asked>> \in Subclass

(* What a provider answers to `Type in provider`, as a Mediator asks of    *)
(* each behavior when it is built, stands for as long as it is in use,     *)
(* whatever is combined or overridden meanwhile: of a type it has a        *)
(* look-up never reports that there is no service, and of a type it has    *)
(* not it raises ServiceNotFoundError and nothing else.                    *)
AnswersStand ==
  said.asked \in Types /\ said.asked = lookup.asked =>
    (lookup.outcome = "ServiceNotFound" <=> ~said.yes)

(* The advice of the TypeError holds: once the adapter is rebuilt, a       *)
(* look-up is refused only for a provider whose annotation is not what it  *)
(* makes.  (_resolve: "rebuild ... after a type-changing override".)       *)
RebuildingCures ==
  indexed = override =>
    \A t \in DOMAIN index :
      LET source == override[Head(index[t])] IN
        ~Accepted(Makes[source], t) => Makes[source] # Declares[source]

(* Whatever provider a mediator is given, it gets the service it asks for  *)
(* or the error it can rely on: all of the above.                          *)
ProvidersAreFaithful ==
  LastGivenWins /\ ServesWhatWasAsked /\ AnswersStand /\ RebuildingCures
===============================================================================
