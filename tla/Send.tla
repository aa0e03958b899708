--------------------------------- MODULE Send ---------------------------------
(***************************************************************************)
(* Building a Mediator and sending requests through its pipeline:          *)
(* _validate_behaviors, _resolve_handler, _resolve_behaviors               *)
(* (pymediate/_internal/mediator.py), should_apply (pipeline.py), compose  *)
(* and compose_async (_internal/pipeline.py), and send of both mediators.  *)
(*                                                                         *)
(* Sends overlap: each has a stack of calls of its own, outermost first.   *)
(* A behavior may call next() again (a retry), not at all (a cache hit),   *)
(* and may turn an inner exception into a response or the reverse.         *)
(***************************************************************************)
EXTENDS Naturals, Sequences, SequencesExt, Selection

CONSTANTS
  Sends,         \* calls of send
  RequestTypes,  \* request classes
  IsA,           \* <<t, u>>: t is u or one of its subclasses
  Request,       \* the Request base class, which matches every request
  Entries,       \* what a behaviors sequence may list
  Behaviors,     \* those that subclass this variant's PipelineBehavior
  MatchType,     \* behavior -> its request type
  ExactOnly,     \* behaviors with apply_to_subclasses = False
  MaxListed,     \* bound on the length of a behaviors sequence
  MaxNext,       \* bound on the next() calls of one behavior call
  Handler,       \* the innermost layer
  None

ASSUME SendAssumption ==
  /\ Behaviors \subseteq Entries
  /\ IsA \subseteq RequestTypes \X RequestTypes
  /\ \A t \in RequestTypes : <<t, t>> \in IsA
  /\ MatchType \in [Behaviors -> RequestTypes \cup {Request}]
  /\ Request \notin RequestTypes /\ Handler \notin Entries /\ None \notin RequestTypes
  /\ ExactOnly \subseteq Behaviors /\ MaxListed \in Nat /\ MaxNext \in Nat

VARIABLES
  provided,    \* behavior classes the service provider has
  broken,      \* those among them it then fails to construct
  registered,  \* request types a handler class is registered for
  wired,       \* request types whose handler instance the provider has
  mediator,    \* "none", "ready", or "refused" by the constructor
  pipeline,    \* the mediator's validated behaviors
  request,     \* the type of each request sent
  call,        \* how far each send has got
  stack        \* the calls open in each send, outermost first

vars == <<provided, broken, registered, wired, mediator, pipeline, request, call, stack>>
environment == <<provided, broken, registered, wired>>

Init ==
  /\ provided \in SUBSET Entries
  /\ broken \in SUBSET (provided \cap Behaviors)
  /\ registered \in SUBSET RequestTypes
  /\ wired \in SUBSET registered
  /\ mediator = "none" /\ pipeline = <<>>
  /\ request = [q \in Sends |-> None]
  /\ call = [q \in Sends |-> "idle"]
  /\ stack = [q \in Sends |-> <<>>]

-----------------------------------------------------------------------------
(* Mediator.__init__: every entry is a behavior class, listed once, that   *)
(* the provider has; otherwise InvalidPipelineBehaviorsError.              *)
Rejected_Duplicates(listed) ==
  \E i \in DOMAIN listed : listed[i] \notin Behaviors \cap provided
Rejected(listed) ==
  \E i \in DOMAIN listed :
    \/ listed[i] \notin Behaviors
    \/ \E j \in 1 .. i - 1 : listed[j] = listed[i]
    \/ listed[i] \notin provided

Construct(listed) ==
  /\ mediator = "none"
  /\ IF Rejected(listed)
     THEN mediator' = "refused" /\ UNCHANGED pipeline
     ELSE mediator' = "ready" /\ pipeline' = listed
  /\ UNCHANGED <<environment, request, call, stack>>

(* PipelineBehavior.should_apply.                                          *)
Applies(b, t) ==
  \/ MatchType[b] = Request
  \/ b \notin ExactOnly /\ <<t, MatchType[b]>> \in IsA
  \/ b \in ExactOnly /\ t = MatchType[b]

Applicable(t) == Selected(pipeline, {b \in Behaviors : Applies(b, t)})

(* The handler is the innermost layer; each behavior wraps the chain built *)
(* so far, and its next() calls that chain.                                *)
Wrap(behavior, chain) == [runs |-> behavior, next |-> <<chain>>]
Innermost == [runs |-> Handler, next |-> <<>>]
Compose_Forward(behaviors) ==
  LET chain[n \in 0 .. Len(behaviors)] ==
        IF n = 0 THEN Innermost ELSE Wrap(behaviors[n], chain[n - 1])
  IN  chain[Len(behaviors)]
Compose(behaviors) ==
  LET chain[n \in 0 .. Len(behaviors)] ==
        IF n = 0 THEN Innermost ELSE Wrap(behaviors[Len(behaviors) + 1 - n], chain[n - 1])
  IN  chain[Len(behaviors)]

Enter(layer) == [layer |-> layer, nexts |-> 0]

SendTo(q, t, outcome, calls) ==
  /\ mediator = "ready" /\ call[q] = "idle"
  /\ request' = [request EXCEPT ![q] = t]
  /\ call' = [call EXCEPT ![q] = outcome]
  /\ stack' = [stack EXCEPT ![q] = calls]
  /\ UNCHANGED <<environment, mediator, pipeline>>

(* HandlerNotFoundError, or the provider's error for the handler or for an *)
(* applicable behavior: nothing has been called by then.                   *)
SendUnresolved(q, t) ==
  \/ t \notin registered /\ SendTo(q, t, "nohandler", <<>>)
  \/ t \in registered \ wired /\ SendTo(q, t, "noservice", <<>>)
  \/ /\ t \in wired
     /\ ~(Range(Applicable(t)) \subseteq provided \ broken)
     /\ SendTo(q, t, "noservice", <<>>)

SendResolved(q, t) ==
  /\ t \in wired
  /\ Range(Applicable(t)) \subseteq provided \ broken
  /\ SendTo(q, t, "running", <<Enter(Compose(Applicable(t)))>>)

Running(q) == Last(stack[q])

(* The behavior running calls next(): the rest of the chain runs anew.     *)
Deeper(calls) ==
  Append([calls EXCEPT ![Len(calls)].nexts = @ + 1], Enter(Last(calls).layer.next[1]))
CallNext(q) ==
  /\ call[q] = "running"
  /\ Running(q).layer.next # <<>> /\ Running(q).nexts < MaxNext
  /\ stack' = [stack EXCEPT ![q] = Deeper(stack[q])]
  /\ UNCHANGED <<environment, mediator, pipeline, request, call>>

(* The running layer returns a response or raises, to the layer around it. *)
Leave(q, how) ==
  /\ call[q] = "running"
  /\ stack' = [stack EXCEPT ![q] = Front(@)]
  /\ call' = IF Len(stack[q]) = 1 THEN [call EXCEPT ![q] = how] ELSE call
  /\ UNCHANGED <<environment, mediator, pipeline, request>>

Next ==
  \/ \E n \in 0 .. MaxListed : \E listed \in [1 .. n -> Entries] : Construct(listed)
  \/ \E q \in Sends :
       \/ \E t \in RequestTypes : SendUnresolved(q, t) \/ SendResolved(q, t)
       \/ CallNext(q)
       \/ \E how \in {"returned", "raised"} : Leave(q, how)

Spec == Init /\ [][Next]_vars

-----------------------------------------------------------------------------
Ended == {"returned", "raised", "nohandler", "noservice"}

(* The variables have their types, and a send has calls open exactly while *)
(* it is running.                                                          *)
TypeOK ==
  /\ provided \subseteq Entries /\ broken \subseteq provided /\ registered \subseteq RequestTypes /\ wired \subseteq registered
  /\ mediator \in {"none", "ready", "refused"} /\ IsInjective(pipeline)
  /\ request \in [Sends -> RequestTypes \cup {None}]
  /\ call \in [Sends -> {"idle", "running"} \cup Ended]
  /\ \A q \in Sends : stack[q] # <<>> <=> call[q] = "running"
  /\ \A q \in Sends : request[q] = None <=> call[q] = "idle"

(* However sends overlap and retry, the calls open in one are the layers   *)
(* its request type asks for, in the order of the behaviors sequence, and  *)
(* the handler runs inside all of them.                                    *)
Scope(b, t) == IF b \in ExactOnly THEN {t} ELSE {u \in RequestTypes : <<t, u>> \in IsA}
Layers(t) ==
  Append(Selected(pipeline, {b \in Behaviors : MatchType[b] \in Scope(b, t) \cup {Request}}), Handler)
OnionOrder ==
  \A q \in Sends : call[q] = "running" =>
    IsPrefix([i \in DOMAIN stack[q] |-> stack[q][i].layer.runs], Layers(request[q]))

===============================================================================
