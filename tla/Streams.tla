------------------------------- MODULE Streams -------------------------------
(***************************************************************************)
(* Mediator.stream of both mediators, with the stream handler of           *)
(* examples/030-streaming(-sync): the handler is resolved at the call, and *)
(* its generator runs only while a consumer pulls.  Consumers on the event *)
(* loop overlap between the pull of a token and its arrival; a pull may be *)
(* cancelled there; and the handler registry may be cleared and filled     *)
(* again while streams are open.                                           *)
(***************************************************************************)
EXTENDS Naturals, Sequences, SequencesExt

CONSTANTS
  Consumers,      \* callers of stream(), one stream each
  AsyncConsumers, \* those of the asynchronous mediator
  Completion,     \* how many tokens a completion has
  MaxClasses      \* bound on the handler classes defined for StreamCompletion

ASSUME StreamsAssumption ==
  AsyncConsumers \subseteq Consumers /\ Completion \in Nat /\ MaxClasses \in Nat \ {0}

VARIABLES
  handlerClass,  \* the registered handler class of StreamCompletion, or 0
  classes,       \* how many have been defined so far
  instances,     \* the classes the service provider has an instance of
  stream,        \* consumer -> "none", "open", "awaiting", "spent", "closed" or an error
  source,        \* consumer -> the class of the handler its stream came from
  position,      \* consumer -> how far its generator has got in COMPLETION
  received,      \* consumer -> the tokens it has been given
  emitted        \* what FakeLanguageModel has recorded: who for, by which class, which token

streamVars == <<handlerClass, classes, instances, stream, source, position, received, emitted>>
handlerRegistry == <<handlerClass, classes, instances>>

StreamsInit ==
  /\ handlerClass \in {0, 1} /\ classes = handlerClass /\ instances \in SUBSET {1}
  /\ stream = [c \in Consumers |-> "none"] /\ source = [c \in Consumers |-> 0]
  /\ position = [c \in Consumers |-> 0] /\ received = [c \in Consumers |-> <<>>]
  /\ emitted = <<>>

(* clear_handler_registry, and the definition of a new handler class.      *)
ClearHandlers ==
  /\ handlerClass # 0 /\ handlerClass' = 0
  /\ UNCHANGED <<classes, instances, stream, source, position, received, emitted>>

DefineHandler ==
  /\ handlerClass = 0 /\ classes < MaxClasses
  /\ handlerClass' = classes + 1 /\ classes' = classes + 1
  /\ instances' = instances \cup {classes + 1}
  /\ UNCHANGED <<stream, source, position, received, emitted>>

-----------------------------------------------------------------------------
(* _resolve_handler raises at the call; otherwise handler(request) makes   *)
(* the generator, of which nothing has run.                                *)
Resolved ==
  IF handlerClass = 0 THEN "HandlerNotFound"
  ELSE IF handlerClass \notin instances THEN "ServiceNotFound" ELSE "open"

Stream(c) ==
  /\ stream[c] = "none"
  /\ stream' = [stream EXCEPT ![c] = Resolved]
  /\ source' = [source EXCEPT ![c] = handlerClass]
  /\ UNCHANGED <<handlerRegistry, position, received, emitted>>

(* What the model records is of the generator's own handler.               *)
Producer_AtPull(c) == handlerClass
Producer(c) == source[c]
Record(c) == Append(emitted, [for |-> c, by |-> Producer(c), token |-> position[c] + 1])

Yield(c) ==
  /\ emitted' = Record(c)
  /\ position' = [position EXCEPT ![c] = @ + 1]
  /\ received' = [received EXCEPT ![c] = Append(@, position[c] + 1)]

(* The synchronous generator runs to its next yield in the consumer.       *)
SyncNext(c) ==
  /\ c \notin AsyncConsumers /\ stream[c] = "open" /\ position[c] < Completion
  /\ Yield(c)
  /\ UNCHANGED <<handlerRegistry, stream, source>>

(* The asynchronous one runs to the await that precedes each token ...     *)
AsyncNext_Eager(c) ==
  /\ c \in AsyncConsumers /\ stream[c] = "open" /\ position[c] < Completion
  /\ stream' = [stream EXCEPT ![c] = "awaiting"]
  /\ emitted' = Record(c)
  /\ UNCHANGED <<handlerRegistry, source, position, received>>
AsyncNext(c) ==
  /\ c \in AsyncConsumers /\ stream[c] = "open" /\ position[c] < Completion
  /\ stream' = [stream EXCEPT ![c] = "awaiting"]
  /\ UNCHANGED <<handlerRegistry, source, position, received, emitted>>

(* ... records the token and yields it.                                    *)
Arrive(c) ==
  /\ stream[c] = "awaiting"
  /\ stream' = [stream EXCEPT ![c] = "open"]
  /\ Yield(c)
  /\ UNCHANGED <<handlerRegistry, source>>

Exhaust(c) ==
  /\ stream[c] = "open" /\ position[c] = Completion
  /\ stream' = [stream EXCEPT ![c] = "spent"]
  /\ UNCHANGED <<handlerRegistry, source, position, received, emitted>>

(* The consumer breaks out of its loop, or is cancelled while it awaits.   *)
Stop(c) ==
  /\ stream[c] \in {"open", "awaiting"}
  /\ stream' = [stream EXCEPT ![c] = "closed"]
  /\ UNCHANGED <<handlerRegistry, source, position, received, emitted>>

StreamsNext ==
  \/ ClearHandlers \/ DefineHandler
  \/ \E c \in Consumers : Stream(c) \/ SyncNext(c) \/ AsyncNext(c) \/ Arrive(c) \/ Exhaust(c) \/ Stop(c)

StreamsSpec == StreamsInit /\ [][StreamsNext]_streamVars

-----------------------------------------------------------------------------
StreamsTypeOK ==
  /\ handlerClass \in 0 .. MaxClasses /\ instances \subseteq 1 .. MaxClasses
  /\ \A c \in Consumers :
       /\ stream[c] \in {"none", "open", "awaiting", "spent", "closed", "HandlerNotFound", "ServiceNotFound"}
       /\ stream[c] \in {"open", "awaiting", "spent", "closed"} => source[c] \in instances

(* However consumers interleave, break off or are cancelled, the model has *)
(* produced for each exactly the tokens it has received, in order: nothing *)
(* ahead of consumption, and nothing lost to another stream.               *)
NothingAheadOfConsumption ==
  /\ \A c \in Consumers : \A n \in DOMAIN received[c] :
       received[c][n] = n /\ \E i \in DOMAIN emitted : emitted[i].for = c /\ emitted[i].token = n
  /\ \A i \in DOMAIN emitted : emitted[i].token \in DOMAIN received[emitted[i].for]
  /\ \A i, j \in DOMAIN emitted :
       i < j /\ emitted[i].for = emitted[j].for => emitted[i].token < emitted[j].token

(* An open stream stays with the handler its call resolved, whatever is    *)
(* cleared or registered meanwhile (stream resolves before it returns).    *)
StreamKeepsItsHandler ==
  \A i, j \in DOMAIN emitted :
    /\ emitted[i].for = emitted[j].for => emitted[i].by = emitted[j].by
    /\ emitted[i].by \in instances

(* A stream is its consumer's: both of these.                              *)
StreamsFollowTheirConsumers == NothingAheadOfConsumption /\ StreamKeepsItsHandler
===============================================================================
