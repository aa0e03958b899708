------------------------------- MODULE Registry -------------------------------
(***************************************************************************)
(* The process-wide registries of pymediate/_internal/registry.py and the  *)
(* class-definition hooks that fill them.                                  *)
(*                                                                         *)
(* Defining a Request, StreamRequest, RequestHandler, StreamRequestHandler *)
(* or NotificationHandler subclass runs an __init_subclass__ hook.  Modules *)
(* may be imported by several threads, so the hooks of different classes   *)
(* interleave with each other, with look-ups, and with the clearing        *)
(* utilities.  Writes and multi-key reads take one RLock per registry;     *)
(* single-key reads take none.                                             *)
(*                                                                         *)
(* A step is what CPython cannot interrupt: one dict operation, one lock   *)
(* acquisition, or thread-local work around one of them.  Leaving the      *)
(* `with` block is part of the last step of its body.  No critical section *)
(* acquires a lock it already holds, so re-entrancy is not represented.    *)
(***************************************************************************)
EXTENDS Naturals, Sequences, FiniteSets

CONSTANTS
  Threads,               \* threads that define classes and call the registry
  RequestTypes,          \* Request and StreamRequest subclasses
  StreamTypes,           \* the StreamRequest subclasses among them
  HandlerClasses,        \* RequestHandler and StreamRequestHandler subclasses
  StreamHandlerClasses,  \* the StreamRequestHandler subclasses among them
  SubscriberClasses,     \* NotificationHandler subclasses
  NotificationTypes,
  ResponseTypes,
  Declared,              \* request type -> declared response (chunk) type
  Handles,               \* handler class -> request type of its base
  Returns,               \* handler class -> annotated response (chunk) type
  Subscribes,            \* subscriber class -> notification type of its base
  IllFormed,             \* classes whose __call__ has the wrong shape
  Utilities,             \* which of the locking utilities the program calls
  MaxCalls,              \* bound on look-ups, clears and stats calls
  None,                  \* Python's None
  NotFound               \* HandlerNotFoundError

Classes == RequestTypes \cup HandlerClasses \cup SubscriberClasses

ASSUME ClassAssumption ==
  /\ StreamTypes \subseteq RequestTypes
  /\ StreamHandlerClasses \subseteq HandlerClasses
  /\ RequestTypes \cap HandlerClasses = {}
  /\ RequestTypes \cap SubscriberClasses = {}
  /\ HandlerClasses \cap SubscriberClasses = {}
  /\ IllFormed \subseteq HandlerClasses \cup SubscriberClasses
  /\ IsFiniteSet(RequestTypes)

ASSUME DeclarationAssumption ==
  /\ Declared \in [RequestTypes -> ResponseTypes \cup {None}]
  /\ Handles \in [HandlerClasses -> RequestTypes]
  /\ Returns \in [HandlerClasses -> ResponseTypes]
  /\ Subscribes \in [SubscriberClasses -> NotificationTypes]

ASSUME SentinelAssumption ==
  /\ None \notin Threads \cup Classes \cup ResponseTypes
  /\ NotFound \notin Classes \cup {None}
  /\ MaxCalls \in Nat

ASSUME UtilityAssumption == Utilities \subseteq {"clr_h_lock", "all_r_lock", "st_r_lock"}

ASSUME ThreadAssumption == Threads # {}

VARIABLES
  responseOf,   \* _REQUEST_REGISTRY
  handlerOf,    \* _HANDLER_REGISTRY (locations only serve error messages)
  subscribers,  \* _NOTIFICATION_HANDLER_REGISTRY, an absent key as << >>
  lock,         \* owner of each of the three RLocks
  pc,           \* where each thread is in its current call
  arg,          \* the class or request type the call is about
  existing,     \* local of register_notification_handler
  counts,       \* the dictionary get_registry_stats is building
  answer,       \* what get_handler_for_request last returned or raised
  outcome,      \* history: what became of each class definition
  calls         \* history: calls made so far, for MaxCalls

registries == <<responseOf, handlerOf, subscribers>>
locals     == <<arg, existing, counts>>
history    == <<outcome, calls>>
vars       == <<registries, lock, pc, locals, answer, history>>

Locks == {"request", "handler", "notification"}

Outcomes == {"undefined", "defining", "defined", "registered", "rejected",
             "duplicate", "asserted", "cleared"}

(* Where a thread waits for each lock (its next step enters that `with`),   *)
(* and where it holds it.  The _Reversed form takes the locks of            *)
(* get_registry_stats in the opposite order; definitions with such a        *)
(* suffix are faulty variants that a property has to reject.                *)
WaitsFor_Reversed(l) ==
  CASE l = "request"      -> {"req_lock", "all_r_lock", "st_n_lock"}
    [] l = "handler"      -> {"hd_lock", "lk_lock", "clr_h_lock",
                              "all_h_lock", "st_h_lock"}
    [] l = "notification" -> {"sub_lock", "clr_n_lock", "all_n_lock", "st_r_lock"}

WaitsFor(l) ==
  CASE l = "request"      -> {"req_lock", "all_r_lock", "st_r_lock"}
    [] l = "handler"      -> {"hd_lock", "lk_lock", "clr_h_lock",
                              "all_h_lock", "st_h_lock"}
    [] l = "notification" -> {"sub_lock", "clr_n_lock", "all_n_lock", "st_n_lock"}

Holds(l) ==
  CASE l = "request"      -> {"req_store", "all_h_lock", "all_n_lock",
                              "all_r_clear", "all_h_clear", "all_n_clear",
                              "st_h_lock", "st_n_lock", "st_r", "st_h", "st_n"}
    [] l = "handler"      -> {"hd_store", "lk_keys", "clr_h_clear", "all_n_lock",
                              "all_r_clear", "all_h_clear", "all_n_clear",
                              "st_n_lock", "st_r", "st_h", "st_n"}
    [] l = "notification" -> {"sub_read", "sub_store", "clr_n_clear",
                              "all_r_clear", "all_h_clear", "all_n_clear",
                              "st_r", "st_h", "st_n"}

Labels == {"idle", "hd_get", "lk_get"}
            \cup WaitsFor("request") \cup WaitsFor("handler") \cup WaitsFor("notification")
            \cup Holds("request") \cup Holds("handler") \cup Holds("notification")

-----------------------------------------------------------------------------
Zeroes == [l \in Locks |-> 0]

Init ==
  /\ responseOf = [q \in RequestTypes |-> None]
  /\ handlerOf = [q \in RequestTypes |-> None]
  /\ subscribers = [n \in NotificationTypes |-> << >>]
  /\ lock = [l \in Locks |-> None]
  /\ pc = [t \in Threads |-> "idle"]
  /\ arg = [t \in Threads |-> None]
  /\ existing = [t \in Threads |-> << >>]
  /\ counts = [t \in Threads |-> Zeroes]
  /\ answer = [t \in Threads |-> NotFound]
  /\ outcome = [c \in Classes |-> "undefined"]
  /\ calls = 0

Goto(t, label) == pc' = [pc EXCEPT ![t] = label]

(* Returning or raising; the call's locals go out of scope.                 *)
Return(t) ==
  /\ Goto(t, "idle")
  /\ arg' = [arg EXCEPT ![t] = None]
  /\ existing' = [existing EXCEPT ![t] = << >>]
  /\ counts' = [counts EXCEPT ![t] = Zeroes]

(* Entering a `with <lock>:` statement, once that lock is free.            *)
Acquire(t, from, to) ==
  /\ pc[t] = from
  /\ \E l \in Locks :
       /\ from \in WaitsFor(l)
       /\ lock[l] = None
       /\ lock' = [lock EXCEPT ![l] = t]
  /\ Goto(t, to)
  /\ UNCHANGED <<registries, locals, answer, history>>

(* Leaving the `with` blocks of the locks in held.                         *)
Release_AllButHandler(held) ==
  lock' = [l \in Locks |-> IF l \in held \ {"handler"} THEN None ELSE lock[l]]

Release(held) == lock' = [l \in Locks |-> IF l \in held THEN None ELSE lock[l]]

Became(c, result) == outcome' = [outcome EXCEPT ![c] = result]

(* The single-key reads, which take no lock.                               *)
HasResponseType_Always(q) == TRUE
HasResponseType(q) == responseOf[q] # None
GetResponseType(q) == responseOf[q]

HasHandler_Always(q) == TRUE
HasHandler(q) == handlerOf[q] # None

GetHandlerClass_Key(q) == q
GetHandlerClass(q) == handlerOf[q]

-----------------------------------------------------------------------------
(* Request.__init_subclass__ and StreamRequest.__init_subclass__: a bare    *)
(* subclass, without a type argument, registers nothing.                   *)
DefineRequest(t, q) ==
  /\ pc[t] = "idle"
  /\ outcome[q] = "undefined"
  /\ \/ /\ Declared[q] = None
        /\ Became(q, "defined")
        /\ UNCHANGED <<pc, arg>>
     \/ /\ Declared[q] # None
        /\ Became(q, "defining")
        /\ arg' = [arg EXCEPT ![t] = q]
        /\ Goto(t, "req_lock")
  /\ UNCHANGED <<registries, lock, existing, counts, answer, calls>>

(* register_request_response_type, inside its lock.                        *)
StoreResponse(t) ==
  /\ pc[t] = "req_store"
  /\ responseOf' = [responseOf EXCEPT ![arg[t]] = Declared[arg[t]]]
  /\ Became(arg[t], "defined")
  /\ Release({"request"})
  /\ Return(t)
  /\ UNCHANGED <<handlerOf, subscribers, answer, calls>>

-----------------------------------------------------------------------------
(* HandlerBaseMixin.__init_subclass__ and its stream twin, up to and        *)
(* including has_response_type.  The class statement can only name a        *)
(* request class whose own definition has finished.  A stream handler       *)
(* insists on a StreamRequest; a plain one takes any registered type.       *)
DefineHandler(t, h) ==
  LET q == Handles[h]
      known == /\ HasResponseType(q)
               /\ h \in StreamHandlerClasses => q \in StreamTypes
  IN  /\ pc[t] = "idle"
      /\ outcome[h] = "undefined"
      /\ outcome[q] = "defined"
      /\ \/ /\ known
            /\ Became(h, "defining")
            /\ arg' = [arg EXCEPT ![t] = h]
            /\ Goto(t, "hd_get")
         \/ /\ ~known
            /\ Became(h, "rejected")
            /\ UNCHANGED <<pc, arg>>
      /\ UNCHANGED <<registries, lock, existing, counts, answer, calls>>

(* _validate_call_signature and _validate_stream_call_signature.            *)
SignatureFits_AnyReturn(h, response) == h \notin IllFormed
SignatureFits(h, response) == h \notin IllFormed /\ Returns[h] = response

(* The second look at the registry (get_response_type), the assertion that  *)
(* it agrees with the first, and the signature validation against what was  *)
(* read.  Stream handlers have no such assertion: a None chunk type simply  *)
(* matches no annotation.                                                  *)
CheckSignature(t) ==
  LET h == arg[t]
      response == GetResponseType(Handles[h])
      verdict == IF response = None /\ h \notin StreamHandlerClasses
                   THEN "asserted"
                   ELSE IF SignatureFits(h, response) THEN "defining" ELSE "rejected"
  IN  /\ pc[t] = "hd_get"
      /\ Became(h, verdict)
      /\ IF verdict = "defining"
           THEN Goto(t, "hd_lock") /\ UNCHANGED locals
           ELSE Return(t)
      /\ UNCHANGED <<registries, lock, answer, calls>>

(* register_handler, inside its lock: one handler per request type.         *)
AlreadyRegistered_Never(q) == FALSE
AlreadyRegistered(q) == handlerOf[q] # None

RegisterHandler(t) ==
  LET h == arg[t]
      q == Handles[h]
  IN  /\ pc[t] = "hd_store"
      /\ \/ /\ AlreadyRegistered(q)
            /\ Became(h, "duplicate")
            /\ UNCHANGED handlerOf
         \/ /\ ~AlreadyRegistered(q)
            /\ Became(h, "registered")
            /\ handlerOf' = [handlerOf EXCEPT ![q] = h]
      /\ Release({"handler"})
      /\ Return(t)
      /\ UNCHANGED <<responseOf, subscribers, answer, calls>>

-----------------------------------------------------------------------------
(* NotificationHandlerBaseMixin.__init_subclass__.                          *)
DefineSubscriber(t, s) ==
  /\ pc[t] = "idle"
  /\ outcome[s] = "undefined"
  /\ \/ /\ s \in IllFormed
        /\ Became(s, "rejected")
        /\ UNCHANGED <<pc, arg>>
     \/ /\ s \notin IllFormed
        /\ Became(s, "defining")
        /\ arg' = [arg EXCEPT ![t] = s]
        /\ Goto(t, "sub_lock")
  /\ UNCHANGED <<registries, lock, existing, counts, answer, calls>>

(* register_notification_handler: read the tuple, then replace it whole.    *)
ReadSubscribers_Unlocked(t) ==
  /\ pc[t] = "sub_read"
  /\ existing' = [existing EXCEPT ![t] = subscribers[Subscribes[arg[t]]]]
  /\ Release({"notification"})
  /\ Goto(t, "sub_store")
  /\ UNCHANGED <<registries, arg, counts, answer, history>>

ReadSubscribers(t) ==
  /\ pc[t] = "sub_read"
  /\ existing' = [existing EXCEPT ![t] = subscribers[Subscribes[arg[t]]]]
  /\ Goto(t, "sub_store")
  /\ UNCHANGED <<registries, lock, arg, counts, answer, history>>

StoreSubscribers(t) ==
  /\ pc[t] = "sub_store"
  /\ subscribers' = [subscribers EXCEPT
                       ![Subscribes[arg[t]]] = Append(existing[t], arg[t])]
  /\ Became(arg[t], "registered")
  /\ Release({"notification"})
  /\ Return(t)
  /\ UNCHANGED <<responseOf, handlerOf, answer, calls>>

-----------------------------------------------------------------------------
(* Calls that define no class are bounded by MaxCalls.                      *)
CountCall == calls < MaxCalls /\ calls' = calls + 1

(* get_handler_for_request: has_handler, and then a separate                *)
(* get_handler_class.  A miss lists the known types before raising.         *)
LookupHas(t, q) ==
  /\ pc[t] = "idle"
  /\ CountCall
  /\ arg' = [arg EXCEPT ![t] = q]
  /\ Goto(t, IF HasHandler(q) THEN "lk_get" ELSE "lk_lock")
  /\ UNCHANGED <<registries, lock, existing, counts, answer, outcome>>

LookupGet(t) ==
  /\ pc[t] = "lk_get"
  /\ answer' = [answer EXCEPT ![t] = GetHandlerClass(arg[t])]
  /\ Return(t)
  /\ UNCHANGED <<registries, lock, history>>

LookupMiss(t) ==
  /\ pc[t] = "lk_keys"
  /\ answer' = [answer EXCEPT ![t] = NotFound]
  /\ Release({"handler"})
  /\ Return(t)
  /\ UNCHANGED <<registries, history>>

(* Calling one of the utilities that take locks from the start.             *)
BeginUtility(t, entry) ==
  /\ pc[t] = "idle"
  /\ CountCall
  /\ Goto(t, entry)
  /\ UNCHANGED <<registries, lock, locals, answer, outcome>>

Forget(classes) ==
  outcome' = [c \in Classes |-> IF c \in classes /\ outcome[c] = "registered"
                                  THEN "cleared" ELSE outcome[c]]

ClearRequests(t, from, to) ==
  /\ pc[t] = from
  /\ responseOf' = [q \in RequestTypes |-> None]
  /\ Goto(t, to)
  /\ UNCHANGED <<handlerOf, subscribers, lock, locals, answer, history>>

ClearHandlers(t, from, released, to) ==
  /\ pc[t] = from
  /\ handlerOf' = [q \in RequestTypes |-> None]
  /\ Forget(HandlerClasses)
  /\ Release(released)
  /\ Goto(t, to)
  /\ UNCHANGED <<responseOf, subscribers, locals, answer, calls>>

ClearNotifications(t, from, released) ==
  /\ pc[t] = from
  /\ subscribers' = [n \in NotificationTypes |-> << >>]
  /\ Forget(SubscriberClasses)
  /\ Release(released)
  /\ Return(t)
  /\ UNCHANGED <<responseOf, handlerOf, answer, calls>>

RequestCount == Cardinality({q \in RequestTypes : responseOf[q] # None})
HandlerCount == Cardinality({q \in RequestTypes : handlerOf[q] # None})

(* One len() of get_registry_stats, in the order of its return statement.   *)
Count(t, from, l, n, to) ==
  /\ pc[t] = from
  /\ counts' = [counts EXCEPT ![t][l] = n]
  /\ Goto(t, to)
  /\ UNCHANGED <<registries, lock, arg, existing, answer, history>>

(* The last len(), and with it the return of the dictionary.                *)
CountLast(t) ==
  /\ pc[t] = "st_n"
  /\ Release(Locks)
  /\ Return(t)
  /\ UNCHANGED <<registries, answer, history>>

-----------------------------------------------------------------------------
(* clear_handler_registry: two critical sections, one after the other.      *)
ClearHandlerRegistry_Unlocked(t) ==
  \/ ClearHandlers(t, "clr_h_lock", {}, "clr_n_lock")
  \/ ClearNotifications(t, "clr_n_lock", {})

ClearHandlerRegistry(t) ==
  \/ Acquire(t, "clr_h_lock", "clr_h_clear")
  \/ ClearHandlers(t, "clr_h_clear", {"handler"}, "clr_n_lock")
  \/ Acquire(t, "clr_n_lock", "clr_n_clear")
  \/ ClearNotifications(t, "clr_n_clear", {"notification"})

(* clear_all_registries: three nested locks, then three clears.             *)
ClearAllRegistries(t) ==
  \/ Acquire(t, "all_r_lock", "all_h_lock")
  \/ Acquire(t, "all_h_lock", "all_n_lock")
  \/ Acquire(t, "all_n_lock", "all_r_clear")
  \/ ClearRequests(t, "all_r_clear", "all_h_clear")
  \/ ClearHandlers(t, "all_h_clear", {}, "all_n_clear")
  \/ ClearNotifications(t, "all_n_clear", Locks)

(* get_registry_stats: the same nesting around three reads.                 *)
GetRegistryStats(t) ==
  \/ Acquire(t, "st_r_lock", "st_h_lock")
  \/ Acquire(t, "st_h_lock", "st_n_lock")
  \/ Acquire(t, "st_n_lock", "st_r")
  \/ Count(t, "st_r", "request", RequestCount, "st_h")
  \/ Count(t, "st_h", "handler", HandlerCount, "st_n")
  \/ CountLast(t)

Begin(t) ==
  \/ \E q \in RequestTypes : DefineRequest(t, q) \/ LookupHas(t, q)
  \/ \E h \in HandlerClasses : DefineHandler(t, h)
  \/ \E s \in SubscriberClasses : DefineSubscriber(t, s)
  \/ \E u \in Utilities : BeginUtility(t, u)

Continue(t) ==
  \/ Acquire(t, "req_lock", "req_store")
  \/ StoreResponse(t)
  \/ CheckSignature(t)
  \/ Acquire(t, "hd_lock", "hd_store")
  \/ RegisterHandler(t)
  \/ Acquire(t, "sub_lock", "sub_read")
  \/ ReadSubscribers(t)
  \/ StoreSubscribers(t)
  \/ LookupGet(t)
  \/ Acquire(t, "lk_lock", "lk_keys")
  \/ LookupMiss(t)
  \/ ClearHandlerRegistry(t)
  \/ ClearAllRegistries(t)
  \/ GetRegistryStats(t)

Next == \E t \in Threads : Begin(t) \/ Continue(t)

Spec == Init /\ [][Next]_vars

(* A thread inside a call is eventually scheduled again.  Nothing forces a  *)
(* thread to start a call.                                                 *)
Fairness == \A t \in Threads : WF_vars(Continue(t))

FairSpec == Spec /\ Fairness

-----------------------------------------------------------------------------
(* The registries, the locks and the locals of each call in progress have   *)
(* their types.                                                            *)
TypeOK ==
  /\ responseOf \in [RequestTypes -> ResponseTypes \cup {None}]
  /\ handlerOf \in [RequestTypes -> HandlerClasses \cup {None}]
  /\ subscribers \in [NotificationTypes -> Seq(SubscriberClasses)]
  /\ lock \in [Locks -> Threads \cup {None}]
  /\ pc \in [Threads -> Labels]
  /\ arg \in [Threads -> Classes \cup {None}]
  /\ existing \in [Threads -> Seq(SubscriberClasses)]
  /\ counts \in [Threads -> [Locks -> Nat]]
  /\ answer \in [Threads -> HandlerClasses \cup {None, NotFound}]
  /\ outcome \in [Classes -> Outcomes]
  /\ calls \in 0 .. MaxCalls

(* The nested acquisitions of clear_all_registries and get_registry_stats,  *)
(* and the single ones of everything else, can never leave every thread     *)
(* waiting for a lock another one holds.                                   *)
Blocked(t) == \E l \in Locks : pc[t] \in WaitsFor(l) /\ lock[l] # None

NoDeadlock == \E t \in Threads : ~Blocked(t)

(* One handler per request type: once a request type has a handler, no      *)
(* interleaving of class definitions puts another one in its place; only a  *)
(* clear removes it.                                                       *)
HandlerNeverReplaced ==
  [][\A q \in RequestTypes : handlerOf[q] # None => handlerOf'[q] \in {handlerOf[q], None}
    ]_handlerOf

(* register_notification_handler reads a tuple and later stores a longer    *)
(* one.  No concurrent registration is lost and no cleared one comes back:  *)
(* each step appends one class to what is stored, or clears it.            *)
SubscriptionsAppendOnly ==
  [][\A n \in NotificationTypes :
       \/ subscribers'[n] \in {subscribers[n], << >>}
       \/ \E s \in SubscriberClasses : subscribers'[n] = Append(subscribers[n], s)
    ]_subscribers

(* A class definition that completed, and was not cleared since, can be     *)
(* found: the handler is the one dispatch would use, and the subscriber is  *)
(* listed exactly once; one that failed or was cleared is not listed.       *)
Occurrences(s) == {i \in DOMAIN subscribers[Subscribes[s]] : subscribers[Subscribes[s]][i] = s}

RegistrationsSurvive ==
  /\ \A h \in HandlerClasses : outcome[h] = "registered" <=> handlerOf[Handles[h]] = h
  /\ \A s \in SubscriberClasses :
       Cardinality(Occurrences(s)) = IF outcome[s] = "registered" THEN 1 ELSE 0

(* Whatever was cleared or redefined in between, a handler that dispatch    *)
(* can find was declared for that request type, annotates its declared      *)
(* response, and if it is a stream handler the request is a StreamRequest.  *)
RegisteredHandlersFit ==
  \A q \in RequestTypes : handlerOf[q] # None =>
    LET h == handlerOf[q] IN
      /\ h \notin IllFormed
      /\ Handles[h] = q
      /\ Returns[h] = Declared[q]
      /\ h \in StreamHandlerClasses => q \in StreamTypes

(* get_registry_stats "Uses locks to ensure consistent reads": when it      *)
(* reads the last registry, what it counted in the first two still holds.   *)
StatsConsistent ==
  \A t \in Threads : pc[t] = "st_n" =>
    /\ counts[t]["request"] = RequestCount
    /\ counts[t]["handler"] = HandlerCount

(* get_handler_for_request and the hook of a handler look twice, without a  *)
(* lock.  Whatever else interleaves, only a clear makes the looks disagree: *)
(* a look-up answers None only once a clear has taken a handler away, and   *)
(* the hook's assertion fails only over a declared type that was cleared.   *)
LooksFailOnlyOverClear ==
  /\ \A t \in Threads : answer[t] = None => \E h \in HandlerClasses : outcome[h] = "cleared"
  /\ \A h \in HandlerClasses : outcome[h] = "asserted" =>
       Declared[Handles[h]] # None /\ responseOf[Handles[h]] = None

(* No lock is held for ever and no hook waits for ever: every call that     *)
(* starts returns or raises.                                               *)
EveryCallReturns == \A t \in Threads : pc[t] # "idle" ~> pc[t] = "idle"

=============================================================================
