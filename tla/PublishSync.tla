------------------------------ MODULE PublishSync ------------------------------
(***************************************************************************)
(* Mediator.publish of pymediate.sync (pymediate/sync/mediator.py).        *)
(*                                                                         *)
(* Threads publish the same notification type while others define          *)
(* subscribers.  publish() resolves every subscriber of a snapshot of the  *)
(* registry, then calls them one after the other on its own thread, going  *)
(* on after an Exception and stopping at any other BaseException.          *)
(***************************************************************************)
EXTENDS Naturals, Sequences, FiniteSets, SequencesExt, Selection

CONSTANTS
  Publications,  \* calls of publish, each on a thread of its own
  Subscribers,   \* NotificationHandler subclasses for the notification type
  AsyncForm      \* those whose __call__ is async def (pymediate)

ASSUME FormAssumption == AsyncForm \subseteq Subscribers

VARIABLES
  registered,  \* _NOTIFICATION_HANDLER_REGISTRY[type(notification)]
  wired,       \* subscriber classes the service provider can resolve
  snapshot,    \* the subscriber classes a publication read
  next,        \* the position of the handler a publication is to call next
  phase,       \* where each publication is
  body,        \* what became of each subscriber's body in each publication
  exceptions   \* the Exceptions a publication has collected, by subscriber

vars == <<registered, wired, snapshot, next, phase, body, exceptions>>

(* "discarded": the body of an async def never ran; the coroutine the call *)
(* returned was dropped.  "escaped": it raised a BaseException.            *)
Bodies == {"none", "running", "returned", "raised", "escaped", "discarded"}
Phases == {"idle", "resolving", "calling", "returned", "missing", "group", "escaped"}
Ended == {"returned", "missing", "group", "escaped"}

Init ==
  /\ registered = <<>>
  /\ wired \in SUBSET Subscribers
  /\ snapshot = [p \in Publications |-> <<>>]
  /\ next = [p \in Publications |-> 1]
  /\ phase = [p \in Publications |-> "idle"]
  /\ body = [p \in Publications |-> [s \in Subscribers |-> "none"]]
  /\ exceptions = [p \in Publications |-> <<>>]

Subscribe(s) ==
  /\ s \notin Range(registered)
  /\ registered' = Append(registered, s)
  /\ UNCHANGED <<wired, snapshot, next, phase, body, exceptions>>

Snapshot_NewestFirst(p) ==
  /\ phase[p] = "idle"
  /\ snapshot' = [snapshot EXCEPT ![p] = Reverse(registered)]
  /\ phase' = [phase EXCEPT ![p] = "resolving"]
  /\ UNCHANGED <<registered, wired, next, body, exceptions>>

(* get_notification_handler_classes returns a tuple of its own.            *)
Snapshot(p) ==
  /\ phase[p] = "idle"
  /\ snapshot' = [snapshot EXCEPT ![p] = registered]
  /\ phase' = [phase EXCEPT ![p] = "resolving"]
  /\ UNCHANGED <<registered, wired, next, body, exceptions>>

(* All of them are resolved before any of them is called.                  *)
Missing(hs) == Range(hs) \ wired
Resolve(p) ==
  /\ phase[p] = "resolving"
  /\ phase' = [phase EXCEPT ![p] = IF Missing(snapshot[p]) # {} THEN "missing"
                                   ELSE IF snapshot[p] = <<>> THEN "returned" ELSE "calling"]
  /\ UNCHANGED <<registered, wired, snapshot, next, body, exceptions>>

Current(p) == snapshot[p][next[p]]
InLoop(p) == phase[p] = "calling" /\ next[p] <= Len(snapshot[p])

Call(p) ==
  /\ InLoop(p) /\ body[p][Current(p)] = "none"
  /\ IF Current(p) \in AsyncForm
     THEN /\ body' = [body EXCEPT ![p][Current(p)] = "discarded"]
          /\ next' = [next EXCEPT ![p] = @ + 1]
     ELSE /\ body' = [body EXCEPT ![p][Current(p)] = "running"]
          /\ UNCHANGED next
  /\ UNCHANGED <<registered, wired, snapshot, phase, exceptions>>

(* The handler returns or raises; `except Exception` lets the rest through. *)
Contained(raised) == raised # "escaped"
Collect_Last(p, s) == <<s>>
Collect(p, s) == Append(exceptions[p], s)
CallEnds(p, how) ==
  /\ InLoop(p) /\ body[p][Current(p)] = "running"
  /\ body' = [body EXCEPT ![p][Current(p)] = how]
  /\ IF Contained(how)
     THEN /\ next' = [next EXCEPT ![p] = @ + 1]
          /\ exceptions' = IF how = "returned" THEN exceptions
                           ELSE [exceptions EXCEPT ![p] = Collect(p, Current(p))]
          /\ UNCHANGED phase
     ELSE /\ phase' = [phase EXCEPT ![p] = "escaped"]
          /\ UNCHANGED <<next, exceptions>>
  /\ UNCHANGED <<registered, wired, snapshot>>

Verdict(p) == IF exceptions[p] # <<>> THEN "group" ELSE "returned"
Return_FailFast(p) ==
  /\ phase[p] = "calling" /\ (next[p] > Len(snapshot[p]) \/ exceptions[p] # <<>>)
  /\ phase' = [phase EXCEPT ![p] = Verdict(p)]
  /\ UNCHANGED <<registered, wired, snapshot, next, body, exceptions>>
Return(p) ==
  /\ phase[p] = "calling" /\ next[p] > Len(snapshot[p])
  /\ phase' = [phase EXCEPT ![p] = Verdict(p)]
  /\ UNCHANGED <<registered, wired, snapshot, next, body, exceptions>>

Work(p) ==
  \/ Snapshot(p) \/ Resolve(p) \/ Call(p) \/ Return(p)
  \/ \E how \in {"returned", "raised", "escaped"} : CallEnds(p, how)

Next ==
  \/ \E s \in Subscribers : Subscribe(s)
  \/ \E p \in Publications : Work(p)

Spec == Init /\ [][Next]_vars

-----------------------------------------------------------------------------
(* The variables have their types; a publication runs at most the handler  *)
(* it is at, has settled those before it and not touched those after it.   *)
TypeOK ==
  /\ registered \in Seq(Subscribers) /\ IsInjective(registered)
  /\ wired \subseteq Subscribers
  /\ phase \in [Publications -> Phases]
  /\ body \in [Publications -> [Subscribers -> Bodies]]
  /\ \A p \in Publications :
       /\ IsPrefix(snapshot[p], registered)
       /\ next[p] \in 1 .. Len(snapshot[p]) + 1
       /\ exceptions[p] \in Seq(Subscribers)
       /\ \A i \in DOMAIN snapshot[p] :
            LET state == body[p][snapshot[p][i]]
            IN  /\ i < next[p] => state \in {"returned", "raised", "discarded"}
                /\ i > next[p] => state = "none"

(* publish delivers as Delivery says: nobody run if one is missing, all    *)
(* run whatever the earlier ones raised, no normal return if one raised,   *)
(* and only a BaseException keeps a subscriber from its notification.  An  *)
(* async def subscriber is promised nothing, and costs the others nothing. *)
PromiseStatus(p) ==
  LET reached == IF phase[p] # "resolving" THEN phase[p]
                 ELSE IF Missing(snapshot[p]) # {} THEN "missing"
                 ELSE IF snapshot[p] = <<>> THEN "returned" ELSE "calling"
  IN  IF reached = "idle" THEN "unpublished"
      ELSE IF reached = "missing" THEN "refused"
      ELSE IF reached = "calling" THEN "open"
      ELSE IF reached = "returned" THEN "delivered"
      ELSE IF reached = "group" THEN "failed" ELSE "stopped"
PromiseProgress(p, s) ==
  IF PromiseStatus(p) \in {"unpublished", "refused"} \/ s \notin Range(snapshot[p])
  THEN "unaddressed"
  ELSE IF body[p][s] = "none" THEN "due"
  ELSE IF body[p][s] = "escaped" THEN "raised" ELSE body[p][s]
Promise == INSTANCE Delivery WITH
  Subscribers <- Subscribers \ AsyncForm,
  subscribed <- Range(registered) \ AsyncForm,
  status <- [p \in Publications |-> PromiseStatus(p)],
  progress <- [p \in Publications |-> [s \in Subscribers \ AsyncForm |-> PromiseProgress(p, s)]]
ImplementsDelivery == Promise!Spec

(* The ExceptionGroup carries every failure, in registration order, and    *)
(* no failure ends in a normal return (docs/adr/0005).                     *)
GroupCarriesEveryFailure ==
  \A p \in Publications :
    phase[p] \in {"returned", "group"} =>
      exceptions[p] = Selected(snapshot[p], {s \in Subscribers : body[p][s] = "raised"})
===============================================================================
