-------------------------------- MODULE Publish --------------------------------
(***************************************************************************)
(* Mediator.publish (pymediate/mediator.py) on one asyncio event loop.     *)
(*                                                                         *)
(* Several coroutines publish the same notification type while other       *)
(* threads are still defining subscribers.  publish() reads the registry,  *)
(* resolves every subscriber instance and hands one coroutine per          *)
(* subscriber to asyncio.gather(return_exceptions=True), all without       *)
(* yielding; then it sleeps until every task is done.  From there on       *)
(* subscribers interleave, fail, are cancelled by the publisher's caller,  *)
(* or raise KeyboardInterrupt or SystemExit, which stops the loop.         *)
(*                                                                         *)
(* The event loop is not part of the repository: tasks, gather, task       *)
(* cancellation and asyncio.run's shutdown are modelled by the behaviour   *)
(* publish relies on.                                                      *)
(***************************************************************************)
EXTENDS Naturals, Sequences, FiniteSets, SequencesExt

CONSTANTS
  Publications,  \* calls of publish, each in a task of its own
  Subscribers,   \* NotificationHandler subclasses for the notification type
  SyncForm,      \* those whose __call__ is a plain def (pymediate.sync)
  Exiting        \* those that may raise KeyboardInterrupt or SystemExit

ASSUME FormAssumption ==
  /\ SyncForm \subseteq Subscribers
  /\ Exiting \subseteq Subscribers \ SyncForm

VARIABLES
  registered,  \* _NOTIFICATION_HANDLER_REGISTRY[type(notification)]
  wired,       \* subscriber classes the service provider can resolve
  handlers,    \* the instances publish resolved, in registration order
  phase,       \* where each publish call is
  task,        \* the state of the task running each subscriber
  ready,       \* event loop: tasks created and not yet started, in order
  cancelled,   \* publications whose task somebody cancelled
  cancelling,  \* subscriber tasks a CancelledError is on its way to
  loop         \* "running", "stopping" (asyncio.run cleaning up), "closed"

vars == <<registered, wired, handlers, phase, task, ready, cancelled, cancelling, loop>>

(* "cancelled" also stands for any BaseException that is not an Exception  *)
(* and that a task stores: gather reports both the same way.  "unborn" is  *)
(* a task cancelled before the subscriber's first line ran.                *)
Unfinished == {"ready", "suspended"}
Finished == {"returned", "raised", "cancelled", "unborn", "exited"}
TaskStates == {"none"} \cup Unfinished \cup Finished

Phases == {"idle", "gathering", "returned", "missing", "group", "basegroup",
           "cancelled", "typeerror", "raised", "exited"}
Ended == Phases \ {"idle", "gathering"}

Init ==
  /\ registered = <<>>
  /\ wired \in SUBSET Subscribers
  /\ handlers = [p \in Publications |-> <<>>]
  /\ phase = [p \in Publications |-> "idle"]
  /\ task = [p \in Publications |-> [s \in Subscribers |-> "none"]]
  /\ ready = <<>>
  /\ cancelled = {}
  /\ cancelling = {}
  /\ loop = "running"

-----------------------------------------------------------------------------
(* Defining a subscriber class appends it, under the notification lock.    *)
Subscribe(s) ==
  /\ s \notin Range(registered)
  /\ registered' = Append(registered, s)
  /\ UNCHANGED <<wired, handlers, phase, task, ready, cancelled, cancelling, loop>>

Missing_First(hs) == IF hs # <<>> THEN {hs[1]} \ wired ELSE {}
Missing(hs) == Range(hs) \ wired
CreationOrder_Reversed(hs) == Reverse(hs)
CreationOrder_FirstOnly(hs) == SubSeq(hs, 1, 1)
CreationOrder_Twice(hs) == hs \o hs
CreationOrder(hs) == hs

(* gather wraps each coroutine in a task; tasks join the ready queue.      *)
CreateTasks(p, hs) ==
  /\ task' = [task EXCEPT ![p] = [s \in Subscribers |-> IF s \in Range(hs) THEN "ready" ELSE @[s]]]
  /\ ready' = ready \o [i \in DOMAIN hs |-> <<p, hs[i]>>]

EndPublish(p, outcome) ==
  /\ phase' = [phase EXCEPT ![p] = outcome]
  /\ UNCHANGED <<registered, wired, cancelled, cancelling, loop>>

(* The providers raise ServiceNotFoundError before any handler is called.  *)
PublishUnresolved(p) ==
  /\ Missing(registered) # {}
  /\ EndPublish(p, "missing")
  /\ UNCHANGED <<handlers, task, ready>>

PublishToNobody(p) ==
  /\ registered = <<>>
  /\ EndPublish(p, "returned")
  /\ UNCHANGED <<handlers, task, ready>>

PublishToAll(p) ==
  /\ registered # <<>> /\ Missing(registered) = {}
  /\ Range(registered) \cap SyncForm = {}
  /\ handlers' = [handlers EXCEPT ![p] = registered]
  /\ CreateTasks(p, CreationOrder(registered))
  /\ EndPublish(p, "gathering")

(* A plain def subscriber runs while gather's arguments are built, and its *)
(* None is not awaitable: gather raises TypeError with the coroutines      *)
(* before it already scheduled.  If one of them raises, gather is not      *)
(* called at all, and the sync subscribers after it do not run.            *)
PublishToMixed(p) ==
  LET plain == {i \in DOMAIN registered : registered[i] \in SyncForm}
      ran(last) == {registered[i] : i \in {j \in plain : j <= last}}
  IN  /\ Missing(registered) = {}
      /\ handlers' = [handlers EXCEPT ![p] = registered]
      /\ \/ \E first \in plain :
              /\ \A i \in plain : first <= i
              /\ EndPublish(p, "typeerror")
              /\ LET before == SubSeq(registered, 1, first - 1)
                 IN  /\ task' = [task EXCEPT ![p] = [s \in Subscribers |->
                            IF s \in Range(before) THEN "ready"
                            ELSE IF s \in ran(Len(registered)) THEN "returned" ELSE @[s]]]
                     /\ ready' = ready \o [i \in DOMAIN before |-> <<p, before[i]>>]
         \/ \E i \in plain :
              /\ EndPublish(p, "raised")
              /\ task' = [task EXCEPT ![p] = [s \in Subscribers |->
                     IF s = registered[i] THEN "raised"
                     ELSE IF s \in ran(i - 1) THEN "returned" ELSE @[s]]]
              /\ UNCHANGED ready

PublishCall(p) ==
  /\ phase[p] = "idle" /\ loop = "running"
  /\ \/ PublishUnresolved(p) \/ PublishToNobody(p) \/ PublishToAll(p) \/ PublishToMixed(p)

-----------------------------------------------------------------------------
(* asyncio.  A subscriber task runs from its start or wake-up to its next  *)
(* await or to its end; a CancelledError on its way is thrown in there,    *)
(* and the subscriber may let it through, raise, return or await again.    *)
Undone == {u \in Publications \X Subscribers : task[u[1]][u[2]] \in Unfinished}

Reach(p, s, state) ==
  /\ task' = [task EXCEPT ![p][s] = state]
  /\ cancelling' = cancelling \ {<<p, s>>}
  /\ UNCHANGED <<registered, wired, handlers, phase, cancelled, loop>>

(* KeyboardInterrupt and SystemExit leave the loop itself.  asyncio.run    *)
(* then cancels every task left and runs the loop until they are done; if  *)
(* another one escapes meanwhile it gives up and closes the loop.          *)
Exit(p, s) ==
  /\ s \in Exiting
  /\ task' = [task EXCEPT ![p][s] = "exited"]
  /\ IF loop = "running"
     THEN /\ loop' = "stopping"
          /\ cancelled' = cancelled \cup {q \in Publications : phase[q] = "gathering"}
          /\ cancelling' = Undone \ {<<p, s>>}
     ELSE /\ loop' = "closed"
          /\ cancelling' = cancelling \ {<<p, s>>}
          /\ UNCHANGED cancelled
  /\ UNCHANGED <<registered, wired, handlers, phase>>

Run(p, s) ==
  \/ \E state \in {"suspended", "returned", "raised", "cancelled"} : Reach(p, s, state)
  \/ Exit(p, s)

Start ==
  /\ loop # "closed" /\ ready # <<>>
  /\ ready' = Tail(ready)
  /\ LET p == Head(ready)[1]
         s == Head(ready)[2]
     IN  IF <<p, s>> \in cancelling THEN Reach(p, s, "unborn") ELSE Run(p, s)

Wake(p, s) ==
  /\ loop # "closed" /\ task[p][s] = "suspended"
  /\ Run(p, s)
  /\ UNCHANGED ready

(* The caller gives up on a publication, by a timeout say: gather passes   *)
(* the cancellation on to every unfinished subscriber and keeps waiting.   *)
Cancel(p) ==
  /\ loop = "running" /\ phase[p] = "gathering" /\ p \notin cancelled
  /\ cancelled' = cancelled \cup {p}
  /\ cancelling' = cancelling \cup {u \in Undone : u[1] = p}
  /\ UNCHANGED <<registered, wired, handlers, phase, task, ready, loop>>

-----------------------------------------------------------------------------
(* gather delivered its results: publish collects every BaseException.     *)
Failures_ExceptionsOnly(p) == {s \in Range(handlers[p]) : task[p][s] = "raised"}
Failures(p) == {s \in Range(handlers[p]) : task[p][s] # "returned"}

(* BaseExceptionGroup(...) makes an ExceptionGroup when all are Exceptions. *)
Outcome(p) ==
  IF p \in cancelled THEN "cancelled"
  ELSE IF Failures(p) = {} THEN "returned"
  ELSE IF \A s \in Failures(p) : task[p][s] = "raised" THEN "group" ELSE "basegroup"

Resume(p) ==
  /\ loop # "closed" /\ phase[p] = "gathering"
  /\ \A s \in Range(handlers[p]) : task[p][s] \in Finished
  /\ EndPublish(p, Outcome(p))
  /\ UNCHANGED <<handlers, task, ready>>

Next ==
  \/ \E s \in Subscribers : Subscribe(s)
  \/ \E p \in Publications : PublishCall(p) \/ Cancel(p) \/ Resume(p)
  \/ Start
  \/ \E p \in Publications, s \in Subscribers : Wake(p, s)

Spec == Init /\ [][Next]_vars

(* The loop runs what is ready, and every subscriber comes to an end: the  *)
(* code has no timeout, so publish cannot end before its subscribers do.   *)
WakeToEnd(p, s) == Wake(p, s) /\ task'[p][s] \in Finished
FairSpec ==
  /\ Spec
  /\ WF_vars(Start)
  /\ \A p \in Publications : WF_vars(Resume(p))
  /\ \A p \in Publications, s \in Subscribers : WF_vars(WakeToEnd(p, s))

-----------------------------------------------------------------------------
(* The variables have their types; the ready queue holds each task that    *)
(* has not started exactly once, and no task is both unscheduled and due a *)
(* cancellation.                                                           *)
TypeOK ==
  /\ registered \in Seq(Subscribers) /\ IsInjective(registered)
  /\ wired \subseteq Subscribers
  /\ \A p \in Publications : handlers[p] \in Seq(Subscribers)
  /\ phase \in [Publications -> Phases]
  /\ task \in [Publications -> [Subscribers -> TaskStates]]
  /\ IsInjective(ready)
  /\ Range(ready) = {u \in Publications \X Subscribers : task[u[1]][u[2]] = "ready"}
  /\ cancelled \subseteq Publications
  /\ cancelling \subseteq Undone
  /\ loop \in {"running", "stopping", "closed"}

(* publish delivers as Delivery says, however its subscribers interleave,  *)
(* fail and are cancelled: a snapshot of the subscriptions, nobody run if  *)
(* one cannot be resolved, nobody run twice, no verdict while one is still *)
(* running, no normal return when one of them failed.                      *)
PromiseStatus(p) ==
  IF phase[p] = "idle" THEN "unpublished"
  ELSE IF phase[p] = "missing" THEN "refused"
  ELSE IF phase[p] = "gathering" THEN "open"
  ELSE IF phase[p] = "returned" THEN "delivered"
  ELSE IF phase[p] \in {"group", "basegroup"} THEN "failed" ELSE "stopped"
PromiseProgress(p, s) ==
  IF s \notin Range(handlers[p]) THEN "unaddressed"
  ELSE IF task[p][s] \in {"ready", "unborn"} THEN "due"
  ELSE IF task[p][s] = "suspended" THEN "running"
  ELSE IF task[p][s] = "returned" THEN "returned" ELSE "raised"
Promise == INSTANCE Delivery WITH
  subscribed <- Range(registered),
  status <- [p \in Publications |-> PromiseStatus(p)],
  progress <- [p \in Publications |-> [s \in Subscribers |-> PromiseProgress(p, s)]]
ImplementsDelivery == Promise!Spec

(* No partial delivery because of a misconfigured subscriber: one runs     *)
(* only if every other one of its publication could be resolved too; and   *)
(* they start in registration order, though tasks of other publications    *)
(* and of cancelled siblings run in between.                               *)
DeliveryIsWhole ==
  \A p \in Publications :
    /\ (\E s \in Subscribers : task[p][s] \notin {"none", "ready"}) => Range(handlers[p]) \subseteq wired
    /\ \A i, j \in DOMAIN handlers[p] :
         i < j /\ task[p][handlers[p][j]] \notin {"ready", "unborn"} =>
           task[p][handlers[p][i]] # "ready"

(* Even with subscribers of the wrong form, publish returns normally only  *)
(* when every subscriber ran and returned.                                 *)
ReturnMeansDelivered ==
  \A p \in Publications : phase[p] = "returned" =>
    \A s \in Range(handlers[p]) : task[p][s] = "returned"

(* publish ends once its subscribers do, unless the loop is torn down.     *)
EveryPublicationEnds ==
  \A p \in Publications :
    phase[p] = "gathering" ~> phase[p] \in Ended \/ loop = "closed"

(* The docstring of publish: "KeyboardInterrupt: If a handler raises       *)
(* KeyboardInterrupt", and the same of SystemExit.                         *)
ExitReachesPublisher ==
  \A p \in Publications :
    phase[p] \in Ended /\ (\E s \in Subscribers : task[p][s] = "exited") => phase[p] = "exited"
===============================================================================
