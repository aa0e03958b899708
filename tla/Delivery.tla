------------------------------- MODULE Delivery -------------------------------
(***************************************************************************)
(* What publishing a notification promises, whichever mediator carries it  *)
(* out: the docs' "Delivery and failures" (guide/notifications.mdx) as a   *)
(* state machine.  Publish (asyncio) and PublishSync (threads) implement   *)
(* it.                                                                     *)
(*                                                                         *)
(* A publication addresses exactly the subscribers registered when it      *)
(* opens, or is refused without running any of them.  Each addressed       *)
(* subscriber runs at most once, and the publication closes only when none *)
(* of them is running: "delivered" when all of them returned, "failed" when *)
(* all of them ended and some raised, "stopped" when it was cut short.     *)
(***************************************************************************)
EXTENDS FiniteSets

CONSTANTS Publications, Subscribers

VARIABLES
  subscribed,  \* the subscribers registered so far
  status,      \* how far each publication has got
  progress     \* what became of each subscriber in each publication

vars == <<subscribed, status, progress>>

Init ==
  /\ subscribed = {}
  /\ status = [p \in Publications |-> "unpublished"]
  /\ progress = [p \in Publications |-> [s \in Subscribers |-> "unaddressed"]]

Register(s) ==
  /\ s \notin subscribed
  /\ subscribed' = subscribed \cup {s}
  /\ UNCHANGED <<status, progress>>

Refuse(p) ==
  /\ status[p] = "unpublished"
  /\ status' = [status EXCEPT ![p] = "refused"]
  /\ UNCHANGED <<subscribed, progress>>

Open(p) ==
  /\ status[p] = "unpublished"
  /\ status' = [status EXCEPT ![p] = "open"]
  /\ progress' = [progress EXCEPT ![p] =
                    [s \in Subscribers |-> IF s \in subscribed THEN "due" ELSE "unaddressed"]]
  /\ UNCHANGED subscribed

(* A publication nobody subscribed to opens and closes at once. *)
Skip(p) ==
  /\ status[p] = "unpublished"
  /\ subscribed = {}
  /\ status' = [status EXCEPT ![p] = "delivered"]
  /\ UNCHANGED <<subscribed, progress>>

Advance(p, s, from, to) ==
  /\ progress[p][s] = from
  /\ progress' = [progress EXCEPT ![p][s] = to]

Start(p, s) ==
  /\ status[p] = "open"
  /\ Advance(p, s, "due", "running")
  /\ UNCHANGED <<subscribed, status>>

End(p, s) ==
  /\ status[p] = "open"
  /\ \E from \in {"due", "running"}, to \in {"returned", "raised"} : Advance(p, s, from, to)
  /\ UNCHANGED <<subscribed, status>>

(* The last subscriber's end and the publication's may be one step.        *)
CloseAs(p, verdict, now) ==
  /\ status[p] = "open"
  /\ LET among(states) == {s \in Subscribers : now[s] \in states}
     IN  /\ among({"running"}) = {}
         /\ verdict \in {"delivered", "failed"} => among({"due"}) = {}
         /\ verdict = "delivered" => among({"raised"}) = {}
         /\ verdict = "failed" => among({"raised"}) # {}
  /\ status' = [status EXCEPT ![p] = verdict]
  /\ UNCHANGED subscribed

Close(p) ==
  /\ \E verdict \in {"delivered", "failed", "stopped"} : CloseAs(p, verdict, progress[p])
  /\ UNCHANGED progress

(* A subscriber raises what cannot be contained; the publication ends with it. *)
Abort(p, s) ==
  /\ Advance(p, s, "running", "raised")
  /\ CloseAs(p, "stopped", [progress[p] EXCEPT ![s] = "raised"])

Next ==
  \/ \E s \in Subscribers : Register(s)
  \/ \E p \in Publications :
       \/ Refuse(p) \/ Open(p) \/ Skip(p) \/ Close(p)
       \/ \E s \in Subscribers : Start(p, s) \/ End(p, s) \/ Abort(p, s)

Spec == Init /\ [][Next]_vars
===============================================================================
