------------------------------- MODULE OrderForm -------------------------------
(***************************************************************************)
(* examples/065-validation and its synchronous twin: a body is checked by  *)
(* its schema at the HTTP boundary, then by the business rules of the      *)
(* core, in the command's __post_init__ (Subscribe) or in the pipeline     *)
(* (PlaceOrder).  The asynchronous twin awaits nothing, so a post is one   *)
(* step; the routes of the synchronous one run on a pool of threads, and   *)
(* its handler's counter has no lock.                                      *)
(***************************************************************************)
EXTENDS Integers, FiniteSets

CONSTANTS
  Posts,       \* bodies posted
  Route,       \* post -> "subscriptions" or "orders"
  SchemaOK,    \* posts whose body has the fields and types of its model
  BrokenRules  \* post -> the business rules what it says breaks

ASSUME FormAssumption ==
  /\ IsFiniteSet(Posts) /\ Route \in [Posts -> {"subscriptions", "orders"}] /\ SchemaOK \subseteq Posts
  /\ DOMAIN BrokenRules = Posts

VARIABLES
  formTwin,   \* "async" or "sync"
  postPc,     \* "posted", "valid", "added", "counted" or "answered"
  response,     \* post -> [status, rules, order]: status -1 until it is answered
  next_id,    \* PlaceOrderHandler._next_id
  readId,     \* what a thread read of it for its increment
  overlapped  \* two threads have been in the handler at once

formVars == <<formTwin, postPc, response, next_id, readId, overlapped>>

Unanswered == [status |-> -1, rules |-> {}, order |-> 0]

FormInit ==
  /\ formTwin \in {"async", "sync"}
  /\ postPc = [p \in Posts |-> "posted"] /\ response = [p \in Posts |-> Unanswered]
  /\ next_id = 0 /\ readId = [p \in Posts |-> 0] /\ overlapped = FALSE

Answers(p, status, rules, order) ==
  /\ postPc' = [postPc EXCEPT ![p] = "answered"]
  /\ response' = [response EXCEPT ![p] = [status |-> status, rules |-> rules, order |-> order]]

(* Either layer's refusal is a 422; the core's names every broken rule.    *)
SchemaRefuses(p) == p \notin SchemaOK /\ Answers(p, 422, {}, 0)
PostInitRefuses(p) ==
  p \in SchemaOK /\ Route[p] = "subscriptions" /\ BrokenRules[p] # {} /\ Answers(p, 422, BrokenRules[p], 0)
ValidatorRefuses(p) ==
  p \in SchemaOK /\ Route[p] = "orders" /\ BrokenRules[p] # {} /\ Answers(p, 422, BrokenRules[p], 0)
Refuses(p) == SchemaRefuses(p) \/ PostInitRefuses(p) \/ ValidatorRefuses(p)

Acceptable(p) == p \in SchemaOK /\ BrokenRules[p] = {}
Subscribes(p) == Acceptable(p) /\ Route[p] = "subscriptions" /\ Answers(p, 201, {}, 0)

-----------------------------------------------------------------------------
(* The asynchronous twin.                                                  *)
PlacesOrder_CountedFirst(p) ==
  /\ p \in SchemaOK /\ Route[p] = "orders" /\ next_id' = next_id + 1
  /\ IF BrokenRules[p] = {} THEN Answers(p, 201, {}, next_id') ELSE Answers(p, 422, BrokenRules[p], 0)
PlacesOrder(p) ==
  /\ Acceptable(p) /\ Route[p] = "orders" /\ next_id' = next_id + 1
  /\ Answers(p, 201, {}, next_id')

Post(p) ==
  /\ formTwin = "async" /\ postPc[p] = "posted"
  /\ \/ (Refuses(p) \/ Subscribes(p)) /\ UNCHANGED next_id
     \/ PlacesOrder(p)
  /\ UNCHANGED <<formTwin, readId, overlapped>>

-----------------------------------------------------------------------------
(* The synchronous twin: a thread per post.  The increment reads, then     *)
(* writes; the order's id is read once more after it.                      *)
Validate(p) ==
  /\ formTwin = "sync" /\ postPc[p] = "posted"
  /\ \/ Refuses(p) \/ Subscribes(p)
     \/ /\ Acceptable(p) /\ Route[p] = "orders"
        /\ postPc' = [postPc EXCEPT ![p] = "valid"] /\ UNCHANGED response
  /\ UNCHANGED <<formTwin, next_id, readId, overlapped>>

InHandler == {p \in Posts : postPc[p] \in {"added", "counted"}}
ReadCounter(p) ==
  /\ formTwin = "sync" /\ postPc[p] = "valid"
  /\ readId' = [readId EXCEPT ![p] = next_id]
  /\ postPc' = [postPc EXCEPT ![p] = "added"]
  /\ overlapped' = (overlapped \/ InHandler # {})
  /\ UNCHANGED <<formTwin, response, next_id>>

WriteCounter(p) ==
  /\ formTwin = "sync" /\ postPc[p] = "added"
  /\ next_id' = readId[p] + 1
  /\ postPc' = [postPc EXCEPT ![p] = "counted"]
  /\ UNCHANGED <<formTwin, response, readId, overlapped>>

ReturnOrder(p) ==
  /\ formTwin = "sync" /\ postPc[p] = "counted"
  /\ Answers(p, 201, {}, next_id)
  /\ UNCHANGED <<formTwin, next_id, readId, overlapped>>

FormNext ==
  \E p \in Posts : Post(p) \/ Validate(p) \/ ReadCounter(p) \/ WriteCounter(p) \/ ReturnOrder(p)
FormSpec == FormInit /\ [][FormNext]_formVars

-----------------------------------------------------------------------------
FormTypeOK ==
  /\ next_id \in 0 .. Cardinality(Posts)
  /\ \A p \in Posts : postPc[p] = "answered" <=> response[p].status \in {201, 422}
  /\ formTwin = "async" => readId = [p \in Posts |-> 0]

(* The ids of the orders are 1, 2, ... with no gap and none twice: a       *)
(* refused post uses none up.  Threads that meet in the handler can share  *)
(* or skip an id, and then every id is still no more than the orders.      *)
PlacedOrders == {p \in Posts : response[p].order > 0}
IdsCountOrders ==
  /\ ~overlapped /\ InHandler = {} =>
       /\ {response[p].order : p \in PlacedOrders} = 1 .. next_id
       /\ Cardinality(PlacedOrders) = next_id
  /\ next_id <= Cardinality({p \in Posts : Acceptable(p) /\ Route[p] = "orders"})
===============================================================================
