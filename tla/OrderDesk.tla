------------------------------- MODULE OrderDesk -------------------------------
(***************************************************************************)
(* examples/005-mediator-vs-service: the same orders feature as one        *)
(* service class (before) and as handlers behind an audit behavior         *)
(* (after).  Every operation awaits once and then acts in one step, so     *)
(* that operations overlap and can be cancelled in between; in the         *)
(* synchronous twin each runs alone, from its start to its end.            *)
(***************************************************************************)
EXTENDS Selection, SequencesExt

CONSTANTS
  Operations,  \* calls made
  Action,      \* operation -> "place", "cancel", "refund", "export" or a misspelled one
  OrderNo      \* operation -> the order it names

VARIABLES
  desk,      \* "before" or "after"
  overlap,   \* whether operations may overlap: TRUE for the asynchronous twin
  inStock,   \* InventoryService.in_stock
  orders,    \* OrderStore.orders: the status of order 1, 2, ...
  charges, refunds, sent,  \* PaymentGateway and Mailer, by order id
  trail,     \* AuditLog.entries, by operation
  state,     \* operation -> "idle", "awaiting", "ok", "cancelled" or the error it raised
  effects    \* history: the operations that took effect, in order

deskVars == <<desk, overlap, inStock, orders, charges, refunds, sent, trail, state, effects>>
books == <<orders, charges, refunds, sent, effects>>

DeskInit ==
  /\ desk \in {"before", "after"} /\ overlap \in BOOLEAN /\ inStock \in BOOLEAN
  /\ orders = <<>> /\ charges = <<>> /\ refunds = <<>> /\ sent = <<>> /\ trail = <<>> /\ effects = <<>>
  /\ state = [o \in Operations |-> "idle"]

KnownActions == {"place", "cancel", "refund", "export"}

(* The service records most operations as they start, refund not at all;   *)
(* the behavior records every one that has returned.                       *)
RecordAtStart(o) ==
  trail' = IF desk = "before" /\ Action[o] # "refund" THEN Append(trail, o) ELSE trail
RecordAtEnd_Everything(o, outcome) == trail' = IF desk = "after" THEN Append(trail, o) ELSE trail
RecordAtEnd(o, outcome) ==
  trail' = IF desk = "after" /\ outcome = "ok" THEN Append(trail, o) ELSE trail

Start(o) ==
  /\ state[o] = "idle" /\ Action[o] \in KnownActions
  /\ overlap \/ \A p \in Operations : state[p] # "awaiting"
  /\ state' = [state EXCEPT ![o] = "awaiting"]
  /\ RecordAtStart(o)
  /\ UNCHANGED <<desk, overlap, inStock, books>>

(* OrderService.dispatch with an action it does not know.                  *)
UnknownAction(o) ==
  /\ desk = "before" /\ state[o] = "idle" /\ Action[o] \notin KnownActions
  /\ state' = [state EXCEPT ![o] = "ValueError"]
  /\ UNCHANGED <<desk, overlap, inStock, trail, books>>

Ends(o, outcome) ==
  /\ state[o] = "awaiting" /\ state' = [state EXCEPT ![o] = outcome]
  /\ RecordAtEnd(o, outcome)
  /\ effects' = IF outcome = "ok" THEN Append(effects, o) ELSE effects
  /\ UNCHANGED <<desk, overlap, inStock>>

Place_ChargeFirst(o) ==
  /\ Action[o] = "place" /\ charges' = Append(charges, Len(orders) + 1)
  /\ IF inStock
     THEN /\ Ends(o, "ok") /\ orders' = Append(orders, "placed")
          /\ sent' = Append(sent, Len(orders) + 1) /\ UNCHANGED refunds
     ELSE Ends(o, "OutOfStock") /\ UNCHANGED <<orders, refunds, sent>>
Place(o) ==
  /\ Action[o] = "place"
  /\ IF inStock
     THEN /\ Ends(o, "ok") /\ orders' = Append(orders, "placed")
          /\ charges' = Append(charges, Len(orders) + 1)
          /\ sent' = Append(sent, Len(orders) + 1) /\ UNCHANGED refunds
     ELSE Ends(o, "OutOfStock") /\ UNCHANGED <<orders, charges, refunds, sent>>

CancelOrder(o) ==
  /\ Action[o] = "cancel" /\ UNCHANGED <<charges, refunds, sent>>
  /\ IF OrderNo[o] \in DOMAIN orders
     THEN Ends(o, "ok") /\ orders' = [orders EXCEPT ![OrderNo[o]] = "cancelled"]
     ELSE Ends(o, "OrderNotFound") /\ UNCHANGED orders

Refund(o) ==
  /\ Action[o] = "refund" /\ UNCHANGED <<charges, sent>>
  /\ IF OrderNo[o] \in DOMAIN orders
     THEN /\ Ends(o, "ok") /\ refunds' = Append(refunds, OrderNo[o])
          /\ orders' = [orders EXCEPT ![OrderNo[o]] = "refunded"]
     ELSE Ends(o, "OrderNotFound") /\ UNCHANGED <<orders, refunds>>

Export(o) ==
  Action[o] = "export" /\ Ends(o, "ok") /\ UNCHANGED <<orders, charges, refunds, sent>>

(* The caller of an asynchronous operation is cancelled at its await.      *)
Abandon(o) ==
  /\ overlap /\ Ends(o, "cancelled") /\ UNCHANGED <<orders, charges, refunds, sent>>

DeskNext ==
  \E o \in Operations :
    \/ Start(o) \/ UnknownAction(o) \/ Place(o) \/ CancelOrder(o) \/ Refund(o) \/ Export(o) \/ Abandon(o)
DeskSpec == DeskInit /\ [][DeskNext]_deskVars

-----------------------------------------------------------------------------
DeskTypeOK ==
  /\ ToSet(orders) \subseteq {"placed", "cancelled", "refunded"}
  /\ ToSet(trail) \cup ToSet(effects) \subseteq Operations
  /\ \A o \in Operations : state[o] = "ok" <=> o \in ToSet(effects)

(* Behind the behavior the audit trail is what happened, in the order it   *)
(* happened, however operations overlapped and failed; the service's names *)
(* each operation once, succeed or not, but no refund.                     *)
TrailTellsWhatHappened ==
  /\ desk = "after" => trail = effects
  /\ desk = "before" =>
       /\ \A o \in Operations : state[o] \notin {"idle", "ValueError"} /\ Action[o] # "refund" =>
            Len(Selected(trail, {o})) = 1
       /\ \A o \in ToSet(trail) : Action[o] # "refund"

Touching(i) == {o \in Operations : Action[o] \in {"cancel", "refund"} /\ OrderNo[o] = i}

(* Both versions charge and announce exactly the orders they keep, each    *)
(* once, and refund nothing that was not charged; the status of an order   *)
(* is what the last operation on it that took effect made it.              *)
BooksBalance ==
  /\ charges = [i \in 1 .. Len(orders) |-> i] /\ sent = charges
  /\ ToSet(refunds) \subseteq ToSet(charges)
  /\ \A i \in DOMAIN orders :
       LET touched == Selected(effects, Touching(i))
       IN  orders[i] = IF touched = <<>> THEN "placed"
                       ELSE IF Action[Last(touched)] = "cancel" THEN "cancelled" ELSE "refunded"
===============================================================================
