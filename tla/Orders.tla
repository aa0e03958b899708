-------------------------------- MODULE Orders --------------------------------
(***************************************************************************)
(* examples/050-handler-composition and its synchronous twin:              *)
(* PlaceOrderHandler composes ReserveStock and ChargePayment through a     *)
(* LateBoundSender, then publishes OrderPlaced.  The asynchronous handler  *)
(* gathers the two, so that both are in flight at once, in orders that     *)
(* overlap too; the synchronous one runs them one after the other, in one  *)
(* thread.  Neither undoes a part that took effect when the other fails.   *)
(***************************************************************************)
EXTENDS Integers, FiniteSets, FiniteSetsExt

CONSTANTS
  Purchases,     \* PlaceOrder requests, one customer each
  Sku,           \* request -> stock item
  Quantity,      \* request -> quantity wanted
  InitialStock,  \* item -> stock at the start
  Declined,      \* requests whose customer's card is declined
  Reactors       \* the handlers subscribed to OrderPlaced

ASSUME OrdersAssumption ==
  /\ Quantity \in [Purchases -> Nat \ {0}] /\ InitialStock \in [Range(Sku) -> Nat]
  /\ DOMAIN Sku = Purchases /\ Declined \subseteq Purchases /\ IsFiniteSet(Purchases)

VARIABLES
  api,      \* the twin that runs: "async" or "sync"
  stock,    \* Warehouse.stock
  reserve,  \* ReserveStock of each request: "no", "waiting", "done", "failed", "cancelled"
  charge,   \* ChargePayment, likewise; "done" is a receipt in PaymentGateway.charged
  place,    \* PlaceOrder: "idle", "waiting", "announcing", "placed", "failed", "cancelled"
  raised,   \* the exception gather was left with, or "none"
  orderId,  \* the id each order got; 0 before
  told      \* the subscribers OrderPlaced has reached

orderVars == <<api, stock, reserve, charge, place, raised, orderId, told>>

OrdersInit ==
  /\ api \in {"async", "sync"}
  /\ stock = InitialStock
  /\ reserve = [o \in Purchases |-> "no"] /\ charge = [o \in Purchases |-> "no"]
  /\ place = [o \in Purchases |-> "idle"] /\ raised = [o \in Purchases |-> "none"]
  /\ orderId = [o \in Purchases |-> 0] /\ told = [o \in Purchases |-> {}]

(* itertools.count(1), held by the one PlaceOrderHandler.                  *)
NextId == Max({orderId[o] : o \in Purchases}) + 1

-----------------------------------------------------------------------------
(* The asynchronous twin.  Both sends start before either ends.            *)
PlaceOrder_NumberedFirst(o) ==
  /\ api = "async" /\ place[o] = "idle"
  /\ orderId' = [orderId EXCEPT ![o] = NextId]
  /\ place' = [place EXCEPT ![o] = "waiting"]
  /\ reserve' = [reserve EXCEPT ![o] = "waiting"]
  /\ charge' = [charge EXCEPT ![o] = "waiting"]
  /\ UNCHANGED <<api, stock, raised, told>>
PlaceOrder(o) ==
  /\ api = "async" /\ place[o] = "idle"
  /\ place' = [place EXCEPT ![o] = "waiting"]
  /\ reserve' = [reserve EXCEPT ![o] = "waiting"]
  /\ charge' = [charge EXCEPT ![o] = "waiting"]
  /\ UNCHANGED <<api, stock, raised, orderId, told>>

(* gather keeps the first exception and leaves the other part running.     *)
FirstFailure(o, error) == IF raised[o] = "none" THEN error ELSE raised[o]

(* The stock is read and written back after the await, in one step of the  *)
(* event loop.                                                             *)
Covers_Unchecked(o) == TRUE
Covers(o) == stock[Sku[o]] >= Quantity[o]

ReserveStock(o) ==
  /\ api = "async" /\ reserve[o] = "waiting"
  /\ IF Covers(o)
     THEN /\ stock' = [stock EXCEPT ![Sku[o]] = @ - Quantity[o]]
          /\ reserve' = [reserve EXCEPT ![o] = "done"]
          /\ UNCHANGED raised
     ELSE /\ reserve' = [reserve EXCEPT ![o] = "failed"]
          /\ raised' = [raised EXCEPT ![o] = FirstFailure(o, "OutOfStock")]
          /\ UNCHANGED stock
  /\ UNCHANGED <<api, charge, place, orderId, told>>

ChargePayment(o) ==
  /\ api = "async" /\ charge[o] = "waiting"
  /\ IF o \notin Declined
     THEN charge' = [charge EXCEPT ![o] = "done"] /\ UNCHANGED raised
     ELSE /\ charge' = [charge EXCEPT ![o] = "failed"]
          /\ raised' = [raised EXCEPT ![o] = FirstFailure(o, "PaymentDeclined")]
  /\ UNCHANGED <<api, stock, reserve, place, orderId, told>>

(* PlaceOrder resumes from gather: with the first exception, or with both  *)
(* results.                                                                *)
GatherFails_Never(o) == FALSE
GatherFails(o) == raised[o] # "none"
GatherReturns_Either(o) == "done" \in {reserve[o], charge[o]} /\ raised[o] = "none"
GatherReturns(o) == reserve[o] = "done" /\ charge[o] = "done"

Resume(o) ==
  /\ api = "async" /\ place[o] = "waiting"
  /\ \/ GatherFails(o) /\ place' = [place EXCEPT ![o] = "failed"] /\ UNCHANGED orderId
     \/ /\ GatherReturns(o)
        /\ orderId' = [orderId EXCEPT ![o] = NextId]
        /\ place' = [place EXCEPT ![o] = "announcing"]
  /\ UNCHANGED <<api, stock, reserve, charge, raised, told>>

(* publish: each subscriber runs as a task; the last one to end lets       *)
(* PlaceOrder return.                                                      *)
React(o, h) ==
  /\ api = "async" /\ place[o] = "announcing" /\ h \notin told[o]
  /\ told' = [told EXCEPT ![o] = @ \cup {h}]
  /\ UNCHANGED <<api, stock, reserve, charge, place, raised, orderId>>

Placed(o) ==
  /\ api = "async" /\ place[o] = "announcing" /\ told[o] = Reactors
  /\ place' = [place EXCEPT ![o] = "placed"]
  /\ UNCHANGED <<api, stock, reserve, charge, raised, orderId, told>>

(* asyncio.run ends when main raises or returns: what still waits is       *)
(* cancelled at its await.                                                 *)
Cancelled(status) ==
  [o \in Purchases |-> IF status[o] \in {"waiting", "announcing"} THEN "cancelled" ELSE status[o]]
RunEnds ==
  /\ api = "async" /\ \E o \in Purchases : place[o] \in {"placed", "failed"}
  /\ \A o \in Purchases : place[o] # "idle"
  /\ reserve' = Cancelled(reserve) /\ charge' = Cancelled(charge) /\ place' = Cancelled(place)
  /\ UNCHANGED <<api, stock, raised, orderId, told>>

-----------------------------------------------------------------------------
(* The synchronous twin: one thread, one order at a time, each part run to *)
(* its end before the next begins.                                         *)
SyncPlaceOrder(o) ==
  /\ api = "sync" /\ place[o] = "idle"
  /\ \A p \in Purchases : place[p] \notin {"waiting", "announcing"}
  /\ place' = [place EXCEPT ![o] = "waiting"]
  /\ reserve' = [reserve EXCEPT ![o] = "waiting"]
  /\ UNCHANGED <<api, stock, charge, raised, orderId, told>>

SyncReserveStock(o) ==
  /\ api = "sync" /\ reserve[o] = "waiting"
  /\ IF stock[Sku[o]] >= Quantity[o]
     THEN /\ stock' = [stock EXCEPT ![Sku[o]] = @ - Quantity[o]]
          /\ reserve' = [reserve EXCEPT ![o] = "done"]
          /\ charge' = [charge EXCEPT ![o] = "waiting"]
          /\ UNCHANGED <<raised, place>>
     ELSE /\ reserve' = [reserve EXCEPT ![o] = "failed"]
          /\ raised' = [raised EXCEPT ![o] = "OutOfStock"]
          /\ place' = [place EXCEPT ![o] = "failed"]
          /\ UNCHANGED <<stock, charge>>
  /\ UNCHANGED <<api, orderId, told>>

SyncChargePayment_First(o) ==
  /\ api = "sync" /\ place[o] = "waiting" /\ charge[o] \in {"no", "waiting"}
  /\ charge' = [charge EXCEPT ![o] = "done"]
  /\ UNCHANGED <<api, stock, reserve, place, raised, orderId, told>>
SyncChargePayment(o) ==
  /\ api = "sync" /\ charge[o] = "waiting"
  /\ IF o \notin Declined
     THEN /\ charge' = [charge EXCEPT ![o] = "done"]
          /\ orderId' = [orderId EXCEPT ![o] = NextId]
          /\ place' = [place EXCEPT ![o] = "announcing"]
          /\ UNCHANGED raised
     ELSE /\ charge' = [charge EXCEPT ![o] = "failed"]
          /\ raised' = [raised EXCEPT ![o] = "PaymentDeclined"]
          /\ place' = [place EXCEPT ![o] = "failed"]
          /\ UNCHANGED orderId
  /\ UNCHANGED <<api, stock, reserve, told>>

SyncPublish(o) ==
  /\ api = "sync" /\ place[o] = "announcing"
  /\ told' = [told EXCEPT ![o] = Reactors]
  /\ place' = [place EXCEPT ![o] = "placed"]
  /\ UNCHANGED <<api, stock, reserve, charge, raised, orderId>>

LoopStep(o) == ReserveStock(o) \/ ChargePayment(o) \/ Resume(o) \/ Placed(o) \/ \E h \in Reactors : React(o, h)
ThreadStep(o) == SyncReserveStock(o) \/ SyncChargePayment(o) \/ SyncPublish(o)

OrdersNext ==
  \/ \E o \in Purchases : PlaceOrder(o) \/ SyncPlaceOrder(o) \/ LoopStep(o) \/ ThreadStep(o)
  \/ RunEnds

(* The loop runs every ready task and the thread goes on; nobody has to    *)
(* place an order.                                                         *)
OrdersFairness == \A o \in Purchases : WF_orderVars(LoopStep(o) \/ ThreadStep(o))
OrdersSpec == OrdersInit /\ [][OrdersNext]_orderVars /\ OrdersFairness

-----------------------------------------------------------------------------
PartStates == {"no", "waiting", "done", "failed", "cancelled"}
OrdersTypeOK ==
  /\ api \in {"async", "sync"} /\ stock \in [Range(Sku) -> Int]
  /\ reserve \in [Purchases -> PartStates] /\ charge \in [Purchases -> PartStates]
  /\ place \in [Purchases -> {"idle", "waiting", "announcing", "placed", "failed", "cancelled"}]
  /\ raised \in [Purchases -> {"none", "OutOfStock", "PaymentDeclined"}]
  /\ orderId \in [Purchases -> 0 .. Cardinality(Purchases)] /\ told \in [Purchases -> SUBSET Reactors]
  /\ api = "sync" => Cardinality({o \in Purchases : place[o] \in {"waiting", "announcing"}}) <= 1

(* Orders that overlap never promise more of an item than there was, and   *)
(* no reservation is lost: what is left and what was reserved add up       *)
(* (ReserveStockHandler reads and writes the stock without an await).      *)
Reserved(s) == {o \in Purchases : Sku[o] = s /\ reserve[o] = "done"}
StockNeverOversold ==
  \A s \in DOMAIN stock :
    stock[s] >= 0 /\ stock[s] + MapThenSumSet(LAMBDA o : Quantity[o], Reserved(s)) = InitialStock[s]

(* OrderPlaced reaches a subscriber only when both parts took effect, and  *)
(* PlaceOrder returns only when every subscriber has run; it raises        *)
(* exactly what a part of it raised, however the parts raced.              *)
OutcomeMatchesParts ==
  \A o \in Purchases :
    /\ told[o] # {} => reserve[o] = "done" /\ charge[o] = "done"
    /\ place[o] = "placed" => told[o] = Reactors
    /\ place[o] = "failed" =>
         \/ raised[o] = "OutOfStock" /\ reserve[o] = "failed"
         \/ raised[o] = "PaymentDeclined" /\ charge[o] = "failed"

(* Ids go to whole orders only, without gaps: a failed or cancelled order  *)
(* uses none up, whatever overlapped with it.                              *)
NoIdWasted ==
  {orderId[o] : o \in Purchases} \ {0} =
    1 .. Cardinality({o \in Purchases : reserve[o] = "done" /\ charge[o] = "done" /\ orderId[o] > 0})
  /\ \A o \in Purchases : orderId[o] > 0 => reserve[o] = "done" /\ charge[o] = "done"

(* The synchronous twin never charges for goods it has not reserved.  The  *)
(* asynchronous one may (its comments and tests say so).                   *)
SyncChargesOnlyReserved ==
  api = "sync" => \A o \in Purchases : charge[o] = "done" => reserve[o] = "done"

(* What PlaceOrder promises of its parts, however orders overlap: all of   *)
(* the above.                                                              *)
OrdersAddUp == StockNeverOversold /\ OutcomeMatchesParts /\ NoIdWasted /\ SyncChargesOnlyReserved

(* An order under way ends, and so do both its parts, the one gather       *)
(* stopped waiting for included.                                           *)
OrdersSettle ==
  \A o \in Purchases :
    place[o] = "waiting" ~>
      place[o] \in {"placed", "failed", "cancelled"} /\ "waiting" \notin {reserve[o], charge[o]}
===============================================================================
